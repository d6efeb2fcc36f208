---------------------------- MODULE SensorDriver ----------------------------
(***************************************************************************)
(* What mechaspin::parakeet::Driver promises an application, whatever the  *)
(* sensor and the transport behind it: scans are handed to the callback    *)
(* only while the update thread exists, the thread exists only over a      *)
(* connection, the connection never changes under it, and there is never   *)
(* a second thread.  The detailed drivers are shown to implement it.       *)
(***************************************************************************)
EXTENDS Naturals

CONSTANTS Handles,  \* connections the operating system may hand out
          Closed    \* no connection

VARIABLES link,     \* the connection, or Closed
          reading,  \* an update thread exists
          scans     \* scans delivered since the thread was launched

vars == <<link, reading, scans>>

Init ==
  /\ link = Closed
  /\ reading = FALSE
  /\ scans = 0

\* connect, a change of baud rate and close give the driver another connection.
Relink ==
  /\ ~reading
  /\ link' \in Handles \union {Closed}
  /\ UNCHANGED <<reading, scans>>

Launch ==
  /\ ~reading
  /\ link # Closed
  /\ reading' = TRUE
  /\ scans' = 0
  /\ UNCHANGED link

Deliver ==
  /\ reading
  /\ link # Closed
  /\ scans' \in Nat
  /\ scans' > scans
  /\ UNCHANGED <<link, reading>>

Retire ==
  /\ reading
  /\ reading' = FALSE
  /\ UNCHANGED <<link, scans>>

Next == Relink \/ Launch \/ Deliver \/ Retire

Spec == Init /\ [][Next]_vars
=============================================================================
