---------------------------- MODULE ScanAssembly ----------------------------
(***************************************************************************)
(* How the base Driver makes scans of sectors.  The sensor turns and gives *)
(* one sector after another, each covering the same angle; those the       *)
(* driver parses while it runs go through onScanDataReceived, which holds  *)
(* their points back until the sector that ends at 360 degrees.            *)
(***************************************************************************)
EXTENDS Integers, Sequences

CONSTANTS
  Sectors,    \* sectors of one rotation, 10 for a Parakeet Pro
  Counts,     \* points a sector may have
  Lossy,      \* may a sector fail its checksum or be lost on the way?
  MaxSectors  \* bound on the sectors the sensor gives

ASSUME AssemblyAssumption ==
  /\ Sectors \in Nat \ {0}
  /\ Counts \subseteq Nat
  /\ Lossy \in BOOLEAN
  /\ MaxSectors \in Nat

VARIABLES
  running,          \* the update thread is parsing
  turned,           \* sectors the sensor has gone through; also the time
  pointHoldingList,
  frameCount,       \* updateThreadFrameCount
  scans,            \* history: the callback's arguments
  received,         \* history: the points given to onScanDataReceived
  shipped           \* history: the points of all scans

vars == <<running, turned, pointHoldingList, frameCount, scans, received,
          shipped>>

Point == [at : Nat, index : Nat]
Scan == [points : Seq(Point), timestamp : Nat, frame : Nat]

TypeOK ==
  /\ running \in BOOLEAN
  /\ turned \in Nat
  /\ pointHoldingList \in Seq(Point)
  /\ frameCount \in Nat
  /\ scans \in Seq(Scan)
  /\ received \in Seq(Point)
  /\ shipped \in Seq(Point)

\* The sensor may be anywhere in its rotation when it is first heard.
Init ==
  /\ running = FALSE
  /\ turned \in 0..(Sectors - 1)
  /\ pointHoldingList = <<>>
  /\ frameCount = 0
  /\ scans = <<>> /\ received = <<>> /\ shipped = <<>>

\* Angles in units of 1/Sectors degrees: a sector covers 360 of them.
StartAngle(t) == 360 * (t % Sectors)
EndAngle(t) == StartAngle(t) + 360
ClosesASectorEarly(t) == EndAngle(t) + 360 >= 360 * Sectors   \* mutant
Closes(t) == EndAngle(t) + 1 * Sectors >= 360 * Sectors   \* deviationFrom360_deg

\* The points of the sector of time t.
Points(t, count) == [i \in 1..count |-> [at |-> t, index |-> i]]

\* Mutants: the points are not cleared once delivered; the sector that starts
\* at 360 degrees is waited for.
HoldingNotCleared(t, count) ==
  LET points == pointHoldingList \o Points(t, count)
  IN  /\ received' = received \o Points(t, count)
      /\ pointHoldingList' = points
      /\ IF Closes(t)
         THEN /\ frameCount' = frameCount + 1
              /\ scans' = Append(scans, [points |-> points, timestamp |-> t,
                                         frame |-> frameCount + 1])
              /\ shipped' = shipped \o points
         ELSE UNCHANGED <<frameCount, scans, shipped>>

ClosesAtStartAngle(t, count) ==
  LET points == pointHoldingList \o Points(t, count)
  IN  /\ received' = received \o Points(t, count)
      /\ IF StartAngle(t) + 1 * Sectors >= 360 * Sectors
         THEN /\ frameCount' = frameCount + 1
              /\ scans' = Append(scans, [points |-> points, timestamp |-> t,
                                         frame |-> frameCount + 1])
              /\ shipped' = shipped \o points
              /\ pointHoldingList' = <<>>
         ELSE /\ pointHoldingList' = points
              /\ UNCHANGED <<frameCount, scans, shipped>>

onScanDataReceived(t, count) ==
  LET points == pointHoldingList \o Points(t, count)
  IN  /\ received' = received \o Points(t, count)
      /\ IF Closes(t)
         THEN /\ frameCount' = frameCount + 1
              /\ scans' = Append(scans, [points |-> points, timestamp |-> t,
                                         frame |-> frameCount + 1])
              /\ shipped' = shipped \o points
              /\ pointHoldingList' = <<>>
         ELSE /\ pointHoldingList' = points
              /\ UNCHANGED <<frameCount, scans, shipped>>

\* Mutant: the count is reset so that the first callback is number 0.
StartCountsFromZero ==
  /\ ~running
  /\ running' = TRUE
  /\ frameCount' = -1
  /\ UNCHANGED <<turned, pointHoldingList, scans, received, shipped>>

\* start resets the frame count and keeps the points held back.
Start ==
  /\ ~running
  /\ running' = TRUE
  /\ frameCount' = 0
  /\ UNCHANGED <<turned, pointHoldingList, scans, received, shipped>>

Stop ==
  /\ running
  /\ running' = FALSE
  /\ UNCHANGED <<turned, pointHoldingList, frameCount, scans, received, shipped>>

SectorParsed ==
  /\ running
  /\ turned < MaxSectors
  /\ turned' = turned + 1
  /\ \E count \in Counts : onScanDataReceived(turned, count)
  /\ UNCHANGED running

SectorMissed ==
  /\ ~running \/ Lossy
  /\ turned < MaxSectors
  /\ turned' = turned + 1
  /\ UNCHANGED <<running, pointHoldingList, frameCount, scans, received, shipped>>

Next == Start \/ Stop \/ SectorParsed \/ SectorMissed

Spec == Init /\ [][Next]_vars

-----------------------------------------------------------------------------
(***************************************************************************)
(* Properties                                                              *)
(***************************************************************************)
\* Across lost sectors, stops and restarts no point is lost, duplicated or
\* moved: what the callbacks got and what is held back is what was parsed.
EveryPointOnce == shipped \o pointHoldingList = received

\* Points are in the order of their sectors, and no point of a sector that
\* closes a rotation is held back into the next scan.
HeldPointsAreOpen ==
  /\ \A i \in DOMAIN pointHoldingList : ~Closes(pointHoldingList[i].at)
  /\ \A i, j \in DOMAIN pointHoldingList :
       i < j => pointHoldingList[i].at <= pointHoldingList[j].at

Rotation(t) == {t - (t % Sectors) + i : i \in 0..(Sectors - 1)}

IsRotation(scan) ==
  {scan.points[i].at : i \in DOMAIN scan.points} = Rotation(scan.timestamp)

Parsed == {received[i].at : i \in DOMAIN received}

\* Every scan is exactly one rotation, sector 0 to the last, if the rotation's
\* sectors and the last one before it were parsed, whatever starts and stops
\* fell in between: a lost sector spoils no scan but its own and, when it is
\* the last of its rotation, the next.
WholeRotations ==
  \A i \in DOMAIN scans :
    LET t == scans[i].timestamp
    IN  Rotation(t) \union {t - Sectors} \subseteq Parsed => IsRotation(scans[i])
=============================================================================
