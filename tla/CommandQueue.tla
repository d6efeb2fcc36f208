---------------------------- MODULE CommandQueue ----------------------------
(***************************************************************************)
(* Commands on their way to a sensor that handles them in order, and what  *)
(* they will have done to it once all of them are handled.  Both drivers'  *)
(* proofs speak of it: a command is any record with a type and argument.   *)
(***************************************************************************)
EXTENDS Naturals, Sequences, TLAPS

\* Once the commands of q are handled, setting t of a sensor s has the value v:
\* the last of them that sets t says so, or none does and s has it already.
WillSet(q, s, t, v) ==
  \/ /\ \A i \in DOMAIN q : q[i].type # t
     /\ s.set[t] = v
  \/ \E i \in DOMAIN q :
       /\ q[i].type = t /\ q[i].arg = v
       /\ \A j \in DOMAIN q : j > i => q[j].type # t

\* And so for whether it spins.
WillSpin(q, s, b) ==
  \/ /\ \A i \in DOMAIN q : q[i].type \notin {"START", "STOP"}
     /\ s.spinning = b
  \/ \E i \in DOMAIN q :
       /\ q[i].type = IF b THEN "START" ELSE "STOP"
       /\ \A j \in DOMAIN q : j > i => q[j].type \notin {"START", "STOP"}

-----------------------------------------------------------------------------
\* The last command decides: one that sets t to v is heard, one of another type
\* leaves what the others say.
LEMMA SetAppended ==
  ASSUME NEW C, NEW q \in Seq(C), NEW c \in C, NEW s, NEW t, NEW v,
         IF c.type = t THEN c.arg = v ELSE WillSet(q, s, t, v)
  PROVE  WillSet(Append(q, c), s, t, v)
  <1> DEFINE r == Append(q, c)
  <1>1. /\ Len(q) \in Nat /\ DOMAIN q = 1..Len(q) /\ DOMAIN r = 1..(Len(q) + 1)
        /\ \A i \in 1..Len(q) : r[i] = q[i]
        /\ r[Len(q) + 1] = c
    OBVIOUS
  <1> HIDE DEF r
  <1>2. CASE c.type = t
    BY <1>1, <1>2 DEF WillSet
  <1>3. CASE c.type # t
    <2>1. CASE \A i \in DOMAIN q : q[i].type # t
      BY <1>1, <1>3, <2>1 DEF WillSet
    <2>2. CASE \E i \in DOMAIN q : q[i].type = t
      <3>1. PICK i \in DOMAIN q :
              /\ q[i].type = t /\ q[i].arg = v
              /\ \A j \in DOMAIN q : j > i => q[j].type # t
        BY <1>3, <2>2 DEF WillSet
      <3>2. \A j \in DOMAIN r : j > i => r[j].type # t
        BY <1>1, <1>3, <3>1
      <3> QED
        BY <1>1, <3>1, <3>2 DEF WillSet
    <2> QED
      BY <2>1, <2>2
  <1> QED
    BY <1>2, <1>3 DEF r

\* Handling the first command changes the sensor, not what all of them lead to.
LEMMA SetHandled ==
  ASSUME NEW C, NEW q \in Seq(C), q # <<>>, NEW s, NEW u, NEW t, NEW v,
         WillSet(q, s, t, v),
         u.set[t] = IF Head(q).type = t THEN Head(q).arg ELSE s.set[t]
  PROVE  WillSet(Tail(q), u, t, v)
  <1> DEFINE r == Tail(q)
  <1>1. /\ Len(q) \in Nat \ {0} /\ DOMAIN q = 1..Len(q)
        /\ DOMAIN r = 1..(Len(q) - 1)
        /\ \A i \in 1..(Len(q) - 1) : r[i] = q[i + 1]
        /\ Head(q) = q[1]
    OBVIOUS
  <1> HIDE DEF r
  <1>2. CASE \A i \in DOMAIN q : q[i].type # t
    BY <1>1, <1>2 DEF WillSet, r
  <1>3. CASE \E i \in DOMAIN q : q[i].type = t
    <2>1. PICK i \in DOMAIN q :
            /\ q[i].type = t /\ q[i].arg = v
            /\ \A j \in DOMAIN q : j > i => q[j].type # t
      BY <1>3 DEF WillSet
    <2>2. CASE i = 1
      <3>1. \A j \in DOMAIN r : r[j].type # t
        BY <1>1, <2>1, <2>2
      <3>2. u.set[t] = v
        BY <1>1, <2>1, <2>2
      <3> QED
        BY <3>1, <3>2 DEF WillSet, r
    <2>3. CASE i # 1
      <3>1. i - 1 \in DOMAIN r /\ r[i - 1] = q[i]
        BY <1>1, <2>3
      <3>2. ASSUME NEW j \in DOMAIN r, j > i - 1 PROVE r[j].type # t
        <4>1. j + 1 \in DOMAIN q /\ j + 1 > i /\ r[j] = q[j + 1]
          BY <1>1, <2>1, <3>2
        <4> QED
          BY <2>1, <4>1
      <3> QED
        BY <2>1, <3>1, <3>2 DEF WillSet, r
    <2> QED
      BY <2>2, <2>3
  <1> QED
    BY <1>2, <1>3

\* The same of the commands that start and stop the rotation.
LEMMA SpinAppended ==
  ASSUME NEW C, NEW q \in Seq(C), NEW c \in C, NEW s, NEW b \in BOOLEAN,
         IF c.type \in {"START", "STOP"} THEN b <=> c.type = "START"
                                        ELSE WillSpin(q, s, b)
  PROVE  WillSpin(Append(q, c), s, b)
  <1> DEFINE r == Append(q, c)
             T == {"START", "STOP"}
             last == IF b THEN "START" ELSE "STOP"
  <1>1. /\ Len(q) \in Nat /\ DOMAIN q = 1..Len(q) /\ DOMAIN r = 1..(Len(q) + 1)
        /\ \A i \in 1..Len(q) : r[i] = q[i]
        /\ r[Len(q) + 1] = c
    OBVIOUS
  <1> HIDE DEF r
  <1>2. CASE c.type \in T
    <2>1. c.type = last
      BY <1>2
    <2> HIDE DEF last
    <2>2. r[Len(q) + 1].type = last
      BY <1>1, <2>1
    <2>3. \A j \in DOMAIN r : j > Len(q) + 1 => r[j].type \notin T
      BY <1>1
    <2> QED
      BY <1>1, <2>2, <2>3 DEF WillSpin, last
  <1>3. CASE c.type \notin T
    <2>1. CASE /\ \A i \in DOMAIN q : q[i].type \notin T
               /\ s.spinning = b
      BY <1>1, <1>3, <2>1 DEF WillSpin
    <2>2. CASE \E i \in DOMAIN q :
                 /\ q[i].type = last
                 /\ \A j \in DOMAIN q : j > i => q[j].type \notin T
      <3>1. PICK i \in DOMAIN q :
              /\ q[i].type = last
              /\ \A j \in DOMAIN q : j > i => q[j].type \notin T
        BY <2>2
      <3>2. ASSUME NEW j \in DOMAIN r, j > i PROVE r[j].type \notin T
        BY <1>1, <1>3, <3>1, <3>2
      <3>3. i \in DOMAIN r /\ r[i].type = last
        BY <1>1, <3>1
      <3> QED
        BY <3>2, <3>3 DEF WillSpin, r
    <2> QED
      BY <1>3, <2>1, <2>2 DEF WillSpin
  <1> QED
    BY <1>2, <1>3 DEF r

\* Handling the first command does not change whether the sensor will spin.
LEMMA SpinHandled ==
  ASSUME NEW C, NEW q \in Seq(C), q # <<>>, NEW s, NEW u, NEW b \in BOOLEAN,
         WillSpin(q, s, b),
         Head(q).type = "START" => u.spinning = TRUE,
         Head(q).type = "STOP" => u.spinning = FALSE,
         Head(q).type \notin {"START", "STOP"} => u.spinning = s.spinning
  PROVE  WillSpin(Tail(q), u, b)
  <1> DEFINE r == Tail(q)
             T == {"START", "STOP"}
             last == IF b THEN "START" ELSE "STOP"
  <1>1. /\ Len(q) \in Nat \ {0} /\ DOMAIN q = 1..Len(q)
        /\ DOMAIN r = 1..(Len(q) - 1)
        /\ \A i \in 1..(Len(q) - 1) : r[i] = q[i + 1]
        /\ Head(q) = q[1]
    OBVIOUS
  <1> HIDE DEF r
  <1>2. CASE /\ \A i \in DOMAIN q : q[i].type \notin T
             /\ s.spinning = b
    <2>1. Head(q).type \notin T
      BY <1>1, <1>2
    <2>2. \A i \in DOMAIN r : r[i].type \notin T
      BY <1>1, <1>2
    <2>3. u.spinning = b
      BY <1>2, <2>1
    <2> QED
      BY <2>2, <2>3 DEF WillSpin, r
  <1>3. CASE \E i \in DOMAIN q :
               /\ q[i].type = last
               /\ \A j \in DOMAIN q : j > i => q[j].type \notin T
    <2>1. PICK i \in DOMAIN q :
            /\ q[i].type = last
            /\ \A j \in DOMAIN q : j > i => q[j].type \notin T
      BY <1>3
    <2>2. ASSUME NEW j \in DOMAIN r, j > i - 1 PROVE r[j].type \notin T
      <3>1. j + 1 \in DOMAIN q /\ j + 1 > i /\ r[j] = q[j + 1]
        BY <1>1, <2>1, <2>2
      <3> QED
        BY <2>1, <3>1
    <2>3. CASE i = 1
      <3>1. \A j \in DOMAIN r : r[j].type \notin T
        BY <1>1, <2>2, <2>3
      <3>2. Head(q).type = last
        BY <1>1, <2>1, <2>3
      <3>3. u.spinning = b
        <4>1. CASE b = TRUE
          BY <3>2, <4>1
        <4>2. CASE b = FALSE
          BY <3>2, <4>2
        <4> QED
          BY <4>1, <4>2
      <3> QED
        BY <3>1, <3>3 DEF WillSpin, r
    <2>4. CASE i # 1
      <3>1. i - 1 \in DOMAIN r /\ r[i - 1].type = last
        BY <1>1, <2>1, <2>4
      <3> QED
        BY <2>2, <3>1 DEF WillSpin, r
    <2> QED
      BY <2>3, <2>4
  <1> QED
    BY <1>2, <1>3 DEF WillSpin
=============================================================================
