------------------------ MODULE ScanAssembly_proofs ------------------------
(***************************************************************************)
(* For every number of sectors and points, with lost sectors and restarts: *)
(* no point is lost, duplicated or moved between the sensor's sectors and  *)
(* the callbacks, a closing sector never stays behind, and a scan whose    *)
(* sectors all arrived is one rotation.                                    *)
(***************************************************************************)
EXTENDS ScanAssembly, SequenceTheorems, TLAPS

LEMMA PointsType ==
  ASSUME NEW t \in Nat, NEW count \in Counts
  PROVE  /\ Points(t, count) \in Seq(Point)
         /\ Len(Points(t, count)) = count
         /\ \A i \in 1..count : Points(t, count)[i].at = t
  BY AssemblyAssumption DEF Points, Point

LEMMA TypeStep == TypeOK /\ [Next]_vars => TypeOK'
  <1> SUFFICES ASSUME TypeOK, [Next]_vars PROVE TypeOK'
    OBVIOUS
  <1> USE DEF TypeOK
  <1>1. CASE Start
    BY <1>1 DEF Start
  <1>2. CASE Stop
    BY <1>2 DEF Stop
  <1>3. CASE SectorParsed
    <2>1. PICK count \in Counts : onScanDataReceived(turned, count)
      BY <1>3 DEF SectorParsed
    <2> DEFINE new == Points(turned, count)
               points == pointHoldingList \o new
    <2>2. new \in Seq(Point)
      BY PointsType
    <2> HIDE DEF new
    <2>3. points \in Seq(Point) /\ received' \in Seq(Point)
      BY <2>1, <2>2 DEF onScanDataReceived, new
    <2> HIDE DEF points
    <2>4. CASE Closes(turned)
      <3> DEFINE scan == [points |-> points, timestamp |-> turned,
                          frame |-> frameCount + 1]
      <3>1. scan \in Scan
        BY <2>3 DEF Scan
      <3>2. scans' \in Seq(Scan)
        <4>1. scans' = Append(scans, scan)
          BY <2>1, <2>4 DEF onScanDataReceived, points, new
        <4> HIDE DEF scan
        <4> QED
          BY <3>1, <4>1
      <3>3. shipped' \in Seq(Point)
        <4>1. shipped' = shipped \o points
          BY <2>1, <2>4 DEF onScanDataReceived, points, new
        <4> QED
          BY <2>3, <4>1
      <3>4. pointHoldingList' \in Seq(Point) /\ frameCount' \in Nat
        BY <2>1, <2>4 DEF onScanDataReceived
      <3> QED
        BY <1>3, <2>3, <3>2, <3>3, <3>4 DEF SectorParsed
    <2>5. CASE ~Closes(turned)
      <3>1. pointHoldingList' = points /\ UNCHANGED <<frameCount, scans, shipped>>
        BY <2>1, <2>5 DEF onScanDataReceived, points, new
      <3> QED
        BY <1>3, <2>3, <3>1 DEF SectorParsed
    <2> QED
      BY <2>4, <2>5
  <1>4. CASE SectorMissed
    BY <1>4 DEF SectorMissed
  <1>5. CASE UNCHANGED vars
    BY <1>5 DEF vars
  <1> QED
    BY <1>1, <1>2, <1>3, <1>4, <1>5 DEF Next

\* Every variable keeps its type: what is held and delivered are points.
THEOREM TypeCorrect == Spec => []TypeOK
  <1>1. Init => TypeOK
    <2> SUFFICES ASSUME Init PROVE TypeOK
      OBVIOUS
    <2>1. running \in BOOLEAN
      BY DEF Init
    <2>2. turned \in Nat
      BY AssemblyAssumption DEF Init
    <2> QED
      BY <2>1, <2>2 DEF Init, TypeOK
  <1> QED
    BY <1>1, TypeStep, PTL DEF Spec

-----------------------------------------------------------------------------
\* The scans handed to the callback and the points held back are together
\* the points parsed, each once and in order.
THEOREM PointsConserved == Spec => []EveryPointOnce
  <1>1. Init => EveryPointOnce
    BY DEF Init, EveryPointOnce
  <1>2. TypeOK /\ TypeOK' /\ EveryPointOnce /\ [Next]_vars => EveryPointOnce'
    <2> SUFFICES ASSUME TypeOK, TypeOK', EveryPointOnce, [Next]_vars
                 PROVE  EveryPointOnce'
      OBVIOUS
    <2> USE DEF TypeOK, EveryPointOnce
    <2>1. CASE SectorParsed
      <3>1. PICK count \in Counts : onScanDataReceived(turned, count)
        BY <2>1 DEF SectorParsed
      <3> DEFINE new == Points(turned, count)
      <3>2. new \in Seq(Point)
        BY PointsType
      <3>3. received' = received \o new
        BY <3>1 DEF onScanDataReceived
      <3>4. shipped' \o pointHoldingList' = shipped \o (pointHoldingList \o new)
        <4>1. CASE Closes(turned)
          <5>1. shipped' = shipped \o (pointHoldingList \o new)
            BY <3>1, <4>1 DEF onScanDataReceived
          <5>2. pointHoldingList' = <<>>
            BY <3>1, <4>1 DEF onScanDataReceived
          <5> HIDE DEF new
          <5> QED
            BY <5>1, <5>2, ConcatEmptySeq
        <4>2. CASE ~Closes(turned)
          BY <3>1, <4>2 DEF onScanDataReceived
        <4> QED
          BY <4>1, <4>2
      <3> HIDE DEF new
      <3>5. shipped \o (pointHoldingList \o new)
              = (shipped \o pointHoldingList) \o new
        <4> DEFINE T == Point  old == pointHoldingList  out == shipped
        <4>1. out \in Seq(T) /\ old \in Seq(T) /\ new \in Seq(T)
          BY <3>2
        <4> HIDE DEF T, old, out
        <4>2. out \o (old \o new) = (out \o old) \o new
          BY ONLY <4>1, SMT
        <4> QED
          BY <4>2 DEF old, out
      <3> QED
        BY <3>3, <3>4, <3>5
    <2>2. CASE ~SectorParsed
      BY <2>2 DEF Next, Start, Stop, SectorMissed, vars
    <2> QED
      BY <2>1, <2>2
  <1> QED
    BY <1>1, <1>2, TypeCorrect, PTL DEF Spec

-----------------------------------------------------------------------------
\* HeldPointsAreOpen is inductive once the held points are known to be of
\* sectors already gone through.
HeldInv ==
  /\ HeldPointsAreOpen
  /\ \A i \in DOMAIN pointHoldingList : pointHoldingList[i].at < turned

\* No point of a sector that closes a rotation is held back, and those held
\* are in the order of their sectors.
THEOREM HeldPoints == Spec => []HeldPointsAreOpen
  <1>1. Init => HeldInv
    BY DEF Init, HeldInv, HeldPointsAreOpen
  <1>2. TypeOK /\ HeldInv /\ [Next]_vars => HeldInv'
    <2> SUFFICES ASSUME TypeOK, HeldInv, [Next]_vars PROVE HeldInv'
      OBVIOUS
    <2> USE DEF TypeOK, HeldInv, HeldPointsAreOpen
    <2>0. \A i \in DOMAIN pointHoldingList : pointHoldingList[i].at \in Nat
      <3>1. \A p \in Point : p.at \in Nat
        BY DEF Point
      <3>2. \A i \in DOMAIN pointHoldingList : pointHoldingList[i] \in Point
        OBVIOUS
      <3> QED
        BY <3>1, <3>2
    <2>1. CASE SectorParsed
      <3>1. PICK count \in Counts : onScanDataReceived(turned, count)
        BY <2>1 DEF SectorParsed
      <3>2. turned' = turned + 1
        BY <2>1 DEF SectorParsed
      <3>3. CASE Closes(turned)
        BY <3>1, <3>3 DEF onScanDataReceived
      <3>4. CASE ~Closes(turned)
        <4> DEFINE old == pointHoldingList
                   new == Points(turned, count)
        <4>1. /\ new \in Seq(Point) /\ Len(new) \in Nat
              /\ \A i \in 1..Len(new) : new[i].at = turned
          BY PointsType, AssemblyAssumption
        <4>2. pointHoldingList' = old \o new
          BY <3>1, <3>4 DEF onScanDataReceived
        <4> HIDE DEF new
        <4>3. \A i \in 1..Len(old \o new) :
                (old \o new)[i] = IF i <= Len(old) THEN old[i]
                                  ELSE new[i - Len(old)]
          BY <4>1
        <4>4. /\ old \o new \in Seq(Point)
              /\ Len(old \o new) = Len(old) + Len(new)
          BY <4>1
        <4>5. \A i \in 1..Len(old \o new) :
                \/ i <= Len(old) /\ (old \o new)[i].at = old[i].at
                \/ i > Len(old) /\ (old \o new)[i].at = turned
          BY <4>1, <4>3, <4>4, SMTT(30)
        <4>6. \A i \in DOMAIN (old \o new) : ~Closes((old \o new)[i].at)
          BY <3>4, <4>4, <4>5, SMTT(30)
        <4>7. \A i \in DOMAIN (old \o new) : (old \o new)[i].at < turned + 1
          BY <2>0, <4>4, <4>5, SMTT(30)
        <4>8. \A i, j \in DOMAIN (old \o new) :
                i < j => (old \o new)[i].at <= (old \o new)[j].at
          BY <2>0, <4>4, <4>5, SMTT(30)
        <4> QED
          BY <3>2, <4>2, <4>6, <4>7, <4>8
      <3> QED
        BY <3>3, <3>4
    <2>2. CASE Start \/ Stop
      BY <2>2 DEF Start, Stop
    <2>3. CASE SectorMissed
      BY <2>0, <2>3 DEF SectorMissed
    <2>4. CASE UNCHANGED vars
      BY <2>4 DEF vars
    <2> QED
      BY <2>1, <2>2, <2>3, <2>4 DEF Next
  <1>3. HeldInv => HeldPointsAreOpen
    BY DEF HeldInv
  <1> QED
    BY <1>1, <1>2, <1>3, TypeCorrect, PTL DEF Spec

-----------------------------------------------------------------------------
(***************************************************************************)
(* Whole rotations.  A sector of less than 360 to the rotation is wider    *)
(* than the deviation allowed from 360 degrees, so that only the last one  *)
(* of a rotation closes it.                                                *)
(***************************************************************************)
LEMMA Division ==
  ASSUME NEW t \in Nat
  PROVE  \E q \in Nat : t = Sectors * q + (t % Sectors) /\ t % Sectors \in 0..(Sectors - 1)
  <1>1. Sectors \in Nat /\ Sectors > 0
    BY AssemblyAssumption
  <1>2. t = Sectors * (t \div Sectors) + (t % Sectors) /\ t % Sectors \in 0..(Sectors - 1)
    BY <1>1
  <1>3. t \div Sectors \in Nat
    BY <1>1
  <1> QED
    BY <1>2, <1>3

LEMMA Products ==
  ASSUME NEW n \in Nat, NEW q \in Int, NEW r \in Int, q < r
  PROVE  n * q + n <= n * r
  <1>1. n * (r - q - 1) >= 0
    BY SMT
  <1>2. n * (r - q - 1) = n * r - n * q - n
    BY SMT
  <1>3. n * r \in Int /\ n * q \in Int
    BY SMT
  <1> QED
    BY <1>1, <1>2, <1>3

LEMMA LastCloses ==
  ASSUME Sectors < 360, NEW t \in Nat, Closes(t)
  PROVE  /\ t % Sectors = Sectors - 1
         /\ Rotation(t) = (t - Sectors + 1)..t
  <1>1. Sectors \in Nat /\ Sectors > 0
    BY AssemblyAssumption
  <1>2. t % Sectors \in 0..(Sectors - 1)
    BY Division
  <1>3. t % Sectors = Sectors - 1
    BY <1>1, <1>2 DEF Closes, EndAngle, StartAngle
  <1>4. Rotation(t) = (t - Sectors + 1)..t
    <2>1. Rotation(t) = {t - (Sectors - 1) + i : i \in 0..(Sectors - 1)}
      BY <1>3 DEF Rotation
    <2>2. ASSUME NEW x \in (t - Sectors + 1)..t
          PROVE  x \in {t - (Sectors - 1) + i : i \in 0..(Sectors - 1)}
      <3> DEFINE i == x - (t - (Sectors - 1))
      <3>1. i \in 0..(Sectors - 1) /\ x = t - (Sectors - 1) + i
        BY <1>1
      <3> QED
        BY <3>1
    <2>3. ASSUME NEW i \in 0..(Sectors - 1)
          PROVE  t - (Sectors - 1) + i \in (t - Sectors + 1)..t
      BY <1>1
    <2> QED
      BY <2>1, <2>2, <2>3, Zenon
  <1> QED
    BY <1>3, <1>4

\* Two sectors that close a rotation are a rotation apart.
LEMMA ClosersApart ==
  ASSUME Sectors < 360, NEW t \in Nat, NEW u \in Nat, Closes(t), Closes(u), u < t
  PROVE  u <= t - Sectors
  <1>1. Sectors \in Nat
    BY AssemblyAssumption
  <1>2. t % Sectors = Sectors - 1 /\ u % Sectors = Sectors - 1
    BY LastCloses
  <1>3. PICK q \in Nat : t = Sectors * q + (Sectors - 1)
    BY <1>2, Division
  <1>4. PICK r \in Nat : u = Sectors * r + (Sectors - 1)
    BY <1>2, Division
  <1>5. Sectors * q \in Nat /\ Sectors * r \in Nat
    BY <1>1
  <1>6. ~(q < r)
    <2> SUFFICES ASSUME q < r PROVE FALSE
      OBVIOUS
    <2>1. Sectors * q + Sectors <= Sectors * r
      BY <1>1, Products
    <2> QED
      BY <1>1, <1>3, <1>4, <1>5, <2>1
  <1>7. q # r
    BY <1>3, <1>4
  <1>8. Sectors * r + Sectors <= Sectors * q
    BY <1>1, <1>6, <1>7, Products
  <1> QED
    BY <1>1, <1>3, <1>4, <1>5, <1>8

\* One rotation earlier a sector closed one, too, if the sensor was turning.
LEMMA CloserBefore ==
  ASSUME Sectors < 360, NEW t \in Nat, Closes(t), t >= Sectors
  PROVE  Closes(t - Sectors)
  <1>1. Sectors \in Nat /\ Sectors > 0
    BY AssemblyAssumption
  <1>2. PICK q \in Nat : t = Sectors * q + (Sectors - 1)
    BY LastCloses, Division
  <1> DEFINE u == t - Sectors
  <1>3. u \in Nat
    BY <1>1
  <1>4. PICK r \in Nat : /\ u = Sectors * r + (u % Sectors)
                         /\ u % Sectors \in 0..(Sectors - 1)
    BY <1>3, Division
  <1>5. Sectors * q \in Nat /\ Sectors * r \in Nat
    BY <1>1
  <1>6. Sectors * q - Sectors = Sectors * (q - 1)
    BY <1>1
  <1>7. Sectors * (q - 1) + (Sectors - 1) = Sectors * r + (u % Sectors)
    BY <1>1, <1>2, <1>4, <1>5, <1>6
  <1>8. ~(r < q - 1)
    <2> SUFFICES ASSUME r < q - 1 PROVE FALSE
      OBVIOUS
    <2>1. Sectors * r + Sectors <= Sectors * (q - 1)
      BY <1>1, Products
    <2> QED
      BY <1>1, <1>4, <1>5, <1>6, <1>7, <2>1
  <1>9. ~(q - 1 < r)
    <2> SUFFICES ASSUME q - 1 < r PROVE FALSE
      OBVIOUS
    <2>1. Sectors * (q - 1) + Sectors <= Sectors * r
      BY <1>1, Products
    <2> QED
      BY <1>1, <1>4, <1>5, <1>6, <1>7, <2>1
  <1>10. u % Sectors = Sectors - 1
    <2>1. r = q - 1
      BY <1>8, <1>9
    <2> QED
      BY <1>1, <1>4, <1>5, <1>7, <2>1
  <1> QED
    BY <1>1, <1>10 DEF Closes, EndAngle, StartAngle

-----------------------------------------------------------------------------
\* The sectors a sequence of points is of.
At(s) == {s[i].at : i \in DOMAIN s}

LEMMA AtConcat ==
  ASSUME NEW s \in Seq(Point), NEW t \in Seq(Point)
  PROVE  At(s \o t) = At(s) \union At(t)
  <1>1. /\ Len(s \o t) = Len(s) + Len(t) /\ Len(s) \in Nat /\ Len(t) \in Nat
        /\ DOMAIN (s \o t) = 1..Len(s \o t)
        /\ DOMAIN s = 1..Len(s) /\ DOMAIN t = 1..Len(t)
        /\ \A i \in 1..Len(s \o t) :
             (s \o t)[i] = IF i <= Len(s) THEN s[i] ELSE t[i - Len(s)]
    OBVIOUS
  <1>2. ASSUME NEW i \in DOMAIN (s \o t)
        PROVE  (s \o t)[i].at \in At(s) \union At(t)
    <2>1. CASE i <= Len(s)
      BY <1>1, <2>1 DEF At
    <2>2. CASE i > Len(s)
      <3>1. i - Len(s) \in DOMAIN t /\ (s \o t)[i] = t[i - Len(s)]
        BY <1>1, <2>2
      <3> QED
        BY <3>1 DEF At
    <2> QED
      BY <1>1, <2>1, <2>2
  <1>3. ASSUME NEW i \in DOMAIN s
        PROVE  s[i].at \in At(s \o t)
    <2>1. i \in DOMAIN (s \o t) /\ (s \o t)[i] = s[i]
      BY <1>1
    <2> QED
      BY <2>1 DEF At
  <1>4. ASSUME NEW i \in DOMAIN t
        PROVE  t[i].at \in At(s \o t)
    <2>1. i + Len(s) \in DOMAIN (s \o t) /\ (s \o t)[i + Len(s)] = t[i]
      BY <1>1
    <2> QED
      BY <2>1 DEF At
  <1>5. At(s \o t) \subseteq At(s) \union At(t)
    BY <1>2 DEF At
  <1>6. At(s) \subseteq At(s \o t) /\ At(t) \subseteq At(s \o t)
    BY <1>3, <1>4 DEF At
  <1> QED
    BY <1>5, <1>6

LEMMA AtPoints ==
  ASSUME NEW t \in Nat, NEW count \in Counts
  PROVE  At(Points(t, count)) = IF count = 0 THEN {} ELSE {t}
  <1>1. count \in Nat
    BY AssemblyAssumption
  <1>2. At(Points(t, count)) = {t : i \in 1..count}
    BY DEF At, Points
  <1>3. count # 0 => 1 \in 1..count
    BY <1>1
  <1> QED
    BY <1>1, <1>2, <1>3

(***************************************************************************)
(* WholeRotations is not inductive.  Held are, as far as can be known, the *)
(* sectors parsed since the last one that closed a rotation: none from     *)
(* before a closing sector that was parsed, and all since the last there   *)
(* was.  held and parsed are sets of sectors, now is the next one's time.  *)
(***************************************************************************)
NoneOlder(held, parsed) == \A p \in parsed, h \in held : Closes(p) => h > p

NoneForgotten(held, parsed, now) ==
  \A p \in parsed : (\A c \in p..(now - 1) : ~Closes(c)) => p \in held

HeldSince(held, parsed, now) ==
  /\ parsed \subseteq 0..(now - 1)
  /\ held \subseteq parsed
  /\ NoneOlder(held, parsed)
  /\ NoneForgotten(held, parsed, now)

Needed(t) == Rotation(t) \union {t - Sectors}

ScansWhole(done, parsed, now) ==
  \A i \in DOMAIN done :
    LET t == done[i].timestamp
    IN  /\ t \in 0..(now - 1) /\ Closes(t)
        /\ Needed(t) \subseteq parsed => At(done[i].points) = Rotation(t)

RotationInv ==
  /\ HeldSince(At(pointHoldingList), At(received), turned)
  /\ ScansWhole(scans, At(received), turned)

\* What a sector that closes a rotation makes of the points held.
LEMMA ClosedRotation ==
  ASSUME Sectors < 360, NEW t \in Nat, Closes(t), NEW held, NEW parsed,
         HeldSince(held, parsed, t), NEW new \in {{}, {t}},
         Needed(t) \subseteq parsed \union new
  PROVE  held \union new = Rotation(t)
  <1>1. Sectors \in Nat /\ Sectors > 0
    BY AssemblyAssumption
  <1>2. Rotation(t) = (t - Sectors + 1)..t
    BY LastCloses
  <1>3. t \in new
    <2>1. t \in Needed(t) /\ t \notin parsed
      BY <1>1, <1>2 DEF HeldSince, Needed
    <2> QED
      BY <2>1
  <1>4. t - Sectors \in parsed
    BY <1>1 DEF Needed
  <1>5. t - Sectors \in Nat /\ Closes(t - Sectors)
    <2>1. t - Sectors \in Nat
      BY <1>1, <1>4 DEF HeldSince
    <2> QED
      BY <1>1, <2>1, CloserBefore
  <1>6. ASSUME NEW p \in (t - Sectors + 1)..(t - 1)
        PROVE  p \in held
    <2>1. p \in parsed
      BY <1>1, <1>2 DEF Needed
    <2>2. ASSUME NEW c \in p..(t - 1), Closes(c)
          PROVE  FALSE
      <3>1. c \in Nat /\ c < t /\ c > t - Sectors
        BY <1>1, <1>5
      <3>2. c <= t - Sectors
        BY <1>1, <2>2, <3>1, ClosersApart
      <3> QED
        BY <1>1, <3>1, <3>2
    <2> QED
      BY <2>1, <2>2 DEF HeldSince, NoneForgotten
  <1>7. ASSUME NEW h \in held
        PROVE  h \in (t - Sectors + 1)..t
    <2>1. h > t - Sectors
      BY <1>4, <1>5 DEF HeldSince, NoneOlder
    <2>2. h \in 0..(t - 1)
      BY DEF HeldSince
    <2> QED
      BY <1>1, <1>5, <2>1, <2>2
  <1>8. \A p \in (t - Sectors + 1)..t : p = t \/ p \in (t - Sectors + 1)..(t - 1)
    BY <1>1
  <1>9. t \in (t - Sectors + 1)..t
    BY <1>1
  <1> QED
    BY <1>2, <1>3, <1>6, <1>7, <1>8, <1>9

LEMMA HeldPasses ==
  ASSUME NEW t \in Nat, NEW held, NEW parsed, HeldSince(held, parsed, t),
         NEW new \in {{}, {t}}
  PROVE  /\ HeldSince(held, parsed, t + 1)
         /\ Closes(t) => HeldSince({}, parsed \union new, t + 1)
         /\ ~Closes(t) => HeldSince(held \union new, parsed \union new, t + 1)
  <1>1. parsed \union new \subseteq 0..t /\ parsed \subseteq 0..t
    <2>1. 0..(t - 1) \subseteq 0..t /\ {t} \subseteq 0..t
      OBVIOUS
    <2> QED
      BY <2>1 DEF HeldSince
  <1>2. \A p \in 0..t : t \in p..((t + 1) - 1)
    OBVIOUS
  <1>3. \A p \in parsed : \A c \in p..(t - 1) : c \in p..((t + 1) - 1)
    BY <1>1
  <1>4. HeldSince(held, parsed, t + 1)
    BY <1>1, <1>3 DEF HeldSince, NoneForgotten
  <1>5. Closes(t) => HeldSince({}, parsed \union new, t + 1)
    BY <1>1, <1>2 DEF HeldSince, NoneForgotten, NoneOlder
  <1>6. ~Closes(t) => HeldSince(held \union new, parsed \union new, t + 1)
    <2> SUFFICES ASSUME ~Closes(t)
                 PROVE  HeldSince(held \union new, parsed \union new, t + 1)
      OBVIOUS
    <2>1. \A p \in parsed : t > p
      BY DEF HeldSince
    <2>2. NoneOlder(held \union new, parsed \union new)
      BY <2>1 DEF HeldSince, NoneOlder
    <2>3. NoneForgotten(held \union new, parsed \union new, t + 1)
      BY <1>3 DEF HeldSince, NoneForgotten
    <2>4. (t + 1) - 1 = t
      OBVIOUS
    <2> QED
      BY <1>1, <2>2, <2>3, <2>4, Zenon DEF HeldSince
  <1> QED
    BY <1>4, <1>5, <1>6

\* No sector is parsed later than its time, so a rotation once incomplete
\* stays so.
LEMMA ScansPass ==
  ASSUME Sectors < 360, NEW t \in Nat, NEW done, NEW parsed,
         ScansWhole(done, parsed, t), NEW new \in {{}, {t}}
  PROVE  ScansWhole(done, parsed \union new, t + 1)
  <1>1. SUFFICES ASSUME NEW i \in DOMAIN done, NEW u, u = done[i].timestamp
                 PROVE  /\ u \in 0..t /\ Closes(u)
                        /\ Needed(u) \subseteq parsed \union new
                             => At(done[i].points) = Rotation(u)
    BY DEF ScansWhole
  <1>2. /\ u \in 0..(t - 1) /\ Closes(u)
        /\ Needed(u) \subseteq parsed => At(done[i].points) = Rotation(u)
    BY <1>1 DEF ScansWhole
  <1>3. \A p \in Needed(u) : p # t
    <2>1. Sectors \in Nat /\ Sectors > 0
      BY AssemblyAssumption
    <2>2. Rotation(u) = (u - Sectors + 1)..u
      BY <1>2, LastCloses
    <2> QED
      BY <1>2, <2>1, <2>2 DEF Needed
  <1> QED
    BY <1>2, <1>3

LEMMA RotationStep ==
  ASSUME Sectors < 360, TypeOK, RotationInv, [Next]_vars
  PROVE  RotationInv'
  <1>0. turned \in Nat /\ received \in Seq(Point) /\ pointHoldingList \in Seq(Point)
        /\ scans \in Seq(Scan)
    BY DEF TypeOK
  <1> DEFINE held == At(pointHoldingList)  parsed == At(received)
  <1>1. CASE SectorParsed
    <2>1. PICK count \in Counts : onScanDataReceived(turned, count)
      BY <1>1 DEF SectorParsed
    <2> DEFINE points == pointHoldingList \o Points(turned, count)
               new == At(Points(turned, count))
    <2>2. turned' = turned + 1
      BY <1>1 DEF SectorParsed
    <2>3. Points(turned, count) \in Seq(Point) /\ new \in {{}, {turned}}
      BY <1>0, PointsType, AtPoints
    <2>4. At(received') = parsed \union new
      <3>1. received' = received \o Points(turned, count)
        BY <2>1 DEF onScanDataReceived
      <3> QED
        BY <1>0, <2>3, <3>1, AtConcat
    <2>5. At(points) = held \union new
      BY <1>0, <2>3, AtConcat
    <2>6. ScansWhole(scans, parsed \union new, turned + 1)
      <3> HIDE DEF new, parsed
      <3> QED
        BY <1>0, <2>3, ScansPass DEF RotationInv, parsed
    <2>7. CASE Closes(turned)
      <3>1. At(pointHoldingList') = {}
        BY <2>1, <2>7 DEF onScanDataReceived, At
      <3>2. HeldSince({}, parsed \union new, turned + 1)
        <4> HIDE DEF new, parsed, held
        <4> QED
          BY <1>0, <2>3, <2>7, HeldPasses DEF RotationInv, parsed, held
      <3> DEFINE scan == [points |-> points, timestamp |-> turned,
                          frame |-> frameCount + 1]
      <3>3. scans' = Append(scans, scan)
        BY <2>1, <2>7 DEF onScanDataReceived
      <3>4. scan.timestamp = turned /\ At(scan.points) = held \union new
        BY <2>5
      <3>5. Needed(turned) \subseteq parsed \union new
              => held \union new = Rotation(turned)
        <4> HIDE DEF new, parsed, held
        <4> QED
          BY <1>0, <2>3, <2>7, ClosedRotation DEF RotationInv, parsed, held
      <3>6. ScansWhole(scans', parsed \union new, turned + 1)
        <4> HIDE DEF new, parsed, held, scan
        <4>1. \A i \in DOMAIN scans' :
                \/ i \in DOMAIN scans /\ scans'[i] = scans[i]
                \/ scans'[i] = scan
          BY <1>0, <3>3
        <4>2. turned \in 0..((turned + 1) - 1)
          BY <1>0
        <4> QED
          BY <2>6, <2>7, <3>4, <3>5, <4>1, <4>2, Zenon DEF ScansWhole
      <3> HIDE DEF new, parsed
      <3> QED
        BY <2>2, <2>4, <3>1, <3>2, <3>6 DEF RotationInv
    <2>8. CASE ~Closes(turned)
      <3>1. At(pointHoldingList') = held \union new /\ scans' = scans
        BY <2>1, <2>5, <2>8 DEF onScanDataReceived
      <3> HIDE DEF new
      <3>2. HeldSince(held \union new, parsed \union new, turned + 1)
        <4> HIDE DEF parsed, held
        <4> QED
          BY <1>0, <2>3, <2>8, HeldPasses DEF RotationInv, parsed, held
      <3> QED
        BY <2>2, <2>4, <2>6, <3>1, <3>2 DEF RotationInv
    <2> QED
      BY <2>7, <2>8
  <1>2. CASE SectorMissed
    <2>1. HeldSince(held, parsed, turned + 1)
      <3> HIDE DEF parsed, held
      <3> QED
        BY <1>0, HeldPasses DEF RotationInv, parsed, held
    <2>2. ScansWhole(scans, parsed, turned + 1)
      <3>1. ScansWhole(scans, parsed \union {}, turned + 1)
        <4> HIDE DEF parsed
        <4> QED
          BY <1>0, ScansPass DEF RotationInv, parsed
      <3>2. parsed \union {} = parsed
        OBVIOUS
      <3> QED
        BY <3>1, <3>2
    <2> QED
      BY <1>2, <2>1, <2>2 DEF SectorMissed, RotationInv
  <1>3. CASE Start \/ Stop \/ UNCHANGED vars
    BY <1>3 DEF Start, Stop, vars, RotationInv
  <1> QED
    BY <1>1, <1>2, <1>3 DEF Next

\* Every scan is one rotation, if its sectors and the one that closed the
\* rotation before it were parsed, for less than 360 sectors to the rotation
\* (with more, several sectors end within a degree of 360).
THEOREM RotationsWhole ==
  ASSUME Sectors < 360
  PROVE  Spec => []WholeRotations
  <1>1. Init => RotationInv
    <2> SUFFICES ASSUME Init PROVE RotationInv
      OBVIOUS
    <2>1. At(received) = {} /\ At(pointHoldingList) = {} /\ scans = <<>>
      BY DEF Init, At
    <2> QED
      BY <2>1 DEF RotationInv, HeldSince, NoneOlder, NoneForgotten, ScansWhole
  <1>2. TypeOK /\ RotationInv /\ [Next]_vars => RotationInv'
    BY RotationStep
  <1>3. RotationInv => WholeRotations
    BY DEF RotationInv, ScansWhole, WholeRotations, Needed, IsRotation, Parsed, At
  <1> QED
    BY <1>1, <1>2, <1>3, TypeCorrect, PTL DEF Spec
=============================================================================
