------------------------ MODULE MessageParser_proofs ------------------------
(***************************************************************************)
(* For every way of splitting sectors over messages and a network that     *)
(* loses, duplicates, reorders and spoils them: what the parser keeps and  *)
(* publishes was checked, and was timed unless the driver was restarted;   *)
(* what it keeps is less than a sector, and what it publishes is one until *)
(* the network or a restart gets in the way.                               *)
(***************************************************************************)
EXTENDS MessageParser, Sums_proofs, SequenceTheorems, TLAPS

\* What parsing a partial message leaves, whether or not it fits the list.
LEMMA ParseStep ==
  ASSUME NEW message \in Lidar, TypeOK, parseLidarDataFromBuffer(message)
  PROVE  LET current == parsePartialScan(message)
             pushed == Append(partialSectorScanDataList, current)
         IN  /\ validTimestamp' = TRUE
             /\ \E list \in {<<current>>, pushed} :
                  /\ list = pushed => message.good
                                      \/ partialSectorScanDataList = <<>>
                  /\ partialSectorScanDataList' \in {<<>>, list}
                  /\ \/ published' = <<>>
                     \/ published' = list /\ list[1].stamped
  <1> DEFINE current == parsePartialScan(message)
             pushed == Append(partialSectorScanDataList, current)
             corrupt == isScanCorrupt(pushed, current)
             list == IF corrupt THEN <<current>> ELSE pushed
             complete == isScanComplete(list, current)
  <1>1. /\ validTimestamp' = TRUE
        /\ partialSectorScanDataList' = IF complete THEN <<>> ELSE list
        /\ published' = IF complete THEN createAndPublishCompleteScan(list)
                                    ELSE <<>>
    BY DEF parseLidarDataFromBuffer
  <1>2. list \in {<<current>>, pushed}
    OBVIOUS
  <1>3. ~corrupt => message.good
    BY DEF isScanCorrupt, doesChecksumMatch, parsePartialScan
  <1>4. list = pushed => message.good \/ partialSectorScanDataList = <<>>
    <2>1. SUFFICES ASSUME corrupt, <<current>> = pushed
                   PROVE  partialSectorScanDataList = <<>>
      BY <1>3
    <2> HIDE DEF current, corrupt
    <2>2. Len(pushed) = Len(partialSectorScanDataList) + 1
      BY DEF TypeOK
    <2> QED
      BY <2>1, <2>2 DEF TypeOK
  <1>5. partialSectorScanDataList' \in {<<>>, list}
    BY <1>1
  <1>6. published' = <<>> \/ (published' = list /\ list[1].stamped)
    BY <1>1 DEF createAndPublishCompleteScan
  <1> HIDE DEF list
  <1> QED
    BY <1>1, <1>2, <1>4, <1>5, <1>6

\* A datagram of kind lidar at the head of the network is a partial message.
LEMMA HeadIsLidar ==
  ASSUME TypeOK, net # <<>>, Head(net).kind = "lidar"
  PROVE  Head(net) \in Lidar
  <1>1. Head(net) \in Lidar \union Other
    BY DEF TypeOK
  <1> QED
    BY <1>1 DEF Other

-----------------------------------------------------------------------------
LEMMA TypeStep == TypeOK /\ [Next]_vars => TypeOK'
  <1> SUFFICES ASSUME TypeOK, [Next]_vars PROVE TypeOK'
    OBVIOUS
  <1> DEFINE Message == Lidar \union Other
  <1> USE ParserAssumption DEF TypeOK
  <1>1. CASE SendPartial
    <2>1. part' \in 0..Len(split')
      BY <1>1 DEF SendPartial
    <2>2. [kind |-> "lidar", sector |-> sector, part |-> part + 1,
           split |-> split, good |-> TRUE] \in Message
      BY DEF Lidar
    <2> HIDE DEF Message
    <2>3. net' \in Seq(Message)
      BY <1>1, <2>2 DEF SendPartial, Message
    <2> QED
      BY <1>1, <2>1, <2>3 DEF SendPartial, ParserIdle, Message
  <1>2. CASE NextSector
    <2>1. sector' \in 0..(SectorIds - 1)
      BY <1>2 DEF NextSector
    <2>2. split' \in Splits /\ part' \in 0..Len(split')
      BY <1>2 DEF NextSector
    <2> QED
      BY <1>2, <2>1, <2>2 DEF NextSector, ParserIdle
  <1>3. CASE SendOther
    <2>1. PICK k \in {"alarm", "other"} : net' = Append(net, [kind |-> k])
      BY <1>3 DEF SendOther
    <2>2. [kind |-> k] \in Message
      BY DEF Other
    <2> HIDE DEF Message
    <2>3. net' \in Seq(Message)
      BY <2>1, <2>2 DEF Message
    <2> QED
      BY <1>3, <2>3 DEF SendOther, ParserIdle, Message
  <1>4. CASE Lose
    <2>1. PICK i \in DOMAIN net :
            net' = SubSeq(net, 1, i - 1) \o SubSeq(net, i + 1, Len(net))
      BY <1>4 DEF Lose
    <2> HIDE DEF Message
    <2>2. net \in Seq(Message)
      BY DEF Message
    <2>3. /\ SubSeq(net, 1, i - 1) \in Seq(Message)
          /\ SubSeq(net, i + 1, Len(net)) \in Seq(Message)
      BY ONLY <2>2, i \in DOMAIN net, SMT
    <2>4. net' \in Seq(Message)
      BY <2>1, <2>3
    <2>5. /\ UNCHANGED <<sector, split, part, partialSectorScanDataList,
                         validTimestamp, failed>>
          /\ published' = <<>>
          /\ trouble' \in {trouble, "network"}
      BY <1>4 DEF Lose, Disturb, ParserIdle
    <2> QED
      BY <2>4, <2>5 DEF Message
  <1>5. CASE Duplicate
    <2>1. PICK i \in DOMAIN net : net' = Append(net, net[i])
      BY <1>5 DEF Duplicate
    <2> HIDE DEF Message
    <2>2. net' \in Seq(Message)
      BY <2>1 DEF Message
    <2>3. /\ UNCHANGED <<sector, split, part, partialSectorScanDataList,
                         validTimestamp, failed>>
          /\ published' = <<>>
          /\ trouble' \in {trouble, "network"}
      BY <1>5 DEF Duplicate, Disturb, ParserIdle
    <2> QED
      BY <2>2, <2>3 DEF Message
  <1>6. CASE Spoil
    <2>1. PICK i \in DOMAIN net : /\ net[i].kind = "lidar"
                                  /\ net' = [net EXCEPT ![i].good = FALSE]
      BY <1>6 DEF Spoil
    <2>2. net[i] \in Lidar
      <3>1. net[i] \in Lidar \union Other
        OBVIOUS
      <3> QED
        BY ONLY <2>1, <3>1 DEF Other
    <2>3. [net[i] EXCEPT !.good = FALSE] \in Message
      BY <2>2 DEF Lidar
    <2>4. net' = [net EXCEPT ![i] = [net[i] EXCEPT !.good = FALSE]]
      BY <2>1
    <2> HIDE DEF Message
    <2>5. net' \in Seq(Message)
      BY <2>3, <2>4 DEF Message
    <2>6. /\ UNCHANGED <<sector, split, part, partialSectorScanDataList,
                         validTimestamp, failed>>
          /\ published' = <<>>
          /\ trouble' \in {trouble, "network"}
      BY <1>6 DEF Spoil, Disturb, ParserIdle
    <2> QED
      BY <2>5, <2>6 DEF Message
  <1>7. CASE ParseLidar
    <2>1. Head(net) \in Lidar
      BY <1>7, HeadIsLidar DEF ParseLidar, Receive
    <2> DEFINE current == parsePartialScan(Head(net))
               pushed == Append(partialSectorScanDataList, current)
    <2>2. PICK list \in {<<current>>, pushed} :
            /\ partialSectorScanDataList' \in {<<>>, list}
            /\ published' = <<>> \/ published' = list
      BY <1>7, <2>1, ParseStep DEF ParseLidar
    <2>3. current \in Partial
      BY <2>1 DEF Partial, parsePartialScan
    <2> HIDE DEF current
    <2>4. list \in Seq(Partial)
      <3>1. partialSectorScanDataList \in Seq(Partial)
        OBVIOUS
      <3> HIDE DEF TypeOK
      <3>2. <<current>> \in Seq(Partial) /\ pushed \in Seq(Partial)
        BY <2>3, <3>1
      <3> HIDE DEF pushed
      <3> QED
        BY <2>2, <3>2
    <2>5. partialSectorScanDataList' \in Seq(Partial) /\ published' \in Seq(Partial)
      <3> HIDE DEF TypeOK, pushed
      <3>1. <<>> \in Seq(Partial)
        OBVIOUS
      <3> QED
        BY <2>2, <2>4, <3>1
    <2>6. validTimestamp' \in BOOLEAN
      <3>1. validTimestamp' = TRUE
        BY <1>7, <2>1, ParseStep DEF ParseLidar
      <3> QED
        BY <3>1
    <2> HIDE DEF Message
    <2>7. net' \in Seq(Message)
      BY <1>7 DEF ParseLidar, Receive, Message
    <2> QED
      BY <1>7, <2>5, <2>6, <2>7 DEF ParseLidar, Receive, Message
  <1>8. CASE ParseAlarm \/ ParseOther
    <2> HIDE DEF Message
    <2>1. net' \in Seq(Message)
      <3>1. net \in Seq(Message) /\ net # <<>> /\ net' = Tail(net)
        BY <1>8 DEF ParseAlarm, ParseOther, Receive, Message
      <3> QED
        BY ONLY <3>1, SMT
    <2>2. failed' \in BOOLEAN
      <3>1. failed' = TRUE \/ failed' = failed
        BY <1>8 DEF ParseAlarm, ParseOther, ParserIdle
      <3> QED
        BY <3>1
    <2>3. published' = <<>>
      BY <1>8 DEF ParseAlarm, ParseOther, ParserIdle
    <2>4. UNCHANGED <<sector, split, part, trouble, partialSectorScanDataList,
                      validTimestamp>>
      BY <1>8 DEF ParseAlarm, ParseOther, Receive, ParserIdle
    <2> QED
      BY <2>1, <2>2, <2>3, <2>4 DEF Message
  <1>9. CASE Restart
    <2>1. sector' \in 0..(SectorIds - 1)
      BY <1>9 DEF Restart
    <2>2. split' \in Splits /\ part' \in 0..Len(split') /\ net' = <<>>
      BY <1>9 DEF Restart
    <2>3. validTimestamp' \in BOOLEAN
      <3>1. validTimestamp' = FALSE
        BY <1>9 DEF Restart
      <3> QED
        BY <3>1
    <2> QED
      BY <1>9, <2>1, <2>2, <2>3 DEF Restart
  <1>10. CASE UNCHANGED vars
    BY <1>10 DEF vars
  <1> QED
    BY <1>1, <1>2, <1>3, <1>4, <1>5, <1>6, <1>7, <1>8, <1>9, <1>10 DEF Next

\* Every variable keeps its type: what the network holds are datagrams, and
\* what the parser keeps and publishes are partial messages.
THEOREM TypeCorrect == Spec => []TypeOK
  <1>1. Init => TypeOK
    <2> SUFFICES ASSUME Init PROVE TypeOK
      OBVIOUS
    <2>1. sector \in 0..(SectorIds - 1)
      BY ParserAssumption DEF Init
    <2>2. split \in Splits /\ part \in 0..Len(split)
      BY ParserAssumption DEF Init
    <2>3. validTimestamp \in BOOLEAN /\ failed \in BOOLEAN
      BY DEF Init
    <2> QED
      BY <2>1, <2>2, <2>3 DEF Init, TypeOK
  <1> QED
    BY <1>1, TypeStep, PTL DEF Spec

-----------------------------------------------------------------------------
\* A message that fails its checksum is only ever the first of its list.
THEOREM CheckedAfterFirst == Spec => []BadOnlyFirst
  <1>1. Init => BadOnlyFirst
    BY DEF Init, BadOnlyFirst
  <1>2. TypeOK /\ BadOnlyFirst /\ [Next]_vars => BadOnlyFirst'
    <2> SUFFICES ASSUME TypeOK, BadOnlyFirst, [Next]_vars PROVE BadOnlyFirst'
      OBVIOUS
    <2>1. CASE ParseLidar
      <3>1. Head(net) \in Lidar
        BY <2>1, HeadIsLidar DEF ParseLidar, Receive
      <3> DEFINE current == parsePartialScan(Head(net))
                 pushed == Append(partialSectorScanDataList, current)
      <3>2. PICK list \in {<<current>>, pushed} :
              /\ list = pushed => Head(net).good \/ partialSectorScanDataList = <<>>
              /\ partialSectorScanDataList' \in {<<>>, list}
              /\ published' = <<>> \/ published' = list
        BY <2>1, <3>1, ParseStep DEF ParseLidar
      <3>3. \A i \in DOMAIN list : i > 1 => list[i].message.good
        <4>1. current.message = Head(net)
          BY DEF parsePartialScan
        <4> HIDE DEF current
        <4>2. CASE list = pushed
          BY <3>2, <4>1, <4>2 DEF TypeOK, BadOnlyFirst
        <4>3. CASE list = <<current>>
          BY <4>3
        <4> QED
          BY <4>2, <4>3
      <3> QED
        BY <3>2, <3>3 DEF BadOnlyFirst
    <2>2. CASE ~ParseLidar
      <3>1. /\ UNCHANGED partialSectorScanDataList
            /\ published' \in {<<>>, published}
        BY <2>2 DEF Next, SendPartial, NextSector, SendOther, Lose, Duplicate,
                    Spoil, ParseAlarm, ParseOther, Restart, vars, ParserIdle
      <3> QED
        BY <3>1 DEF BadOnlyFirst
    <2> QED
      BY <2>1, <2>2
  <1> QED
    BY <1>1, <1>2, TypeCorrect, PTL DEF Spec

-----------------------------------------------------------------------------
\* Until the driver is restarted, only the first message of a list can be
\* without a timestamp, and none is held before there is a time to stamp with.
StampInv ==
  trouble # "restart" =>
    /\ \A i \in DOMAIN partialSectorScanDataList :
         i > 1 => partialSectorScanDataList[i].stamped
    /\ ~validTimestamp => partialSectorScanDataList = <<>>

\* Unless the driver was restarted, points that arrived before there was a
\* timestamp for them are never published, whatever the network does.
THEOREM OnlyStamped == Spec => []UnstampedNotPublished
  <1> DEFINE Inv == StampInv /\ UnstampedNotPublished
  <1>1. Init => Inv
    BY DEF Init, StampInv, UnstampedNotPublished, Unstamped
  <1>2. TypeOK /\ Inv /\ [Next]_vars => Inv'
    <2> SUFFICES ASSUME TypeOK, Inv, [Next]_vars, trouble' # "restart" PROVE Inv'
      BY DEF StampInv, UnstampedNotPublished
    <2>1. CASE ParseLidar
      <3>1. Head(net) \in Lidar
        BY <2>1, HeadIsLidar DEF ParseLidar, Receive
      <3> DEFINE current == parsePartialScan(Head(net))
                 pushed == Append(partialSectorScanDataList, current)
      <3>2. PICK list \in {<<current>>, pushed} :
              /\ list = pushed => Head(net).good \/ partialSectorScanDataList = <<>>
              /\ partialSectorScanDataList' \in {<<>>, list}
              /\ \/ published' = <<>>
                 \/ published' = list /\ list[1].stamped
        <4>1. parseLidarDataFromBuffer(Head(net))
          BY <2>1 DEF ParseLidar
        <4> QED
          BY <3>1, <4>1, ParseStep, Zenon
      <3>3. validTimestamp' = TRUE /\ trouble # "restart"
        BY <2>1, <3>1, ParseStep DEF ParseLidar, Receive
      <3>4. current.stamped = validTimestamp
        BY DEF parsePartialScan
      <3> HIDE DEF current
      <3>5. \A i \in DOMAIN list : i > 1 => list[i].stamped
        <4>1. CASE list = <<current>>
          BY <4>1
        <4>2. CASE list = pushed
          BY <3>3, <3>4, <4>2 DEF TypeOK, StampInv
        <4> QED
          BY <4>1, <4>2
      <3>6. list \in Seq({list[i] : i \in DOMAIN list})
        BY DEF TypeOK
      <3>7. StampInv'
        BY <3>2, <3>3, <3>5 DEF StampInv
      <3>8. UnstampedNotPublished'
        BY <3>2, <3>5, <3>6 DEF UnstampedNotPublished, Unstamped
      <3> QED
        BY <3>7, <3>8
    <2>2. CASE ~ParseLidar
      <3>1. /\ UNCHANGED <<partialSectorScanDataList, validTimestamp>>
            /\ published' \in {<<>>, published}
            /\ trouble # "restart"
        BY <2>2 DEF Next, SendPartial, NextSector, SendOther, Lose, Duplicate,
                    Spoil, Disturb, ParseAlarm, ParseOther, Receive, Restart,
                    vars, ParserIdle
      <3> QED
        BY <3>1 DEF StampInv, UnstampedNotPublished, Unstamped
    <2> QED
      BY <2>1, <2>2
  <1> QED
    BY <1>1, <1>2, TypeCorrect, PTL DEF Spec

-----------------------------------------------------------------------------
(***************************************************************************)
(* Points held.  What the sums of the parser come to: a list holds as many *)
(* points as its messages have together, and none of them has more than    *)
(* its sector.                                                             *)
(***************************************************************************)
IsPart(m) == m.part \in DOMAIN m.split

LEMMA SplitNumbers ==
  ASSUME NEW m \in Lidar, IsPart(m)
  PROVE  /\ m.split \in Seq(Nat \ {0})
         /\ m.split[m.part] \in Nat
         /\ m.split[m.part] <= SumOf(m.split)
         /\ SumOf(m.split) \in Nat
  <1>1. m.split \in Seq(Nat \ {0})
    BY ParserAssumption DEF Lidar
  <1> HIDE DEF Lidar
  <1>2. m.split \in Seq(Nat) /\ m.split[m.part] \in Nat
    BY <1>1 DEF IsPart
  <1>3. m.split[m.part] <= SumOf(m.split)
    BY <1>1, SumOfPart DEF IsPart
  <1> QED
    BY <1>1, <1>2, <1>3, SumIsNat

LEMMA TotalIsNat ==
  ASSUME NEW list \in Seq(Partial), \A i \in DOMAIN list : IsPart(list[i].message)
  PROVE  /\ [i \in DOMAIN list |-> numPoints(list[i])] \in Seq(Nat)
         /\ getTotalPointsOfAllPartialScans(list) \in Nat
  <1>1. \A i \in DOMAIN list : list[i].message \in Lidar
    <2>1. \A i \in DOMAIN list : list[i] \in Partial
      OBVIOUS
    <2> QED
      BY <2>1 DEF Partial
  <1>2. \A i \in DOMAIN list : numPoints(list[i]) \in Nat
    BY <1>1, SplitNumbers DEF numPoints
  <1>3. Len(list) \in Nat /\ DOMAIN list = 1..Len(list)
    OBVIOUS
  <1>4. [i \in DOMAIN list |-> numPoints(list[i])] \in Seq(Nat)
    BY <1>2, <1>3
  <1> QED
    BY <1>4, SumIsNat DEF getTotalPointsOfAllPartialScans

LEMMA TotalOfOne ==
  ASSUME NEW p \in Partial, IsPart(p.message)
  PROVE  getTotalPointsOfAllPartialScans(<<p>>) = numPoints(p)
  <1>1. numPoints(p) \in Nat
    BY SplitNumbers DEF Partial, numPoints
  <1>2. [i \in DOMAIN <<p>> |-> numPoints(<<p>>[i])] = <<numPoints(p)>>
    <2> DEFINE n(x) == numPoints(x)
    <2> HIDE DEF n
    <2>1. [i \in DOMAIN <<p>> |-> n(<<p>>[i])] = <<n(p)>>
      OBVIOUS
    <2> QED
      BY <2>1 DEF n
  <1> QED
    BY <1>1, <1>2, SumOfOne DEF getTotalPointsOfAllPartialScans

LEMMA RemovedFrom ==
  ASSUME NEW C, NEW q \in Seq(C), NEW i \in DOMAIN q
  PROVE  LET rest == SubSeq(q, 1, i - 1) \o SubSeq(q, i + 1, Len(q))
         IN  \A k \in DOMAIN rest : \E j \in DOMAIN q : rest[k] = q[j]
  <1> DEFINE a == SubSeq(q, 1, i - 1)  b == SubSeq(q, i + 1, Len(q))
  <1>1. /\ a \in Seq(C) /\ Len(a) = i - 1
        /\ \A k \in 1..(i - 1) : a[k] = q[k] /\ k \in DOMAIN q
    OBVIOUS
  <1>2. /\ b \in Seq(C) /\ Len(b) = Len(q) - i
        /\ \A k \in 1..(Len(q) - i) : b[k] = q[k + i] /\ k + i \in DOMAIN q
    OBVIOUS
  <1> HIDE DEF a, b
  <1>3. ASSUME NEW k \in DOMAIN (a \o b)
        PROVE  \E j \in DOMAIN q : (a \o b)[k] = q[j]
    <2>1. CASE k <= Len(a)
      BY <1>1, <1>2, <2>1
    <2>2. CASE k > Len(a)
      <3>1. (a \o b)[k] = b[k - Len(a)] /\ k - Len(a) \in 1..(Len(q) - i)
        BY <1>1, <1>2, <2>2
      <3> QED
        BY <1>2, <3>1
    <2> QED
      BY <1>1, <1>2, <2>1, <2>2
  <1> QED
    BY <1>3 DEF a, b

\* HeldIsIncomplete does not depend on what the network did, only on every
\* message being one of its sector's.
HeldInv ==
  /\ \A i \in DOMAIN net : net[i].kind = "lidar" => IsPart(net[i])
  /\ \A i \in DOMAIN partialSectorScanDataList :
       IsPart(partialSectorScanDataList[i].message)
  /\ HeldIsIncomplete

LEMMA HeldParsed ==
  ASSUME \A s, t \in Splits : SumOf(s) = SumOf(t),
         TypeOK, HeldInv, NEW message \in Lidar, IsPart(message),
         parseLidarDataFromBuffer(message)
  PROVE  /\ \A i \in DOMAIN partialSectorScanDataList' :
              IsPart(partialSectorScanDataList'[i].message)
         /\ HeldIsIncomplete'
  <1> DEFINE current == parsePartialScan(message)
             pushed == Append(partialSectorScanDataList, current)
             corrupt == isScanCorrupt(pushed, current)
             list == IF corrupt THEN <<current>> ELSE pushed
             complete == isScanComplete(list, current)
             total(l) == getTotalPointsOfAllPartialScans(l)
  <1>1. partialSectorScanDataList' = IF complete THEN <<>> ELSE list
    BY DEF parseLidarDataFromBuffer
  <1>2. current \in Partial /\ current.message = message
    BY DEF Partial, parsePartialScan, TypeOK
  <1>3. partialSectorScanDataList \in Seq(Partial)
    BY DEF TypeOK
  <1>4. corrupt <=> total(pushed) > numPointsInSector(current) \/ ~message.good
    BY <1>2 DEF isScanCorrupt, doesChecksumMatch
  <1>5. complete <=> total(list) = numPointsInSector(current)
    BY DEF isScanComplete
  <1>6. numPoints(current) <= numPointsInSector(current)
        /\ numPoints(current) \in Nat /\ numPointsInSector(current) \in Nat
    BY <1>2, SplitNumbers DEF numPoints, numPointsInSector
  <1> HIDE DEF current, corrupt, complete
  <1>7. /\ pushed \in Seq(Partial) /\ <<current>> \in Seq(Partial)
        /\ pushed # <<>> /\ <<current>> # <<>>
    <2>1. current \in Partial
      BY <1>2
    <2> HIDE DEF Partial
    <2> QED
      BY <1>3, <2>1
  <1>8. \A l \in {pushed, <<current>>} : \A i \in DOMAIN l : IsPart(l[i].message)
    <2>1. \A i \in DOMAIN pushed : IsPart(pushed[i].message)
      BY <1>2, <1>3 DEF HeldInv
    <2>2. \A i \in DOMAIN <<current>> : IsPart(<<current>>[i].message)
      BY <1>2
    <2> QED
      BY <2>1, <2>2
  <1>9. total(pushed) \in Nat /\ total(<<current>>) \in Nat
    BY <1>7, <1>8, TotalIsNat
  <1>10. total(list) <= numPointsInSector(current)
    <2>1. CASE corrupt
      BY <1>2, <1>6, <2>1, TotalOfOne
    <2>2. CASE ~corrupt
      BY <1>4, <1>6, <1>9, <2>2
    <2> QED
      BY <2>1, <2>2
  <1> HIDE DEF pushed, total
  <1>11. ~complete => total(list) < numPointsInSector(current)
    BY <1>5, <1>6, <1>9, <1>10
  <1>12. numPointsInSector(list[1]) = numPointsInSector(current)
    <2>1. list \in Seq(Partial) /\ list # <<>>
      BY <1>7
    <2> HIDE DEF list
    <2>2. list[1] \in Partial
      BY <2>1
    <2> QED
      BY <1>2, <2>2 DEF numPointsInSector, Partial, Lidar
  <1> HIDE DEF list
  <1>13. ~complete => total(list) < numPointsInSector(list[1])
    BY <1>11, <1>12
  <1>14. HeldIsIncomplete'
    BY <1>1, <1>13 DEF HeldIsIncomplete, total
  <1>15. \A i \in DOMAIN partialSectorScanDataList' :
              IsPart(partialSectorScanDataList'[i].message)
    <2>1. \A i \in DOMAIN list : IsPart(list[i].message)
      BY <1>8 DEF list
    <2> QED
      BY <1>1, <2>1
  <1> QED
    BY <1>14, <1>15

\* Whatever is lost, doubled or reordered, or spoiled but for its counts, the
\* points held are fewer than a sector has, for sectors that all have the same
\* number of points.
THEOREM HeldFitsSector ==
  ASSUME \A s, t \in Splits : SumOf(s) = SumOf(t)
  PROVE  Spec => []HeldIsIncomplete
  <1>1. Init => HeldInv
    BY DEF Init, HeldInv, HeldIsIncomplete
  <1>2. TypeOK /\ HeldInv /\ [Next]_vars => HeldInv'
    <2> SUFFICES ASSUME TypeOK, HeldInv, [Next]_vars PROVE HeldInv'
      OBVIOUS
    <2> DEFINE NetOK == \A i \in DOMAIN net : net[i].kind = "lidar" => IsPart(net[i])
    <2>0. NetOK /\ net \in Seq(Lidar \union Other)
      BY DEF HeldInv, TypeOK
    <2>1. CASE ParseLidar
      <3>1. Head(net) \in Lidar /\ IsPart(Head(net))
        <4>1. Head(net) \in Lidar /\ net # <<>> /\ Head(net).kind = "lidar"
          BY <2>1, HeadIsLidar DEF ParseLidar, Receive
        <4>2. Head(net) = net[1] /\ 1 \in DOMAIN net
          BY <2>0, <4>1
        <4> QED
          BY <2>0, <4>1, <4>2
      <3>2. parseLidarDataFromBuffer(Head(net))
        BY <2>1 DEF ParseLidar
      <3>3. NetOK'
        BY <2>0, <2>1 DEF ParseLidar, Receive
      <3> QED
        BY <3>1, <3>2, <3>3, HeldParsed DEF HeldInv
    <2>2. CASE ~ParseLidar
      <3>1. UNCHANGED partialSectorScanDataList
        BY <2>2 DEF Next, SendPartial, NextSector, SendOther, Lose, Duplicate,
                    Spoil, ParseAlarm, ParseOther, Restart, vars, ParserIdle
      <3>2. NetOK'
        <4>1. CASE SendPartial
          <5> DEFINE m == [kind |-> "lidar", sector |-> sector, part |-> part + 1,
                           split |-> split, good |-> TRUE]
          <5>1. net' = Append(net, m)
            BY <4>1 DEF SendPartial
          <5>2. IsPart(m)
            <6>1. part + 1 \in 1..Len(split) /\ split \in Seq(Nat \ {0})
              BY <4>1, ParserAssumption DEF SendPartial, TypeOK
            <6> QED
              BY <6>1 DEF IsPart
          <5> HIDE DEF m
          <5> QED
            BY <2>0, <5>1, <5>2
        <4>2. CASE SendOther
          <5>1. PICK k \in {"alarm", "other"} : net' = Append(net, [kind |-> k])
            BY <4>2 DEF SendOther
          <5> QED
            BY <2>0, <5>1
        <4>3. CASE Lose
          <5>1. PICK i \in DOMAIN net :
                  net' = SubSeq(net, 1, i - 1) \o SubSeq(net, i + 1, Len(net))
            BY <4>3 DEF Lose
          <5>2. \A k \in DOMAIN net' : \E j \in DOMAIN net : net'[k] = net[j]
            BY <2>0, <5>1, RemovedFrom
          <5> QED
            BY <2>0, <5>2
        <4>4. CASE Duplicate
          <5>1. PICK i \in DOMAIN net : net' = Append(net, net[i])
            BY <4>4 DEF Duplicate
          <5> QED
            BY <2>0, <5>1
        <4>5. CASE Spoil
          <5>1. PICK i \in DOMAIN net : net' = [net EXCEPT ![i].good = FALSE]
            BY <4>5 DEF Spoil
          <5>2. \A k \in DOMAIN net :
                  /\ net'[k].kind = net[k].kind /\ net'[k].part = net[k].part
                  /\ net'[k].split = net[k].split
            BY <5>1
          <5> QED
            BY <2>0, <5>1, <5>2 DEF IsPart
        <4>6. CASE ParseAlarm \/ ParseOther
          BY <2>0, <4>6 DEF ParseAlarm, ParseOther, Receive
        <4>7. CASE Restart
          BY <4>7 DEF Restart
        <4>8. CASE NextSector \/ UNCHANGED vars
          BY <2>0, <4>8 DEF NextSector, vars
        <4> QED
          BY <2>2, <4>1, <4>2, <4>3, <4>4, <4>5, <4>6, <4>7, <4>8 DEF Next
      <3> QED
        BY <3>1, <3>2 DEF HeldInv, HeldIsIncomplete
    <2> QED
      BY <2>1, <2>2
  <1>3. HeldInv => HeldIsIncomplete
    BY DEF HeldInv
  <1> QED
    BY <1>1, <1>2, <1>3, TypeCorrect, PTL DEF Spec

-----------------------------------------------------------------------------
(***************************************************************************)
(* ScansAreSectors needs what is on its way: each partial message goes on  *)
(* where the one before it ended, be that still under way or on the list,  *)
(* and the last of them is where the sensor is.                            *)
(***************************************************************************)
Follows(m, n) ==
  \/ n.sector = m.sector /\ n.split = m.split /\ n.part = m.part + 1
  \/ m.part = Len(m.split) /\ n.part = 1

IsLidar(q, i) == q[i].kind = "lidar"

Sound(q) ==
  \A i \in DOMAIN q :
    IsLidar(q, i) => q[i].good /\ q[i].part \in 1..Len(q[i].split)

InOrder(q) ==
  \A i, j \in DOMAIN q :
    /\ i < j /\ IsLidar(q, i) /\ IsLidar(q, j)
    /\ \A k \in DOMAIN q : i < k /\ k < j => ~IsLidar(q, k)
    => Follows(q[i], q[j])

Newest(list) == list[Len(list)].message

FirstFits(list, q) ==
  \A j \in DOMAIN q :
    IsLidar(q, j) /\ (\A k \in DOMAIN q : k < j => ~IsLidar(q, k)) =>
      IF list = <<>> THEN q[j].part = 1 ELSE Follows(Newest(list), q[j])

\* The sensor, at part p of a sector s split as sp, has just sent m.
JustSent(m, s, sp, p) ==
  \/ m.sector = s /\ m.split = sp /\ m.part = p
  \/ m.part = Len(m.split) /\ p = 0

LastFits(list, q, s, sp, p) ==
  /\ \A i \in DOMAIN q :
       IsLidar(q, i) /\ (\A k \in DOMAIN q : k > i => ~IsLidar(q, k)) =>
         JustSent(q[i], s, sp, p)
  /\ (\A k \in DOMAIN q : ~IsLidar(q, k)) =>
       IF list = <<>> THEN p \in {0, Len(sp)}
                      ELSE JustSent(Newest(list), s, sp, p)

\* A list holds the first messages of one sector, but not all of them.
BeginsASector(list) ==
  /\ \A i \in DOMAIN list :
       /\ list[i].message.part = i
       /\ list[i].message.sector = list[1].message.sector
       /\ list[i].message.split = list[1].message.split
  /\ list # <<>> => Len(list) < Len(list[1].message.split)

OrderInv ==
  trouble = "none" =>
    /\ Sound(net) /\ InOrder(net)
    /\ FirstFits(partialSectorScanDataList, net)
    /\ LastFits(partialSectorScanDataList, net, sector, split, part)
    /\ BeginsASector(partialSectorScanDataList)

\* A message more at the end of the line.
LEMMA Sent ==
  ASSUME NEW C, NEW q \in Seq(C), NEW m \in C, NEW list, NEW s, NEW sp, NEW p,
         NEW p1,
         Sound(q), InOrder(q), FirstFits(list, q), LastFits(list, q, s, sp, p),
         m.kind = "lidar" =>
           /\ m.good /\ m.part \in 1..Len(m.split)
           /\ \A o : JustSent(o, s, sp, p) => Follows(o, m)
           /\ list = <<>> /\ p \in {0, Len(sp)} => m.part = 1
           /\ JustSent(m, s, sp, p1),
         m.kind # "lidar" => p1 = p
  PROVE  /\ Sound(Append(q, m)) /\ InOrder(Append(q, m))
         /\ FirstFits(list, Append(q, m))
         /\ LastFits(list, Append(q, m), s, sp, p1)
  <1> DEFINE n == Len(q) + 1  r == Append(q, m)
  <1>1. /\ Len(q) \in Nat /\ DOMAIN q = 1..Len(q) /\ DOMAIN r = 1..n
        /\ r[n] = m /\ \A i \in 1..Len(q) : r[i] = q[i]
        /\ n \in 1..n /\ \A i \in 1..n : i = n \/ i \in 1..Len(q)
        /\ \A i \in 1..Len(q) : i \in 1..n /\ i < n
    OBVIOUS
  <1> HIDE DEF r
  <1>2. \A i \in 1..Len(q) : IsLidar(r, i) <=> IsLidar(q, i)
    BY <1>1 DEF IsLidar
  <1>3. Sound(r)
    BY <1>1, <1>2 DEF Sound, IsLidar
  <1>4. InOrder(r)
    <2> SUFFICES ASSUME NEW i \in 1..n, NEW j \in 1..n, i < j,
                        IsLidar(r, i), IsLidar(r, j),
                        \A k \in 1..n : i < k /\ k < j => ~IsLidar(r, k)
                 PROVE  Follows(r[i], r[j])
      BY <1>1 DEF InOrder
    <2>1. i \in 1..Len(q) /\ IsLidar(q, i) /\ r[i] = q[i]
      BY <1>1, <1>2
    <2>2. CASE j \in 1..Len(q)
      <3>1. \A k \in 1..Len(q) : i < k /\ k < j => ~IsLidar(q, k)
        BY <1>1, <1>2
      <3>2. IsLidar(q, j) /\ r[j] = q[j]
        BY <1>1, <1>2, <2>2
      <3> QED
        BY <1>1, <2>1, <2>2, <3>1, <3>2 DEF InOrder
    <2>3. CASE j = n
      <3>1. \A k \in 1..Len(q) : k > i => ~IsLidar(q, k)
        BY <1>1, <1>2, <2>3
      <3>2. JustSent(q[i], s, sp, p)
        BY <1>1, <2>1, <3>1 DEF LastFits
      <3> QED
        BY <1>1, <2>1, <2>3, <3>2 DEF IsLidar
    <2> QED
      BY <1>1, <2>2, <2>3
  <1>5. FirstFits(list, r)
    <2> SUFFICES ASSUME NEW j \in 1..n, IsLidar(r, j),
                        \A k \in 1..n : k < j => ~IsLidar(r, k)
                 PROVE  IF list = <<>> THEN r[j].part = 1
                        ELSE Follows(Newest(list), r[j])
      BY <1>1 DEF FirstFits
    <2>1. CASE j \in 1..Len(q)
      <3>1. \A k \in 1..Len(q) : k < j => ~IsLidar(q, k)
        BY <1>1, <1>2
      <3>2. IsLidar(q, j) /\ r[j] = q[j]
        BY <1>1, <1>2, <2>1
      <3> QED
        BY <1>1, <2>1, <3>1, <3>2 DEF FirstFits
    <2>2. CASE j = n
      <3>1. \A k \in 1..Len(q) : ~IsLidar(q, k)
        BY <1>1, <1>2, <2>2
      <3>2. IF list = <<>> THEN p \in {0, Len(sp)}
                           ELSE JustSent(Newest(list), s, sp, p)
        BY <1>1, <3>1 DEF LastFits
      <3> QED
        BY <1>1, <2>2, <3>2 DEF IsLidar
    <2> QED
      BY <1>1, <2>1, <2>2
  <1>6. LastFits(list, r, s, sp, p1)
    <2>1. CASE m.kind = "lidar"
      <3>1. ASSUME NEW i \in 1..n, \A k \in 1..n : k > i => ~IsLidar(r, k)
            PROVE  i = n
        BY <1>1, <2>1, <3>1 DEF IsLidar
      <3>2. IsLidar(r, n)
        BY <1>1, <2>1 DEF IsLidar
      <3> QED
        BY <1>1, <2>1, <3>1, <3>2 DEF LastFits
    <2>2. CASE m.kind # "lidar"
      <3>1. ~IsLidar(r, n)
        BY <1>1, <2>2 DEF IsLidar
      <3>2. ASSUME NEW i \in 1..n, IsLidar(r, i),
                   \A k \in 1..n : k > i => ~IsLidar(r, k)
            PROVE  JustSent(r[i], s, sp, p)
        <4>1. i \in 1..Len(q) /\ IsLidar(q, i) /\ r[i] = q[i]
          BY <1>1, <1>2, <3>1, <3>2
        <4>2. \A k \in 1..Len(q) : k > i => ~IsLidar(q, k)
          BY <1>1, <1>2, <3>2
        <4> QED
          BY <1>1, <4>1, <4>2 DEF LastFits
      <3>3. ASSUME \A k \in 1..n : ~IsLidar(r, k)
            PROVE  IF list = <<>> THEN p \in {0, Len(sp)}
                                  ELSE JustSent(Newest(list), s, sp, p)
        <4>1. \A k \in 1..Len(q) : ~IsLidar(q, k)
          BY <1>1, <1>2, <3>3
        <4> QED
          BY <1>1, <4>1 DEF LastFits
      <3> QED
        BY <1>1, <2>2, <3>2, <3>3 DEF LastFits
    <2> QED
      BY <2>1, <2>2
  <1> QED
    BY <1>3, <1>4, <1>5, <1>6 DEF r

\* A message taken from the line: none but a partial one changes the list, and
\* that one becomes its newest or completes it.
LEMMA Taken ==
  ASSUME NEW C, NEW q \in Seq(C), q # <<>>, NEW list, NEW new,
         NEW s, NEW sp, NEW p,
         Sound(q), InOrder(q), FirstFits(list, q), LastFits(list, q, s, sp, p),
         IF IsLidar(q, 1)
         THEN IF new = <<>> THEN q[1].part = Len(q[1].split)
                            ELSE Newest(new) = q[1]
         ELSE new = list
  PROVE  /\ Sound(Tail(q)) /\ InOrder(Tail(q)) /\ FirstFits(new, Tail(q))
         /\ LastFits(new, Tail(q), s, sp, p)
  <1> DEFINE n == Len(q) - 1  r == Tail(q)
  <1>1. /\ Len(q) \in Nat /\ DOMAIN q = 1..Len(q) /\ DOMAIN r = 1..n
        /\ \A i \in 1..n : r[i] = q[i + 1] /\ i + 1 \in 1..Len(q)
        /\ 1 \in 1..Len(q)
        /\ \A k \in 1..Len(q) : k = 1 \/ (k - 1 \in 1..n /\ (k - 1) + 1 = k)
    OBVIOUS
  <1> HIDE DEF r
  <1>2. \A i \in 1..n : IsLidar(r, i) <=> IsLidar(q, i + 1)
    BY <1>1 DEF IsLidar
  <1>3. Sound(r)
    BY <1>1, <1>2 DEF Sound
  <1>4. InOrder(r)
    <2> SUFFICES ASSUME NEW i \in 1..n, NEW j \in 1..n, i < j,
                        IsLidar(r, i), IsLidar(r, j),
                        \A k \in 1..n : i < k /\ k < j => ~IsLidar(r, k)
                 PROVE  Follows(r[i], r[j])
      BY <1>1 DEF InOrder
    <2>1. \A k \in 1..Len(q) : i + 1 < k /\ k < j + 1 => ~IsLidar(q, k)
      <3> SUFFICES ASSUME NEW k \in 1..Len(q), i + 1 < k, k < j + 1
                   PROVE  ~IsLidar(q, k)
        OBVIOUS
      <3>1. k - 1 \in 1..n /\ i < k - 1 /\ k - 1 < j /\ (k - 1) + 1 = k
        BY <1>1
      <3>2. ~IsLidar(r, k - 1)
        BY <3>1
      <3> QED
        BY <1>2, <3>1, <3>2
    <2>2. /\ i + 1 \in 1..Len(q) /\ j + 1 \in 1..Len(q) /\ i + 1 < j + 1
          /\ IsLidar(q, i + 1) /\ IsLidar(q, j + 1)
      BY <1>1, <1>2
    <2> QED
      BY <1>1, <2>1, <2>2 DEF InOrder
  <1>5. FirstFits(new, r)
    <2> SUFFICES ASSUME NEW j \in 1..n, IsLidar(r, j),
                        \A k \in 1..n : k < j => ~IsLidar(r, k)
                 PROVE  IF new = <<>> THEN r[j].part = 1
                        ELSE Follows(Newest(new), r[j])
      BY <1>1 DEF FirstFits
    <2>1. \A k \in 1..Len(q) : 1 < k /\ k < j + 1 => ~IsLidar(q, k)
      <3> SUFFICES ASSUME NEW k \in 1..Len(q), 1 < k, k < j + 1
                   PROVE  ~IsLidar(q, k)
        OBVIOUS
      <3>1. k - 1 \in 1..n /\ k - 1 < j /\ (k - 1) + 1 = k
        BY <1>1
      <3>2. ~IsLidar(r, k - 1)
        BY <3>1
      <3> QED
        BY <1>2, <3>1, <3>2
    <2>2. /\ j + 1 \in 1..Len(q) /\ IsLidar(q, j + 1) /\ r[j] = q[j + 1]
          /\ 1 < j + 1
      BY <1>1, <1>2
    <2>3. CASE IsLidar(q, 1)
      <3>1. Follows(q[1], q[j + 1])
        BY <1>1, <2>1, <2>2, <2>3 DEF InOrder
      <3>2. q[j + 1].part \in 1..Len(q[j + 1].split)
        BY <1>1, <2>2 DEF Sound
      <3>3. CASE new = <<>>
        <4>1. q[1].part = Len(q[1].split)
          BY <2>3, <3>3
        <4> QED
          BY <2>2, <3>1, <3>2, <3>3, <4>1 DEF Follows
      <3>4. CASE new # <<>>
        BY <2>2, <2>3, <3>1, <3>4
      <3> QED
        BY <3>3, <3>4
    <2>4. CASE ~IsLidar(q, 1)
      <3>1. \A k \in 1..Len(q) : k < j + 1 => ~IsLidar(q, k)
        BY <1>1, <2>1, <2>4
      <3> QED
        BY <1>1, <2>2, <2>4, <3>1 DEF FirstFits
    <2> QED
      BY <2>3, <2>4
  <1>6. LastFits(new, r, s, sp, p)
    <2>1. ASSUME NEW i \in 1..n, IsLidar(r, i),
                 \A k \in 1..n : k > i => ~IsLidar(r, k)
          PROVE  JustSent(r[i], s, sp, p)
      <3>1. \A k \in 1..Len(q) : k > i + 1 => ~IsLidar(q, k)
        <4> SUFFICES ASSUME NEW k \in 1..Len(q), k > i + 1
                     PROVE  ~IsLidar(q, k)
          OBVIOUS
        <4>1. k - 1 \in 1..n /\ k - 1 > i /\ (k - 1) + 1 = k
          BY <1>1
        <4>2. ~IsLidar(r, k - 1)
          BY <2>1, <4>1
        <4> QED
          BY <1>2, <4>1, <4>2
      <3> QED
        BY <1>1, <1>2, <2>1, <3>1 DEF LastFits
    <2>2. ASSUME \A k \in 1..n : ~IsLidar(r, k)
          PROVE  IF new = <<>> THEN p \in {0, Len(sp)}
                               ELSE JustSent(Newest(new), s, sp, p)
      <3>1. \A k \in 1..Len(q) : k > 1 => ~IsLidar(q, k)
        <4> SUFFICES ASSUME NEW k \in 1..Len(q), k > 1
                     PROVE  ~IsLidar(q, k)
          OBVIOUS
        <4>1. k - 1 \in 1..n /\ (k - 1) + 1 = k
          BY <1>1
        <4> QED
          BY <1>2, <2>2, <4>1
      <3>2. CASE IsLidar(q, 1)
        <4>1. JustSent(q[1], s, sp, p)
          BY <1>1, <3>1, <3>2 DEF LastFits
        <4> QED
          BY <3>2, <4>1 DEF JustSent
      <3>3. CASE ~IsLidar(q, 1)
        <4>1. \A k \in 1..Len(q) : ~IsLidar(q, k)
          BY <1>1, <3>1, <3>3
        <4> QED
          BY <1>1, <3>3, <4>1 DEF LastFits
      <3> QED
        BY <3>2, <3>3
    <2> QED
      BY <1>1, <2>1, <2>2 DEF LastFits
  <1> QED
    BY <1>3, <1>4, <1>5, <1>6 DEF r

\* What the parser makes of the message that goes on where its list ends.
LEMMA PartParsed ==
  ASSUME TypeOK, NEW message \in Lidar, message.good,
         message.part \in 1..Len(message.split),
         BeginsASector(partialSectorScanDataList),
         IF partialSectorScanDataList = <<>> THEN message.part = 1
         ELSE Follows(Newest(partialSectorScanDataList), message),
         parseLidarDataFromBuffer(message)
  PROVE  /\ published' # <<>> => OneSector(published')
         /\ BeginsASector(partialSectorScanDataList')
         /\ IF partialSectorScanDataList' = <<>>
            THEN message.part = Len(message.split)
            ELSE Newest(partialSectorScanDataList') = message
  <1> DEFINE old == partialSectorScanDataList
             sp == message.split
             current == parsePartialScan(message)
             pushed == Append(old, current)
             corrupt == isScanCorrupt(pushed, current)
             list == IF corrupt THEN <<current>> ELSE pushed
             complete == isScanComplete(list, current)
             n == Len(pushed)
  <1>1. /\ partialSectorScanDataList' = IF complete THEN <<>> ELSE list
        /\ published' = IF complete THEN createAndPublishCompleteScan(list)
                                    ELSE <<>>
    BY DEF parseLidarDataFromBuffer
  <1>2. current \in Partial /\ current.message = message
    BY DEF Partial, parsePartialScan, TypeOK
  <1>3. old \in Seq(Partial)
    BY DEF TypeOK
  <1>4. /\ corrupt <=> getTotalPointsOfAllPartialScans(pushed) > SumOf(sp)
        /\ complete <=> getTotalPointsOfAllPartialScans(list) = SumOf(sp)
    BY <1>2 DEF isScanCorrupt, isScanComplete, doesChecksumMatch, numPointsInSector
  <1> HIDE DEF current, corrupt, complete
  <1>5. /\ pushed \in Seq(Partial) /\ pushed # <<>> /\ n = Len(old) + 1
        /\ n \in Nat /\ DOMAIN pushed = 1..n /\ pushed[n] = current
        /\ \A i \in 1..n : i # n => i \in DOMAIN old /\ pushed[i] = old[i]
        /\ DOMAIN old = 1..Len(old) /\ Len(old) \in Nat
        /\ old # <<>> => Len(old) \in DOMAIN old /\ 1 \in DOMAIN old
    <2> HIDE DEF Partial, old
    <2>1. current \in Partial
      BY <1>2
    <2>2. /\ pushed \in Seq(Partial) /\ n = Len(old) + 1
          /\ pushed[Len(old) + 1] = current
          /\ Len(old) \in Nat /\ DOMAIN old = 1..Len(old)
      BY <1>3, <2>1
    <2>3. \A i \in 1..Len(old) : pushed[i] = old[i]
      BY <1>3, <2>1
    <2>4. old # <<>> => Len(old) # 0
      BY <1>3
    <2> HIDE DEF pushed
    <2> QED
      BY <2>2, <2>3, <2>4
  <1> HIDE DEF pushed
  <1>6. sp \in Seq(Nat \ {0}) /\ Len(sp) \in Nat /\ SumOf(sp) \in Nat
    <2>1. sp \in Seq(Nat \ {0})
      BY ParserAssumption DEF Lidar
    <2> HIDE DEF sp
    <2> QED
      BY <2>1, SumIsNat
  <1>7. /\ message.part = n
        /\ \A i \in 1..n : /\ pushed[i].message.part = i
                           /\ pushed[i].message.sector = message.sector
                           /\ pushed[i].message.split = sp
    <2>1. CASE old = <<>>
      <3>1. n = 1
        BY <1>5, <2>1
      <3> QED
        BY <1>2, <1>5, <2>1, <3>1
    <2>2. CASE old # <<>>
      <3>1. Follows(old[Len(old)].message, message)
        BY <2>2 DEF Newest
      <3>2. /\ old[Len(old)].message.part = Len(old)
            /\ old[Len(old)].message.sector = old[1].message.sector
            /\ old[Len(old)].message.split = old[1].message.split
            /\ Len(old) < Len(old[1].message.split)
        BY <1>5, <2>2 DEF BeginsASector
      <3>3. /\ message.part = Len(old) + 1 /\ message.sector = old[1].message.sector
            /\ sp = old[1].message.split
        BY <1>5, <3>1, <3>2 DEF Follows
      <3>4. \A i \in DOMAIN old : /\ old[i].message.part = i
                                  /\ old[i].message.sector = message.sector
                                  /\ old[i].message.split = sp
        BY <3>3 DEF BeginsASector
      <3>5. ASSUME NEW i \in 1..n
            PROVE  /\ pushed[i].message.part = i
                   /\ pushed[i].message.sector = message.sector
                   /\ pushed[i].message.split = sp
        <4>1. CASE i = n
          BY <1>2, <1>5, <3>3, <4>1
        <4>2. CASE i # n
          BY <1>5, <3>4, <4>2
        <4> QED
          BY <4>1, <4>2
      <3> QED
        BY <1>5, <3>3, <3>5
    <2> QED
      BY <2>1, <2>2
  <1>8. n <= Len(sp) /\ 1 \in 1..n /\ n \in 1..n
    BY <1>5, <1>6, <1>7
  <1> DEFINE points == [i \in DOMAIN pushed |-> numPoints(pushed[i])]
  <1>9. /\ points \in Seq(Nat) /\ Len(points) = n
        /\ \A i \in 1..n : points[i] = sp[i]
    <2>1. \A i \in DOMAIN pushed : numPoints(pushed[i]) = sp[i]
      BY <1>5, <1>7 DEF numPoints
    <2>2. \A i \in 1..n : sp[i] \in Nat
      BY <1>6, <1>8
    <2> QED
      BY <1>5, <2>1, <2>2
  <1>10. getTotalPointsOfAllPartialScans(pushed) = SumOf(points)
    BY DEF getTotalPointsOfAllPartialScans
  <1> HIDE DEF points
  <1>11. SumOf(points) \in Nat
    BY <1>9, SumIsNat
  <1>12. OneSector(pushed) \/ n # Len(sp)
    BY <1>5, <1>7, <1>8 DEF OneSector
  <1>13. CASE n < Len(sp)
    <2>1. SumOf(points) < SumOf(sp)
      BY <1>6, <1>9, <1>13, SumOfPrefix
    <2>2. ~corrupt
      BY <1>4, <1>6, <1>10, <1>11, <2>1
    <2>3. ~complete
      BY <1>4, <1>6, <1>10, <1>11, <2>1, <2>2
    <2>4. partialSectorScanDataList' = pushed /\ published' = <<>>
      BY <1>1, <2>2, <2>3
    <2>5. BeginsASector(pushed)
      BY <1>5, <1>7, <1>8, <1>13 DEF BeginsASector
    <2>6. Newest(pushed) = message
      BY <1>2, <1>5 DEF Newest
    <2> QED
      BY <1>5, <2>4, <2>5, <2>6
  <1>14. CASE n = Len(sp)
    <2>1. points = sp
      <3> HIDE DEF sp, n
      <3> QED
        BY <1>6, <1>9, <1>14
    <2>2. ~corrupt
      BY <1>4, <1>6, <1>10, <2>1
    <2>3. complete
      BY <1>4, <1>6, <1>10, <2>1, <2>2
    <2>4. partialSectorScanDataList' = <<>> /\ published' \in {<<>>, pushed}
      BY <1>1, <2>2, <2>3 DEF createAndPublishCompleteScan
    <2>5. BeginsASector(<<>>)
      BY DEF BeginsASector
    <2> QED
      BY <1>7, <1>12, <1>14, <2>4, <2>5
  <1> QED
    BY <1>6, <1>8, <1>13, <1>14

LEMMA OrderStep ==
  ASSUME TypeOK, OrderInv, [Next]_vars, trouble' = "none"
  PROVE  OrderInv' /\ (ScansAreSectors => ScansAreSectors')
  <1> DEFINE list == partialSectorScanDataList
             Message == Lidar \union Other
  <1>1. ~(Lose \/ Duplicate \/ Spoil \/ Restart) /\ trouble = "none"
    BY DEF Next, SendPartial, NextSector, SendOther, Lose, Duplicate, Spoil,
           Disturb, ParseLidar, ParseAlarm, ParseOther, Receive, Restart, vars
  <1>2. /\ Sound(net) /\ InOrder(net) /\ FirstFits(list, net)
        /\ LastFits(list, net, sector, split, part) /\ BeginsASector(list)
    BY <1>1 DEF OrderInv
  <1>3. net \in Seq(Message)
    BY DEF TypeOK
  <1>4. part \in 0..Len(split) /\ Len(split) \in Nat
    BY ParserAssumption DEF TypeOK
  <1> HIDE DEF Message
  <1>5. SUFFICES /\ Sound(net') /\ InOrder(net') /\ FirstFits(list', net')
                 /\ LastFits(list', net', sector', split', part')
                 /\ BeginsASector(list')
                 /\ ScansAreSectors => ScansAreSectors'
    <2>1. OrderInv'
      BY <1>5 DEF OrderInv, Sound, InOrder, FirstFits, LastFits, BeginsASector,
                  IsLidar, Newest
    <2> QED
      BY <1>5, <2>1
  <1>6. CASE SendPartial
    <2> DEFINE m == [kind |-> "lidar", sector |-> sector, part |-> part + 1,
                     split |-> split, good |-> TRUE]
    <2>1. /\ net' = Append(net, m) /\ part' = part + 1 /\ part < Len(split)
          /\ UNCHANGED <<sector, split, partialSectorScanDataList>>
          /\ published' = <<>>
      BY <1>6 DEF SendPartial, ParserIdle
    <2>2. m \in Message
      BY <1>4, ParserAssumption DEF Message, Lidar, TypeOK
    <2>3. /\ m.kind = "lidar" /\ m.good /\ m.part = part + 1 /\ m.split = split
          /\ m.sector = sector
      OBVIOUS
    <2> HIDE DEF m
    <2>4. /\ m.part \in 1..Len(m.split)
          /\ \A o : JustSent(o, sector, split, part) => Follows(o, m)
          /\ list = <<>> /\ part \in {0, Len(split)} => m.part = 1
          /\ JustSent(m, sector, split, part + 1)
      BY <1>4, <2>1, <2>3 DEF JustSent, Follows
    <2>5. /\ Sound(Append(net, m)) /\ InOrder(Append(net, m))
          /\ FirstFits(list, Append(net, m))
          /\ LastFits(list, Append(net, m), sector, split, part + 1)
      BY <1>2, <1>3, <2>2, <2>3, <2>4, Sent
    <2> QED
      BY <1>2, <2>1, <2>5 DEF ScansAreSectors
  <1>7. CASE NextSector
    <2>1. /\ UNCHANGED <<net, partialSectorScanDataList>> /\ published' = <<>>
          /\ part = Len(split) /\ part' = 0
      BY <1>7 DEF NextSector, ParserIdle
    <2>2. \A o : JustSent(o, sector, split, part)
                   => JustSent(o, sector', split', 0)
      BY <2>1 DEF JustSent
    <2>3. LastFits(list, net, sector', split', 0)
      BY <1>2, <2>2 DEF LastFits
    <2> QED
      BY <1>2, <2>1, <2>3 DEF ScansAreSectors
  <1>8. CASE SendOther
    <2>1. PICK k \in {"alarm", "other"} : net' = Append(net, [kind |-> k])
      BY <1>8 DEF SendOther
    <2>2. /\ UNCHANGED <<sector, split, part, partialSectorScanDataList>>
          /\ published' = <<>>
      BY <1>8 DEF SendOther, ParserIdle
    <2> DEFINE m == [kind |-> k]
    <2>3. m \in Message /\ m.kind # "lidar"
      BY DEF Message, Other
    <2> HIDE DEF m
    <2>4. /\ Sound(Append(net, m)) /\ InOrder(Append(net, m))
          /\ FirstFits(list, Append(net, m))
          /\ LastFits(list, Append(net, m), sector, split, part)
      BY <1>2, <1>3, <2>3, Sent
    <2> QED
      BY <1>2, <2>1, <2>2, <2>4 DEF ScansAreSectors, m
  <1>9. CASE ParseLidar
    <2>1. /\ net # <<>> /\ net' = Tail(net) /\ Head(net).kind = "lidar"
          /\ UNCHANGED <<sector, split, part>>
          /\ parseLidarDataFromBuffer(Head(net))
      BY <1>9 DEF ParseLidar, Receive
    <2>2. Head(net) = net[1] /\ 1 \in DOMAIN net /\ \A k \in DOMAIN net : ~(k < 1)
      BY <1>3, <2>1
    <2>3. IsLidar(net, 1) /\ Head(net) \in Lidar
      BY <2>1, <2>2, HeadIsLidar DEF IsLidar
    <2>4. Head(net).good /\ Head(net).part \in 1..Len(Head(net).split)
      BY <1>2, <2>2, <2>3 DEF Sound
    <2>5. IF list = <<>> THEN Head(net).part = 1 ELSE Follows(Newest(list), Head(net))
      BY <1>2, <2>2, <2>3 DEF FirstFits
    <2>6. /\ published' # <<>> => OneSector(published')
          /\ BeginsASector(list')
          /\ IF list' = <<>> THEN Head(net).part = Len(Head(net).split)
                             ELSE Newest(list') = Head(net)
      BY <1>2, <2>1, <2>3, <2>4, <2>5, PartParsed
    <2> DEFINE new == list'
    <2>7. IF new = <<>> THEN net[1].part = Len(net[1].split)
                        ELSE Newest(new) = net[1]
      BY <2>2, <2>6
    <2> HIDE DEF new
    <2>8. /\ Sound(Tail(net)) /\ InOrder(Tail(net)) /\ FirstFits(new, Tail(net))
          /\ LastFits(new, Tail(net), sector, split, part)
      BY <1>2, <1>3, <2>1, <2>3, <2>7, Taken
    <2>9. ScansAreSectors'
      BY <2>6 DEF ScansAreSectors, OneSector
    <2> QED
      BY <2>1, <2>6, <2>8, <2>9 DEF new
  <1>10. CASE ParseAlarm \/ ParseOther
    <2>1. /\ net # <<>> /\ net' = Tail(net) /\ Head(net).kind # "lidar"
          /\ UNCHANGED <<sector, split, part, partialSectorScanDataList>>
          /\ published' = <<>>
      BY <1>10 DEF ParseAlarm, ParseOther, Receive, ParserIdle
    <2>2. Head(net) = net[1]
      BY <1>3, <2>1
    <2>3. ~IsLidar(net, 1)
      BY <2>1, <2>2 DEF IsLidar
    <2>4. /\ Sound(Tail(net)) /\ InOrder(Tail(net)) /\ FirstFits(list, Tail(net))
          /\ LastFits(list, Tail(net), sector, split, part)
      BY <1>2, <1>3, <2>1, <2>3, Taken
    <2> QED
      BY <1>2, <2>1, <2>4 DEF ScansAreSectors
  <1>11. CASE UNCHANGED vars
    BY <1>2, <1>11 DEF vars, ScansAreSectors, OneSector
  <1> QED
    BY <1>1, <1>6, <1>7, <1>8, <1>9, <1>10, <1>11 DEF Next

\* As long as nothing was lost, doubled or spoiled and the driver was not
\* restarted, a published scan is one whole sector, in the order sent.
THEOREM SectorsWhole == Spec => []ScansAreSectors
  <1> DEFINE Inv == OrderInv /\ ScansAreSectors
  <1>1. Init => Inv
    BY DEF Init, OrderInv, Sound, InOrder, FirstFits, LastFits, BeginsASector,
           ScansAreSectors
  <1>2. TypeOK /\ Inv /\ [Next]_vars => Inv'
    <2> SUFFICES ASSUME TypeOK, Inv, [Next]_vars PROVE Inv'
      OBVIOUS
    <2>1. CASE trouble' = "none"
      BY <2>1, OrderStep
    <2>2. CASE trouble' # "none"
      BY <2>2 DEF OrderInv, ScansAreSectors
    <2> QED
      BY <2>1, <2>2
  <1> QED
    BY <1>1, <1>2, TypeCorrect, PTL DEF Spec
=============================================================================
