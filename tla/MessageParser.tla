--------------------------- MODULE MessageParser ---------------------------
(***************************************************************************)
(* ProE::internal::MessageParser: partial messages, one per datagram, are  *)
(* collected until they hold as many points as their sector has, and then  *)
(* handed on as one complete message.  The sensor and the network between  *)
(* it and the parser are external: datagrams may be lost, duplicated and   *)
(* so reordered, or fail the checksum.  Nothing is modelled after the      *)
(* process has ended.                                                      *)
(***************************************************************************)
EXTENDS Naturals, Sequences, Sums

CONSTANTS
  Splits,    \* how a sector's points may be split over messages
  SectorIds, \* sectors are numbered modulo SectorIds
  Lossy,     \* does the network lose, duplicate and spoil datagrams?
  Restarts,  \* may the driver be stopped and started again?
  Alarms,    \* may the sensor send an alarm, and messages of other kinds?
  MaxNet     \* bound on datagrams under way

ASSUME ParserAssumption ==
  /\ Splits \subseteq Seq(Nat \ {0})
  /\ SectorIds \in Nat \ {0}
  /\ Lossy \in BOOLEAN /\ Restarts \in BOOLEAN /\ Alarms \in BOOLEAN
  /\ MaxNet \in Nat

VARIABLES
  sector, split, part,      \* the sensor: sector, its split, messages sent of it
  net,                      \* datagrams under way
  partialSectorScanDataList,
  validTimestamp,           \* lastGeneratedTimestamp.validTimestamp
  published,                \* the scan the last step handed on, <<>> if none
  failed,                   \* an exception left the update thread
  trouble                   \* history: what, if anything, has gone wrong so far

vars == <<sector, split, part, net, partialSectorScanDataList, validTimestamp,
          published, failed, trouble>>

\* Nothing reaches the parser, and so nothing is handed on.
ParserIdle ==
  /\ published' = <<>>
  /\ UNCHANGED <<partialSectorScanDataList, validTimestamp, failed>>

\* A partial message; stamped is what generateTimestamp gives it on arrival.
Lidar == [kind : {"lidar"}, sector : Nat, part : Nat, split : Splits,
          good : BOOLEAN]
Partial == [message : Lidar, stamped : BOOLEAN]
Other == [kind : {"alarm", "other"}]

TypeOK ==
  /\ sector \in 0..(SectorIds - 1)
  /\ split \in Splits
  /\ part \in 0..Len(split)
  /\ net \in Seq(Lidar \union Other)
  /\ partialSectorScanDataList \in Seq(Partial)
  /\ validTimestamp \in BOOLEAN
  /\ published \in Seq(Partial)
  /\ failed \in BOOLEAN
  /\ trouble \in {"none", "network", "restart"}

Init ==
  /\ sector = 0 /\ split \in Splits /\ part = 0
  /\ net = <<>>
  /\ partialSectorScanDataList = <<>>
  /\ validTimestamp = FALSE
  /\ published = <<>>
  /\ failed = FALSE
  /\ trouble = "none"

(***************************************************************************)
(* The sensor and the network, external                                    *)
(***************************************************************************)
SendPartial ==
  /\ ~failed
  /\ part < Len(split)
  /\ Len(net) < MaxNet
  /\ part' = part + 1
  /\ net' = Append(net, [kind |-> "lidar", sector |-> sector, part |-> part + 1,
                         split |-> split, good |-> TRUE])
  /\ ParserIdle
  /\ UNCHANGED <<sector, split, trouble>>

NextSector ==
  /\ ~failed
  /\ part = Len(split)
  /\ sector' = (sector + 1) % SectorIds
  /\ split' \in Splits
  /\ part' = 0
  /\ ParserIdle
  /\ UNCHANGED <<net, trouble>>

SendOther ==
  /\ ~failed
  /\ Alarms
  /\ Len(net) < MaxNet
  /\ \E k \in {"alarm", "other"} : net' = Append(net, [kind |-> k])
  /\ ParserIdle
  /\ UNCHANGED <<sector, split, part, trouble>>

Disturb == trouble' = IF trouble = "restart" THEN trouble ELSE "network"

Lose ==
  /\ ~failed
  /\ Lossy
  /\ \E i \in DOMAIN net :
       net' = SubSeq(net, 1, i - 1) \o SubSeq(net, i + 1, Len(net))
  /\ Disturb
  /\ ParserIdle
  /\ UNCHANGED <<sector, split, part>>

Duplicate ==
  /\ ~failed
  /\ Lossy
  /\ Len(net) < MaxNet
  /\ \E i \in DOMAIN net : net' = Append(net, net[i])
  /\ Disturb
  /\ ParserIdle
  /\ UNCHANGED <<sector, split, part>>

\* Spoiled bytes fail the checksum; the counts of points are taken to be spared.
Spoil ==
  /\ ~failed
  /\ Lossy
  /\ \E i \in DOMAIN net :
       /\ net[i].kind = "lidar"
       /\ net' = [net EXCEPT ![i].good = FALSE]
  /\ Disturb
  /\ ParserIdle
  /\ UNCHANGED <<sector, split, part>>

(***************************************************************************)
(* The parser                                                              *)
(***************************************************************************)
numPoints(p) == p.message.split[p.message.part]
numPointsInSector(p) == SumOf(p.message.split)
getTotalPointsOfAllPartialScans(list) ==
  SumOf([i \in DOMAIN list |-> numPoints(list[i])])

\* The fields are copied, and the message gets the time at which the one before
\* it arrived, if the parser saw one since it was reset.
parsePartialScan(message) == [message |-> message, stamped |-> validTimestamp]

doesChecksumMatch(current) == current.message.good

\* Mutants: the checksum, or the number of points, is not looked at.
CorruptIgnoresChecksum(list, current) ==
  getTotalPointsOfAllPartialScans(list) > numPointsInSector(current)

CorruptIgnoresSize(list, current) == ~doesChecksumMatch(current)

\* A message too many, or a bad checksum, makes the whole list start again
\* from that message.
isScanCorrupt(list, current) ==
  \/ getTotalPointsOfAllPartialScans(list) > numPointsInSector(current)
  \/ ~doesChecksumMatch(current)

isScanComplete(list, current) ==
  getTotalPointsOfAllPartialScans(list) = numPointsInSector(current)

\* What is handed on: nothing if the first message came before there was a time
\* for it ("the information from the first revolution").
createAndPublishCompleteScan(list) == IF list[1].stamped THEN list ELSE <<>>

\* Mutants: the last message's timestamp is looked at; a message without a
\* timestamp is dropped at once; the messages are published without
\* their timestamps.
StampOfLast(message) ==
  LET current == parsePartialScan(message)
      pushed == Append(partialSectorScanDataList, current)
      list == IF isScanCorrupt(pushed, current) THEN <<current>> ELSE pushed
      complete == isScanComplete(list, current)
  IN  /\ validTimestamp' = TRUE
      /\ partialSectorScanDataList' = IF complete THEN <<>> ELSE list
      /\ published' = IF complete /\ current.stamped THEN list ELSE <<>>

DropsUnstamped(message) ==
  LET current == parsePartialScan(message)
      pushed == IF validTimestamp THEN Append(partialSectorScanDataList, current)
                ELSE partialSectorScanDataList
      list == IF isScanCorrupt(pushed, current) THEN <<current>> ELSE pushed
      complete == isScanComplete(list, current)
  IN  /\ validTimestamp' = TRUE
      /\ partialSectorScanDataList' = IF complete THEN <<>> ELSE list
      /\ published' = IF complete THEN createAndPublishCompleteScan(list)
                                  ELSE <<>>

PublishesBare(message) ==
  LET current == parsePartialScan(message)
      pushed == Append(partialSectorScanDataList, current)
      list == IF isScanCorrupt(pushed, current) THEN <<current>> ELSE pushed
      complete == isScanComplete(list, current)
  IN  /\ validTimestamp' = TRUE
      /\ partialSectorScanDataList' = IF complete THEN <<>> ELSE list
      /\ published' = IF complete /\ list[1].stamped
                    THEN [i \in DOMAIN list |-> list[i].message] ELSE <<>>

parseLidarDataFromBuffer(message) ==
  LET current == parsePartialScan(message)
      pushed == Append(partialSectorScanDataList, current)
      list == IF isScanCorrupt(pushed, current) THEN <<current>> ELSE pushed
      complete == isScanComplete(list, current)
  IN  /\ validTimestamp' = TRUE
      /\ partialSectorScanDataList' = IF complete THEN <<>> ELSE list
      /\ published' = IF complete THEN createAndPublishCompleteScan(list)
                                  ELSE <<>>

Receive(kind) ==
  /\ ~failed
  /\ net # <<>> /\ Head(net).kind = kind
  /\ net' = Tail(net)
  /\ UNCHANGED <<sector, split, part, trouble>>

ParseLidar ==
  /\ Receive("lidar")
  /\ parseLidarDataFromBuffer(Head(net))
  /\ UNCHANGED failed

\* Nothing catches the exception: it ends the process.
ParseAlarm ==
  /\ Receive("alarm")
  /\ failed' = TRUE
  /\ published' = <<>>
  /\ UNCHANGED <<partialSectorScanDataList, validTimestamp>>

ParseOther ==
  /\ Receive("other")
  /\ ParserIdle

\* ProE::Driver::stop and start: the sensor stops wherever it is and begins a
\* new sector, what was under way is read and dropped by the waits for replies,
\* and the parser is reset, which forgets only the timestamp.
Restart ==
  /\ Restarts /\ ~failed
  /\ sector' = (sector + 1) % SectorIds
  /\ split' \in Splits
  /\ part' = 0
  /\ net' = <<>>
  /\ validTimestamp' = FALSE
  /\ trouble' = "restart"
  /\ published' = <<>>
  /\ UNCHANGED <<partialSectorScanDataList, failed>>

Next ==
  \/ SendPartial \/ NextSector \/ SendOther
  \/ Lose \/ Duplicate \/ Spoil
  \/ ParseLidar \/ ParseAlarm \/ ParseOther \/ Restart

Spec == Init /\ [][Next]_vars

-----------------------------------------------------------------------------
(***************************************************************************)
(* Properties                                                              *)
(***************************************************************************)
\* Whatever the network does, only the first message of a list, and of a
\* published scan, may be one that failed the checksum.
BadOnlyFirst ==
  \A list \in {partialSectorScanDataList, published} :
    \A i \in DOMAIN list : i > 1 => list[i].message.good

Unstamped == \E i \in DOMAIN published : ~published[i].stamped

\* Unless the driver was restarted, the points that arrived before there was a
\* timestamp for them are never published, whatever the network does.
UnstampedNotPublished == trouble # "restart" => ~Unstamped

\* "We will not ship the information from the first revolution, as it will not
\* have a valid timestamp": nor after a restart.
NeverUnstamped == ~Unstamped

\* Whatever was lost or came twice, the points held are fewer than a sector
\* has: the list can still be completed, and never grows past a sector.
\* (For sectors that all have the same number of points, and counts of points
\* that arrive as sent.)
HeldIsIncomplete ==
  partialSectorScanDataList # <<>> =>
    getTotalPointsOfAllPartialScans(partialSectorScanDataList)
      < numPointsInSector(partialSectorScanDataList[1])

OneSector(scan) ==
  \A i \in DOMAIN scan :
    /\ scan[i].message.part = i
    /\ scan[i].message.sector = scan[1].message.sector
    /\ Len(scan[i].message.split) = Len(scan)

\* As long as nothing is lost, doubled or spoiled and the driver is not
\* restarted, a published scan is one sector: all its messages, each once, in
\* the order sent.
ScansAreSectors == trouble = "none" /\ published # <<>> => OneSector(published)
=============================================================================
