----------------------------- MODULE FrameParser -----------------------------
(***************************************************************************)
(* How Pro::Driver finds data frames among the bytes of the serial line:   *)
(* serialUpdateThreadFunction and parseSensorDataFromBuffer, byte by byte  *)
(* but to scale.  A frame is two header bytes, a count, its points and a   *)
(* checksum, one byte each where the code has two (the start angle is left *)
(* out); a point has one byte without intensity and two with it, for two   *)
(* and three.  Between frames the sensor sends text.  The sensor and the   *)
(* line are external.  A thread that writes past ScanData ends the model.  *)
(***************************************************************************)
EXTENDS Naturals, Sequences, Sums

CONSTANTS
  Top,        \* bytes are 0..Top
  H1, H2,     \* the header bytes, 0xce and 0xfa
  Char,       \* bytes of text
  ST, ED,     \* the first and last byte of a status block ("ST....ED")
  Texts,      \* texts the sensor may send
  Payloads,   \* points the sensor may send
  MaxPoints,  \* MAX_NUMBER_OF_POINTS_FROM_SENSOR
  BufferSize, \* SERIAL_MESSAGE_DATA_BUFFER_SIZE
  None,       \* no scan
  MaxWire     \* bound on bytes sent and not read

Byte == 0..Top
Overhead == 4  \* the bytes of a frame that are not points; 8 in the code
Widths == {1, 2}

ASSUME FrameAssumption ==
  /\ Top \in Nat /\ H1 \in Byte /\ H2 \in Byte
  /\ Char \subseteq Byte \ {H1, H2} /\ ST \in Char /\ ED \in Char
  /\ Texts \subseteq Seq(Char) /\ Payloads \subseteq Seq(Byte)
  /\ None \notin Seq(Byte)
  /\ MaxPoints \in 1..Top /\ BufferSize \in Nat /\ MaxWire \in Nat
  /\ Overhead + 2 * MaxPoints <= BufferSize

VARIABLES
  wire,        \* bytes sent and not read
  sensorWidth, \* bytes of the points the sensor sends
  width,       \* those the driver expects: sensorConfiguration.intensity
  buffer,      \* serialPortDataBuffer, up to its length, from idx on
  phase,       \* where the update thread is
  scan,        \* the points the last step gave to onScanDataReceived, or None
  disturbed    \* history: since a clean start something went wrong

vars == <<wire, sensorWidth, width, buffer, phase, scan, disturbed>>

TypeOK ==
  /\ wire \in Seq(Byte) /\ Len(wire) <= MaxWire
  /\ sensorWidth \in Widths /\ width \in Widths
  /\ buffer \in Seq(Byte) /\ Len(buffer) <= BufferSize
  /\ phase \in {"read", "search", "frames", "overrun"}
  /\ scan \in Seq(Byte) \union {None}
  /\ disturbed \in BOOLEAN

Init ==
  /\ wire = <<>> /\ buffer = <<>>
  /\ sensorWidth \in Widths /\ width \in Widths
  /\ phase = "read"
  /\ scan = None
  /\ disturbed = (width # sensorWidth)

Sum(count, points) == (count + SumOf(points)) % (Top + 1)

Frame(points, w) ==
  <<H1, H2, Len(points) \div w>> \o points
    \o <<Sum(Len(points) \div w, points)>>

DropFirst(n, s) == SubSeq(s, n + 1, Len(s))

(***************************************************************************)
(* The sensor and the line, external                                       *)
(***************************************************************************)
Send(bytes) ==
  /\ Len(wire) + Len(bytes) <= MaxWire
  /\ wire' = wire \o bytes
  /\ scan' = None
  /\ UNCHANGED <<sensorWidth, width, buffer, phase, disturbed>>

SendFrame ==
  \E p \in Payloads :
    /\ Len(p) % sensorWidth = 0 /\ Len(p) <= MaxPoints * sensorWidth
    /\ Send(Frame(p, sensorWidth))

SendText == \E t \in Texts : Send(t)

\* One byte at a time, and none while an earlier trouble lasts.
Spoil ==
  /\ ~disturbed
  /\ \E i \in DOMAIN wire, b \in Byte : wire' = [wire EXCEPT ![i] = b]
  /\ disturbed' = TRUE
  /\ scan' = None
  /\ UNCHANGED <<sensorWidth, width, buffer, phase>>

SensorSwitches ==
  /\ sensorWidth' \in Widths \ {sensorWidth}
  /\ disturbed' = TRUE
  /\ scan' = None
  /\ UNCHANGED <<wire, width, buffer, phase>>

(***************************************************************************)
(* The application thread                                                  *)
(***************************************************************************)
\* The driver expects the other width from here on, whether or not the sensor
\* took the command and whatever is still to be parsed.
enableIntensityData ==
  /\ width' \in Widths \ {width}
  /\ disturbed' = TRUE
  /\ scan' = None
  /\ UNCHANGED <<wire, sensorWidth, buffer, phase>>

\* stop() and start(): the thread has ended, and begins with an empty buffer.
Restart ==
  /\ phase = "read"
  /\ buffer' = <<>>
  /\ disturbed' = (wire # <<>> \/ width # sensorWidth)
  /\ scan' = None
  /\ UNCHANGED <<wire, sensorWidth, width, phase>>

(***************************************************************************)
(* The update thread                                                       *)
(***************************************************************************)
\* Mutant: the read is not told what the buffer already holds.
ReadForgetsLength ==
  /\ phase = "read"
  /\ \E n \in 1..BufferSize \intersect DOMAIN wire :
       /\ buffer' = buffer \o SubSeq(wire, 1, n)
       /\ wire' = DropFirst(n, wire)
  /\ phase' = "search"
  /\ scan' = None
  /\ UNCHANGED <<sensorWidth, width, disturbed>>

\* Whatever has arrived and there is room for.  Nothing is parsed when nothing
\* was read.
Read ==
  /\ phase = "read"
  /\ \E n \in 1..(BufferSize - Len(buffer)) \intersect DOMAIN wire :
       /\ buffer' = buffer \o SubSeq(wire, 1, n)
       /\ wire' = DropFirst(n, wire)
  /\ phase' = "search"
  /\ scan' = None
  /\ UNCHANGED <<sensorWidth, width, disturbed>>

IsBlock(i) == buffer[i] = ST /\ buffer[i + Overhead - 1] = ED

\* past is the byte behind the data, left by an earlier read.
IsHeader(i, past) ==
  buffer[i] = H1 /\ H2 = IF i < Len(buffer) THEN buffer[i + 1] ELSE past

\* Where the search for a header ends.  A status block is stepped over without
\* a look at what is left, and then one more byte is.
Search(past) ==
  LET from[i \in 1..(Len(buffer) + 1)] ==
        IF i + Overhead > Len(buffer) THEN [at |-> i, found |-> FALSE]
        ELSE LET j == IF IsBlock(i) THEN i + Overhead ELSE i
             IN  IF IsHeader(j, past) THEN [at |-> j, found |-> TRUE]
                                      ELSE from[j + 1]
  IN  from[1]

\* Mutants: the text is given to the parser of replies and kept, or consumed
\* with the bytes in which a header may have begun.
KeepText ==
  /\ phase = "search"
  /\ \E past \in Byte :
       LET end == Search(past)
       IN  /\ buffer' = IF end.found THEN DropFirst(end.at - 1, buffer) ELSE buffer
           /\ phase' = IF end.found THEN "frames" ELSE "read"
           /\ disturbed' = (disturbed \/ end.at > Len(buffer))
  /\ scan' = None
  /\ UNCHANGED <<wire, sensorWidth, width>>

DropText ==
  /\ phase = "search"
  /\ \E past \in Byte :
       LET end == Search(past)
       IN  /\ buffer' = IF end.found THEN DropFirst(end.at - 1, buffer) ELSE <<>>
           /\ phase' = IF end.found THEN "frames" ELSE "read"
           /\ UNCHANGED disturbed
  /\ scan' = None
  /\ UNCHANGED <<wire, sensorWidth, width>>

\* What stands before the header, or may stand before one, is text and goes to
\* the parser of replies.  A block that ends one byte before the data does
\* takes that byte with it, also when it is half a header.
SkipText ==
  /\ phase = "search"
  /\ \E past \in Byte :
       LET end == Search(past)
       IN  /\ buffer' = DropFirst(end.at - 1, buffer)
           /\ phase' = IF end.found THEN "frames" ELSE "read"
           /\ disturbed' = (disturbed \/ (/\ end.at > Len(buffer)
                                          /\ buffer[Len(buffer)] = H1))
  /\ scan' = None
  /\ UNCHANGED <<wire, sensorWidth, width>>

Count == buffer[3]
Size == Overhead + Count * width
Whole == Len(buffer) >= Overhead /\ Len(buffer) >= Size

\* Mutant: only the header of a frame is stepped over.
TakeHeader ==
  /\ phase = "frames" /\ Whole /\ Count <= MaxPoints
  /\ LET points == SubSeq(buffer, 4, Size - 1)
         rest == DropFirst(3, buffer)
     IN  /\ scan' = IF buffer[Size] = Sum(Count, points) THEN points ELSE None
         /\ buffer' = rest
         /\ phase' = IF Len(rest) >= Overhead /\ rest[1] = H1 /\ rest[2] = H2
                     THEN "frames" ELSE "read"
  /\ UNCHANGED <<wire, sensorWidth, width, disturbed>>

\* A frame is handed on if its checksum matches, and stepped over in any case.
TakeFrame ==
  /\ phase = "frames" /\ Whole /\ Count <= MaxPoints
  /\ LET points == SubSeq(buffer, 4, Size - 1)
         rest == DropFirst(Size, buffer)
     IN  /\ scan' = IF buffer[Size] = Sum(Count, points) THEN points ELSE None
         /\ buffer' = rest
         /\ phase' = IF Len(rest) >= Overhead /\ rest[1] = H1 /\ rest[2] = H2
                     THEN "frames" ELSE "read"
  /\ UNCHANGED <<wire, sensorWidth, width, disturbed>>

\* The rest of the frame is waited for.
AwaitFrame ==
  /\ phase = "frames" /\ ~Whole
  /\ phase' = "read"
  /\ scan' = None
  /\ UNCHANGED <<wire, sensorWidth, width, buffer, disturbed>>

\* The points are stored before the checksum is looked at, however many.
Overrun ==
  /\ phase = "frames" /\ Whole /\ Count > MaxPoints
  /\ phase' = "overrun"
  /\ scan' = None
  /\ UNCHANGED <<wire, sensorWidth, width, buffer, disturbed>>

-----------------------------------------------------------------------------
Next ==
  /\ phase # "overrun"
  /\ \/ SendFrame \/ SendText \/ Spoil \/ SensorSwitches
     \/ enableIntensityData \/ Restart
     \/ Read \/ SkipText \/ TakeFrame \/ AwaitFrame \/ Overrun

Spec == Init /\ [][Next]_vars

-----------------------------------------------------------------------------
(***************************************************************************)
(* Properties                                                              *)
(***************************************************************************)
Deaf == phase = "read" /\ Len(buffer) = BufferSize

\* What is consumed is text, or one whole frame handed on as it was sent.
ConsumesTextOrFrame ==
  LET consumed == SubSeq(buffer, 1, Len(buffer) - Len(buffer'))
  IN  \/ consumed \in Seq(Char)
      \/ scan' # None /\ consumed = Frame(scan', width)

\* However reads cut the bytes, the update thread consumes nothing but text, or
\* one whole frame that it hands on as sent: until a byte was spoiled, the width
\* switched, the driver started over unread bytes, or a header cut behind a
\* status block.  A start over a quiet line makes everything good again.
NothingLost ==
  [][phase # "read" /\ ~disturbed' /\ Len(buffer') < Len(buffer)
       => ConsumesTextOrFrame]_vars

\* Whatever arrives, the buffer fills up, so that nothing is read any more,
\* only behind a header whose count is too large for it at some width.
DeafOnlyToOversize ==
  Deaf => /\ IsHeader(1, H2)
          /\ Overhead + 2 * Count > BufferSize

\* Bytes of points may look like a header with any count: while nothing has
\* been disturbed they are never taken for one, so that the thread neither
\* writes past ScanData nor goes deaf.
NeverMisled == ~disturbed => phase # "overrun" /\ ~Deaf
=============================================================================
