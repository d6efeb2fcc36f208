----------------------------- MODULE ProDriver -----------------------------
(***************************************************************************)
(* Pro::Driver, the driver of the serial sensor, with the base Driver's    *)
(* update thread and the SerialPort under it.  One application thread runs *)
(* the public calls (connect, start, stop, close, the setters), each cut   *)
(* at every point where the update thread or the sensor can get in         *)
(* between; the update thread reads and parses; the sensor is external.    *)
(* A reply is the type it acknowledges, a data frame is Frame; a wait may  *)
(* time out at any moment, so no clock is modelled.                        *)
(***************************************************************************)
EXTENDS Naturals, Sequences

CONSTANTS
  Bauds,          \* baud rates of ports and sensors
  Probed,         \* BaudRates::All, in the order autoFindBaudRate tries it
  AutoRate,       \* BaudRates::Auto
  Closed,         \* SerialPort's hPort = 0
  Unset,          \* a handle whose rate and read timeout are not set (yet)
  None,           \* the argument of a command that takes none
  FailedHandles,  \* what hPort may hold after a failed open
  SettingOrder,   \* the settings start() sends, in order
  Values,         \* values of a setting
  Configurations, \* settings an application may pass to connect
  Ops,            \* the calls this application makes
  EagerRebaud,    \* may setBaudRate come before runUpdateThread is first set?
  RateMayFail,    \* may the port run at another rate than it was told to?
  Lossy,          \* may a written command or a reply be lost?
  RetryLimit,     \* retries of changeBaudRate, 5 in the code
  MaxResend,      \* bound on the resends of one command
  MaxQueue,       \* bound on commands the sensor has not handled
  MaxWire,        \* bound on tokens received and not read
  MaxFrames       \* bound on updateThreadFrameCount

Setting == {"INTENSITY", "DATASMOOTHING", "DRAGPOINTREMOVAL", "SPEED"}
Settings == {SettingOrder[i] : i \in DOMAIN SettingOrder}
MessageType == Setting \union {"STOP", "START", "BAUDRATE"}
Frame == "FRAME"
Token == MessageType \union {Frame}
Command == [type : Settings, arg : Values]
             \union [type : {"BAUDRATE"}, arg : Bauds]
             \union [type : {"STOP", "START"}, arg : {None}]
Public == {"connect", "start", "stop", "close", "set", "setBaudRate"}

ASSUME ConstantsAssumption ==
  /\ AutoRate \notin Bauds /\ Closed \notin Bauds /\ Unset \notin Bauds
  /\ Closed # Unset
  /\ Probed \in Seq(Bauds) \ {<<>>}
  /\ SettingOrder \in Seq(Setting)
  /\ FailedHandles \subseteq {Closed, Unset}
  /\ Configurations \subseteq [Settings -> Values]
  /\ Ops \subseteq Public
  /\ EagerRebaud \in BOOLEAN /\ RateMayFail \in BOOLEAN /\ Lossy \in BOOLEAN
  /\ RetryLimit \in Nat /\ MaxResend \in Nat
  /\ MaxQueue \in Nat /\ MaxWire \in Nat /\ MaxFrames \in Nat

VARIABLES
  pc,         \* where the application thread is
  call,       \* the public call it is in, "none" outside; "restart" is
              \* setBaudRate once it has found the update thread running
  rebaud,     \* setBaudRate's argument
  snd,        \* the command being sent
  tries,      \* resends of it, or changeBaudRate's retryCount
  sent,       \* settings start() has sent
  probed,     \* rates autoFindBaudRate has tried
  probe,      \* autoFindBaudRate: "none", "trying" or "found"
  closing,    \* stop() was called by close()
  started,    \* what the application knows: its last start() returned
  cfg,        \* sensorConfiguration: its baud rate and its settings
  run,        \* runUpdateThread
  written,    \* runUpdateThread has been assigned (no constructor does)
  thread,     \* the update thread
  flag,       \* sensorReturnMessageState
  rx,         \* serialPortDataBuffer
  frameCount, \* updateThreadFrameCount: scans handed to the callback
  hPort,      \* the handle, known by the baud rate asked for when it was opened
  tty,        \* the rate the serial line runs at, kept while it is closed
  clean,      \* history: at the last probing open no reply to a STOP came in
              \* between the flush and the change of rate, which took effect
  cmds,       \* commands on their way to the sensor
  wire,       \* tokens received by the operating system and not read
  sensor      \* the sensor: its baud rate, its settings, whether it spins

portVars == <<hPort, tty, clean>>
loopVars == <<thread, flag, rx, frameCount>>
lineVars == <<cmds, wire, sensor>>
appVars == <<pc, call, rebaud, snd, tries, sent, probed, probe, closing,
             started, cfg, run, written, portVars>>
vars == <<appVars, loopVars, lineVars>>

CallTypeOK ==
  /\ pc \in {"idle", "probeNext", "open", "start", "send", "wait",
             "nextSetting", "stop", "join", "close", "closePort",
             "reopen", "reopening", "setRate", "terminated"}
  /\ call \in Public \union {"restart", "none"}
  /\ rebaud \in Bauds \union {None}
  /\ snd \in Command
  /\ tries \in Nat
  /\ sent \in 0..Len(SettingOrder)
  /\ probed \in 0..Len(Probed)
  /\ probe \in {"none", "trying", "found"}
  /\ closing \in BOOLEAN
  /\ started \in BOOLEAN

DriverTypeOK ==
  /\ cfg \in [baud : Bauds \union {AutoRate}, set : [Settings -> Values]]
  /\ run \in BOOLEAN
  /\ written \in BOOLEAN
  /\ thread \in {"none", "loop", "read", "parse", "exited"}
  /\ hPort \in Bauds \union {Closed, Unset}
  /\ tty \in Bauds
  /\ clean \in BOOLEAN

BufferTypeOK ==
  /\ flag \in [MessageType -> BOOLEAN]
  /\ rx \in Seq(Token)
  /\ frameCount \in 0..MaxFrames

LineTypeOK ==
  /\ cmds \in Seq(Command)
  /\ wire \in Seq(Token)
  /\ sensor \in [baud : Bauds, set : [Settings -> Values], spinning : BOOLEAN]

TypeOK == CallTypeOK /\ DriverTypeOK /\ BufferTypeOK /\ LineTypeOK

Cmd(t, a) == [type |-> t, arg |-> a]
Stopping == Cmd("STOP", None)

Init ==
  /\ pc = "idle" /\ call = "none"
  /\ rebaud = None /\ snd = Stopping /\ tries = 0 /\ sent = 0
  /\ probed = 0 /\ probe = "none"
  /\ closing = FALSE /\ started = FALSE
  /\ cfg \in [baud : {AutoRate}, set : Configurations]
  /\ run \in BOOLEAN /\ written = FALSE   \* no constructor assigns it
  /\ thread = "none"
  /\ flag = [t \in MessageType |-> FALSE]
  /\ rx = <<>> /\ frameCount = 0
  /\ hPort = Closed /\ tty \in Bauds /\ clean = FALSE
  /\ cmds = <<>> /\ wire = <<>>
  /\ sensor \in [baud : Bauds, set : Configurations, spinning : BOOLEAN]

(***************************************************************************)
(* SerialPort                                                              *)
(***************************************************************************)
\* The rate of an open port, whatever the handle was opened for.
LineRate == IF hPort = Closed THEN Closed ELSE tty

\* A command written at the sensor's rate reaches it; a full queue or a lossy
\* line drops it.
Write(rate, c) ==
  \/ /\ rate = sensor.baud
     /\ Len(cmds) < MaxQueue
     /\ cmds' = Append(cmds, c)
  \/ /\ rate # sensor.baud \/ Lossy
     /\ UNCHANGED cmds

\* open() sets the attributes first, which flushes what was received (TCSAFLUSH)
\* but leaves the line at the rate it had, ...
OpenFlushes ==
  /\ pc \in {"open", "reopening"}
  /\ hPort' = Unset
  /\ wire' = <<>>
  /\ pc' = "setRate"
  /\ UNCHANGED <<call, rebaud, snd, tries, sent, probed, probe, closing,
                 started, cfg, run, written, tty, clean, loopVars, cmds, sensor>>

\* ... then the rate, by ioctls that do not flush and whose results are ignored:
\* what arrives in between stays, and the line may run at another rate.
RateSet(b) ==
  /\ hPort' = b
  /\ tty' = b \/ (RateMayFail /\ tty' \in Bauds)

\* ::open fails, or the attributes cannot be read or set (and perhaps flushed).
FailedOpen ==
  /\ hPort' \in FailedHandles
  /\ wire' \in {wire, <<>>}

\* SerialPort::close flushes, too.
ClosedPort ==
  /\ hPort' = Closed
  /\ wire' = <<>>

(***************************************************************************)
(* connect and autoFindBaudRate                                            *)
(***************************************************************************)
Return == pc' = "idle" /\ call' = "none"

Connect(b, s) ==
  /\ pc = "idle" /\ "connect" \in Ops
  /\ ~started
  /\ cfg' = [baud |-> b, set |-> s]
  /\ call' = "connect"
  /\ probed' = 0
  /\ IF b = AutoRate THEN pc' = "probeNext" /\ probe' = "trying"
                 ELSE pc' = "open" /\ probe' = "none"
  /\ UNCHANGED <<rebaud, snd, tries, sent, closing, started, run, written,
                 portVars, loopVars, lineVars>>

\* The loop over BaudRates::All; when it is exhausted connect throws.
ProbeNext ==
  /\ pc = "probeNext"
  /\ IF probed < Len(Probed)
     THEN /\ probed' = probed + 1
          /\ cfg' = [cfg EXCEPT !.baud = Probed[probed + 1]]
          /\ pc' = "open"
          /\ UNCHANGED <<call, probe>>
     ELSE /\ Return
          /\ probe' = "none"
          /\ UNCHANGED <<probed, cfg>>
  /\ UNCHANGED <<rebaud, snd, tries, sent, closing, started, run, written,
                 portVars, loopVars, lineVars>>

Stopless(text) == \A i \in 1..Len(text) : text[i] # "STOP"

OpenSucceeds ==
  /\ pc = "setRate" /\ call = "connect"
  /\ RateSet(cfg.baud)
  /\ Write(tty', Stopping)
  /\ IF probe = "trying"
     THEN /\ pc' = "start"
          /\ clean' = (Stopless(wire) /\ tty' = cfg.baud)
          /\ UNCHANGED call
     ELSE Return /\ UNCHANGED clean
  /\ UNCHANGED <<rebaud, snd, tries, sent, probed, probe, closing, started,
                 cfg, run, written, loopVars, wire, sensor>>

OpenFails ==
  /\ pc = "open"
  /\ FailedOpen
  /\ Return
  /\ probe' = "none"
  /\ UNCHANGED <<rebaud, snd, tries, sent, probed, closing, started, cfg,
                 run, written, tty, clean, loopVars, cmds, sensor>>

(***************************************************************************)
(* start                                                                   *)
(***************************************************************************)
Start ==
  /\ pc = "idle" /\ "start" \in Ops
  /\ ~started
  /\ call' = "start"
  /\ pc' = "start"
  /\ UNCHANGED <<rebaud, snd, tries, sent, probed, probe, closing, started,
                 cfg, run, written, portVars, loopVars, lineVars>>

\* Mutant: start() keeps what is left in the buffer.
LaunchThreadKeepsBuffer ==
  /\ pc = "start" /\ hPort # Closed
  /\ UNCHANGED rx
  /\ run' = TRUE /\ written' = TRUE
  /\ frameCount' = 0
  /\ sent' = 0
  /\ snd' = Cmd("START", None)
  /\ IF thread = "none" THEN thread' = "loop" /\ pc' = "send"
                        ELSE pc' = "terminated" /\ UNCHANGED thread
  /\ UNCHANGED <<call, rebaud, tries, probed, probe, closing, started, cfg,
                 flag, portVars, lineVars>>

\* Assigning to a joinable std::thread ends the process.
LaunchThread ==
  /\ pc = "start" /\ hPort # Closed
  /\ rx' = <<>>
  /\ run' = TRUE /\ written' = TRUE
  /\ frameCount' = 0
  /\ sent' = 0
  /\ snd' = Cmd("START", None)
  /\ IF thread = "none" THEN thread' = "loop" /\ pc' = "send"
                        ELSE pc' = "terminated" /\ UNCHANGED thread
  /\ UNCHANGED <<call, rebaud, tries, probed, probe, closing, started, cfg,
                 flag, portVars, lineVars>>

StartThrows ==
  /\ pc = "start" /\ hPort = Closed
  /\ rx' = <<>>
  /\ Return
  /\ started' = FALSE
  /\ UNCHANGED <<rebaud, snd, tries, sent, probed, probe, closing, cfg, run,
                 written, thread, flag, frameCount, portVars, lineVars>>

\* What follows the settings of start(): the call that started returns, or
\* autoFindBaudRate asks for the reply that tells it the rate is right.
NextSetting ==
  /\ pc = "nextSetting"
  /\ IF sent < Len(SettingOrder)
     THEN LET t == SettingOrder[sent + 1]
          IN  /\ sent' = sent + 1
              /\ snd' = Cmd(t, cfg.set[t])
              /\ pc' = "send"
              /\ UNCHANGED <<call, started, cfg>>
     ELSE IF call = "connect"
     THEN /\ snd' = Stopping
          /\ pc' = "send"
          /\ UNCHANGED <<call, sent, started, cfg>>
     ELSE /\ started' = (started \/ call = "start")
          /\ cfg' = IF call = "restart" THEN [cfg EXCEPT !.baud = rebaud]
                                        ELSE cfg
          /\ Return
          /\ UNCHANGED <<sent, snd>>
  /\ UNCHANGED <<rebaud, tries, probed, probe, closing, run, written, portVars,
                 loopVars, lineVars>>

(***************************************************************************)
(* sendMessageWaitForResponseOrTimeout                                     *)
(***************************************************************************)
Send ==
  /\ pc = "send"
  /\ flag' = [flag EXCEPT ![snd.type] = FALSE]
  /\ Write(LineRate, snd)
  /\ tries' = 0
  /\ pc' = "wait"
  /\ UNCHANGED <<call, rebaud, snd, sent, probed, probe, closing, started,
                 cfg, run, written, portVars, thread, rx, frameCount, wire,
                 sensor>>

\* BAUDRATE waits 0 ms, so it is never sent again.
Resend ==
  /\ pc = "wait"
  /\ snd.type # "BAUDRATE" /\ ~flag[snd.type]
  /\ tries < MaxResend
  /\ Write(LineRate, snd)
  /\ tries' = tries + 1
  /\ UNCHANGED <<pc, call, rebaud, snd, sent, probed, probe, closing, started,
                 cfg, run, written, portVars, loopVars, wire, sensor>>

\* The wait ends, on a reply or on the timeout; only autoFindBaudRate looks
\* at which it was.
WaitReturns ==
  /\ pc = "wait"
  /\ UNCHANGED <<rebaud, tries, sent, probed, closing, started, run, written,
                 portVars, loopVars, lineVars>>

StartAcked ==
  /\ WaitReturns
  /\ snd.type = "START"
  /\ pc' = "nextSetting"
  /\ UNCHANGED <<call, snd, probe, cfg>>

\* Mutants: the setter keeps a value only when the sensor has replied, or
\* stores it in the wrong field.
SettingKeptWhenAcked ==
  /\ WaitReturns
  /\ snd.type \in Settings
  /\ cfg' = IF flag[snd.type] THEN [cfg EXCEPT !.set[snd.type] = snd.arg] ELSE cfg
  /\ IF call = "set" THEN Return ELSE pc' = "nextSetting" /\ UNCHANGED call
  /\ UNCHANGED <<snd, probe>>

SettingStoredAsRate ==
  /\ WaitReturns
  /\ snd.type \in Settings
  /\ cfg' = [cfg EXCEPT !.baud = snd.arg]
  /\ IF call = "set" THEN Return ELSE pc' = "nextSetting" /\ UNCHANGED call
  /\ UNCHANGED <<snd, probe>>

SettingAcked ==
  /\ WaitReturns
  /\ snd.type \in Settings
  /\ cfg' = [cfg EXCEPT !.set[snd.type] = snd.arg]
  /\ IF call = "set" THEN Return ELSE pc' = "nextSetting" /\ UNCHANGED call
  /\ UNCHANGED <<snd, probe>>

ProbeAcked ==
  /\ WaitReturns
  /\ snd.type = "STOP" /\ call = "connect"
  /\ probe' = IF flag["STOP"] THEN "found" ELSE "trying"
  /\ pc' = "stop"
  /\ UNCHANGED <<call, snd, cfg>>

StopAcked ==
  /\ WaitReturns
  /\ snd.type = "STOP" /\ call = "setBaudRate"
  /\ snd' = Cmd("BAUDRATE", rebaud)
  /\ pc' = "send"
  /\ UNCHANGED <<call, probe, cfg>>

\* Mutant: the port is re-opened without stopping the update thread first.
BaudRateSentKeepsRunning ==
  /\ WaitReturns
  /\ snd.type = "BAUDRATE"
  /\ pc' = "reopen"
  /\ call' = IF run THEN "restart" ELSE call
  /\ UNCHANGED <<snd, probe, cfg>>

BaudRateSent ==
  /\ WaitReturns
  /\ snd.type = "BAUDRATE"
  /\ IF run THEN pc' = "stop" /\ call' = "restart"   \* isRunning()
            ELSE pc' = "reopen" /\ UNCHANGED call
  /\ UNCHANGED <<snd, probe, cfg>>

\* enableIntensityData, enableDataSmoothing, enableRemoveDragPoint and
\* setScanningFrequency_Hz; without a connection they throw and change nothing.
Set(t, v) ==
  /\ pc = "idle" /\ "set" \in Ops
  /\ hPort # Closed
  /\ snd' = Cmd(t, v)
  /\ call' = "set"
  /\ pc' = "send"
  /\ UNCHANGED <<rebaud, tries, sent, probed, probe, closing, started, cfg,
                 run, written, portVars, loopVars, lineVars>>

(***************************************************************************)
(* stop and close                                                          *)
(***************************************************************************)
Stop ==
  /\ pc = "idle" /\ "stop" \in Ops
  /\ call' = "stop"
  /\ pc' = "stop"
  /\ UNCHANGED <<rebaud, snd, tries, sent, probed, probe, closing, started,
                 cfg, run, written, portVars, loopVars, lineVars>>

\* Mutant: stop() ends the thread without telling the sensor.
StopSilently ==
  /\ pc = "stop"
  /\ run' = FALSE /\ written' = TRUE
  /\ pc' = "join"
  /\ UNCHANGED <<call, rebaud, snd, tries, sent, probed, probe, closing,
                 started, cfg, portVars, loopVars, lineVars>>

StopWrite ==
  /\ pc = "stop"
  /\ Write(LineRate, Stopping)
  /\ run' = FALSE /\ written' = TRUE
  /\ pc' = "join"
  /\ UNCHANGED <<call, rebaud, snd, tries, sent, probed, probe, closing,
                 started, cfg, portVars, loopVars, wire, sensor>>

AfterStop ==
  IF closing THEN "closePort"
  ELSE CASE call = "connect" -> "close"
         [] call = "restart" -> "reopen"
         [] OTHER            -> "idle"

\* Mutant: stop() does not join the thread.
JoinForgotten ==
  /\ pc = "join"
  /\ started' = (started /\ call = "restart")
  /\ pc' = AfterStop
  /\ call' = IF AfterStop = "idle" THEN "none" ELSE call
  /\ UNCHANGED <<rebaud, snd, tries, sent, probed, probe, closing, cfg, run,
                 written, portVars, loopVars, lineVars>>

Join ==
  /\ pc = "join"
  /\ thread \in {"none", "exited"}
  /\ thread' = "none"
  /\ started' = (started /\ call = "restart")
  /\ pc' = AfterStop
  /\ call' = IF AfterStop = "idle" THEN "none" ELSE call
  /\ UNCHANGED <<rebaud, snd, tries, sent, probed, probe, closing, cfg, run,
                 written, portVars, flag, rx, frameCount, lineVars>>

Close ==
  /\ pc = "idle" /\ "close" \in Ops
  /\ call' = "close"
  /\ pc' = "close"
  /\ UNCHANGED <<rebaud, snd, tries, sent, probed, probe, closing, started,
                 cfg, run, written, portVars, loopVars, lineVars>>

\* Mutant: close() leaves the thread alone.
CloseWithoutStop ==
  /\ pc = "close"
  /\ pc' = "closePort"
  /\ UNCHANGED <<call, rebaud, snd, tries, sent, probed, probe, closing,
                 started, cfg, run, written, portVars, loopVars, lineVars>>

\* The base close, which stops unless there is nothing to stop.
CloseStops ==
  /\ pc = "close"
  /\ IF hPort # Closed \/ run \/ thread # "none"
     THEN pc' = "stop" /\ closing' = TRUE
     ELSE pc' = "closePort" /\ UNCHANGED closing
  /\ UNCHANGED <<call, rebaud, snd, tries, sent, probed, probe, started, cfg,
                 run, written, portVars, loopVars, lineVars>>

ClosePort ==
  /\ pc = "closePort"
  /\ ClosedPort
  /\ closing' = FALSE
  /\ IF call = "connect"
     THEN /\ pc' = IF probe = "found" THEN "open" ELSE "probeNext"
          /\ UNCHANGED <<call, started>>
     ELSE Return /\ started' = FALSE
  /\ UNCHANGED <<rebaud, snd, tries, sent, probed, probe, cfg, run, written,
                 tty, clean, loopVars, cmds, sensor>>

(***************************************************************************)
(* setBaudRate                                                             *)
(***************************************************************************)
SetBaudRate(b) ==
  /\ pc = "idle" /\ "setBaudRate" \in Ops
  /\ hPort # Closed
  /\ written \/ EagerRebaud
  /\ rebaud' = b
  /\ snd' = Stopping
  /\ call' = "setBaudRate"
  /\ pc' = "send"
  /\ UNCHANGED <<tries, sent, probed, probe, closing, started, cfg, run,
                 written, portVars, loopVars, lineVars>>

\* SerialPort::changeBaudRate closes the port, ...
Reopen ==
  /\ pc = "reopen"
  /\ ClosedPort
  /\ tries' = 0
  /\ pc' = "reopening"
  /\ UNCHANGED <<call, rebaud, snd, sent, probed, probe, closing, started,
                 cfg, run, written, tty, clean, loopVars, cmds, sensor>>

\* Mutant: the rate is kept only by a driver that was running.
ReopenedForgetsRate ==
  IF call = "restart"
  THEN pc' = "start" /\ UNCHANGED <<call, cfg>>
  ELSE Return /\ UNCHANGED cfg

\* ... opens it until it opens or the retries are used up, and says nothing of
\* it; a driver that was running starts again, else the call returns.
Reopened ==
  IF call = "restart"
  THEN pc' = "start" /\ UNCHANGED <<call, cfg>>
  ELSE Return /\ cfg' = [cfg EXCEPT !.baud = rebaud]

ReopenSucceeds ==
  /\ pc = "setRate" /\ call # "connect"
  /\ RateSet(rebaud)
  /\ Reopened
  /\ UNCHANGED <<rebaud, snd, tries, sent, probed, probe, closing, started,
                 run, written, clean, loopVars, lineVars>>

ReopenFails ==
  /\ pc = "reopening"
  /\ FailedOpen
  /\ IF tries < RetryLimit
     THEN tries' = tries + 1 /\ UNCHANGED <<pc, call, cfg>>
     ELSE Reopened /\ UNCHANGED tries
  /\ UNCHANGED <<rebaud, snd, sent, probed, probe, closing, started, run,
                 written, tty, clean, loopVars, cmds, sensor>>

(***************************************************************************)
(* The update thread                                                       *)
(***************************************************************************)
\* Mutant: the thread ends only once there is nothing left to read.
LoopDrainsFirst ==
  /\ thread = "loop"
  /\ thread' = IF ~run /\ wire = <<>> THEN "exited"
               ELSE IF hPort = Closed THEN "loop" ELSE "read"
  /\ UNCHANGED <<appVars, flag, rx, frameCount, lineVars>>

LoopTest ==
  /\ thread = "loop"
  /\ thread' = IF ~run THEN "exited"
               ELSE IF hPort = Closed THEN "loop" ELSE "read"
  /\ UNCHANGED <<appVars, flag, rx, frameCount, lineVars>>

\* Any prefix of what has arrived.  What was sent at another rate than the
\* line's is junk, which matches no reply but does get the buffer parsed.
\* Text is consumed up to its last 8 bytes, so a read that ends inside a
\* reply can lose it, unless a data frame before it keeps it from being parsed.
Read ==
  /\ thread = "read"
  /\ \E n \in 0..Len(wire), junk, cut \in BOOLEAN :
       LET got == rx \o SubSeq(wire, 1, n)
       IN  /\ cut => n > 0 /\ \A i \in 1..Len(got) : got[i] # Frame
           /\ rx' = IF cut THEN SubSeq(got, 1, Len(got) - 1) ELSE got
           /\ wire' = SubSeq(wire, n + 1, Len(wire))
           /\ thread' = IF n = 0 /\ ~junk THEN "loop" ELSE "parse"
  /\ UNCHANGED <<appVars, flag, frameCount, cmds, sensor>>

\* SensorResponseParser looks for the replies in this order and stops at the
\* first it finds: one message raises one flag, whatever else is in it.
ResponseOrder == <<"BAUDRATE", "DATASMOOTHING", "DRAGPOINTREMOVAL",
                   "INTENSITY", "SPEED", "START", "STOP">>

FirstResponse(text) ==
  {ResponseOrder[i] : i \in {j \in DOMAIN ResponseOrder :
     /\ ResponseOrder[j] \in text
     /\ \A k \in 1..(j - 1) : ResponseOrder[k] \notin text}}

\* The text before the first frame is one message; the frames that follow it
\* back to back are consumed; what comes after them waits for the next read.
\* A frame may end a rotation or not, or fail its checksum.
Parse ==
  /\ thread = "parse"
  /\ \E i, j \in 0..Len(rx) :
       /\ i <= j
       /\ \A k \in 1..i : rx[k] # Frame
       /\ \A k \in (i + 1)..j : rx[k] = Frame
       /\ i < Len(rx) => rx[i + 1] = Frame
       /\ j < Len(rx) => rx[j + 1] # Frame
       /\ flag' = [t \in MessageType |->
                     flag[t] \/ t \in FirstResponse({rx[k] : k \in 1..i})]
       /\ rx' = SubSeq(rx, j + 1, Len(rx))
       /\ frameCount' \in {f \in frameCount..MaxFrames : f <= frameCount + j - i}
  /\ thread' = "loop"
  /\ UNCHANGED <<appVars, lineVars>>

(***************************************************************************)
(* The sensor, external: modelled from how the driver uses it              *)
(***************************************************************************)
\* Received by a port at the sensor's rate, unless the buffer is full.
Transmit(token) ==
  \/ /\ LineRate = sensor.baud
     /\ Len(wire) < MaxWire
     /\ wire' = Append(wire, token)
  \/ /\ LineRate # sensor.baud \/ Len(wire) >= MaxWire \/ Lossy
     /\ UNCHANGED wire

SensorHandles ==
  /\ cmds # <<>>
  /\ LET c == Head(cmds)
     IN  /\ Transmit(c.type)
         /\ sensor' = CASE c.type = "START"    -> [sensor EXCEPT !.spinning = TRUE]
                        [] c.type = "STOP"     -> [sensor EXCEPT !.spinning = FALSE]
                        [] c.type = "BAUDRATE" -> [sensor EXCEPT !.baud = c.arg]
                        [] OTHER               -> [sensor EXCEPT !.set[c.type] = c.arg]
  /\ cmds' = Tail(cmds)
  /\ UNCHANGED <<appVars, loopVars>>

SensorScans ==
  /\ sensor.spinning
  /\ LineRate = sensor.baud
  /\ Len(wire) < MaxWire
  /\ wire' = Append(wire, Frame)
  /\ UNCHANGED <<appVars, loopVars, cmds, sensor>>

-----------------------------------------------------------------------------
\* The steps of a call that is under way, up to its return.
CallStep ==
  \/ ProbeNext \/ OpenFlushes \/ OpenSucceeds \/ OpenFails
  \/ LaunchThread \/ StartThrows \/ NextSetting
  \/ Send \/ Resend
  \/ StartAcked \/ SettingAcked \/ ProbeAcked \/ StopAcked \/ BaudRateSent
  \/ StopWrite \/ Join \/ CloseStops \/ ClosePort
  \/ Reopen \/ ReopenSucceeds \/ ReopenFails

NewCall ==
  \/ \E b \in Bauds \union {AutoRate}, s \in Configurations : Connect(b, s)
  \/ Start \/ Stop \/ Close
  \/ \E t \in Settings, v \in Values : Set(t, v)
  \/ \E b \in Bauds : SetBaudRate(b)

UpdateThread == LoopTest \/ Read \/ Parse

Sensor == SensorHandles \/ SensorScans

Next == NewCall \/ CallStep \/ UpdateThread \/ Sensor

Spec == Init /\ [][Next]_vars

\* Both threads of the driver are scheduled; the application need not call
\* and the sensor need not answer.  A read returns after VTIME if open() set it:
\* on a handle it could not set up, a read may wait for data for ever.
FairSpec ==
  /\ Spec
  /\ WF_vars(CallStep)
  /\ WF_vars(LoopTest \/ Parse \/ (hPort # Unset /\ Read))

-----------------------------------------------------------------------------
(***************************************************************************)
(* Properties                                                              *)
(***************************************************************************)
SD == INSTANCE SensorDriver
        WITH Handles <- Bauds \union {Unset}, link <- hPort,
             reading <- thread # "none", scans <- frameCount

\* Pro::Driver is a SensorDriver: whatever calls, failed opens and interleaved
\* replies, the port is opened, closed or re-opened at another rate only while
\* no update thread exists, a thread is launched only over an open port and
\* only when there is none, and scans come only from a live thread.
SensorDriverSpec == SD!Spec

\* std::thread is never assigned over a joinable one, which would terminate
\* the process: each path that leaves start() possible again has joined.
NeverTerminates == pc # "terminated"

\* Between calls an update thread, and so the application's callback, is
\* running exactly when the last start() returned and nothing stopped it since.
ThreadOnlyWhenStarted == pc = "idle" => (started <=> thread # "none")

\* autoFindBaudRate settles on the rate of the sensor: no reply that belongs to
\* the rate it tried before, late on the line or left in a buffer by close or
\* start, is taken for an answer at the present one.  Left out is a reply that
\* arrives between the flush and the change of rate of the same open(), or a
\* rate the port did not take: see clean.  (For applications that never call
\* setBaudRate.)
FoundRateIsSensors == probe = "found" /\ clean => cfg.baud = sensor.baud

\* Between calls getBaudRate tells the rate the port was asked to run at when it
\* was opened, also after a change of rate that failed half way.
ReportedRateIsPorts == pc = "idle" /\ hPort \in Bauds => cfg.baud = hPort

\* The sensor has handled everything written to it between two calls.
Settled ==
  /\ pc = "idle"
  /\ cmds = <<>>
  /\ hPort \in Bauds /\ tty = sensor.baud

\* Over a line that loses no command, a settled sensor of a started driver has
\* the settings the getters report, even when every wait timed out, replies
\* were lost or late replies answered the wrong call.
SettingsAgree == Settled /\ started => sensor.set = cfg.set

\* Over such a line the settled sensor spins exactly when the driver is started.
SpinningAgrees == Settled => (sensor.spinning <=> started)

\* Every public call returns or throws, although the sensor may never answer,
\* opens may fail in every way and data frames never stop coming, except a
\* stop() or close() that joins a read which a half-opened port never ends.
CallsReturn ==
  pc # "idle" ~> pc = "idle" \/ (pc = "join" /\ thread = "read" /\ hPort = Unset)
=============================================================================
