----------------------------- MODULE ProEDriver -----------------------------
(***************************************************************************)
(* ProE::Driver, the driver of the Ethernet sensor, with the base Driver's *)
(* update thread and the UdpSocket under it.  One application thread runs  *)
(* the public calls; each command holds readWriteMutex while it waits for  *)
(* any datagram with OK in it, and the update thread takes the same mutex  *)
(* for every read.  The sensor and the network are external.  A wait may   *)
(* time out at any moment, so no clock is modelled.                        *)
(***************************************************************************)
EXTENDS Naturals, Sequences

CONSTANTS
  Addresses,    \* IPv4 addresses a sensor may have
  Assigned,     \* those it may have before an application sets one
  Wide,         \* those whose four numbers all have three digits
  Ports,        \* ports of this host
  Closed,       \* socket = 0
  Unbound,      \* a socket left by an open that failed
  None,         \* the argument of a command that takes none
  SettingOrder, \* the settings start() sends, in order
  Values,       \* values of a setting
  Frames,       \* scan datagrams: without, or with, the bytes OK in them
  Lossy,        \* may a command or an answer be lost?
  PowerCycles,  \* may the sensor be switched off and on?
  MaxResend,    \* bound on the resends of one command
  MaxQueue,     \* bound on commands the sensor has not handled
  MaxInbound,   \* bound on datagrams received and not read
  MaxFrames     \* bound on updateThreadFrameCount

Setting == {"SMOOTHING", "DRAGPOINT", "SPEED", "RESAMPLE"}
Settings == {SettingOrder[i] : i \in DOMAIN SettingOrder}
Command == [type : Settings, arg : Values]
             \union [type : {"ADDRESS"}, arg : Addresses]
             \union [type : {"DESTINATION"}, arg : Ports]
             \union [type : {"STOP", "START"}, arg : {None}]
Datagram == Frames \union {"OK"}
Config == [to : [at : Addresses, padded : BOOLEAN], port : Ports,
           set : [Settings -> Values]]

ASSUME ConstantsAssumption ==
  /\ Wide \subseteq Addresses /\ Assigned \subseteq Addresses
  /\ Closed \notin Ports /\ Unbound \notin Ports /\ Closed # Unbound
  /\ SettingOrder \in Seq(Setting)
  /\ Frames \subseteq {"FRAME", "OKFRAME"}
  /\ Lossy \in BOOLEAN /\ PowerCycles \in BOOLEAN
  /\ MaxResend \in Nat /\ MaxQueue \in Nat
  /\ MaxInbound \in Nat /\ MaxFrames \in Nat

VARIABLES
  pc,         \* where the application thread is
  call,       \* the public call it is in
  snd,        \* the command being sent
  tries,      \* resends of it
  sent,       \* settings start() has sent
  acked,      \* what the last wait for an answer returned
  started,    \* what the application knows: its last start() returned
  abandoned,  \* its last start() threw for want of an answer
  cfg,        \* sensorConfiguration
  run,        \* runUpdateThread
  thread,     \* the update thread
  frameCount, \* updateThreadFrameCount
  holder,     \* who holds readWriteMutex
  socket,     \* the socket, known by the port it is bound to
  leaked,     \* ports bound to sockets that were overwritten
  inbound,    \* datagrams the socket has received
  cmds,       \* commands on their way to the sensor
  sensor,     \* the sensor, and the address and destination it will start with
  lost        \* history: since the last open the sensor missed a command

callVars == <<call, snd, tries, sent, acked>>
knownVars == <<started, abandoned, cfg>>
threadVars == <<run, thread, frameCount>>
socketVars == <<socket, leaked, inbound>>
lineVars == <<cmds, sensor, lost>>
appVars == <<pc, callVars, knownVars>>
vars == <<appVars, threadVars, holder, socketVars, lineVars>>

TypeOK ==
  /\ pc \in {"idle", "open", "next", "lock", "wait", "answered", "join",
             "closePort", "terminated"}
  /\ call \in {"none", "connect", "start", "set", "stop", "close"}
  /\ snd \in Command
  /\ tries \in 0..MaxResend
  /\ sent \in 0..Len(SettingOrder)
  /\ acked \in BOOLEAN /\ started \in BOOLEAN /\ abandoned \in BOOLEAN
  /\ cfg \in Config
  /\ run \in BOOLEAN
  /\ thread \in {"none", "loop", "lock", "read", "parse", "exited"}
  /\ frameCount \in 0..MaxFrames
  /\ holder \in {"none", "app", "update"}
  /\ socket \in Ports \union {Closed, Unbound}
  /\ leaked \subseteq Ports
  /\ inbound \in Seq(Datagram)
  /\ cmds \in Seq(Command)
  /\ sensor \in [addr : Addresses, port : Ports, nextAddr : Addresses,
                 nextPort : Ports, set : [Settings -> Values],
                 spinning : BOOLEAN]
  /\ lost \in BOOLEAN

Cmd(t, a) == [type |-> t, arg |-> a]

Init ==
  /\ pc = "idle" /\ call = "none"
  /\ snd = Cmd("STOP", None) /\ tries = 0 /\ sent = 0 /\ acked = FALSE
  /\ started = FALSE /\ abandoned = FALSE
  /\ cfg \in Config /\ ~cfg.to.padded
  /\ run \in BOOLEAN   \* no constructor assigns it
  /\ thread = "none" /\ frameCount = 0
  /\ holder = "none"
  /\ socket = Closed /\ leaked = {} /\ inbound = <<>>
  /\ cmds = <<>> /\ lost = TRUE
  /\ \E a \in Assigned, p \in Ports, s \in [Settings -> Values], b \in BOOLEAN :
       sensor = [addr |-> a, port |-> p, nextAddr |-> a, nextPort |-> p,
                 set |-> s, spinning |-> b]

\* What a call kept of its own is forgotten when it returns.
Return ==
  /\ pc' = "idle" /\ call' = "none"
  /\ snd' = Cmd("STOP", None) /\ sent' = 0 /\ acked' = FALSE

(***************************************************************************)
(* UdpSocket                                                               *)
(***************************************************************************)
\* inet_pton takes no number with leading zeros, and write does not look at
\* its result: the destination is then whatever the stack held.
Unreadable(to) == to.padded /\ to.at \notin Wide

Write(c) ==
  \/ /\ cfg.to.at = sensor.addr \/ Unreadable(cfg.to)
     /\ Len(cmds) < MaxQueue
     /\ cmds' = Append(cmds, c)
     /\ UNCHANGED lost
  \/ /\ \/ Lossy \/ socket = Unbound
        \/ cfg.to.at # sensor.addr \/ Unreadable(cfg.to)
     /\ lost' = TRUE
     /\ UNCHANGED cmds

\* What the old socket, if any, was bound to stays taken: nothing closes it.
OpenSucceeds ==
  /\ pc = "open"
  /\ cfg.port \notin leaked \union {socket}
  /\ socket' = cfg.port
  /\ leaked' = leaked \union ({socket} \intersect Ports)
  /\ inbound' = <<>>
  /\ lost' = FALSE
  /\ snd' = Cmd("STOP", None)
  /\ pc' = "lock"
  /\ UNCHANGED <<call, tries, sent, acked, knownVars, threadVars, holder, cmds,
                 sensor>>

\* No socket, or a port that is taken: open throws, and the driver counts as
\* connected.
OpenFails ==
  /\ pc = "open"
  /\ socket' = Unbound
  /\ leaked' = leaked \union ({socket} \intersect Ports)
  /\ inbound' = <<>>
  /\ lost' = TRUE
  /\ Return
  /\ UNCHANGED <<tries, knownVars, threadVars, holder, cmds, sensor>>

\* sendMessageWaitForResponseOrTimeout, under the mutex; without a socket it
\* returns at once.
Send ==
  /\ pc = "lock" /\ holder = "none"
  /\ IF socket = Closed
     THEN pc' = "answered" /\ UNCHANGED <<holder, cmds, lost>>
     ELSE Write(snd) /\ holder' = "app" /\ pc' = "wait"
  /\ abandoned' = (abandoned /\ snd.type # "STOP")
  /\ UNCHANGED <<callVars, started, cfg, threadVars, socketVars, sensor>>

Resend ==
  /\ pc = "wait"
  /\ tries < MaxResend
  /\ Write(snd)
  /\ tries' = tries + 1
  /\ UNCHANGED <<pc, call, snd, sent, acked, knownVars, threadVars, holder,
                 socketVars, sensor>>

HoldsOK(datagram) == datagram # "FRAME"

WaitReturns(ok) ==
  /\ acked' = ok
  /\ tries' = 0
  /\ holder' = "none"
  /\ pc' = "answered"

\* Every datagram is read and dropped until one has OK in it: the late answer
\* to another command does, and scan data may.
Receive ==
  /\ pc = "wait" /\ inbound # <<>>
  /\ inbound' = Tail(inbound)
  /\ IF HoldsOK(Head(inbound)) THEN WaitReturns(TRUE)
                               ELSE UNCHANGED <<acked, tries, holder, pc>>
  /\ UNCHANGED <<call, snd, sent, knownVars, threadVars, socket, leaked,
                 lineVars>>

\* Mutant: the time is looked at only when nothing has been read.
TimesOutWhenQuiet ==
  /\ pc = "wait" /\ inbound = <<>>
  /\ WaitReturns(FALSE)
  /\ UNCHANGED <<call, snd, sent, knownVars, threadVars, socketVars,
                 lineVars>>

WaitTimesOut ==
  /\ pc = "wait"
  /\ WaitReturns(FALSE)
  /\ UNCHANGED <<call, snd, sent, knownVars, threadVars, socketVars,
                 lineVars>>

(***************************************************************************)
(* The public calls.  Those that need a connection throw without one, and  *)
(* change nothing that is modelled.                                        *)
(***************************************************************************)
Connect(a, p, s) ==
  /\ pc = "idle" /\ ~started
  /\ cfg' = [to |-> [at |-> a, padded |-> FALSE], port |-> p, set |-> s]
  /\ call' = "connect"
  /\ pc' = "open"
  /\ UNCHANGED <<snd, tries, sent, acked, started, abandoned, threadVars, holder,
                 socketVars, lineVars>>

\* start() has sent n settings.
NextOf(n) ==
  /\ pc' = "next"
  /\ sent' = n
  /\ acked' = FALSE
  /\ UNCHANGED <<call, snd>>

Start ==
  /\ pc = "idle" /\ ~started /\ socket # Closed
  /\ call' = "start"
  /\ sent' = 0
  /\ pc' = "next"
  /\ UNCHANGED <<snd, tries, acked, knownVars, threadVars, holder, socketVars,
                 lineVars>>

\* enableDataSmoothing, enableRemoveDragPoint, setScanningFrequency_Hz and
\* enableResampleFilter; setSensorIPv4Settings; setSensorDestinationIPv4Settings.
Set(c) ==
  /\ pc = "idle" /\ socket # Closed
  /\ c.type \notin {"STOP", "START"}
  /\ snd' = c
  /\ call' = "set"
  /\ pc' = "lock"
  /\ UNCHANGED <<tries, sent, acked, knownVars, threadVars, holder, socketVars,
                 lineVars>>

\* Mutant: stop() only ends the thread.
StopSilently ==
  /\ pc = "idle"
  /\ run' = FALSE
  /\ call' = "stop"
  /\ pc' = "join"
  /\ UNCHANGED <<snd, tries, sent, acked, knownVars, thread, frameCount, holder,
                 socketVars, lineVars>>

Stop ==
  /\ pc = "idle"
  /\ snd' = Cmd("STOP", None)
  /\ call' = "stop"
  /\ pc' = "lock"
  /\ UNCHANGED <<tries, sent, acked, knownVars, threadVars, holder, socketVars,
                 lineVars>>

\* The base close, which stops only if there is something to stop.
Close ==
  /\ pc = "idle"
  /\ socket # Closed \/ run \/ thread # "none"
  /\ snd' = Cmd("STOP", None)
  /\ call' = "close"
  /\ pc' = "lock"
  /\ UNCHANGED <<tries, sent, acked, knownVars, threadVars, holder, socketVars,
                 lineVars>>

NextSetting ==
  /\ pc = "next"
  /\ snd' = IF sent < Len(SettingOrder)
            THEN Cmd(SettingOrder[sent + 1], cfg.set[SettingOrder[sent + 1]])
            ELSE Cmd("START", None)
  /\ pc' = "lock"
  /\ UNCHANGED <<call, tries, sent, acked, knownVars, threadVars, holder,
                 socketVars, lineVars>>

\* Mutant: a value is kept only if the sensor answered.
KeptWhenAcked ==
  /\ pc = "answered" /\ snd.type \in Settings \union {"ADDRESS", "DESTINATION"}
  /\ cfg' = IF acked /\ snd.type \in Settings
            THEN [cfg EXCEPT !.set[snd.type] = snd.arg] ELSE cfg
  /\ IF call = "start" THEN NextOf(sent + 1) ELSE Return
  /\ UNCHANGED <<tries, started, abandoned, threadVars, holder,
                 socketVars, lineVars>>

\* Mutant: the new address is stored where the port is kept.
AddressStoredAsPort ==
  /\ pc = "answered" /\ snd.type \in Settings \union {"ADDRESS", "DESTINATION"}
  /\ cfg' = IF snd.type \in Settings THEN [cfg EXCEPT !.set[snd.type] = snd.arg]
                                     ELSE [cfg EXCEPT !.port = snd.arg]
  /\ IF call = "start" THEN NextOf(sent + 1) ELSE Return
  /\ UNCHANGED <<tries, started, abandoned, threadVars, holder,
                 socketVars, lineVars>>

\* Answered or not, the configuration takes the value; an address as the text
\* sent, three digits a number.
ValueStored ==
  /\ pc = "answered" /\ snd.type \in Settings \union {"ADDRESS", "DESTINATION"}
  /\ cfg' = CASE snd.type = "ADDRESS" ->
                   [cfg EXCEPT !.to = [at |-> snd.arg, padded |-> TRUE]]
              [] snd.type = "DESTINATION" -> [cfg EXCEPT !.port = snd.arg]
              [] OTHER -> [cfg EXCEPT !.set[snd.type] = snd.arg]
  /\ IF call = "start" THEN NextOf(sent + 1) ELSE Return
  /\ UNCHANGED <<tries, started, abandoned, threadVars, holder,
                 socketVars, lineVars>>

\* Mutant: the answer to START is ignored, as the setters ignore theirs.
LaunchUnanswered ==
  /\ pc = "answered" /\ snd.type = "START"
  /\ started' = TRUE
  /\ run' = TRUE /\ frameCount' = 0 /\ thread' = "loop"
  /\ Return
  /\ UNCHANGED <<tries, abandoned, cfg, holder, socketVars, lineVars>>

\* Assigning to a joinable std::thread would end the process.
LaunchThread ==
  /\ pc = "answered" /\ snd.type = "START" /\ acked
  /\ run' = TRUE
  /\ frameCount' = 0
  /\ abandoned' = FALSE
  /\ IF thread = "none"
     THEN thread' = "loop" /\ started' = TRUE /\ Return
     ELSE /\ pc' = "terminated"
          /\ UNCHANGED <<thread, started, call, snd, sent, acked>>
  /\ UNCHANGED <<tries, cfg, holder, socketVars, lineVars>>

\* NoResponseFromSensorException: the sensor may have obeyed all the same.
StartThrows ==
  /\ pc = "answered" /\ snd.type = "START" /\ ~acked
  /\ abandoned' = TRUE
  /\ Return
  /\ UNCHANGED <<tries, started, cfg, threadVars, holder, socketVars, lineVars>>

StopAnswered ==
  /\ pc = "answered" /\ snd.type = "STOP"
  /\ IF call = "connect"
     THEN Return /\ UNCHANGED run
     ELSE /\ pc' = "join" /\ run' = FALSE /\ acked' = FALSE
          /\ UNCHANGED <<call, snd, sent>>
  /\ UNCHANGED <<tries, knownVars, thread, frameCount, holder, socketVars,
                 lineVars>>

\* Mutant: the thread is left to end by itself.
JoinForgotten ==
  /\ pc = "join"
  /\ started' = FALSE
  /\ IF call = "close" THEN pc' = "closePort" /\ UNCHANGED callVars
                       ELSE Return /\ UNCHANGED tries
  /\ UNCHANGED <<abandoned, cfg, threadVars, holder, socketVars, lineVars>>

Join ==
  /\ pc = "join"
  /\ thread \in {"none", "exited"}
  /\ thread' = "none"
  /\ started' = FALSE
  /\ IF call = "close" THEN pc' = "closePort" /\ UNCHANGED callVars
                       ELSE Return /\ UNCHANGED tries
  /\ UNCHANGED <<abandoned, cfg, run, frameCount, holder, socketVars, lineVars>>

ClosePort ==
  /\ pc = "closePort"
  /\ socket' = Closed
  /\ inbound' = <<>>
  /\ Return
  /\ UNCHANGED <<tries, knownVars, threadVars, holder, leaked, lineVars>>

(***************************************************************************)
(* The update thread                                                       *)
(***************************************************************************)
LoopTest ==
  /\ thread = "loop"
  /\ thread' = IF ~run THEN "exited"
               ELSE IF socket = Closed THEN "loop" ELSE "lock"
  /\ UNCHANGED <<appVars, run, frameCount, holder, socketVars, lineVars>>

\* Mutant: only writers take the mutex.
ReadsUnlocked ==
  /\ thread = "lock"
  /\ thread' = "read"
  /\ UNCHANGED <<appVars, run, frameCount, holder, socketVars, lineVars>>

UpdateLock ==
  /\ thread = "lock" /\ holder = "none"
  /\ holder' = "update"
  /\ thread' = "read"
  /\ UNCHANGED <<appVars, run, frameCount, socketVars, lineVars>>

\* One datagram, or none within a second; the parser passes answers by.
Read ==
  /\ thread = "read"
  /\ holder' = "none"
  /\ IF inbound = <<>>
     THEN thread' = "loop" /\ UNCHANGED inbound
     ELSE /\ inbound' = Tail(inbound)
          /\ thread' = IF Head(inbound) \in Frames THEN "parse" ELSE "loop"
  /\ UNCHANGED <<appVars, run, frameCount, socket, leaked, lineVars>>

\* A datagram may complete a rotation, and be given to the callback, or not.
Parse ==
  /\ thread = "parse"
  /\ frameCount' \in {frameCount, frameCount + 1} \intersect (0..MaxFrames)
  /\ thread' = "loop"
  /\ UNCHANGED <<appVars, run, holder, socketVars, lineVars>>

(***************************************************************************)
(* The sensor and the network, external: from how the driver uses them     *)
(***************************************************************************)
Deliver(datagram) ==
  \/ /\ socket = sensor.port
     /\ Len(inbound) < MaxInbound
     /\ inbound' = Append(inbound, datagram)
  \/ /\ socket # sensor.port \/ Len(inbound) >= MaxInbound \/ Lossy
     /\ UNCHANGED inbound

SensorHandles ==
  /\ cmds # <<>>
  /\ LET c == Head(cmds)
     IN  sensor' = CASE c.type = "START" -> [sensor EXCEPT !.spinning = TRUE]
                     [] c.type = "STOP" -> [sensor EXCEPT !.spinning = FALSE]
                     [] c.type = "ADDRESS" -> [sensor EXCEPT !.nextAddr = c.arg]
                     [] c.type = "DESTINATION" -> [sensor EXCEPT !.nextPort = c.arg]
                     [] OTHER -> [sensor EXCEPT !.set[c.type] = c.arg]
  /\ cmds' = Tail(cmds)
  /\ Deliver("OK")
  /\ UNCHANGED <<appVars, threadVars, holder, socket, leaked, lost>>

SensorScans ==
  /\ sensor.spinning
  /\ socket = sensor.port /\ Len(inbound) < MaxInbound
  /\ \E f \in Frames : inbound' = Append(inbound, f)
  /\ UNCHANGED <<appVars, threadVars, holder, socket, leaked, lineVars>>

\* "Please power cycle the device": not while the driver is started.
PowerCycle ==
  /\ PowerCycles /\ pc = "idle" /\ ~started
  /\ \E b \in BOOLEAN :
       sensor' = [sensor EXCEPT !.addr = sensor.nextAddr,
                                !.port = sensor.nextPort, !.spinning = b]
  /\ cmds' = <<>>
  /\ lost' = TRUE
  /\ UNCHANGED <<appVars, threadVars, holder, socketVars>>

-----------------------------------------------------------------------------
\* The steps of a call that is under way, but for its timeouts.
CallStep ==
  \/ OpenSucceeds \/ OpenFails \/ Send \/ Resend \/ Receive
  \/ NextSetting \/ ValueStored \/ LaunchThread \/ StartThrows \/ StopAnswered
  \/ Join \/ ClosePort

NewCall ==
  \/ \E a \in Addresses, p \in Ports, s \in [Settings -> Values] : Connect(a, p, s)
  \/ Start \/ Stop \/ Close
  \/ \E c \in Command : Set(c)

UpdateThread == LoopTest \/ UpdateLock \/ Read \/ Parse

Sensor == SensorHandles \/ SensorScans \/ PowerCycle

Next == NewCall \/ CallStep \/ WaitTimesOut \/ UpdateThread \/ Sensor

Spec == Init /\ [][Next]_vars

\* Both threads are scheduled and time passes.  A std::mutex is taken by
\* whoever comes when it is free: nothing makes it fair.
FairSpec ==
  Spec /\ WF_vars(CallStep) /\ WF_vars(WaitTimesOut) /\ WF_vars(UpdateThread)

-----------------------------------------------------------------------------
(***************************************************************************)
(* Properties                                                              *)
(***************************************************************************)
SD == INSTANCE SensorDriver
        WITH Handles <- Ports \union {Unbound}, link <- socket,
             reading <- thread # "none", scans <- frameCount

\* ProE::Driver is a SensorDriver: however calls, failed opens, timeouts and
\* stale answers interleave, the socket changes only while no update thread
\* exists, a thread is launched only over a socket and only when there is none.
SensorDriverSpec == SD!Spec

\* Between calls an update thread exists exactly when the last start() returned
\* and nothing stopped it since: a start() that throws leaves none behind.
ThreadOnlyWhenStarted == pc = "idle" => (started <=> thread # "none")

\* A failed open leaves a socket that counts as a connection, and start() goes
\* as far as its commands; no update thread is ever launched over it.
BoundWhileRunning == thread # "none" => socket \in Ports

\* While a command waits for its answer the update thread is not reading, so
\* that the answer cannot be taken from it and parsed away.
OneReader == pc = "wait" => thread # "read"

Settled == pc = "idle" /\ cmds = <<>>

\* If no command was lost, a settled sensor of a started driver spins with the
\* settings the getters report, although waits time out, late answers are taken
\* for others and scan data may hold the bytes of an answer.
SettingsAgree == Settled /\ started /\ ~lost => sensor.set = cfg.set

\* If no command was lost, a settled sensor spins exactly when the driver is
\* started or its start() gave up although the command arrived.
SpinningExplained ==
  Settled /\ ~lost => (sensor.spinning <=> started \/ abandoned)

\* A command gives the mutex back, although the sensor may never answer and
\* scan data may never stop.
LockReleased == holder = "app" ~> holder # "app"

\* "Stop the Driver's processing thread": every call returns, stop() included.
CallsReturn == (pc # "idle") ~> (pc = "idle")

\* Every call returns if a thread that waits for the mutex gets it whenever it
\* is free again and again.
ReturnsIfLockIsFair == SF_vars(Send) => CallsReturn

\* "Messages to the sensor will be sent to this address": over a network that
\* loses nothing, a command written while the sensor has the configured
\* address arrives.
AddressedCommandsArrive ==
  [][pc = "lock" /\ pc' = "wait" /\ socket \in Ports
       /\ cfg.to.at = sensor.addr => cmds' # cmds]_vars
=============================================================================
