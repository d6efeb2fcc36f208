------------------------- MODULE ProEDriver_proofs -------------------------
(***************************************************************************)
(* What holds of ProE::Driver for every set of addresses, ports, settings  *)
(* and bounds: type correctness, the safety of the update thread and of    *)
(* the mutex, what driver and sensor know of each other, and the           *)
(* implementation of SensorDriver.                                         *)
(***************************************************************************)
EXTENDS ProEDriver, CommandQueue, TLAPS

Sending == {"lock", "wait", "answered"}
Stored == Settings \union {"ADDRESS", "DESTINATION"}

\* Which call the application is in at each point, and what it is sending.
ControlOK ==
  /\ pc = "idle" <=> call = "none"
  /\ pc = "open" => call = "connect"
  /\ pc = "next" => call = "start"
  /\ pc = "join" => call \in {"stop", "close"}
  /\ pc = "closePort" => call = "close"
  /\ pc \in Sending =>
       /\ call \in {"connect", "stop", "close"} => snd.type = "STOP"
       /\ call = "start" => snd.type \in Settings \union {"START"}
       /\ call = "start" /\ snd.type # "START" => sent < Len(SettingOrder)
       /\ call = "set" => snd.type \in Stored
  /\ pc # "open" /\ call \in {"connect", "start", "set"} => socket # Closed
  /\ acked => pc \in {"answered", "terminated"}

\* The update thread and runUpdateThread's caller; who has the mutex.
ThreadOK ==
  /\ pc # "terminated"
  /\ started <=> thread # "none"
  /\ call \in {"connect", "start"} => ~started
  /\ pc = "closePort" => ~started

BoundOK ==
  /\ thread # "none" => socket \in Ports
  /\ inbound # <<>> => socket \in Ports
  /\ acked => socket \in Ports

MutexOK ==
  /\ pc = "wait" <=> holder = "app"
  /\ thread = "read" <=> holder = "update"

-----------------------------------------------------------------------------
(***************************************************************************)
(* What the sensor will do with the commands under way                     *)
(***************************************************************************)
Sent(t) == pc \in {"wait", "answered"} /\ snd.type = t

\* The settings the present start() has sent, or all of a started driver.
Synced(t) ==
  \/ started
  \/ call = "start" /\ (Sent(t) \/ \E i \in 1..sent : SettingOrder[i] = t)

Wanted(t) == IF Sent(t) THEN snd.arg ELSE cfg.set[t]

StartOK ==
  call = "start" /\ pc \in Sending =>
    IF snd.type = "START" THEN sent = Len(SettingOrder)
    ELSE /\ snd.type = SettingOrder[sent + 1]
         /\ snd.arg = cfg.set[snd.type]

SetOK == ~lost => \A t \in Settings : Synced(t) => WillSet(cmds, sensor, t, Wanted(t))

ShouldSpin ==
  \/ Sent("START")
  \/ /\ ~Sent("STOP") /\ pc \notin {"join", "closePort"}
     /\ started \/ abandoned

SpinOK ==
  /\ socket = Closed => ~started /\ ~abandoned
  /\ Sent("STOP") \/ pc \in {"join", "closePort"} => ~abandoned
  /\ ~lost /\ ~(pc \in {"open", "lock"} /\ call = "connect") =>
       WillSpin(cmds, sensor, ShouldSpin)

-----------------------------------------------------------------------------
(***************************************************************************)
(* Types                                                                   *)
(***************************************************************************)
LEMMA Commands ==
  /\ \A t \in Settings, v \in Values : Cmd(t, v) \in Command
  /\ Cmd("STOP", None) \in Command
  /\ Cmd("START", None) \in Command
  BY DEF Cmd, Command

LEMMA SettingTypes == Settings \subseteq Setting
  BY ConstantsAssumption DEF Settings

LEMMA CommandFields ==
  ASSUME NEW c \in Command
  PROVE  /\ c.type \in Stored \union {"START", "STOP"}
         /\ c.type \in Settings => c.arg \in Values
         /\ c.type = "ADDRESS" => c.arg \in Addresses
         /\ c.type = "DESTINATION" => c.arg \in Ports
  BY SettingTypes DEF Command, Setting, Stored

LEMMA Lists ==
  /\ Len(SettingOrder) \in Nat
  /\ \A i \in 0..(Len(SettingOrder) - 1) : SettingOrder[i + 1] \in Settings
  /\ 0 \in 0..Len(SettingOrder) /\ 0 \in 0..MaxResend /\ 0 \in 0..MaxFrames
  /\ <<>> \in Seq(Datagram)
  BY ConstantsAssumption DEF Settings

LEMMA WriteType ==
  ASSUME cmds \in Seq(Command), lost \in BOOLEAN, NEW c \in Command, Write(c)
  PROVE  cmds' \in Seq(Command) /\ lost' \in BOOLEAN
  <1>1. lost' \in BOOLEAN
    BY DEF Write
  <1>2. cmds' \in Seq(Command)
    BY DEF Write
  <1> QED
    BY <1>1, <1>2

LEMMA DeliverType ==
  ASSUME inbound \in Seq(Datagram), NEW d \in Datagram, Deliver(d)
  PROVE  inbound' \in Seq(Datagram)
  BY DEF Deliver

TypeInv == TypeOK /\ ControlOK

LEMMA TypeInit == Init => TypeInv
  <1> SUFFICES ASSUME Init PROVE TypeInv
    OBVIOUS
  <1>1. TypeOK
    <2>1. started \in BOOLEAN /\ abandoned \in BOOLEAN /\ acked \in BOOLEAN
          /\ lost \in BOOLEAN /\ run \in BOOLEAN
      BY DEF Init
    <2>2. sensor \in [addr : Addresses, port : Ports, nextAddr : Addresses,
                      nextPort : Ports, set : [Settings -> Values],
                      spinning : BOOLEAN]
      BY ConstantsAssumption DEF Init
    <2>3. cmds \in Seq(Command)
      BY DEF Init
    <2> QED
      BY <2>1, <2>2, <2>3, Commands, Lists DEF Init, TypeOK
  <1>2. ControlOK
    BY DEF Init, ControlOK, Sending
  <1> QED
    BY <1>1, <1>2 DEF TypeInv

LEMMA TypeStep == TypeInv /\ [Next]_vars => TypeInv'
  <1> SUFFICES ASSUME TypeOK, ControlOK, [Next]_vars PROVE TypeOK' /\ ControlOK'
    BY DEF TypeInv
  <1> USE DEF Setting, TypeOK, ControlOK, Sending, Return, appVars, callVars,
              knownVars, threadVars, socketVars, lineVars
  <1>1. CASE OpenSucceeds
    <2>1. TypeOK'
      <3>1. lost' \in BOOLEAN
        BY <1>1 DEF OpenSucceeds
      <3>2. cfg.port \in Ports /\ leaked' \subseteq Ports
        BY <1>1 DEF OpenSucceeds, Config
      <3> QED
        BY <1>1, <3>1, <3>2, Commands, Lists, SMTT(10) DEF OpenSucceeds
    <2>2. ControlOK'
      BY <1>1, ConstantsAssumption, SMTT(10) DEF OpenSucceeds, Cmd, Config
    <2> QED
      BY <2>1, <2>2
  <1>2. CASE OpenFails
    <2>1. TypeOK'
      <3>1. lost' \in BOOLEAN /\ acked' \in BOOLEAN
        BY <1>2 DEF OpenFails
      <3> QED
        BY <1>2, Commands, Lists, <3>1, SMTT(10) DEF OpenFails
    <2>2. ControlOK'
      BY <1>2, SMTT(10) DEF OpenFails
    <2> QED
      BY <2>1, <2>2
  <1>3. CASE Send
    <2>1. TypeOK'
      BY <1>3, WriteType, SMTT(10) DEF Send
    <2>2. ControlOK'
      BY <1>3, SMTT(10) DEF Send
    <2> QED
      BY <2>1, <2>2
  <1>4. CASE Resend
    <2>1. TypeOK'
      <3>1. cmds' \in Seq(Command) /\ lost' \in BOOLEAN
        BY <1>4, WriteType DEF Resend
      <3>2. tries' \in 0..MaxResend
        BY <1>4, ConstantsAssumption DEF Resend
      <3> QED
        BY <1>4, <3>1, <3>2, SMTT(10) DEF Resend
    <2>2. ControlOK'
      BY <1>4, SMTT(10) DEF Resend
    <2> QED
      BY <2>1, <2>2
  <1>5. CASE Receive
    <2>1. TypeOK'
      <3>1. acked' \in BOOLEAN
        BY <1>5 DEF Receive, WaitReturns
      <3> QED
        BY <1>5, Lists, <3>1, SMTT(10) DEF Receive, WaitReturns
    <2>2. ControlOK'
      BY <1>5, SMTT(10) DEF Receive, WaitReturns
    <2> QED
      BY <2>1, <2>2
  <1>6. CASE NextSetting
    <2>1. TypeOK'
      <3>1. snd' \in Command
        <4>1. CASE sent < Len(SettingOrder)
          <5>1. SettingOrder[sent + 1] \in Settings
            BY <4>1, Lists
          <5>2. cfg.set[SettingOrder[sent + 1]] \in Values
            BY <5>1 DEF Config
          <5> QED
            BY <1>6, <4>1, <5>1, <5>2, Commands DEF NextSetting
        <4>2. CASE ~(sent < Len(SettingOrder))
          BY <1>6, <4>2, Commands DEF NextSetting
        <4> QED
          BY <4>1, <4>2
      <3> QED
        BY <1>6, <3>1, SMTT(10) DEF NextSetting
    <2>2. ControlOK'
      BY <1>6, Lists, SMTT(10) DEF NextSetting, Cmd
    <2> QED
      BY <2>1, <2>2
  <1>7. CASE ValueStored
    <2>1. TypeOK'
      <3>1. acked' \in BOOLEAN
        BY <1>7 DEF ValueStored, NextOf
      <3>2. cfg' \in Config
        <4>1. CASE snd.type = "ADDRESS"
          BY <1>7, <4>1, CommandFields DEF ValueStored, Config
        <4>2. CASE snd.type = "DESTINATION"
          BY <1>7, <4>2, CommandFields DEF ValueStored, Config
        <4>3. CASE snd.type \notin {"ADDRESS", "DESTINATION"}
          <5>1. snd.type \in Settings /\ snd.arg \in Values
            BY <1>7, <4>3, CommandFields DEF ValueStored
          <5> QED
            BY <1>7, <4>3, <5>1 DEF ValueStored, Config
        <4> QED
          BY <4>1, <4>2, <4>3
      <3>3. sent' \in 0..Len(SettingOrder) /\ snd' \in Command
        <4>1. CASE call = "start"
          <5>1. sent < Len(SettingOrder)
            BY <1>7, <4>1, SettingTypes DEF ValueStored
          <5> QED
            BY <1>7, <4>1, <5>1, Lists DEF ValueStored, NextOf
        <4>2. CASE call # "start"
          BY <1>7, <4>2, Lists, Commands DEF ValueStored
        <4> QED
          BY <4>1, <4>2
      <3> QED
        BY <1>7, <3>1, <3>2, <3>3, SMTT(10) DEF ValueStored, NextOf
    <2>2. ControlOK'
      BY <1>7, SettingTypes, SMTT(10) DEF ValueStored, NextOf, Stored
    <2> QED
      BY <2>1, <2>2
  <1>8. CASE LaunchThread
    <2>1. TypeOK'
      <3>1. run' \in BOOLEAN /\ abandoned' \in BOOLEAN
        BY <1>8 DEF LaunchThread
      <3>2. started' \in BOOLEAN /\ acked' \in BOOLEAN
        BY <1>8 DEF LaunchThread
      <3>3. CASE thread = "none"
        BY <1>8, <3>1, <3>2, <3>3, Commands, Lists, SMTT(10) DEF LaunchThread
      <3>4. CASE thread # "none"
        BY <1>8, <3>1, <3>2, <3>4, Lists, SMTT(10) DEF LaunchThread
      <3> QED
        BY <3>3, <3>4
    <2>2. ControlOK'
      <3>1. CASE thread = "none"
        BY <1>8, <3>1, SMTT(10) DEF LaunchThread
      <3>2. CASE thread # "none"
        BY <1>8, <3>2, SMTT(10) DEF LaunchThread
      <3> QED
        BY <3>1, <3>2
    <2> QED
      BY <2>1, <2>2
  <1>9. CASE StartThrows
    <2>1. TypeOK'
      <3>1. abandoned' \in BOOLEAN /\ acked' \in BOOLEAN
        BY <1>9 DEF StartThrows
      <3> QED
        BY <1>9, Commands, Lists, <3>1, SMTT(10) DEF StartThrows
    <2>2. ControlOK'
      BY <1>9, SettingTypes, SMTT(10) DEF StartThrows
    <2> QED
      BY <2>1, <2>2
  <1>10. CASE StopAnswered
    <2>1. TypeOK'
      <3>1. run' \in BOOLEAN /\ acked' \in BOOLEAN
        BY <1>10 DEF StopAnswered
      <3> QED
        BY <1>10, Commands, Lists, <3>1, SMTT(10) DEF StopAnswered
    <2>2. ControlOK'
      BY <1>10, SettingTypes, SMTT(10) DEF StopAnswered, Cmd, Stored
    <2> QED
      BY <2>1, <2>2
  <1>11. CASE Join
    <2>1. TypeOK'
      <3>1. started' \in BOOLEAN /\ acked' \in BOOLEAN
        BY <1>11 DEF Join
      <3> QED
        BY <1>11, Commands, Lists, <3>1, SMTT(10) DEF Join
    <2>2. ControlOK'
      BY <1>11, SMTT(10) DEF Join
    <2> QED
      BY <2>1, <2>2
  <1>12. CASE ClosePort
    <2>1. TypeOK'
      <3>1. acked' \in BOOLEAN
        BY <1>12 DEF ClosePort
      <3> QED
        BY <1>12, Commands, Lists, <3>1, SMTT(10) DEF ClosePort
    <2>2. ControlOK'
      BY <1>12, SMTT(10) DEF ClosePort
    <2> QED
      BY <2>1, <2>2
  <1>13. CASE WaitTimesOut
    <2>1. TypeOK'
      <3>1. acked' \in BOOLEAN
        BY <1>13 DEF WaitTimesOut, WaitReturns
      <3> QED
        BY <1>13, Lists, <3>1, SMTT(10) DEF WaitTimesOut, WaitReturns
    <2>2. ControlOK'
      BY <1>13, SMTT(10) DEF WaitTimesOut, WaitReturns
    <2> QED
      BY <2>1, <2>2
  <1>14. CASE Start
    <2>1. TypeOK'
      BY <1>14, Lists, SMTT(10) DEF Start
    <2>2. ControlOK'
      BY <1>14, SMTT(10) DEF Start
    <2> QED
      BY <2>1, <2>2
  <1>15. CASE Stop
    <2>1. TypeOK'
      BY <1>15, Commands, SMTT(10) DEF Stop
    <2>2. ControlOK'
      BY <1>15, SMTT(10) DEF Stop, Cmd
    <2> QED
      BY <2>1, <2>2
  <1>16. CASE Close
    <2>1. TypeOK'
      BY <1>16, Commands, SMTT(10) DEF Close
    <2>2. ControlOK'
      BY <1>16, SMTT(10) DEF Close, Cmd
    <2> QED
      BY <2>1, <2>2
  <1>17. ASSUME NEW a \in Addresses, NEW p \in Ports, NEW s \in [Settings -> Values],
               Connect(a, p, s)
        PROVE  TypeOK' /\ ControlOK'
    <2>1. TypeOK'
      <3>1. cfg' \in Config
        BY <1>17 DEF Connect, Config
      <3> QED
        BY <1>17, <3>1, SMTT(10) DEF Connect
    <2>2. ControlOK'
      BY <1>17, SMTT(10) DEF Connect
    <2> QED
      BY <2>1, <2>2
  <1>18. ASSUME NEW c \in Command, Set(c) PROVE TypeOK' /\ ControlOK'
    <2>1. TypeOK'
      BY <1>18, SMTT(10) DEF Set, Stored
    <2>2. ControlOK'
      BY <1>18, SettingTypes, CommandFields, SMTT(10) DEF Set, Stored
    <2> QED
      BY <2>1, <2>2
  <1>19. CASE LoopTest
    <2>1. TypeOK'
      BY <1>19, SMTT(10) DEF LoopTest
    <2>2. ControlOK'
      BY <1>19, SMTT(10) DEF LoopTest
    <2> QED
      BY <2>1, <2>2
  <1>20. CASE UpdateLock
    <2>1. TypeOK'
      BY <1>20, SMTT(10) DEF UpdateLock
    <2>2. ControlOK'
      BY <1>20, SMTT(10) DEF UpdateLock
    <2> QED
      BY <2>1, <2>2
  <1>21. CASE Read
    <2>1. TypeOK'
      <3>1. inbound' \in Seq(Datagram)
        <4>1. CASE inbound = <<>>
          BY <1>21, <4>1 DEF Read
        <4>2. CASE inbound # <<>>
          <5>1. inbound' = Tail(inbound)
            BY <1>21, <4>2 DEF Read
          <5> QED
            BY <4>2, <5>1
        <4> QED
          BY <4>1, <4>2
      <3> QED
        BY <1>21, <3>1, SMTT(10) DEF Read
    <2>2. ControlOK'
      BY <1>21, SMTT(10) DEF Read
    <2> QED
      BY <2>1, <2>2
  <1>22. CASE Parse
    <2>1. TypeOK'
      BY <1>22, SMTT(10) DEF Parse
    <2>2. ControlOK'
      BY <1>22, SMTT(10) DEF Parse
    <2> QED
      BY <2>1, <2>2
  <1>23. CASE SensorHandles
    <2>1. TypeOK'
      <3>1. Head(cmds) \in Command /\ cmds' \in Seq(Command)
        BY <1>23 DEF SensorHandles
      <3>2. inbound' \in Seq(Datagram)
        BY <1>23, DeliverType DEF SensorHandles, Datagram
      <3>3. sensor' \in [addr : Addresses, port : Ports, nextAddr : Addresses,
                        nextPort : Ports, set : [Settings -> Values],
                        spinning : BOOLEAN]
        <4> DEFINE c == Head(cmds)
        <4>1. CASE c.type = "START" \/ c.type = "STOP"
          BY <1>23, <4>1 DEF SensorHandles
        <4>2. CASE c.type = "ADDRESS"
          BY <1>23, <3>1, <4>2, CommandFields DEF SensorHandles
        <4>3. CASE c.type = "DESTINATION"
          BY <1>23, <3>1, <4>3, CommandFields DEF SensorHandles
        <4>4. CASE c.type \notin {"START", "STOP", "ADDRESS", "DESTINATION"}
          <5>1. c.type \in Settings /\ c.arg \in Values
            BY <3>1, <4>4, CommandFields DEF Stored
          <5> QED
            BY <1>23, <4>4, <5>1 DEF SensorHandles
        <4> QED
          BY <4>1, <4>2, <4>3, <4>4
      <3>4. UNCHANGED <<appVars, threadVars, holder, socket, leaked, lost>>
        BY <1>23 DEF SensorHandles
      <3> QED
        BY <3>1, <3>2, <3>3, <3>4, SMTT(10)
    <2>2. ControlOK'
      BY <1>23, SMTT(10) DEF SensorHandles
    <2> QED
      BY <2>1, <2>2
  <1>24. CASE SensorScans
    <2>1. TypeOK'
      BY <1>24, ConstantsAssumption, SMTT(10) DEF SensorScans, Datagram
    <2>2. ControlOK'
      BY <1>24, SMTT(10) DEF SensorScans, Datagram
    <2> QED
      BY <2>1, <2>2
  <1>25. CASE PowerCycle
    <2>1. TypeOK'
      <3>1. lost' \in BOOLEAN
        BY <1>25 DEF PowerCycle
      <3>2. cmds' \in Seq(Command)
        BY <1>25 DEF PowerCycle
      <3>3. sensor' \in [addr : Addresses, port : Ports, nextAddr : Addresses,
                        nextPort : Ports, set : [Settings -> Values],
                        spinning : BOOLEAN]
        BY <1>25 DEF PowerCycle
      <3> QED
        BY <1>25, <3>1, <3>2, <3>3, SMTT(10) DEF PowerCycle
    <2>2. ControlOK'
      BY <1>25, SMTT(10) DEF PowerCycle
    <2> QED
      BY <2>1, <2>2
  <1>26. CASE UNCHANGED vars
    <2>1. TypeOK'
      BY <1>26, SMTT(10) DEF vars
    <2>2. ControlOK'
      BY <1>26, SMTT(10) DEF vars
    <2> QED
      BY <2>1, <2>2
  <1> QED
    BY <1>1, <1>2, <1>3, <1>4, <1>5, <1>6, <1>7, <1>8, <1>9, <1>10, <1>11,
       <1>12, <1>13, <1>14, <1>15, <1>16, <1>17, <1>18, <1>19, <1>20,
       <1>21, <1>22, <1>23, <1>24, <1>25, <1>26 DEF Next, NewCall,
       CallStep, UpdateThread, Sensor

\* Every variable keeps its type: commands, datagrams, sockets and settings are
\* always ones the constants allow.
THEOREM TypeCorrect == Spec => []TypeOK
  <1>1. Spec => []TypeInv
    BY TypeInit, TypeStep, PTL DEF Spec
  <1> QED
    BY <1>1, PTL DEF TypeInv

-----------------------------------------------------------------------------
(***************************************************************************)
(* The update thread, the socket and the mutex                             *)
(***************************************************************************)
LEMMA SafeInit == Init => ThreadOK /\ BoundOK /\ MutexOK
  BY DEF Init, ThreadOK, BoundOK, MutexOK

\* A launch is one of start(), and finds no thread.
LEMMA LaunchFinds ==
  ASSUME TypeOK, ControlOK, ThreadOK, LaunchThread
  PROVE  /\ pc = "answered" /\ acked /\ call = "start" /\ thread = "none"
         /\ Return /\ thread' = "loop" /\ started' = TRUE /\ frameCount' = 0
         /\ abandoned' = FALSE /\ snd.type = "START"
         /\ UNCHANGED <<tries, cfg, holder, socketVars, lineVars>>
  <1>1. call = "start"
    BY SettingTypes DEF TypeOK, ControlOK, Sending, Setting, Stored, LaunchThread
  <1>2. thread = "none"
    BY <1>1 DEF ThreadOK
  <1> QED
    BY <1>1, <1>2 DEF LaunchThread

LEMMA ThreadStep ==
  ASSUME TypeOK, ControlOK, ThreadOK, [Next]_vars
  PROVE  ThreadOK'
  <1> USE DEF TypeOK, ControlOK, ThreadOK, Sending, Setting, Return, appVars,
              callVars, knownVars, threadVars, socketVars, lineVars
  <1>1. CASE OpenSucceeds
    BY <1>1, SMTT(10) DEF OpenSucceeds
  <1>2. CASE OpenFails
    BY <1>2, SMTT(10) DEF OpenFails
  <1>3. CASE Send
    BY <1>3, SMTT(10) DEF Send
  <1>4. CASE Resend
    BY <1>4, SMTT(10) DEF Resend
  <1>5. CASE Receive
    BY <1>5, SMTT(10) DEF Receive, WaitReturns
  <1>6. CASE NextSetting
    BY <1>6, SMTT(10) DEF NextSetting
  <1>7. CASE ValueStored
    BY <1>7, SMTT(10) DEF ValueStored, NextOf
  <1>8. CASE LaunchThread
    BY <1>8, LaunchFinds
  <1>9. CASE StartThrows
    BY <1>9, SMTT(10) DEF StartThrows
  <1>10. CASE StopAnswered
    BY <1>10, SMTT(10) DEF StopAnswered
  <1>11. CASE Join
    BY <1>11, SMTT(10) DEF Join
  <1>12. CASE ClosePort
    BY <1>12, SMTT(10) DEF ClosePort
  <1>13. CASE WaitTimesOut
    BY <1>13, SMTT(10) DEF WaitTimesOut, WaitReturns
  <1>14. CASE Start
    BY <1>14, SMTT(10) DEF Start
  <1>15. CASE Stop
    BY <1>15, SMTT(10) DEF Stop
  <1>16. CASE Close
    BY <1>16, SMTT(10) DEF Close
  <1>17. ASSUME NEW a \in Addresses, NEW p \in Ports, NEW s \in [Settings -> Values],
               Connect(a, p, s)
        PROVE  ThreadOK'
    BY <1>17, SMTT(10) DEF Connect
  <1>18. ASSUME NEW c \in Command, Set(c) PROVE ThreadOK'
    BY <1>18, SMTT(10) DEF Set
  <1>19. CASE UpdateThread
    BY <1>19, SMTT(10) DEF UpdateThread, LoopTest, UpdateLock, Read, Parse
  <1>20. CASE SensorHandles
    BY <1>20, SMTT(10) DEF SensorHandles
  <1>21. CASE SensorScans
    BY <1>21, SMTT(10) DEF SensorScans
  <1>22. CASE PowerCycle
    BY <1>22, SMTT(10) DEF PowerCycle
  <1>23. CASE UNCHANGED vars
    BY <1>23, SMTT(10) DEF vars
  <1> QED
    BY <1>1, <1>2, <1>3, <1>4, <1>5, <1>6, <1>7, <1>8, <1>9, <1>10, <1>11,
       <1>12, <1>13, <1>14, <1>15, <1>16, <1>17, <1>18, <1>19, <1>20,
       <1>21, <1>22, <1>23 DEF Next, NewCall, CallStep, Sensor

LEMMA BoundStep ==
  ASSUME TypeOK, ControlOK, ThreadOK, BoundOK, [Next]_vars
  PROVE  BoundOK'
  <1> USE DEF TypeOK, ControlOK, ThreadOK, BoundOK, Sending, Setting, Return,
              appVars, callVars, knownVars, threadVars, socketVars, lineVars
  <1>1. CASE OpenSucceeds
    BY <1>1, Lists, SMTT(10) DEF OpenSucceeds, Config
  <1>2. CASE OpenFails
    BY <1>2, SMTT(10) DEF OpenFails
  <1>3. CASE Send
    BY <1>3, SMTT(10) DEF Send
  <1>4. CASE Resend
    BY <1>4, SMTT(10) DEF Resend
  <1>5. CASE Receive
    BY <1>5, SMTT(10) DEF Receive, WaitReturns
  <1>6. CASE NextSetting
    BY <1>6, SMTT(10) DEF NextSetting
  <1>7. CASE ValueStored
    BY <1>7, SMTT(10) DEF ValueStored, NextOf
  <1>8. CASE LaunchThread
    BY <1>8, LaunchFinds
  <1>9. CASE StartThrows
    BY <1>9, SMTT(10) DEF StartThrows
  <1>10. CASE StopAnswered
    BY <1>10, SMTT(10) DEF StopAnswered
  <1>11. CASE Join
    BY <1>11, SMTT(10) DEF Join
  <1>12. CASE ClosePort
    BY <1>12, SMTT(10) DEF ClosePort
  <1>13. CASE WaitTimesOut
    BY <1>13, SMTT(10) DEF WaitTimesOut, WaitReturns
  <1>14. CASE Start
    BY <1>14, SMTT(10) DEF Start
  <1>15. CASE Stop
    BY <1>15, SMTT(10) DEF Stop
  <1>16. CASE Close
    BY <1>16, SMTT(10) DEF Close
  <1>17. ASSUME NEW a \in Addresses, NEW p \in Ports, NEW s \in [Settings -> Values],
               Connect(a, p, s)
        PROVE  BoundOK'
    BY <1>17, SMTT(10) DEF Connect
  <1>18. ASSUME NEW c \in Command, Set(c) PROVE BoundOK'
    BY <1>18, SMTT(10) DEF Set
  <1>19. CASE UpdateThread
    BY <1>19, SMTT(10) DEF UpdateThread, LoopTest, UpdateLock, Read, Parse
  <1>20. CASE SensorHandles
    BY <1>20, SMTT(10) DEF SensorHandles, Deliver
  <1>21. CASE SensorScans
    BY <1>21, SMTT(10) DEF SensorScans
  <1>22. CASE PowerCycle
    BY <1>22, SMTT(10) DEF PowerCycle
  <1>23. CASE UNCHANGED vars
    BY <1>23, SMTT(10) DEF vars
  <1> QED
    BY <1>1, <1>2, <1>3, <1>4, <1>5, <1>6, <1>7, <1>8, <1>9, <1>10, <1>11,
       <1>12, <1>13, <1>14, <1>15, <1>16, <1>17, <1>18, <1>19, <1>20,
       <1>21, <1>22, <1>23 DEF Next, NewCall, CallStep, Sensor

LEMMA MutexStep ==
  ASSUME TypeOK, ControlOK, ThreadOK, MutexOK, [Next]_vars
  PROVE  MutexOK'
  <1> USE DEF TypeOK, MutexOK, Return, appVars, callVars, knownVars, threadVars,
              socketVars, lineVars
  <1>1. CASE OpenSucceeds
    BY <1>1, SMTT(10) DEF OpenSucceeds
  <1>2. CASE OpenFails
    BY <1>2, SMTT(10) DEF OpenFails
  <1>3. CASE Send
    BY <1>3, SMTT(10) DEF Send
  <1>4. CASE Resend
    BY <1>4, SMTT(10) DEF Resend
  <1>5. CASE Receive
    BY <1>5, SMTT(10) DEF Receive, WaitReturns
  <1>6. CASE NextSetting
    BY <1>6, SMTT(10) DEF NextSetting
  <1>7. CASE ValueStored
    BY <1>7, SMTT(10) DEF ValueStored, NextOf
  <1>8. CASE LaunchThread
    BY <1>8, LaunchFinds
  <1>9. CASE StartThrows
    BY <1>9, SMTT(10) DEF StartThrows
  <1>10. CASE StopAnswered
    BY <1>10, SMTT(10) DEF StopAnswered
  <1>11. CASE Join
    BY <1>11, SMTT(10) DEF Join
  <1>12. CASE ClosePort
    BY <1>12, SMTT(10) DEF ClosePort
  <1>13. CASE WaitTimesOut
    BY <1>13, SMTT(10) DEF WaitTimesOut, WaitReturns
  <1>14. CASE Start
    BY <1>14, SMTT(10) DEF Start
  <1>15. CASE Stop
    BY <1>15, SMTT(10) DEF Stop
  <1>16. CASE Close
    BY <1>16, SMTT(10) DEF Close
  <1>17. ASSUME NEW a \in Addresses, NEW p \in Ports, NEW s \in [Settings -> Values],
               Connect(a, p, s)
        PROVE  MutexOK'
    BY <1>17, SMTT(10) DEF Connect
  <1>18. ASSUME NEW c \in Command, Set(c) PROVE MutexOK'
    BY <1>18, SMTT(10) DEF Set
  <1>19. CASE UpdateThread
    BY <1>19, SMTT(10) DEF UpdateThread, LoopTest, UpdateLock, Read, Parse
  <1>20. CASE SensorHandles
    BY <1>20, SMTT(10) DEF SensorHandles
  <1>21. CASE SensorScans
    BY <1>21, SMTT(10) DEF SensorScans
  <1>22. CASE PowerCycle
    BY <1>22, SMTT(10) DEF PowerCycle
  <1>23. CASE UNCHANGED vars
    BY <1>23, SMTT(10) DEF vars
  <1> QED
    BY <1>1, <1>2, <1>3, <1>4, <1>5, <1>6, <1>7, <1>8, <1>9, <1>10, <1>11,
       <1>12, <1>13, <1>14, <1>15, <1>16, <1>17, <1>18, <1>19, <1>20,
       <1>21, <1>22, <1>23 DEF Next, NewCall, CallStep, Sensor

SafeInv == TypeInv /\ ThreadOK /\ BoundOK /\ MutexOK

LEMMA SafeCorrect == Spec => []SafeInv
  <1>1. Init => SafeInv
    BY TypeInit, SafeInit DEF SafeInv
  <1>2. SafeInv /\ [Next]_vars => SafeInv'
    BY TypeStep, ThreadStep, BoundStep, MutexStep DEF SafeInv, TypeInv
  <1> QED
    BY <1>1, <1>2, PTL DEF Spec

\* Between calls the update thread exists exactly for a started driver: a
\* start() that throws leaves none, a stop() joins it.
THEOREM ThreadFollowsStart == Spec => []ThreadOnlyWhenStarted
  <1>1. SafeInv => ThreadOnlyWhenStarted
    BY DEF SafeInv, ThreadOK, ThreadOnlyWhenStarted
  <1> QED
    BY <1>1, SafeCorrect, PTL

\* An update thread runs over a bound socket only, however opens failed.
THEOREM BoundThread == Spec => []BoundWhileRunning
  <1>1. SafeInv => BoundWhileRunning
    BY DEF SafeInv, BoundOK, BoundWhileRunning
  <1> QED
    BY <1>1, SafeCorrect, PTL

\* The command that waits for an answer and the update thread never read at
\* the same time.
THEOREM OneReaderOnly == Spec => []OneReader
  <1>1. SafeInv => OneReader
    BY DEF SafeInv, MutexOK, OneReader
  <1> QED
    BY <1>1, SafeCorrect, PTL

-----------------------------------------------------------------------------
(***************************************************************************)
(* Settings                                                                *)
(***************************************************************************)
LEMMA StartStep ==
  ASSUME TypeOK, ControlOK, ThreadOK, StartOK, [Next]_vars
  PROVE  StartOK'
  <1> USE DEF TypeOK, ControlOK, ThreadOK, StartOK, Sending, Setting, Return,
              appVars, callVars, knownVars, threadVars, socketVars, lineVars
  <1>1. CASE OpenSucceeds
    BY <1>1, SMTT(10) DEF OpenSucceeds
  <1>2. CASE OpenFails
    BY <1>2, SMTT(10) DEF OpenFails
  <1>3. CASE Send
    BY <1>3, SMTT(10) DEF Send
  <1>4. CASE Resend
    BY <1>4, SMTT(10) DEF Resend
  <1>5. CASE Receive
    BY <1>5, SMTT(10) DEF Receive, WaitReturns
  <1>6. CASE NextSetting
    <2>1. CASE sent < Len(SettingOrder)
      <3>1. SettingOrder[sent + 1] \in Settings
        BY <2>1, Lists
      <3> QED
        BY <1>6, <2>1, <3>1, SettingTypes DEF NextSetting, Cmd
    <2>2. CASE ~(sent < Len(SettingOrder))
      BY <1>6, <2>2, Lists DEF NextSetting, Cmd
    <2> QED
      BY <2>1, <2>2
  <1>7. CASE ValueStored
    BY <1>7, SMTT(10) DEF ValueStored, NextOf
  <1>8. CASE LaunchThread
    BY <1>8, LaunchFinds
  <1>9. CASE StartThrows
    BY <1>9, SMTT(10) DEF StartThrows
  <1>10. CASE StopAnswered
    BY <1>10, SMTT(10) DEF StopAnswered
  <1>11. CASE Join
    BY <1>11, SMTT(10) DEF Join
  <1>12. CASE ClosePort
    BY <1>12, SMTT(10) DEF ClosePort
  <1>13. CASE WaitTimesOut
    BY <1>13, SMTT(10) DEF WaitTimesOut, WaitReturns
  <1>14. CASE Start
    BY <1>14, SMTT(10) DEF Start
  <1>15. CASE Stop
    BY <1>15, SMTT(10) DEF Stop
  <1>16. CASE Close
    BY <1>16, SMTT(10) DEF Close
  <1>17. ASSUME NEW a \in Addresses, NEW p \in Ports, NEW s \in [Settings -> Values],
               Connect(a, p, s)
        PROVE  StartOK'
    BY <1>17, SMTT(10) DEF Connect
  <1>18. ASSUME NEW c \in Command, Set(c) PROVE StartOK'
    BY <1>18, SMTT(10) DEF Set, Stored
  <1>19. CASE UpdateThread
    BY <1>19, SMTT(10) DEF UpdateThread, LoopTest, UpdateLock, Read, Parse
  <1>20. CASE SensorHandles
    BY <1>20, SMTT(10) DEF SensorHandles
  <1>21. CASE SensorScans
    BY <1>21, SMTT(10) DEF SensorScans
  <1>22. CASE PowerCycle
    BY <1>22, SMTT(10) DEF PowerCycle
  <1>23. CASE UNCHANGED vars
    BY <1>23, SMTT(10) DEF vars
  <1> QED
    BY <1>1, <1>2, <1>3, <1>4, <1>5, <1>6, <1>7, <1>8, <1>9, <1>10, <1>11,
       <1>12, <1>13, <1>14, <1>15, <1>16, <1>17, <1>18, <1>19, <1>20,
       <1>21, <1>22, <1>23 DEF Next, NewCall, CallStep, Sensor

LEMMA SetStep ==
  ASSUME TypeOK, ControlOK, ThreadOK, StartOK, SetOK, [Next]_vars
  PROVE  SetOK'
  <1> SUFFICES ASSUME ~lost', NEW t \in Settings, Synced(t)'
               PROVE  WillSet(cmds, sensor, t, Wanted(t))'
    BY DEF SetOK
  <1> USE DEF TypeOK, ControlOK, ThreadOK, Sending, Setting, Return, appVars,
              callVars, knownVars, threadVars, socketVars, lineVars, Synced, Sent
  <1>0. ASSUME UNCHANGED <<cmds, sensor, lost>>, Synced(t), Wanted(t)' = Wanted(t)
        PROVE  WillSet(cmds, sensor, t, Wanted(t))'
    BY <1>0 DEF SetOK
  <1>t. t \notin {"START", "STOP", "ADDRESS", "DESTINATION"}
    BY SettingTypes
  <1>1. CASE OpenSucceeds
    BY <1>1 DEF OpenSucceeds
  <1>2. CASE OpenFails
    BY <1>2 DEF OpenFails
  <1>3. CASE Send
    <2>1. CASE socket = Closed
      <3>1. UNCHANGED <<cmds, sensor, lost>> /\ Synced(t)
        BY <1>3, <1>t, <2>1 DEF Send
      <3>2. Wanted(t)' = Wanted(t)
        BY <1>3, <1>t, <2>1 DEF Send, Wanted
      <3> QED
        BY <1>0, <3>1, <3>2
    <2>2. CASE socket # Closed
      <3>1. cmds' = Append(cmds, snd) /\ UNCHANGED <<sensor, lost>>
        BY <1>3, <2>2 DEF Send, Write
      <3>2. IF snd.type = t THEN snd.arg = Wanted(t)'
            ELSE WillSet(cmds, sensor, t, Wanted(t)')
        <4>1. CASE snd.type = t
          BY <1>3, <2>2, <4>1 DEF Send, Wanted
        <4>2. CASE snd.type # t
          <5>1. Synced(t) /\ Wanted(t)' = Wanted(t)
            BY <1>3, <2>2, <4>2 DEF Send, Wanted
          <5> QED
            BY <3>1, <4>2, <5>1 DEF SetOK
        <4> QED
          BY <4>1, <4>2
      <3> QED
        BY <3>1, <3>2, SetAppended
    <2> QED
      BY <2>1, <2>2
  <1>4. CASE Resend
    <2>1. cmds' = Append(cmds, snd) /\ UNCHANGED <<sensor, lost>>
      BY <1>4 DEF Resend, Write
    <2>2. Synced(t) /\ Wanted(t)' = Wanted(t)
      BY <1>4 DEF Resend, Wanted
    <2>3. IF snd.type = t THEN snd.arg = Wanted(t)'
          ELSE WillSet(cmds, sensor, t, Wanted(t)')
      BY <1>4, <2>1, <2>2 DEF Resend, Wanted, SetOK
    <2> QED
      BY <2>1, <2>3, SetAppended
  <1>5. CASE Receive
    <2>1. UNCHANGED <<cmds, sensor, lost>> /\ Synced(t)
      BY <1>5, <1>t DEF Receive, WaitReturns
    <2>2. Wanted(t)' = Wanted(t)
      BY <1>5, <1>t DEF Receive, WaitReturns, Wanted
    <2> QED
      BY <1>0, <2>1, <2>2
  <1>6. CASE NextSetting
    <2>1. UNCHANGED <<cmds, sensor, lost>> /\ Synced(t)
      BY <1>6, <1>t DEF NextSetting
    <2>2. Wanted(t)' = Wanted(t)
      BY <1>6, <1>t DEF NextSetting, Wanted
    <2> QED
      BY <1>0, <2>1, <2>2
  <1>7. CASE ValueStored
    <2>1. UNCHANGED <<cmds, sensor, lost>>
      BY <1>7 DEF ValueStored
    <2>2. Synced(t)
      <3>1. CASE call = "start"
        <4>1. call' = "start" /\ sent' = sent + 1 /\ ~started'
          BY <1>7, <3>1 DEF ValueStored, NextOf
        <4>2. PICK i \in 1..(sent + 1) : SettingOrder[i] = t
          BY <1>7, <4>1 DEF ValueStored, NextOf
        <4>3. CASE i = sent + 1
          <5>1. snd.type # "START"
            BY <1>7, SettingTypes DEF ValueStored
          <5> QED
            BY <1>7, <3>1, <4>2, <4>3, <5>1 DEF ValueStored, StartOK
        <4>4. CASE i # sent + 1
          <5>1. i \in 1..sent
            BY <4>4, Lists
          <5> QED
            BY <3>1, <4>2, <5>1
        <4> QED
          BY <4>3, <4>4
      <3>2. CASE call # "start"
        BY <1>7, <1>t, <3>2 DEF ValueStored
      <3> QED
        BY <3>1, <3>2
    <2>3. Wanted(t)' = cfg'.set[t]
      BY <1>7 DEF ValueStored, NextOf, Wanted
    <2>4. cfg'.set[t] = Wanted(t)
      <3>1. CASE snd.type = t
        BY <1>7, <1>t, <3>1 DEF ValueStored, Config, Wanted
      <3>2. CASE snd.type # t
        BY <1>7, <1>t, <3>2 DEF ValueStored, Config, Wanted
      <3> QED
        BY <3>1, <3>2
    <2> QED
      BY <1>0, <2>1, <2>2, <2>3, <2>4
  <1>8. CASE LaunchThread
    <2>1. sent = Len(SettingOrder)
      BY <1>8, LaunchFinds DEF StartOK
    <2>2. Synced(t)
      <3>1. PICK i \in 1..Len(SettingOrder) : SettingOrder[i] = t
        BY ConstantsAssumption DEF Settings
      <3> QED
        BY <1>8, <2>1, <3>1, LaunchFinds
    <2>3. UNCHANGED <<cmds, sensor, lost>> /\ Wanted(t)' = Wanted(t)
      BY <1>8, <1>t, LaunchFinds DEF Wanted
    <2> QED
      BY <1>0, <2>2, <2>3
  <1>9. CASE StartThrows
    <2>1. call = "start"
      BY <1>9, SettingTypes DEF StartThrows, Stored
    <2> QED
      BY <1>9, <2>1 DEF StartThrows
  <1>10. CASE StopAnswered
    <2>1. UNCHANGED <<cmds, sensor, lost>> /\ Synced(t)
      BY <1>10, <1>t DEF StopAnswered
    <2>2. Wanted(t)' = Wanted(t)
      BY <1>10, <1>t DEF StopAnswered, Wanted
    <2> QED
      BY <1>0, <2>1, <2>2
  <1>11. CASE Join
    BY <1>11 DEF Join
  <1>12. CASE ClosePort
    <2>1. UNCHANGED <<cmds, sensor, lost>> /\ Synced(t)
      BY <1>12, <1>t DEF ClosePort
    <2>2. Wanted(t)' = Wanted(t)
      BY <1>12, <1>t DEF ClosePort, Wanted
    <2> QED
      BY <1>0, <2>1, <2>2
  <1>13. CASE WaitTimesOut
    <2>1. UNCHANGED <<cmds, sensor, lost>> /\ Synced(t)
      BY <1>13, <1>t DEF WaitTimesOut, WaitReturns
    <2>2. Wanted(t)' = Wanted(t)
      BY <1>13, <1>t DEF WaitTimesOut, WaitReturns, Wanted
    <2> QED
      BY <1>0, <2>1, <2>2
  <1>14. CASE Start
    BY <1>14 DEF Start
  <1>15. CASE Stop
    <2>1. UNCHANGED <<cmds, sensor, lost>> /\ Synced(t)
      BY <1>15, <1>t DEF Stop
    <2>2. Wanted(t)' = Wanted(t)
      BY <1>15, <1>t DEF Stop, Wanted
    <2> QED
      BY <1>0, <2>1, <2>2
  <1>16. CASE Close
    <2>1. UNCHANGED <<cmds, sensor, lost>> /\ Synced(t)
      BY <1>16, <1>t DEF Close
    <2>2. Wanted(t)' = Wanted(t)
      BY <1>16, <1>t DEF Close, Wanted
    <2> QED
      BY <1>0, <2>1, <2>2
  <1>17. ASSUME NEW a \in Addresses, NEW p \in Ports, NEW s \in [Settings -> Values],
               Connect(a, p, s)
        PROVE  WillSet(cmds, sensor, t, Wanted(t))'
    BY <1>17 DEF Connect
  <1>18. ASSUME NEW c \in Command, Set(c) PROVE WillSet(cmds, sensor, t, Wanted(t))'
    <2>1. UNCHANGED <<cmds, sensor, lost>> /\ Synced(t)
      BY <1>18, <1>t DEF Set
    <2>2. Wanted(t)' = Wanted(t)
      BY <1>18, <1>t DEF Set, Wanted
    <2> QED
      BY <1>0, <2>1, <2>2
  <1>19. CASE UpdateThread
    <2>1. UNCHANGED <<cmds, sensor, lost>> /\ Synced(t)
      BY <1>19, <1>t DEF UpdateThread, LoopTest, UpdateLock, Read, Parse
    <2>2. Wanted(t)' = Wanted(t)
      BY <1>19, <1>t DEF UpdateThread, LoopTest, UpdateLock, Read, Parse, Wanted
    <2> QED
      BY <1>0, <2>1, <2>2
  <1>20. CASE SensorHandles
    <2>1. cmds # <<>> /\ cmds' = Tail(cmds) /\ UNCHANGED lost
      BY <1>20 DEF SensorHandles
    <2>2. Synced(t) /\ Wanted(t)' = Wanted(t)
      BY <1>20 DEF SensorHandles, Wanted
    <2>3. WillSet(cmds, sensor, t, Wanted(t)')
      BY <2>1, <2>2 DEF SetOK
    <2> DEFINE c == Head(cmds)
    <2>4. c \in Command
      BY <2>1
    <2>5. sensor'.set[t] = IF c.type = t THEN c.arg ELSE sensor.set[t]
      <3>1. CASE c.type \in {"START", "STOP", "ADDRESS", "DESTINATION"}
        BY <1>20, <1>t, <3>1 DEF SensorHandles
      <3>2. CASE c.type \notin {"START", "STOP", "ADDRESS", "DESTINATION"}
        <4>1. c.type \in Settings
          BY <2>4, <3>2, CommandFields DEF Stored
        <4> QED
          BY <1>20, <3>2, <4>1 DEF SensorHandles
      <3> QED
        BY <3>1, <3>2
    <2> QED
      BY <2>1, <2>3, <2>5, SetHandled
  <1>21. CASE SensorScans
    <2>1. UNCHANGED <<cmds, sensor, lost>> /\ Synced(t)
      BY <1>21, <1>t DEF SensorScans
    <2>2. Wanted(t)' = Wanted(t)
      BY <1>21, <1>t DEF SensorScans, Wanted
    <2> QED
      BY <1>0, <2>1, <2>2
  <1>22. CASE PowerCycle
    BY <1>22 DEF PowerCycle
  <1>23. CASE UNCHANGED vars
    <2>1. UNCHANGED <<cmds, sensor, lost>> /\ Synced(t)
      BY <1>23, <1>t DEF vars
    <2>2. Wanted(t)' = Wanted(t)
      BY <1>23, <1>t DEF vars, Wanted
    <2> QED
      BY <1>0, <2>1, <2>2
  <1> QED
    BY <1>1, <1>2, <1>3, <1>4, <1>5, <1>6, <1>7, <1>8, <1>9, <1>10, <1>11,
       <1>12, <1>13, <1>14, <1>15, <1>16, <1>17, <1>18, <1>19, <1>20,
       <1>21, <1>22, <1>23 DEF Next, NewCall, CallStep, Sensor

\* If no command was lost, a settled sensor of a started driver spins with the
\* settings the getters report: the last command of a type decides, and the
\* driver's last is the one whose value it keeps.
THEOREM SettingsAgreed == Spec => []SettingsAgree
  <1>1. Init => StartOK /\ SetOK
    BY DEF Init, StartOK, SetOK, Sending
  <1>2. SafeInv /\ StartOK /\ SetOK /\ [Next]_vars => (StartOK /\ SetOK)'
    BY StartStep, SetStep DEF SafeInv, TypeInv
  <1>3. SafeInv /\ SetOK => SettingsAgree
    <2> SUFFICES ASSUME SafeInv, SetOK, Settled, started, ~lost
                 PROVE  sensor.set = cfg.set
      BY DEF SettingsAgree
    <2>1. sensor.set \in [Settings -> Values] /\ cfg.set \in [Settings -> Values]
      BY DEF SafeInv, TypeInv, TypeOK, Config
    <2>2. ASSUME NEW t \in Settings PROVE sensor.set[t] = cfg.set[t]
      BY <2>2 DEF SetOK, Settled, Synced, Sent, Wanted, WillSet
    <2> QED
      BY <2>1, <2>2
  <1> QED
    BY <1>1, <1>2, <1>3, SafeCorrect, PTL DEF Spec

-----------------------------------------------------------------------------
(***************************************************************************)
(* Spinning                                                                *)
(***************************************************************************)
LEMMA SpinStep ==
  ASSUME TypeOK, ControlOK, ThreadOK, SpinOK, [Next]_vars
  PROVE  SpinOK'
  <1> DEFINE AtRest == socket = Closed => ~started /\ ~abandoned
             Given == Sent("STOP") \/ pc \in {"join", "closePort"} => ~abandoned
             Unknown == pc \in {"open", "lock"} /\ call = "connect"
             Goal == ~lost /\ ~Unknown => WillSpin(cmds, sensor, ShouldSpin)
  <1> SUFFICES AtRest' /\ Given' /\ Goal'
    BY DEF SpinOK
  <1> USE DEF TypeOK, ControlOK, ThreadOK, Sending, Setting, Stored, Return,
              appVars, callVars, knownVars, threadVars, socketVars, lineVars, Sent
  <1>0. AtRest /\ Given /\ Goal
    BY DEF SpinOK
  <1>t. ShouldSpin \in BOOLEAN /\ ShouldSpin' \in BOOLEAN
    BY DEF ShouldSpin
  <1>q. ASSUME UNCHANGED <<cmds, sensor, lost>>, ~Unknown, ShouldSpin' <=> ShouldSpin
        PROVE  Goal'
    <2>1. ShouldSpin' = ShouldSpin
      BY <1>t, <1>q
    <2> QED
      BY <1>0, <1>q, <2>1
  <1> HIDE DEF Goal
  <1>1. CASE OpenSucceeds
    <2>1. AtRest' /\ Given'
      BY <1>1, <1>0, ConstantsAssumption DEF OpenSucceeds, Config
    <2>2. lost' \/ Unknown'
      BY <1>1 DEF OpenSucceeds, Config
    <2> QED
      BY <2>1, <2>2 DEF Goal
  <1>2. CASE OpenFails
    <2>1. AtRest' /\ Given'
      BY <1>2, <1>0, ConstantsAssumption DEF OpenFails
    <2>2. lost' \/ Unknown'
      BY <1>2 DEF OpenFails
    <2> QED
      BY <2>1, <2>2 DEF Goal
  <1>3. CASE Send
    <2>1. AtRest' /\ Given'
      BY <1>3, <1>0 DEF Send
    <2>2. CASE socket = Closed
      <3>1. UNCHANGED <<cmds, sensor, lost>> /\ ~Unknown
        BY <1>3, <2>2 DEF Send
      <3>2. ShouldSpin' <=> ShouldSpin
        BY <1>3, <1>0, <2>2, SettingTypes DEF Send, ShouldSpin
      <3> QED
        BY <1>q, <2>1, <3>1, <3>2
    <2>3. CASE socket # Closed /\ ~lost'
      <3>1. cmds' = Append(cmds, snd) /\ UNCHANGED <<sensor, lost>>
        BY <1>3, <2>3 DEF Send, Write
      <3>2. CASE snd.type \in {"START", "STOP"}
        <4>1. ShouldSpin' <=> snd.type = "START"
          BY <1>3, <2>3, <3>2 DEF Send, ShouldSpin
        <4> QED
          BY <1>t, <2>1, <3>1, <3>2, <4>1, SpinAppended DEF Goal
      <3>3. CASE snd.type \notin {"START", "STOP"}
        <4>1. ~Unknown /\ (ShouldSpin' <=> ShouldSpin)
          BY <1>3, <2>3, <3>3 DEF Send, ShouldSpin
        <4>2. WillSpin(cmds, sensor, ShouldSpin')
          <5>1. ShouldSpin' = ShouldSpin
            BY <1>t, <4>1
          <5> QED
            BY <1>0, <2>3, <3>1, <4>1, <5>1 DEF Goal
        <4> QED
          BY <1>t, <2>1, <3>1, <3>3, <4>2, SpinAppended DEF Goal
      <3> QED
        BY <3>2, <3>3
    <2>4. CASE lost'
      BY <2>1, <2>4 DEF Goal
    <2> QED
      BY <2>2, <2>3, <2>4
  <1>4. CASE Resend
    <2>1. AtRest' /\ Given' /\ ~Unknown
      BY <1>4, <1>0 DEF Resend
    <2>2. ShouldSpin' = ShouldSpin
      BY <1>4 DEF Resend, ShouldSpin
    <2>3. CASE ~lost'
      <3>1. cmds' = Append(cmds, snd) /\ UNCHANGED <<sensor, lost>>
        BY <1>4, <2>3 DEF Resend, Write
      <3>2. snd.type \in {"START", "STOP"} => (ShouldSpin' <=> snd.type = "START")
        BY <1>4 DEF Resend, ShouldSpin
      <3>3. WillSpin(cmds, sensor, ShouldSpin')
        BY <1>0, <2>1, <2>2, <2>3, <3>1 DEF Goal
      <3>4. WillSpin(cmds', sensor', ShouldSpin')
        BY <1>t, <3>1, <3>2, <3>3, SpinAppended
      <3> QED
        BY <2>1, <3>4 DEF Goal
    <2>4. CASE lost'
      BY <2>1, <2>4 DEF Goal
    <2> QED
      BY <2>3, <2>4
  <1>5. CASE Receive
    <2>1. AtRest' /\ Given'
      BY <1>5, <1>0 DEF Receive, WaitReturns
    <2>2. UNCHANGED <<cmds, sensor, lost>> /\ ~Unknown /\ (ShouldSpin' <=> ShouldSpin)
      BY <1>5, <1>0 DEF Receive, WaitReturns, ShouldSpin
    <2> QED
      BY <1>q, <2>1, <2>2
  <1>6. CASE NextSetting
    <2>1. AtRest' /\ Given'
      BY <1>6, <1>0 DEF NextSetting
    <2>2. UNCHANGED <<cmds, sensor, lost>> /\ ~Unknown /\ (ShouldSpin' <=> ShouldSpin)
      BY <1>6, <1>0 DEF NextSetting, ShouldSpin
    <2> QED
      BY <1>q, <2>1, <2>2
  <1>7. CASE ValueStored
    <2>1. AtRest' /\ Given'
      BY <1>7, <1>0, SettingTypes DEF ValueStored, NextOf
    <2>2. UNCHANGED <<cmds, sensor, lost>> /\ ~Unknown /\ (ShouldSpin' <=> ShouldSpin)
      BY <1>7, <1>0, SettingTypes DEF ValueStored, NextOf, ShouldSpin
    <2> QED
      BY <1>q, <2>1, <2>2
  <1>8. CASE LaunchThread
    <2>1. AtRest' /\ Given'
      BY <1>8, <1>0, LaunchFinds
    <2>2. UNCHANGED <<cmds, sensor, lost>> /\ ~Unknown /\ (ShouldSpin' <=> ShouldSpin)
      BY <1>8, LaunchFinds DEF ShouldSpin
    <2> QED
      BY <1>q, <2>1, <2>2
  <1>9. CASE StartThrows
    <2>1. AtRest' /\ Given'
      BY <1>9, <1>0, SettingTypes DEF StartThrows
    <2>2. UNCHANGED <<cmds, sensor, lost>> /\ ~Unknown /\ (ShouldSpin' <=> ShouldSpin)
      BY <1>9, <1>0, SettingTypes DEF StartThrows, ShouldSpin
    <2> QED
      BY <1>q, <2>1, <2>2
  <1>10. CASE StopAnswered
    <2>1. AtRest' /\ Given'
      BY <1>10, <1>0, SettingTypes DEF StopAnswered
    <2>2. UNCHANGED <<cmds, sensor, lost>> /\ ~Unknown /\ (ShouldSpin' <=> ShouldSpin)
      BY <1>10, <1>0, SettingTypes DEF StopAnswered, ShouldSpin
    <2> QED
      BY <1>q, <2>1, <2>2
  <1>11. CASE Join
    <2>1. AtRest' /\ Given'
      BY <1>11, <1>0 DEF Join
    <2>2. UNCHANGED <<cmds, sensor, lost>> /\ ~Unknown /\ (ShouldSpin' <=> ShouldSpin)
      BY <1>11, <1>0 DEF Join, ShouldSpin
    <2> QED
      BY <1>q, <2>1, <2>2
  <1>12. CASE ClosePort
    <2>1. AtRest' /\ Given'
      BY <1>12, <1>0 DEF ClosePort
    <2>2. UNCHANGED <<cmds, sensor, lost>> /\ ~Unknown /\ (ShouldSpin' <=> ShouldSpin)
      BY <1>12, <1>0 DEF ClosePort, ShouldSpin
    <2> QED
      BY <1>q, <2>1, <2>2
  <1>13. CASE WaitTimesOut
    <2>1. AtRest' /\ Given'
      BY <1>13, <1>0 DEF WaitTimesOut, WaitReturns
    <2>2. UNCHANGED <<cmds, sensor, lost>> /\ ~Unknown /\ (ShouldSpin' <=> ShouldSpin)
      BY <1>13, <1>0 DEF WaitTimesOut, WaitReturns, ShouldSpin
    <2> QED
      BY <1>q, <2>1, <2>2
  <1>14. CASE Start
    <2>1. AtRest' /\ Given'
      BY <1>14, <1>0 DEF Start
    <2>2. UNCHANGED <<cmds, sensor, lost>> /\ ~Unknown /\ (ShouldSpin' <=> ShouldSpin)
      BY <1>14, <1>0 DEF Start, ShouldSpin
    <2> QED
      BY <1>q, <2>1, <2>2
  <1>15. CASE Stop
    <2>1. AtRest' /\ Given'
      BY <1>15, <1>0 DEF Stop
    <2>2. UNCHANGED <<cmds, sensor, lost>> /\ ~Unknown /\ (ShouldSpin' <=> ShouldSpin)
      BY <1>15, <1>0 DEF Stop, ShouldSpin
    <2> QED
      BY <1>q, <2>1, <2>2
  <1>16. CASE Close
    <2>1. AtRest' /\ Given'
      BY <1>16, <1>0 DEF Close
    <2>2. UNCHANGED <<cmds, sensor, lost>> /\ ~Unknown /\ (ShouldSpin' <=> ShouldSpin)
      BY <1>16, <1>0 DEF Close, ShouldSpin
    <2> QED
      BY <1>q, <2>1, <2>2
  <1>17. ASSUME NEW a \in Addresses, NEW p \in Ports, NEW s \in [Settings -> Values],
               Connect(a, p, s)
        PROVE  AtRest' /\ Given' /\ Goal'
    <2>1. AtRest' /\ Given'
      BY <1>17, <1>0 DEF Connect
    <2>2. lost' \/ Unknown'
      BY <1>17 DEF Connect
    <2> QED
      BY <2>1, <2>2 DEF Goal
  <1>18. ASSUME NEW c \in Command, Set(c) PROVE AtRest' /\ Given' /\ Goal'
    <2>1. AtRest' /\ Given'
      BY <1>18, <1>0 DEF Set
    <2>2. UNCHANGED <<cmds, sensor, lost>> /\ ~Unknown /\ (ShouldSpin' <=> ShouldSpin)
      BY <1>18, <1>0 DEF Set, ShouldSpin
    <2> QED
      BY <1>q, <2>1, <2>2
  <1>19. CASE UpdateThread
    <2>1. AtRest' /\ Given' /\ (Unknown' <=> Unknown)
      BY <1>19, <1>0 DEF UpdateThread, LoopTest, UpdateLock, Read, Parse
    <2>2. UNCHANGED <<cmds, sensor, lost>> /\ (ShouldSpin' <=> ShouldSpin)
      BY <1>19 DEF UpdateThread, LoopTest, UpdateLock, Read, Parse, ShouldSpin
    <2>3. CASE Unknown
      BY <2>1, <2>3 DEF Goal
    <2>4. CASE ~Unknown
      BY <1>q, <2>1, <2>2, <2>4
    <2> QED
      BY <2>1, <2>3, <2>4
  <1>20. CASE SensorHandles
    <2>1. cmds # <<>> /\ cmds' = Tail(cmds) /\ UNCHANGED lost
      BY <1>20 DEF SensorHandles
    <2>2. AtRest' /\ Given' /\ (Unknown' <=> Unknown)
      BY <1>20, <1>0 DEF SensorHandles
    <2>3. ShouldSpin' = ShouldSpin
      BY <1>20 DEF SensorHandles, ShouldSpin
    <2> DEFINE c == Head(cmds)
    <2>4. /\ c.type = "START" => sensor'.spinning = TRUE
          /\ c.type = "STOP" => sensor'.spinning = FALSE
          /\ c.type \notin {"START", "STOP"} => sensor'.spinning = sensor.spinning
      BY <1>20 DEF SensorHandles
    <2>5. CASE ~lost /\ ~Unknown
      <3>1. WillSpin(cmds, sensor, ShouldSpin')
        BY <1>0, <2>3, <2>5 DEF Goal
      <3>2. WillSpin(cmds', sensor', ShouldSpin')
        <4>1. ASSUME NEW b \in BOOLEAN, WillSpin(cmds, sensor, b)
              PROVE  WillSpin(cmds', sensor', b)
          <5> HIDE DEF TypeOK
          <5>1. cmds \in Seq(Command)
            BY DEF TypeOK
          <5> QED
            BY <2>1, <2>4, <4>1, <5>1, SpinHandled
        <4> QED
          BY <1>t, <3>1, <4>1
      <3> QED
        BY <2>2, <3>2 DEF Goal
    <2>6. CASE lost \/ Unknown
      BY <2>1, <2>2, <2>6 DEF Goal
    <2> QED
      BY <2>5, <2>6
  <1>21. CASE SensorScans
    <2>1. AtRest' /\ Given' /\ (Unknown' <=> Unknown)
      BY <1>21, <1>0 DEF SensorScans
    <2>2. UNCHANGED <<cmds, sensor, lost>> /\ (ShouldSpin' <=> ShouldSpin)
      BY <1>21 DEF SensorScans, ShouldSpin
    <2>3. CASE Unknown
      BY <2>1, <2>3 DEF Goal
    <2>4. CASE ~Unknown
      BY <1>q, <2>1, <2>2, <2>4
    <2> QED
      BY <2>1, <2>3, <2>4
  <1>22. CASE PowerCycle
    <2>1. AtRest' /\ Given'
      BY <1>22, <1>0 DEF PowerCycle
    <2>2. lost' \/ Unknown'
      BY <1>22 DEF PowerCycle
    <2> QED
      BY <2>1, <2>2 DEF Goal
  <1>23. CASE UNCHANGED vars
    <2>1. AtRest' /\ Given' /\ (Unknown' <=> Unknown)
      BY <1>23, <1>0 DEF vars
    <2>2. UNCHANGED <<cmds, sensor, lost>> /\ (ShouldSpin' <=> ShouldSpin)
      BY <1>23 DEF vars, ShouldSpin
    <2>3. CASE Unknown
      BY <2>1, <2>3 DEF Goal
    <2>4. CASE ~Unknown
      BY <1>q, <2>1, <2>2, <2>4
    <2> QED
      BY <2>1, <2>3, <2>4
  <1> QED
    BY <1>1, <1>2, <1>3, <1>4, <1>5, <1>6, <1>7, <1>8, <1>9, <1>10, <1>11,
       <1>12, <1>13, <1>14, <1>15, <1>16, <1>17, <1>18, <1>19, <1>20,
       <1>21, <1>22, <1>23 DEF Next, NewCall, CallStep, Sensor

\* If no command was lost, a settled sensor spins exactly when the driver is
\* started or its last start() gave up: the last START or STOP decides.
THEOREM SpinningFollows == Spec => []SpinningExplained
  <1>1. Init => SpinOK
    BY DEF Init, SpinOK, Sent
  <1>2. SafeInv /\ SpinOK /\ [Next]_vars => SpinOK'
    BY SpinStep DEF SafeInv, TypeInv
  <1>3. SafeInv /\ SpinOK => SpinningExplained
    <2> SUFFICES ASSUME SafeInv, SpinOK, Settled, ~lost
                 PROVE  sensor.spinning <=> started \/ abandoned
      BY DEF SpinningExplained
    <2>1. ShouldSpin <=> started \/ abandoned
      BY DEF Settled, ShouldSpin, Sent
    <2>2. WillSpin(<<>>, sensor, ShouldSpin)
      BY DEF Settled, SpinOK
    <2>3. sensor.spinning = ShouldSpin
      BY <2>2 DEF WillSpin
    <2> QED
      BY <2>1, <2>3
  <1> QED
    BY <1>1, <1>2, <1>3, SafeCorrect, PTL DEF Spec

-----------------------------------------------------------------------------
(***************************************************************************)
(* Refinement                                                              *)
(***************************************************************************)
LEMMA RefinementStep ==
  ASSUME SafeInv, SafeInv', [Next]_vars
  PROVE  [SD!Next]_(SD!vars)
  <1> USE DEF SafeInv, TypeInv, TypeOK, ControlOK, ThreadOK, BoundOK, Sending,
              Setting, Return, appVars, callVars, knownVars, threadVars,
              socketVars, lineVars, SD!Next, SD!vars
  <1>0. frameCount \in Nat /\ frameCount' \in Nat
    BY ConstantsAssumption
  <1>1. CASE OpenSucceeds
    BY <1>1, SMTT(10) DEF OpenSucceeds, SD!Relink
  <1>2. CASE OpenFails
    BY <1>2, SMTT(10) DEF OpenFails, SD!Relink
  <1>3. CASE Send
    BY <1>3, SMTT(10) DEF Send
  <1>4. CASE Resend
    BY <1>4, SMTT(10) DEF Resend
  <1>5. CASE Receive
    BY <1>5, SMTT(10) DEF Receive, WaitReturns
  <1>6. CASE NextSetting
    BY <1>6, SMTT(10) DEF NextSetting
  <1>7. CASE ValueStored
    BY <1>7, SMTT(10) DEF ValueStored, NextOf
  <1>8. CASE LaunchThread
    BY <1>8, LaunchFinds, ConstantsAssumption DEF SD!Launch
  <1>9. CASE StartThrows
    BY <1>9, SMTT(10) DEF StartThrows
  <1>10. CASE StopAnswered
    BY <1>10, SMTT(10) DEF StopAnswered
  <1>11. CASE Join
    BY <1>11, SMTT(10) DEF Join, SD!Retire
  <1>12. CASE ClosePort
    BY <1>12, SMTT(10) DEF ClosePort, SD!Relink
  <1>13. CASE WaitTimesOut
    BY <1>13, SMTT(10) DEF WaitTimesOut, WaitReturns
  <1>14. CASE Start
    BY <1>14, SMTT(10) DEF Start
  <1>15. CASE Stop
    BY <1>15, SMTT(10) DEF Stop
  <1>16. CASE Close
    BY <1>16, SMTT(10) DEF Close
  <1>17. ASSUME NEW a \in Addresses, NEW p \in Ports, NEW s \in [Settings -> Values],
               Connect(a, p, s)
        PROVE  [SD!Next]_(SD!vars)
    BY <1>17, SMTT(10) DEF Connect
  <1>18. ASSUME NEW c \in Command, Set(c) PROVE [SD!Next]_(SD!vars)
    BY <1>18, SMTT(10) DEF Set
  <1>19. CASE LoopTest
    BY <1>19, SMTT(10) DEF LoopTest
  <1>20. CASE UpdateLock
    BY <1>20, SMTT(10) DEF UpdateLock
  <1>21. CASE Read
    BY <1>21, SMTT(10) DEF Read
  <1>22. CASE Parse
    <2>1. frameCount' = frameCount \/ frameCount' > frameCount
      BY <1>0, <1>22, ConstantsAssumption DEF Parse
    <2>2. socket # Closed /\ thread # "none" /\ thread' # "none"
      BY <1>22, ConstantsAssumption DEF Parse
    <2> QED
      BY <1>0, <1>22, <2>1, <2>2 DEF Parse, SD!Deliver
  <1>23. CASE SensorHandles
    BY <1>23, SMTT(10) DEF SensorHandles
  <1>24. CASE SensorScans
    BY <1>24, SMTT(10) DEF SensorScans
  <1>25. CASE PowerCycle
    BY <1>25, SMTT(10) DEF PowerCycle
  <1>26. CASE UNCHANGED vars
    BY <1>26, SMTT(10) DEF vars
  <1> QED
    BY <1>1, <1>2, <1>3, <1>4, <1>5, <1>6, <1>7, <1>8, <1>9, <1>10, <1>11,
       <1>12, <1>13, <1>14, <1>15, <1>16, <1>17, <1>18, <1>19, <1>20,
       <1>21, <1>22, <1>23, <1>24, <1>25, <1>26 DEF Next, NewCall,
       CallStep, UpdateThread, Sensor

\* ProE::Driver implements SensorDriver, for every number of ports, settings and
\* resends, and whatever the network loses.
THEOREM Implements == Spec => SensorDriverSpec
  <1>1. Init => SD!Init
    BY DEF Init, SD!Init
  <1>2. SafeInv /\ SafeInv' /\ [Next]_vars => [SD!Next]_(SD!vars)
    BY RefinementStep
  <1> QED
    BY <1>1, <1>2, SafeCorrect, PTL DEF Spec, SensorDriverSpec, SD!Spec
=============================================================================
