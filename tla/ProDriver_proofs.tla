-------------------------- MODULE ProDriver_proofs --------------------------
(***************************************************************************)
(* What holds of Pro::Driver for every set of rates, settings and bounds:  *)
(* type correctness, and, for applications that do not call setBaudRate    *)
(* before runUpdateThread was first assigned, the safety of the update     *)
(* thread and the implementation of SensorDriver; for applications that    *)
(* never call it, that the rate found over a clean open is the sensor's    *)
(* and, over a line that loses no command, that driver and sensor agree.   *)
(***************************************************************************)
EXTENDS ProDriver, CommandQueue, TLAPS

\* setBaudRate reads runUpdateThread, which connect does not assign.
Careful == EagerRebaud => "setBaudRate" \notin Ops

Starting == {"start", "connect", "restart"}

\* Which call the application is in at each point, and what it is sending.
ControlOK ==
  /\ pc = "idle" <=> call = "none"
  /\ pc \in {"probeNext", "open"} => call = "connect"
  /\ call = "connect" /\ pc # "probeNext" => cfg.baud # AutoRate
  /\ pc \in {"start", "nextSetting"} => call \in Starting
  /\ pc \in {"send", "wait"} => call \in Starting \union {"set", "setBaudRate"}
  /\ pc \in {"send", "wait"} /\ call \in {"start", "restart"} =>
       snd.type \in {"START"} \union Settings
  /\ pc \in {"send", "wait"} /\ call = "connect" =>
       snd.type \in {"START", "STOP"} \union Settings
  /\ pc \in {"send", "wait"} /\ call = "set" => snd.type \in Settings
  /\ pc \in {"send", "wait"} /\ call = "setBaudRate" =>
       snd.type \in {"STOP", "BAUDRATE"}
  /\ pc \in {"stop", "join"} => call \in {"stop", "close", "connect", "restart"}
  /\ closing => pc \in {"stop", "join", "closePort"}
                  /\ call \in {"close", "connect"}
  /\ pc \in {"stop", "join"} /\ call = "close" => closing
  /\ pc \in {"close", "closePort"} => call \in {"close", "connect"}
  /\ pc = "setRate" => call \in {"connect", "setBaudRate", "restart"}
  /\ pc \in {"reopen", "reopening"} => call \in {"setBaudRate", "restart"}
  /\ call \in {"setBaudRate", "restart"} => rebaud \in Bauds

\* Where the update thread can be, and what runUpdateThread says of it.
ThreadOK ==
  /\ pc # "terminated"
  /\ thread # "none" => hPort # Closed
  /\ pc \in {"probeNext", "open", "start", "closePort", "reopen", "reopening",
             "setRate"}
       => thread = "none"
  /\ pc \in {"send", "wait", "nextSetting"} /\ call \in Starting
       => thread # "none"
  /\ call \in {"none", "set", "setBaudRate"} => (started <=> thread # "none")
  /\ call \in {"connect", "start"} => ~started
  /\ call = "restart" => started
  /\ thread # "none" => written
  /\ call = "setBaudRate" => written
  /\ pc = "join" => ~run
  /\ written /\ pc # "join" => (run <=> thread # "none")

\* The rate getBaudRate tells, while a change of it is under way.
RateOK ==
  /\ pc = "probeNext" /\ probed > 0 => hPort \notin Bauds
  /\ pc \in {"reopening", "setRate"} => hPort \notin Bauds
  /\ pc \notin {"probeNext", "open", "reopening", "setRate"} /\ call # "restart"
       => (hPort \in Bauds => cfg.baud = hPort)
  /\ pc \in {"start", "send", "wait", "nextSetting"} /\ call = "restart"
       => (hPort \in Bauds => hPort = rebaud)

-----------------------------------------------------------------------------
(***************************************************************************)
(* Types                                                                   *)
(***************************************************************************)
LEMMA Commands ==
  /\ \A t \in Settings, v \in Values : Cmd(t, v) \in Command
  /\ \A b \in Bauds : Cmd("BAUDRATE", b) \in Command
  /\ Cmd("START", None) \in Command
  /\ Stopping \in Command
  BY DEF Cmd, Command, Stopping

LEMMA SettingTypes == Settings \subseteq Setting
  BY ConstantsAssumption DEF Settings

LEMMA CommandFields ==
  ASSUME NEW c \in Command
  PROVE  /\ c.type \in MessageType
         /\ c.type \in Settings => c.arg \in Values
         /\ c.type = "BAUDRATE" => c.arg \in Bauds
  BY SettingTypes DEF Command, MessageType, Setting

LEMMA WriteType ==
  ASSUME cmds \in Seq(Command), NEW port, NEW c \in Command, Write(port, c)
  PROVE  cmds' \in Seq(Command)
  BY DEF Write

LEMMA Lists ==
  /\ Len(SettingOrder) \in Nat
  /\ \A i \in 0..(Len(SettingOrder) - 1) : SettingOrder[i + 1] \in Settings
  /\ Len(Probed) \in Nat \ {0}
  /\ \A i \in 0..(Len(Probed) - 1) : Probed[i + 1] \in Bauds
  BY ConstantsAssumption DEF Settings

LEMMA Empty ==
  /\ <<>> \in Seq(Token)
  /\ 0 \in 0..MaxFrames
  BY ConstantsAssumption

TypeInv == TypeOK /\ ControlOK

LEMMA TypeInit == Init => TypeInv
  <1> SUFFICES ASSUME Init PROVE TypeInv
    OBVIOUS
  <1>1. TypeOK
    <2>1. CallTypeOK
      <3>1. closing \in BOOLEAN /\ started \in BOOLEAN
        BY DEF Init
      <3> QED
        BY <3>1, Commands, Lists DEF Init, CallTypeOK, Public
    <2>2. DriverTypeOK
      BY ConstantsAssumption DEF Init, DriverTypeOK
    <2>3. BufferTypeOK
      BY Empty DEF Init, BufferTypeOK
    <2>4. LineTypeOK
      BY ConstantsAssumption DEF Init, LineTypeOK
    <2> QED
      BY <2>1, <2>2, <2>3, <2>4 DEF TypeOK
  <1>2. ControlOK
    BY DEF Init, ControlOK, Starting
  <1> QED
    BY <1>1, <1>2 DEF TypeInv

LEMMA TypeStep == TypeInv /\ [Next]_vars => TypeInv'
  <1> SUFFICES ASSUME TypeOK, ControlOK, [Next]_vars PROVE TypeOK' /\ ControlOK'
    BY DEF TypeInv
  <1> USE DEF Setting, TypeOK, CallTypeOK, DriverTypeOK, BufferTypeOK, LineTypeOK,
              ControlOK, Starting, Public, Return, appVars, portVars, loopVars, lineVars
  <1>1. CASE ProbeNext
    <2>1. TypeOK'
      <3>1. cfg' \in [baud : Bauds \union {AutoRate}, set : [Settings -> Values]]
        <4>1. probed < Len(Probed) => Probed[probed + 1] \in Bauds
          BY Lists
        <4> QED
          BY <1>1, <4>1 DEF ProbeNext
      <3>2. probed' \in 0..Len(Probed)
        BY <1>1, Lists DEF ProbeNext
      <3>3. clean' \in BOOLEAN
        BY <1>1 DEF ProbeNext
      <3> QED
        BY <1>1, <3>1, <3>2, <3>3, SMTT(60) DEF ProbeNext
    <2>2. ControlOK'
      BY <1>1, Lists, ConstantsAssumption, SMTT(60) DEF ProbeNext
    <2> QED
      BY <2>1, <2>2
  <1>o. CASE OpenFlushes
    <2>1. TypeOK'
      BY <1>o, Empty, SMTT(60) DEF OpenFlushes
    <2>2. ControlOK'
      BY <1>o, SMTT(60) DEF OpenFlushes
    <2> QED
      BY <2>1, <2>2
  <1>2. CASE OpenSucceeds
    <2>1. TypeOK'
      <3>1. clean' \in BOOLEAN
        BY <1>2 DEF OpenSucceeds
      <3>2. cmds' \in Seq(Command)
        BY <1>2, WriteType, Commands DEF OpenSucceeds
      <3>3. hPort' \in Bauds /\ tty' \in Bauds
        BY <1>2 DEF OpenSucceeds, RateSet
      <3> QED
        BY <1>2, <3>1, <3>2, <3>3, SMTT(60) DEF OpenSucceeds
    <2>2. ControlOK'
      BY <1>2, SMTT(60) DEF OpenSucceeds, RateSet
    <2> QED
      BY <2>1, <2>2
  <1>3. CASE OpenFails
    <2>1. TypeOK'
      <3>1. hPort' \in {Closed, Unset} /\ wire' \in Seq(Token)
        BY <1>3, ConstantsAssumption, Empty DEF OpenFails, FailedOpen
      <3> QED
        BY <1>3, <3>1, SMTT(60) DEF OpenFails
    <2>2. ControlOK'
      BY <1>3, SMTT(60) DEF OpenFails, FailedOpen
    <2> QED
      BY <2>1, <2>2
  <1>4. CASE LaunchThread
    <2>1. TypeOK'
      BY <1>4, Commands, Empty, Lists, SMTT(60) DEF LaunchThread, Cmd
    <2>2. ControlOK'
      BY <1>4, SMTT(60) DEF LaunchThread, Cmd
    <2> QED
      BY <2>1, <2>2
  <1>5. CASE StartThrows
    <2>1. TypeOK'
      <3>1. started' \in BOOLEAN
        BY <1>5 DEF StartThrows
      <3> QED
        BY <1>5, <3>1, Empty, SMTT(60) DEF StartThrows
    <2>2. ControlOK'
      BY <1>5, SMTT(60) DEF StartThrows
    <2> QED
      BY <2>1, <2>2
  <1>6. CASE NextSetting
    <2>1. TypeOK'
      <3>1. started' \in BOOLEAN
        BY <1>6 DEF NextSetting, Cmd, Stopping
      <3>2. snd' \in Command /\ sent' \in 0..Len(SettingOrder)
        <4>1. CASE sent < Len(SettingOrder)
          <5>1. SettingOrder[sent + 1] \in Settings
            BY <4>1, Lists
          <5>2. cfg.set[SettingOrder[sent + 1]] \in Values
            BY <5>1
          <5> QED
            BY <1>6, <4>1, <5>1, <5>2, Commands, Lists DEF NextSetting
        <4>2. CASE ~(sent < Len(SettingOrder))
          BY <1>6, <4>2, Commands, Lists DEF NextSetting
        <4> QED
          BY <4>1, <4>2
      <3>3. cfg' \in [baud : Bauds \union {AutoRate}, set : [Settings -> Values]]
        BY <1>6 DEF NextSetting
      <3> QED
        BY <1>6, <3>1, <3>2, <3>3, SMTT(60) DEF NextSetting
    <2>2. ControlOK'
      BY <1>6, Lists, SMTT(60) DEF NextSetting, Cmd, Stopping
    <2> QED
      BY <2>1, <2>2
  <1>7. CASE Send
    <2>1. TypeOK'
      BY <1>7, WriteType, CommandFields, SMTT(60) DEF Send
    <2>2. ControlOK'
      BY <1>7, SMTT(60) DEF Send
    <2> QED
      BY <2>1, <2>2
  <1>8. CASE Resend
    <2>1. TypeOK'
      BY <1>8, WriteType, SMTT(60) DEF Resend
    <2>2. ControlOK'
      BY <1>8, SMTT(60) DEF Resend
    <2> QED
      BY <2>1, <2>2
  <1>9. CASE StartAcked
    <2>1. TypeOK'
      BY <1>9, SMTT(60) DEF StartAcked, WaitReturns
    <2>2. ControlOK'
      BY <1>9, SettingTypes, SMTT(60) DEF StartAcked, WaitReturns
    <2> QED
      BY <2>1, <2>2
  <1>10. CASE SettingAcked
    <2>1. TypeOK'
      <3>1. snd.type \in Settings /\ snd.arg \in Values
        BY <1>10, CommandFields DEF SettingAcked
      <3>2. cfg' \in [baud : Bauds \union {AutoRate}, set : [Settings -> Values]]
        BY <1>10, <3>1 DEF SettingAcked
      <3>3. clean' \in BOOLEAN
        BY <1>10 DEF SettingAcked, WaitReturns
      <3>4. CallTypeOK'
        BY <1>10, SMTT(60) DEF SettingAcked, WaitReturns
      <3>5. DriverTypeOK' /\ BufferTypeOK'
        BY <1>10, <3>2, <3>3, SMTT(60) DEF SettingAcked, WaitReturns
      <3>6. LineTypeOK'
        BY <1>10, SMTT(60) DEF SettingAcked, WaitReturns
      <3> QED
        BY <3>4, <3>5, <3>6
    <2>2. ControlOK'
      BY <1>10, SettingTypes, SMTT(60) DEF SettingAcked, WaitReturns
    <2> QED
      BY <2>1, <2>2
  <1>11. CASE ProbeAcked
    <2>1. TypeOK'
      BY <1>11, SMTT(60) DEF ProbeAcked, WaitReturns
    <2>2. ControlOK'
      BY <1>11, SMTT(60) DEF ProbeAcked, WaitReturns
    <2> QED
      BY <2>1, <2>2
  <1>12. CASE StopAcked
    <2>1. TypeOK'
      BY <1>12, Commands, SMTT(60) DEF StopAcked, WaitReturns, Cmd
    <2>2. ControlOK'
      BY <1>12, SettingTypes, SMTT(60) DEF StopAcked, WaitReturns, Cmd
    <2> QED
      BY <2>1, <2>2
  <1>13. CASE BaudRateSent
    <2>1. TypeOK'
      BY <1>13, SMTT(60) DEF BaudRateSent, WaitReturns
    <2>2. ControlOK'
      <3>1. call = "setBaudRate"
        BY <1>13, SettingTypes DEF BaudRateSent, WaitReturns
      <3> QED
        BY <1>13, <3>1, SMTT(60) DEF BaudRateSent, WaitReturns
    <2> QED
      BY <2>1, <2>2
  <1>14. CASE StopWrite
    <2>1. TypeOK'
      <3>1. run' \in BOOLEAN /\ written' \in BOOLEAN
        BY <1>14 DEF StopWrite
      <3> QED
        BY <1>14, <3>1, WriteType, Commands, SMTT(60) DEF StopWrite
    <2>2. ControlOK'
      BY <1>14, SMTT(60) DEF StopWrite
    <2> QED
      BY <2>1, <2>2
  <1>15. CASE Join
    <2>1. TypeOK'
      BY <1>15, SMTT(60) DEF Join, AfterStop
    <2>2. ControlOK'
      BY <1>15, SMTT(60) DEF Join, AfterStop
    <2> QED
      BY <2>1, <2>2
  <1>16. CASE CloseStops
    <2>1. TypeOK'
      <3>1. closing' \in BOOLEAN
        BY <1>16 DEF CloseStops
      <3> QED
        BY <1>16, <3>1, SMTT(60) DEF CloseStops
    <2>2. ControlOK'
      BY <1>16, SMTT(60) DEF CloseStops
    <2> QED
      BY <2>1, <2>2
  <1>17. CASE ClosePort
    <2>1. TypeOK'
      <3>1. closing' \in BOOLEAN /\ started' \in BOOLEAN
        BY <1>17 DEF ClosePort, ClosedPort
      <3> QED
        BY <1>17, <3>1, Empty, SMTT(60) DEF ClosePort, ClosedPort
    <2>2. ControlOK'
      BY <1>17, SMTT(60) DEF ClosePort, ClosedPort
    <2> QED
      BY <2>1, <2>2
  <1>18. CASE Reopen
    <2>1. TypeOK'
      BY <1>18, Empty, SMTT(60) DEF Reopen, ClosedPort
    <2>2. ControlOK'
      BY <1>18, SMTT(60) DEF Reopen, ClosedPort
    <2> QED
      BY <2>1, <2>2
  <1>19. CASE ReopenSucceeds
    <2>1. TypeOK'
      BY <1>19, Empty, SMTT(60) DEF ReopenSucceeds, RateSet, Reopened
    <2>2. ControlOK'
      BY <1>19, SMTT(60) DEF ReopenSucceeds, RateSet, Reopened
    <2> QED
      BY <2>1, <2>2
  <1>20. CASE ReopenFails
    <2>1. TypeOK'
      <3>1. tries' \in Nat
        BY <1>20, ConstantsAssumption DEF ReopenFails
      <3>2. hPort' \in {Closed, Unset} /\ wire' \in Seq(Token)
        BY <1>20, ConstantsAssumption, Empty DEF ReopenFails, FailedOpen
      <3>3. cfg' \in [baud : Bauds \union {AutoRate}, set : [Settings -> Values]]
        BY <1>20, SMTT(60) DEF ReopenFails, Reopened
      <3> QED
        BY <1>20, <3>1, <3>2, <3>3, SMTT(60) DEF ReopenFails, Reopened
    <2>2. ControlOK'
      BY <1>20, SMTT(60) DEF ReopenFails, FailedOpen, Reopened
    <2> QED
      BY <2>1, <2>2
  <1>21. CASE Start
    <2>1. TypeOK'
      BY <1>21, SMTT(60) DEF Start
    <2>2. ControlOK'
      BY <1>21, SMTT(60) DEF Start
    <2> QED
      BY <2>1, <2>2
  <1>22. CASE Stop
    <2>1. TypeOK'
      BY <1>22, SMTT(60) DEF Stop
    <2>2. ControlOK'
      BY <1>22, SMTT(60) DEF Stop
    <2> QED
      BY <2>1, <2>2
  <1>23. CASE Close
    <2>1. TypeOK'
      BY <1>23, SMTT(60) DEF Close
    <2>2. ControlOK'
      BY <1>23, SMTT(60) DEF Close
    <2> QED
      BY <2>1, <2>2
  <1>24. ASSUME NEW b \in Bauds \union {AutoRate}, NEW s \in Configurations,
               Connect(b, s)
        PROVE  TypeOK' /\ ControlOK'
    <2>1. TypeOK'
      BY <1>24, ConstantsAssumption, Lists, SMTT(60) DEF Connect
    <2>2. ControlOK'
      BY <1>24, SMTT(60) DEF Connect
    <2> QED
      BY <2>1, <2>2
  <1>25. ASSUME NEW t \in Settings, NEW v \in Values,
               Set(t, v)
        PROVE  TypeOK' /\ ControlOK'
    <2>1. TypeOK'
      BY <1>25, Commands, SMTT(60) DEF Set, Cmd
    <2>2. ControlOK'
      BY <1>25, SMTT(60) DEF Set, Cmd
    <2> QED
      BY <2>1, <2>2
  <1>26. ASSUME NEW b \in Bauds, SetBaudRate(b) PROVE TypeOK' /\ ControlOK'
    <2>1. TypeOK'
      BY <1>26, Commands, SMTT(60) DEF SetBaudRate, Cmd, Stopping
    <2>2. ControlOK'
      BY <1>26, SMTT(60) DEF SetBaudRate, Cmd, Stopping
    <2> QED
      BY <2>1, <2>2
  <1>27. CASE LoopTest
    <2>1. TypeOK'
      BY <1>27, SMTT(60) DEF LoopTest
    <2>2. ControlOK'
      BY <1>27, SMTT(60) DEF LoopTest
    <2> QED
      BY <2>1, <2>2
  <1>28. CASE Read
    <2>1. TypeOK'
      BY <1>28, SMTT(60) DEF Read
    <2>2. ControlOK'
      BY <1>28, SMTT(60) DEF Read
    <2> QED
      BY <2>1, <2>2
  <1>29. CASE Parse
    <2>1. TypeOK'
      BY <1>29, SMTT(60) DEF Parse
    <2>2. ControlOK'
      BY <1>29, SMTT(60) DEF Parse
    <2> QED
      BY <2>1, <2>2
  <1>30. CASE SensorHandles
    <2>1. TypeOK'
      <3>1. Head(cmds) \in Command /\ cmds' \in Seq(Command)
        BY <1>30 DEF SensorHandles
      <3> DEFINE token == Head(cmds).type
      <3>2. wire' \in Seq(Token)
        <4>1. token \in Token
          BY <3>1, CommandFields DEF Token
        <4>2. wire' = wire \/ wire' = Append(wire, token)
          BY <1>30 DEF SensorHandles, Transmit
        <4>3. wire \in Seq(Token) /\ Append(wire, token) \in Seq(Token)
          BY <4>1
        <4> QED
          BY <4>2, <4>3
      <3>3. sensor' \in [baud : Bauds, set : [Settings -> Values],
                        spinning : BOOLEAN]
        <4> DEFINE c == Head(cmds)
        <4>1. CASE c.type = "START" \/ c.type = "STOP"
          BY <1>30, <4>1 DEF SensorHandles
        <4>2. CASE c.type = "BAUDRATE"
          BY <1>30, <3>1, <4>2, CommandFields DEF SensorHandles
        <4>3. CASE c.type \notin {"START", "STOP", "BAUDRATE"}
          <5>1. c.type \in Settings
            BY <3>1, <4>3 DEF Command
          <5> QED
            BY <1>30, <3>1, <4>3, <5>1, CommandFields DEF SensorHandles
        <4> QED
          BY <4>1, <4>2, <4>3
      <3>4. UNCHANGED <<appVars, portVars, loopVars>>
        BY <1>30 DEF SensorHandles
      <3> QED
        BY <3>1, <3>2, <3>3, <3>4, SMTT(60)
    <2>2. ControlOK'
      BY <1>30, SMTT(60) DEF SensorHandles, Transmit
    <2> QED
      BY <2>1, <2>2
  <1>31. CASE SensorScans
    <2>1. TypeOK'
      BY <1>31, SMTT(60) DEF SensorScans, Token
    <2>2. ControlOK'
      BY <1>31, SMTT(60) DEF SensorScans, Token
    <2> QED
      BY <2>1, <2>2
  <1>32. CASE UNCHANGED vars
    <2>1. TypeOK'
      BY <1>32, SMTT(60) DEF vars
    <2>2. ControlOK'
      BY <1>32, SMTT(60) DEF vars
    <2> QED
      BY <2>1, <2>2
  <1> QED
    BY <1>o, <1>1, <1>2, <1>3, <1>4, <1>5, <1>6, <1>7, <1>8, <1>9, <1>10, <1>11,
       <1>12, <1>13, <1>14, <1>15, <1>16, <1>17, <1>18, <1>19, <1>20, <1>21,
       <1>22, <1>23, <1>24, <1>25, <1>26, <1>27, <1>28, <1>29, <1>30, <1>31,
       <1>32 DEF Next, NewCall, CallStep, UpdateThread, Sensor

\* Every variable keeps its type; the driver's handles, rates and commands are
\* always ones its constants allow.
THEOREM TypeCorrect == Spec => []TypeOK
  <1>1. Spec => []TypeInv
    BY TypeInit, TypeStep, PTL DEF Spec
  <1> QED
    BY <1>1, PTL DEF TypeInv

-----------------------------------------------------------------------------
(***************************************************************************)
(* The update thread                                                       *)
(***************************************************************************)
LEMMA ThreadInit == Init => ThreadOK
  BY DEF Init, ThreadOK, Starting

LEMMA ThreadStep ==
  ASSUME Careful, TypeOK, ControlOK, ThreadOK, [Next]_vars
  PROVE  ThreadOK'
  <1> USE DEF ThreadOK, ControlOK, Starting, Return, appVars, portVars, loopVars, lineVars
  <1> USE DEF TypeOK, CallTypeOK, DriverTypeOK, Public
  <1>1. CASE ProbeNext
    BY <1>1, SMTT(60) DEF ProbeNext
  <1>o. CASE OpenFlushes
    BY <1>o, SMTT(60) DEF OpenFlushes
  <1>2. CASE OpenSucceeds
    BY <1>2, SMTT(60) DEF OpenSucceeds, RateSet
  <1>3. CASE OpenFails
    BY <1>3, SMTT(60) DEF OpenFails, FailedOpen
  <1>4. CASE LaunchThread
    BY <1>4, SMTT(60) DEF LaunchThread
  <1>5. CASE StartThrows
    BY <1>5, SMTT(60) DEF StartThrows
  <1>6. CASE NextSetting
    BY <1>6, SMTT(60) DEF NextSetting
  <1>7. CASE Send
    BY <1>7, SMTT(60) DEF Send
  <1>8. CASE Resend
    BY <1>8, SMTT(60) DEF Resend
  <1>9. CASE StartAcked
    BY <1>9, SettingTypes, SMTT(60) DEF StartAcked, WaitReturns, Setting
  <1>10. CASE SettingAcked
    BY <1>10, SettingTypes, SMTT(60) DEF SettingAcked, WaitReturns, Setting
  <1>11. CASE ProbeAcked
    BY <1>11, SMTT(60) DEF ProbeAcked, WaitReturns
  <1>12. CASE StopAcked
    BY <1>12, SMTT(60) DEF StopAcked, WaitReturns
  <1>13. CASE BaudRateSent
    BY <1>13, SettingTypes, SMTT(60) DEF BaudRateSent, WaitReturns, Setting
  <1>14. CASE StopWrite
    BY <1>14, SMTT(60) DEF StopWrite
  <1>15. CASE Join
    BY <1>15, SMTT(60) DEF Join, AfterStop
  <1>16. CASE CloseStops
    BY <1>16, SMTT(60) DEF CloseStops
  <1>17. CASE ClosePort
    BY <1>17, SMTT(60) DEF ClosePort, ClosedPort
  <1>18. CASE Reopen
    BY <1>18, SMTT(60) DEF Reopen, ClosedPort
  <1>19. CASE ReopenSucceeds
    BY <1>19, SMTT(60) DEF ReopenSucceeds, RateSet, Reopened
  <1>20. CASE ReopenFails
    BY <1>20, SMTT(60) DEF ReopenFails, FailedOpen, Reopened
  <1>21. CASE Start
    BY <1>21, SMTT(60) DEF Start
  <1>22. CASE Stop
    BY <1>22, SMTT(60) DEF Stop
  <1>23. CASE Close
    BY <1>23, SMTT(60) DEF Close
  <1>24. ASSUME NEW b \in Bauds \union {AutoRate}, NEW s \in Configurations,
               Connect(b, s)
        PROVE  ThreadOK'
    BY <1>24, SMTT(60) DEF Connect
  <1>25. ASSUME NEW t \in Settings, NEW v \in Values,
               Set(t, v)
        PROVE  ThreadOK'
    BY <1>25, SMTT(60) DEF Set
  <1>26. ASSUME NEW b \in Bauds, SetBaudRate(b) PROVE ThreadOK'
    BY <1>26, SMTT(60) DEF SetBaudRate, Careful
  <1>27. CASE UpdateThread
    BY <1>27, SMTT(60) DEF UpdateThread, LoopTest, Read, Parse
  <1>28. CASE Sensor
    BY <1>28, SMTT(60) DEF Sensor, SensorHandles, SensorScans
  <1>29. CASE UNCHANGED vars
    BY <1>29, SMTT(60) DEF vars
  <1> QED
    BY <1>o, <1>1, <1>2, <1>3, <1>4, <1>5, <1>6, <1>7, <1>8, <1>9, <1>10, <1>11,
       <1>12, <1>13, <1>14, <1>15, <1>16, <1>17, <1>18, <1>19, <1>20, <1>21,
       <1>22, <1>23, <1>24, <1>25, <1>26, <1>27, <1>28, <1>29 DEF Next,
       NewCall, CallStep

SafeInv == TypeInv /\ ThreadOK

LEMMA SafeCorrect == ASSUME Careful PROVE Spec => []SafeInv
  <1>1. Init => SafeInv
    BY TypeInit, ThreadInit DEF SafeInv
  <1>2. SafeInv /\ [Next]_vars => SafeInv'
    BY TypeStep, ThreadStep DEF SafeInv, TypeInv
  <1> QED
    BY <1>1, <1>2, PTL DEF Spec

\* The process is never ended by a second update thread.
THEOREM NoTermination == ASSUME Careful PROVE Spec => []NeverTerminates
  <1>1. SafeInv => NeverTerminates
    BY DEF SafeInv, ThreadOK, NeverTerminates
  <1> QED
    BY <1>1, SafeCorrect, PTL

\* Between calls the update thread runs exactly for a started driver.
THEOREM ThreadFollowsStart ==
  ASSUME Careful PROVE Spec => []ThreadOnlyWhenStarted
  <1>1. SafeInv => ThreadOnlyWhenStarted
    BY DEF SafeInv, TypeInv, ControlOK, ThreadOK, ThreadOnlyWhenStarted
  <1> QED
    BY <1>1, SafeCorrect, PTL

-----------------------------------------------------------------------------
(***************************************************************************)
(* The reported baud rate                                                  *)
(***************************************************************************)
LEMMA RateInit == Init => RateOK
  BY ConstantsAssumption DEF Init, RateOK

LEMMA RateStep ==
  ASSUME TypeOK, ControlOK, RateOK, [Next]_vars
  PROVE  RateOK'
  <1> USE DEF RateOK, ControlOK, Starting, Return, appVars, portVars, loopVars, lineVars
  <1> USE DEF TypeOK, CallTypeOK, DriverTypeOK, Public
  <1>1. CASE ProbeNext
    BY <1>1, Lists, SMTT(60) DEF ProbeNext
  <1>o. CASE OpenFlushes
    BY <1>o, ConstantsAssumption, SMTT(60) DEF OpenFlushes
  <1>2. CASE OpenSucceeds
    BY <1>2, SMTT(60) DEF OpenSucceeds, RateSet
  <1>3. CASE OpenFails
    BY <1>3, ConstantsAssumption, SMTT(60) DEF OpenFails, FailedOpen
  <1>4. CASE LaunchThread
    BY <1>4, SMTT(60) DEF LaunchThread
  <1>5. CASE StartThrows
    BY <1>5, ConstantsAssumption, SMTT(60) DEF StartThrows
  <1>6. CASE NextSetting
    BY <1>6, SMTT(60) DEF NextSetting
  <1>7. CASE Send
    BY <1>7, SMTT(60) DEF Send
  <1>8. CASE Resend
    BY <1>8, SMTT(60) DEF Resend
  <1>9. CASE StartAcked
    BY <1>9, SMTT(60) DEF StartAcked, WaitReturns, Setting
  <1>10. CASE SettingAcked
    BY <1>10, SettingTypes, SMTT(60) DEF SettingAcked, WaitReturns, Setting
  <1>11. CASE ProbeAcked
    BY <1>11, SMTT(60) DEF ProbeAcked, WaitReturns
  <1>12. CASE StopAcked
    BY <1>12, SMTT(60) DEF StopAcked, WaitReturns
  <1>13. CASE BaudRateSent
    BY <1>13, SettingTypes, SMTT(60) DEF BaudRateSent, WaitReturns, Setting
  <1>14. CASE StopWrite
    BY <1>14, SMTT(60) DEF StopWrite
  <1>15. CASE Join
    BY <1>15, SMTT(60) DEF Join, AfterStop
  <1>16. CASE CloseStops
    BY <1>16, SMTT(60) DEF CloseStops
  <1>17. CASE ClosePort
    BY <1>17, ConstantsAssumption, SMTT(60) DEF ClosePort, ClosedPort
  <1>18. CASE Reopen
    BY <1>18, ConstantsAssumption, SMTT(60) DEF Reopen, ClosedPort
  <1>19. CASE ReopenSucceeds
    BY <1>19, SMTT(60) DEF ReopenSucceeds, RateSet, Reopened
  <1>20. CASE ReopenFails
    BY <1>20, ConstantsAssumption, SMTT(60) DEF ReopenFails, FailedOpen,
       Reopened
  <1>21. CASE Start
    BY <1>21, SMTT(60) DEF Start
  <1>22. CASE Stop
    BY <1>22, SMTT(60) DEF Stop
  <1>23. CASE Close
    BY <1>23, SMTT(60) DEF Close
  <1>24. ASSUME NEW b \in Bauds \union {AutoRate}, NEW s \in Configurations,
               Connect(b, s)
        PROVE  RateOK'
    BY <1>24, SMTT(60) DEF Connect
  <1>25. ASSUME NEW t \in Settings, NEW v \in Values,
               Set(t, v)
        PROVE  RateOK'
    BY <1>25, SMTT(60) DEF Set
  <1>26. ASSUME NEW b \in Bauds, SetBaudRate(b) PROVE RateOK'
    BY <1>26, SMTT(60) DEF SetBaudRate
  <1>27. CASE UpdateThread
    BY <1>27, SMTT(60) DEF UpdateThread, LoopTest, Read, Parse
  <1>28. CASE Sensor
    BY <1>28, SMTT(60) DEF Sensor, SensorHandles, SensorScans
  <1>29. CASE UNCHANGED vars
    BY <1>29, SMTT(60) DEF vars
  <1> QED
    BY <1>o, <1>1, <1>2, <1>3, <1>4, <1>5, <1>6, <1>7, <1>8, <1>9, <1>10, <1>11,
       <1>12, <1>13, <1>14, <1>15, <1>16, <1>17, <1>18, <1>19, <1>20, <1>21,
       <1>22, <1>23, <1>24, <1>25, <1>26, <1>27, <1>28, <1>29 DEF Next,
       NewCall, CallStep

\* getBaudRate tells the rate the open port was asked to run at, whatever failed
\* before.
THEOREM ReportedRate == Spec => []ReportedRateIsPorts
  <1>1. Init => TypeInv /\ RateOK
    BY TypeInit, RateInit
  <1>2. TypeInv /\ RateOK /\ [Next]_vars => (TypeInv /\ RateOK)'
    BY TypeStep, RateStep DEF TypeInv
  <1>3. TypeInv /\ RateOK => ReportedRateIsPorts
    BY DEF TypeInv, ControlOK, RateOK, ReportedRateIsPorts
  <1> QED
    BY <1>1, <1>2, <1>3, PTL DEF Spec

-----------------------------------------------------------------------------
(***************************************************************************)
(* The rate that was found                                                 *)
(***************************************************************************)
\* Nothing changes the sensor's rate.
NoRebaudOK ==
  /\ call \notin {"setBaudRate", "restart"}
  /\ snd.type # "BAUDRATE"
  /\ \A i \in DOMAIN cmds : cmds[i].type # "BAUDRATE"

Hearing == hPort \in Bauds /\ tty = sensor.baud

\* After a clean open at another rate than the sensor's no reply to a STOP arrives,
\* and none is left of what arrived before: not on the line, in the buffer or in
\* the flag.
DeafOK ==
  call = "connect" /\ pc \in {"start", "send", "wait", "nextSetting"} /\ clean =>
    /\ tty = cfg.baud
    /\ tty # sensor.baud =>
         /\ Stopless(wire)
         /\ thread # "none" => Stopless(rx)
         /\ pc = "wait" /\ snd.type = "STOP" => ~flag["STOP"]

FoundOK ==
  /\ pc = "probeNext" => probe # "found"
  /\ probe = "found" /\ clean => cfg.baud = sensor.baud

LEMMA NoRebaudWritten ==
  ASSUME cmds \in Seq(Command), NoRebaudOK, NEW port,
         NEW c \in Command, c.type # "BAUDRATE", Write(port, c)
  PROVE  \A i \in DOMAIN cmds' : cmds'[i].type # "BAUDRATE"
  BY DEF Write, NoRebaudOK

LEMMA NoRebaudStep ==
  ASSUME "setBaudRate" \notin Ops, TypeOK, ControlOK, NoRebaudOK, [Next]_vars
  PROVE  NoRebaudOK'
  <1> USE DEF NoRebaudOK, ControlOK, Starting, Return, Cmd, Stopping, Setting, appVars, portVars,
              loopVars, lineVars
  <1> USE DEF TypeOK, CallTypeOK, DriverTypeOK, LineTypeOK, Public
  <1>1. CASE ProbeNext
    BY <1>1, SMTT(10) DEF ProbeNext
  <1>o. CASE OpenFlushes
    BY <1>o, SMTT(10) DEF OpenFlushes
  <1>2. CASE OpenSucceeds
    <2>1. \A i \in DOMAIN cmds' : cmds'[i].type # "BAUDRATE"
      BY <1>2, Commands, NoRebaudWritten DEF OpenSucceeds
    <2> QED
      BY <1>2, <2>1 DEF OpenSucceeds, RateSet
  <1>3. CASE OpenFails
    BY <1>3, SMTT(10) DEF OpenFails, FailedOpen
  <1>4. CASE LaunchThread
    BY <1>4, SMTT(10) DEF LaunchThread
  <1>5. CASE StartThrows
    BY <1>5, SMTT(10) DEF StartThrows
  <1>6. CASE NextSetting
    <2>1. snd'.type # "BAUDRATE"
      <3>1. CASE sent < Len(SettingOrder)
        <4>1. SettingOrder[sent + 1] \in Settings
          BY <3>1, Lists
        <4>2. snd'.type = SettingOrder[sent + 1]
          BY <1>6, <3>1 DEF NextSetting
        <4> QED
          BY <4>1, <4>2, SettingTypes
      <3>2. CASE ~(sent < Len(SettingOrder))
        BY <1>6, <3>2 DEF NextSetting
      <3> QED
        BY <3>1, <3>2
    <2> QED
      BY <1>6, <2>1 DEF NextSetting
  <1>7. CASE Send
    <2>1. \A i \in DOMAIN cmds' : cmds'[i].type # "BAUDRATE"
      BY <1>7, NoRebaudWritten DEF Send
    <2> QED
      BY <1>7, <2>1 DEF Send
  <1>8. CASE Resend
    <2>1. \A i \in DOMAIN cmds' : cmds'[i].type # "BAUDRATE"
      BY <1>8, NoRebaudWritten DEF Resend
    <2> QED
      BY <1>8, <2>1 DEF Resend
  <1>9. CASE StartAcked
    BY <1>9, SettingTypes, SMTT(10) DEF StartAcked, WaitReturns
  <1>10. CASE SettingAcked
    BY <1>10, SettingTypes, SMTT(10) DEF SettingAcked, WaitReturns
  <1>11. CASE ProbeAcked
    BY <1>11, SettingTypes, SMTT(10) DEF ProbeAcked, WaitReturns
  <1>12. CASE StopAcked
    BY <1>12, SettingTypes, SMTT(10) DEF StopAcked, WaitReturns
  <1>13. CASE BaudRateSent
    BY <1>13, SettingTypes, SMTT(10) DEF BaudRateSent, WaitReturns
  <1>14. CASE StopWrite
    <2>1. \A i \in DOMAIN cmds' : cmds'[i].type # "BAUDRATE"
      BY <1>14, Commands, NoRebaudWritten DEF StopWrite
    <2> QED
      BY <1>14, <2>1 DEF StopWrite
  <1>15. CASE Join
    BY <1>15, SMTT(10) DEF Join, AfterStop
  <1>16. CASE CloseStops
    BY <1>16, SMTT(10) DEF CloseStops
  <1>17. CASE ClosePort
    BY <1>17, SMTT(10) DEF ClosePort, ClosedPort
  <1>18. CASE Reopen
    BY <1>18, SMTT(10) DEF Reopen, ClosedPort
  <1>19. CASE ReopenSucceeds
    BY <1>19, SMTT(10) DEF ReopenSucceeds, RateSet, Reopened
  <1>20. CASE ReopenFails
    BY <1>20, SMTT(10) DEF ReopenFails, FailedOpen, Reopened
  <1>21. CASE Start
    BY <1>21, SMTT(10) DEF Start
  <1>22. CASE Stop
    BY <1>22, SMTT(10) DEF Stop
  <1>23. CASE Close
    BY <1>23, SMTT(10) DEF Close
  <1>24. ASSUME NEW b \in Bauds \union {AutoRate}, NEW s \in Configurations,
               Connect(b, s)
        PROVE  NoRebaudOK'
    BY <1>24, SMTT(10) DEF Connect
  <1>25. ASSUME NEW t \in Settings, NEW v \in Values,
               Set(t, v)
        PROVE  NoRebaudOK'
    BY <1>25, SettingTypes, SMTT(10) DEF Set
  <1>26. ASSUME NEW b \in Bauds, SetBaudRate(b) PROVE NoRebaudOK'
    BY <1>26, SMTT(10) DEF SetBaudRate
  <1>27. CASE LoopTest
    BY <1>27, SMTT(10) DEF LoopTest
  <1>28. CASE Read
    BY <1>28, SMTT(10) DEF Read
  <1>29. CASE Parse
    BY <1>29, SMTT(10) DEF Parse
  <1>30. CASE SensorHandles
    BY <1>30, SMTT(10) DEF SensorHandles, Transmit
  <1>31. CASE SensorScans
    BY <1>31, SMTT(10) DEF SensorScans
  <1>32. CASE UNCHANGED vars
    BY <1>32, SMTT(10) DEF vars
  <1> QED
    BY <1>o, <1>1, <1>2, <1>3, <1>4, <1>5, <1>6, <1>7, <1>8, <1>9, <1>10, <1>11,
       <1>12, <1>13, <1>14, <1>15, <1>16, <1>17, <1>18, <1>19, <1>20, <1>21,
       <1>22, <1>23, <1>24, <1>25, <1>26, <1>27, <1>28, <1>29, <1>30, <1>31,
       <1>32 DEF Next, NewCall, CallStep, UpdateThread, Sensor

LEMMA SameBaud ==
  ASSUME TypeOK, NoRebaudOK, [Next]_vars
  PROVE  sensor'.baud = sensor.baud
  <1> USE DEF NoRebaudOK, appVars, portVars, loopVars, lineVars
  <1>1. CASE ProbeNext
    BY <1>1, SMTT(10) DEF ProbeNext
  <1>o. CASE OpenFlushes
    BY <1>o, SMTT(10) DEF OpenFlushes
  <1>2. CASE OpenSucceeds
    BY <1>2, SMTT(10) DEF OpenSucceeds, RateSet, Write
  <1>3. CASE OpenFails
    BY <1>3, SMTT(10) DEF OpenFails, FailedOpen
  <1>4. CASE LaunchThread
    BY <1>4, SMTT(10) DEF LaunchThread
  <1>5. CASE StartThrows
    BY <1>5, SMTT(10) DEF StartThrows
  <1>6. CASE NextSetting
    BY <1>6, SMTT(10) DEF NextSetting
  <1>7. CASE Send
    BY <1>7, SMTT(10) DEF Send, Write
  <1>8. CASE Resend
    BY <1>8, SMTT(10) DEF Resend, Write
  <1>9. CASE StartAcked
    BY <1>9, SMTT(10) DEF StartAcked, WaitReturns
  <1>10. CASE SettingAcked
    BY <1>10, SMTT(10) DEF SettingAcked, WaitReturns
  <1>11. CASE ProbeAcked
    BY <1>11, SMTT(10) DEF ProbeAcked, WaitReturns
  <1>12. CASE StopAcked
    BY <1>12, SMTT(10) DEF StopAcked, WaitReturns
  <1>13. CASE BaudRateSent
    BY <1>13, SMTT(10) DEF BaudRateSent, WaitReturns
  <1>14. CASE StopWrite
    BY <1>14, SMTT(10) DEF StopWrite, Write
  <1>15. CASE Join
    BY <1>15, SMTT(10) DEF Join, AfterStop
  <1>16. CASE CloseStops
    BY <1>16, SMTT(10) DEF CloseStops
  <1>17. CASE ClosePort
    BY <1>17, SMTT(10) DEF ClosePort, ClosedPort
  <1>18. CASE Reopen
    BY <1>18, SMTT(10) DEF Reopen, ClosedPort
  <1>19. CASE ReopenSucceeds
    BY <1>19, SMTT(10) DEF ReopenSucceeds, RateSet, Reopened
  <1>20. CASE ReopenFails
    BY <1>20, SMTT(10) DEF ReopenFails, FailedOpen, Reopened
  <1>21. CASE Start
    BY <1>21, SMTT(10) DEF Start
  <1>22. CASE Stop
    BY <1>22, SMTT(10) DEF Stop
  <1>23. CASE Close
    BY <1>23, SMTT(10) DEF Close
  <1>24. ASSUME NEW b \in Bauds \union {AutoRate}, NEW s \in Configurations,
               Connect(b, s)
        PROVE  sensor'.baud = sensor.baud
    BY <1>24, SMTT(10) DEF Connect
  <1>25. ASSUME NEW t \in Settings, NEW v \in Values,
               Set(t, v)
        PROVE  sensor'.baud = sensor.baud
    BY <1>25, SMTT(10) DEF Set
  <1>26. ASSUME NEW b \in Bauds, SetBaudRate(b) PROVE sensor'.baud = sensor.baud
    BY <1>26, SMTT(10) DEF SetBaudRate
  <1>27. CASE LoopTest
    BY <1>27, SMTT(10) DEF LoopTest
  <1>28. CASE Read
    BY <1>28, SMTT(10) DEF Read
  <1>29. CASE Parse
    BY <1>29, SMTT(10) DEF Parse
  <1>30. CASE SensorHandles
    <2>1. Head(cmds).type # "BAUDRATE"
      BY <1>30 DEF SensorHandles, TypeOK, LineTypeOK
    <2> QED
      BY <1>30, <2>1 DEF SensorHandles, TypeOK, LineTypeOK
  <1>31. CASE SensorScans
    BY <1>31, SMTT(10) DEF SensorScans
  <1>32. CASE UNCHANGED vars
    BY <1>32, SMTT(10) DEF vars
  <1> QED
    BY <1>o, <1>1, <1>2, <1>3, <1>4, <1>5, <1>6, <1>7, <1>8, <1>9, <1>10, <1>11,
       <1>12, <1>13, <1>14, <1>15, <1>16, <1>17, <1>18, <1>19, <1>20, <1>21,
       <1>22, <1>23, <1>24, <1>25, <1>26, <1>27, <1>28, <1>29, <1>30, <1>31,
       <1>32 DEF Next, NewCall, CallStep, UpdateThread, Sensor

LEMMA StoplessEmpty == Stopless(<<>>)
  BY DEF Stopless

LEMMA StoplessPart ==
  ASSUME NEW r \in Seq(Token), Stopless(r), NEW a \in 1..(Len(r) + 1), NEW b \in 0..Len(r)
  PROVE  Stopless(SubSeq(r, a, b))
  BY DEF Stopless

LEMMA StoplessRead ==
  ASSUME NEW r \in Seq(Token), NEW w \in Seq(Token), NEW n \in 0..Len(w),
         Stopless(r), Stopless(w)
  PROVE  LET got == r \o SubSeq(w, 1, n)
         IN  /\ Stopless(got)
             /\ Stopless(SubSeq(got, 1, Len(got) - 1))
             /\ Stopless(SubSeq(w, n + 1, Len(w)))
  <1> DEFINE got == r \o SubSeq(w, 1, n)
  <1>1. SubSeq(w, 1, n) \in Seq(Token) /\ Stopless(SubSeq(w, 1, n))
    BY StoplessPart
  <1>2. got \in Seq(Token) /\ Stopless(got)
    BY <1>1 DEF Stopless
  <1>3. Stopless(SubSeq(got, 1, Len(got) - 1))
    <2> HIDE DEF got
    <2>1. CASE Len(got) = 0
      BY <1>2, <2>1 DEF Stopless
    <2>2. CASE Len(got) # 0
      BY <1>2, <2>2, StoplessPart
    <2> QED
      BY <2>1, <2>2
  <1>4. Stopless(SubSeq(w, n + 1, Len(w)))
    BY StoplessPart
  <1> QED
    BY <1>2, <1>3, <1>4

LEMMA FoundStep ==
  ASSUME TypeOK, ControlOK, ThreadOK, RateOK, NoRebaudOK, DeafOK, FoundOK, [Next]_vars
  PROVE  DeafOK' /\ FoundOK'
  <1> USE DEF DeafOK, FoundOK, Hearing, NoRebaudOK, ControlOK, ThreadOK, RateOK, Starting,
              Return, Cmd, Stopping, appVars, portVars, loopVars, lineVars
  <1> USE DEF TypeOK, CallTypeOK, DriverTypeOK, BufferTypeOK, LineTypeOK, Public
  <1>b. sensor'.baud = sensor.baud /\ sensor.baud \in Bauds
    BY SameBaud
  <1>r. tty # sensor.baud => LineRate # sensor.baud
    BY <1>b, ConstantsAssumption DEF LineRate
  <1>1. CASE ProbeNext
    BY <1>1, <1>b, SMTT(10) DEF ProbeNext
  <1>o. CASE OpenFlushes
    BY <1>o, <1>b, SMTT(10) DEF OpenFlushes
  <1>2. CASE OpenSucceeds
    BY <1>2, <1>b, SMTT(10) DEF OpenSucceeds, RateSet, Write
  <1>3. CASE OpenFails
    BY <1>3, <1>b, SMTT(10) DEF OpenFails, FailedOpen
  <1>4. CASE LaunchThread
    BY <1>4, <1>b, StoplessEmpty, SMTT(10) DEF LaunchThread
  <1>5. CASE StartThrows
    BY <1>5, <1>b, SMTT(10) DEF StartThrows
  <1>6. CASE NextSetting
    BY <1>6, <1>b, SMTT(10) DEF NextSetting
  <1>7. CASE Send
    <2>1. snd.type = "STOP" => ~flag'["STOP"]
      BY <1>7 DEF Send, MessageType
    <2> QED
      BY <1>7, <1>b, <2>1 DEF Send
  <1>8. CASE Resend
    BY <1>8, <1>b, SMTT(10) DEF Resend, Write
  <1>9. CASE StartAcked
    BY <1>9, <1>b, SMTT(10) DEF StartAcked, WaitReturns
  <1>10. CASE SettingAcked
    BY <1>10, <1>b, SMTT(10) DEF SettingAcked, WaitReturns
  <1>11. CASE ProbeAcked
    BY <1>11, <1>b, SMTT(10) DEF ProbeAcked, WaitReturns
  <1>12. CASE StopAcked
    BY <1>12, <1>b, SMTT(10) DEF StopAcked, WaitReturns
  <1>13. CASE BaudRateSent
    BY <1>13, <1>b, SMTT(10) DEF BaudRateSent, WaitReturns
  <1>14. CASE StopWrite
    BY <1>14, <1>b, SMTT(10) DEF StopWrite, Write
  <1>15. CASE Join
    BY <1>15, <1>b, SMTT(10) DEF Join, AfterStop
  <1>16. CASE CloseStops
    BY <1>16, <1>b, SMTT(10) DEF CloseStops
  <1>17. CASE ClosePort
    BY <1>17, <1>b, SMTT(10) DEF ClosePort, ClosedPort
  <1>18. CASE Reopen
    BY <1>18, <1>b, SMTT(10) DEF Reopen, ClosedPort
  <1>19. CASE ReopenSucceeds
    BY <1>19, <1>b, SMTT(10) DEF ReopenSucceeds, RateSet, Reopened
  <1>20. CASE ReopenFails
    BY <1>20, <1>b, SMTT(10) DEF ReopenFails, FailedOpen, Reopened
  <1>21. CASE Start
    BY <1>21, <1>b, SMTT(10) DEF Start
  <1>22. CASE Stop
    BY <1>22, <1>b, SMTT(10) DEF Stop
  <1>23. CASE Close
    BY <1>23, <1>b, SMTT(10) DEF Close
  <1>24. ASSUME NEW b \in Bauds \union {AutoRate}, NEW s \in Configurations,
               Connect(b, s)
        PROVE  DeafOK' /\ FoundOK'
    BY <1>24, <1>b, SMTT(10) DEF Connect
  <1>25. ASSUME NEW t \in Settings, NEW v \in Values,
               Set(t, v)
        PROVE  DeafOK' /\ FoundOK'
    BY <1>25, <1>b, SMTT(10) DEF Set
  <1>26. ASSUME NEW b \in Bauds, SetBaudRate(b) PROVE DeafOK' /\ FoundOK'
    BY <1>26, <1>b, SMTT(10) DEF SetBaudRate
  <1>27. CASE LoopTest
    BY <1>27, <1>b, SMTT(10) DEF LoopTest
  <1>28. CASE Read
    <2>1. UNCHANGED <<appVars, flag, cmds, sensor>> /\ thread = "read"
      BY <1>28 DEF Read
    <2>2. ASSUME Stopless(wire), Stopless(rx)
          PROVE  Stopless(wire') /\ Stopless(rx')
      BY <1>28, <2>2, StoplessRead DEF Read
    <2> QED
      BY <1>b, <2>1, <2>2
  <1>29. CASE Parse
    <2>1. UNCHANGED <<appVars, lineVars>> /\ thread = "parse"
      BY <1>29 DEF Parse
    <2>2. ASSUME Stopless(rx)
          PROVE  Stopless(rx') /\ flag'["STOP"] = flag["STOP"]
      <3>1. PICK i, j \in 0..Len(rx) :
              /\ flag' = [t \in MessageType |->
                           flag[t] \/ t \in FirstResponse({rx[k] : k \in 1..i})]
              /\ rx' = SubSeq(rx, j + 1, Len(rx))
        BY <1>29 DEF Parse
      <3>2. "STOP" \notin {rx[k] : k \in 1..i}
        BY <2>2 DEF Stopless
      <3>3. "STOP" \notin FirstResponse({rx[k] : k \in 1..i})
        BY <3>2 DEF FirstResponse
      <3>4. Stopless(SubSeq(rx, j + 1, Len(rx)))
        <4>1. rx \in Seq(Token) /\ j + 1 \in 1..(Len(rx) + 1) /\ Len(rx) \in 0..Len(rx)
          OBVIOUS
        <4> HIDE DEF TypeOK, ControlOK, ThreadOK, DeafOK
        <4> QED
          BY <2>2, <4>1, StoplessPart
      <3>5. flag'["STOP"] = flag["STOP"]
        BY <3>1, <3>3 DEF MessageType
      <3> QED
        BY <3>1, <3>4, <3>5
    <2> QED
      BY <1>b, <2>1, <2>2
  <1>30. CASE SensorHandles
    BY <1>30, <1>b, <1>r, SMTT(10) DEF SensorHandles, Transmit
  <1>31. CASE SensorScans
    BY <1>31, <1>b, <1>r, SMTT(10) DEF SensorScans
  <1>32. CASE UNCHANGED vars
    BY <1>32, <1>b, SMTT(10) DEF vars
  <1> QED
    BY <1>o, <1>1, <1>2, <1>3, <1>4, <1>5, <1>6, <1>7, <1>8, <1>9, <1>10, <1>11,
       <1>12, <1>13, <1>14, <1>15, <1>16, <1>17, <1>18, <1>19, <1>20, <1>21,
       <1>22, <1>23, <1>24, <1>25, <1>26, <1>27, <1>28, <1>29, <1>30, <1>31,
       <1>32 DEF Next, NewCall, CallStep, UpdateThread, Sensor

\* autoFindBaudRate settles on the rate of the sensor, however many rates there
\* are, whatever the line loses and however late a reply comes, unless it comes
\* between the flush and the change of rate of one open(), or the port did not
\* take that rate.
THEOREM FoundRate ==
  ASSUME "setBaudRate" \notin Ops PROVE Spec => []FoundRateIsSensors
  <1>c. Careful
    BY DEF Careful
  <1>1. Init => RateOK /\ NoRebaudOK /\ DeafOK /\ FoundOK
    BY RateInit DEF Init, NoRebaudOK, DeafOK, FoundOK, Stopping, Cmd
  <1>2. SafeInv /\ RateOK /\ NoRebaudOK /\ DeafOK /\ FoundOK /\ [Next]_vars
          => (RateOK /\ NoRebaudOK /\ DeafOK /\ FoundOK)'
    BY RateStep, NoRebaudStep, FoundStep DEF SafeInv, TypeInv
  <1>3. FoundOK => FoundRateIsSensors
    BY DEF FoundOK, FoundRateIsSensors
  <1> QED
    BY <1>c, <1>1, <1>2, <1>3, SafeCorrect, PTL DEF Spec

-----------------------------------------------------------------------------
(***************************************************************************)
(* Settings                                                                *)
(***************************************************************************)
Sent(t) == pc = "wait" /\ snd.type = t

\* The settings the present start() has sent, or all of a started driver.
SentSoFar == IF pc = "send" THEN 1..(sent - 1) ELSE 1..sent

Synced(t) ==
  \/ started
  \/ /\ call = "start" /\ pc \in {"send", "wait", "nextSetting"}
     /\ \E i \in SentSoFar : SettingOrder[i] = t

Wanted(t) == IF Sent(t) THEN snd.arg ELSE cfg.set[t]

StartOK ==
  call = "start" /\ pc \in {"send", "wait"} =>
    IF snd.type = "START" THEN sent = 0
    ELSE sent > 0 /\ snd.type = SettingOrder[sent]

\* A driver at the sensor's rate has told it all it will need to know.
SetOK == Hearing => \A t \in Settings : Synced(t) => WillSet(cmds, sensor, t, Wanted(t))

LEMMA Written ==
  ASSUME ~Lossy, NEW port, port = sensor.baud, NEW c, Write(port, c)
  PROVE  cmds' = Append(cmds, c)
  BY DEF Write

LEMMA WrittenHeard ==
  ASSUME ~Lossy, Hearing, sensor.baud \in Bauds, NEW c, Write(LineRate, c)
  PROVE  cmds' = Append(cmds, c)
  BY ConstantsAssumption DEF Hearing, LineRate, Write

LEMMA StartStep ==
  ASSUME TypeOK, ControlOK, ThreadOK, NoRebaudOK, StartOK, [Next]_vars
  PROVE  StartOK'
  <1> USE DEF StartOK, NoRebaudOK, ControlOK, ThreadOK, Starting, Return, Cmd, Stopping,
              appVars, portVars, loopVars, lineVars
  <1> USE DEF TypeOK, CallTypeOK, DriverTypeOK, Public
  <1>1. CASE ProbeNext
    BY <1>1, SMTT(10) DEF ProbeNext
  <1>o. CASE OpenFlushes
    BY <1>o, SMTT(10) DEF OpenFlushes
  <1>2. CASE OpenSucceeds
    BY <1>2, SMTT(10) DEF OpenSucceeds, RateSet, Write
  <1>3. CASE OpenFails
    BY <1>3, SMTT(10) DEF OpenFails, FailedOpen
  <1>4. CASE LaunchThread
    BY <1>4, Lists, SMTT(10) DEF LaunchThread
  <1>5. CASE StartThrows
    BY <1>5, SMTT(10) DEF StartThrows
  <1>6. CASE NextSetting
    <2>1. CASE sent < Len(SettingOrder)
      <3>1. sent' = sent + 1 /\ snd'.type = SettingOrder[sent'] /\ sent' > 0
        BY <1>6, <2>1 DEF NextSetting
      <3>2. SettingOrder[sent + 1] \in Setting
        BY <2>1, Lists, SettingTypes
      <3> QED
        BY <3>1, <3>2 DEF Setting
    <2>2. CASE ~(sent < Len(SettingOrder))
      BY <1>6, <2>2 DEF NextSetting
    <2> QED
      BY <2>1, <2>2
  <1>7. CASE Send
    BY <1>7, SMTT(10) DEF Send, Write
  <1>8. CASE Resend
    BY <1>8, SMTT(10) DEF Resend, Write
  <1>9. CASE StartAcked
    BY <1>9, SMTT(10) DEF StartAcked, WaitReturns
  <1>10. CASE SettingAcked
    BY <1>10, SMTT(10) DEF SettingAcked, WaitReturns
  <1>11. CASE ProbeAcked
    BY <1>11, SMTT(10) DEF ProbeAcked, WaitReturns
  <1>12. CASE StopAcked
    BY <1>12, SMTT(10) DEF StopAcked, WaitReturns
  <1>13. CASE BaudRateSent
    BY <1>13, SMTT(10) DEF BaudRateSent, WaitReturns
  <1>14. CASE StopWrite
    BY <1>14, SMTT(10) DEF StopWrite, Write
  <1>15. CASE Join
    BY <1>15, SMTT(10) DEF Join, AfterStop
  <1>16. CASE CloseStops
    BY <1>16, SMTT(10) DEF CloseStops
  <1>17. CASE ClosePort
    BY <1>17, SMTT(10) DEF ClosePort, ClosedPort
  <1>18. CASE Reopen
    BY <1>18, SMTT(10) DEF Reopen, ClosedPort
  <1>19. CASE ReopenSucceeds
    BY <1>19, SMTT(10) DEF ReopenSucceeds, RateSet, Reopened
  <1>20. CASE ReopenFails
    BY <1>20, SMTT(10) DEF ReopenFails, FailedOpen, Reopened
  <1>21. CASE Start
    BY <1>21, SMTT(10) DEF Start
  <1>22. CASE Stop
    BY <1>22, SMTT(10) DEF Stop
  <1>23. CASE Close
    BY <1>23, SMTT(10) DEF Close
  <1>24. ASSUME NEW b \in Bauds \union {AutoRate}, NEW s \in Configurations,
               Connect(b, s)
        PROVE  StartOK'
    BY <1>24, SMTT(10) DEF Connect
  <1>25. ASSUME NEW t \in Settings, NEW v \in Values,
               Set(t, v)
        PROVE  StartOK'
    BY <1>25, SMTT(10) DEF Set
  <1>26. ASSUME NEW b \in Bauds, SetBaudRate(b) PROVE StartOK'
    BY <1>26, SMTT(10) DEF SetBaudRate
  <1>27. CASE LoopTest
    BY <1>27, SMTT(10) DEF LoopTest
  <1>28. CASE Read
    BY <1>28, SMTT(10) DEF Read
  <1>29. CASE Parse
    BY <1>29, SMTT(10) DEF Parse
  <1>30. CASE SensorHandles
    BY <1>30, SMTT(10) DEF SensorHandles, Transmit
  <1>31. CASE SensorScans
    BY <1>31, SMTT(10) DEF SensorScans
  <1>32. CASE UNCHANGED vars
    BY <1>32, SMTT(10) DEF vars
  <1> QED
    BY <1>o, <1>1, <1>2, <1>3, <1>4, <1>5, <1>6, <1>7, <1>8, <1>9, <1>10, <1>11,
       <1>12, <1>13, <1>14, <1>15, <1>16, <1>17, <1>18, <1>19, <1>20, <1>21,
       <1>22, <1>23, <1>24, <1>25, <1>26, <1>27, <1>28, <1>29, <1>30, <1>31,
       <1>32 DEF Next, NewCall, CallStep, UpdateThread, Sensor

LEMMA SetStep ==
  ASSUME ~Lossy, "setBaudRate" \notin Ops, TypeOK, ControlOK, ThreadOK, NoRebaudOK,
         StartOK, SetOK, [Next]_vars
  PROVE  SetOK'
  <1> SUFFICES ASSUME Hearing', NEW t \in Settings, Synced(t)'
               PROVE  WillSet(cmds, sensor, t, Wanted(t))'
    BY DEF SetOK
  <1> USE DEF ControlOK, ThreadOK, NoRebaudOK, Starting, Return, Cmd, Stopping, appVars, portVars,
              loopVars, lineVars, Synced, Sent, SentSoFar, Hearing
  <1> USE DEF TypeOK, CallTypeOK, DriverTypeOK, LineTypeOK, Public
  <1>b. sensor'.baud = sensor.baud /\ sensor.baud \in Bauds
    BY SameBaud
  <1>0. ASSUME UNCHANGED <<cmds, sensor, hPort, tty>>, Synced(t), Wanted(t)' = Wanted(t)
        PROVE  WillSet(cmds, sensor, t, Wanted(t))'
    BY <1>0 DEF SetOK
  <1>t. t \notin {"START", "STOP", "BAUDRATE"}
    BY SettingTypes DEF Setting
  <1>1. CASE ProbeNext
    BY <1>1, ConstantsAssumption DEF ProbeNext
  <1>o. CASE OpenFlushes
    BY <1>o, ConstantsAssumption DEF OpenFlushes
  <1>2. CASE OpenSucceeds
    BY <1>2, ConstantsAssumption DEF OpenSucceeds, RateSet, Write
  <1>3. CASE OpenFails
    BY <1>3, ConstantsAssumption DEF OpenFails, FailedOpen
  <1>4. CASE LaunchThread
    BY <1>4, ConstantsAssumption DEF LaunchThread
  <1>5. CASE StartThrows
    BY <1>5, ConstantsAssumption DEF StartThrows
  <1>6. CASE NextSetting
    <2>1. UNCHANGED <<cmds, sensor, hPort, tty>> /\ Wanted(t)' = Wanted(t)
      BY <1>6, <1>t DEF NextSetting, Wanted
    <2>2. Synced(t)
      <3>1. CASE sent < Len(SettingOrder)
        BY <1>6, <3>1, Lists DEF NextSetting
      <3>2. CASE ~(sent < Len(SettingOrder)) /\ call = "start"
        <4>1. PICK i \in 1..Len(SettingOrder) : SettingOrder[i] = t
          BY ConstantsAssumption DEF Settings
        <4>2. i \in 1..sent
          BY <3>2, Lists
        <4> QED
          BY <1>6, <3>2, <4>1, <4>2 DEF NextSetting
      <3>3. CASE ~(sent < Len(SettingOrder)) /\ call # "start"
        BY <1>6, <3>3 DEF NextSetting
      <3> QED
        BY <3>1, <3>2, <3>3
    <2> QED
      BY <1>0, <2>1, <2>2
  <1>7. CASE Send
    <2>1. cmds' = Append(cmds, snd) /\ UNCHANGED <<sensor, hPort, tty>>
      BY <1>7, <1>b, WrittenHeard DEF Send
    <2>2. IF snd.type = t THEN snd.arg = Wanted(t)'
          ELSE WillSet(cmds, sensor, t, Wanted(t)')
      <3>1. CASE snd.type = t
        BY <1>7, <3>1 DEF Send, Wanted
      <3>2. CASE snd.type # t
        <4>1. Wanted(t)' = Wanted(t)
          BY <1>7, <3>2 DEF Send, Wanted
        <4>2. Synced(t)
          <5>1. CASE started
            BY <5>1
          <5>2. CASE ~started
            <6>1. call = "start" /\ \E i \in 1..sent : SettingOrder[i] = t
              BY <1>7, <5>2 DEF Send
            <6>2. PICK i \in 1..sent : SettingOrder[i] = t
              BY <6>1
            <6>3. i # sent
              BY <1>7, <3>2, <6>1, <6>2 DEF Send, StartOK
            <6> QED
              BY <1>7, <6>1, <6>2, <6>3, Lists DEF Send
          <5> QED
            BY <5>1, <5>2
        <4> QED
          BY <2>1, <3>2, <4>1, <4>2 DEF SetOK
      <3> QED
        BY <3>1, <3>2
    <2> QED
      BY <2>1, <2>2, SetAppended
  <1>8. CASE Resend
    <2>1. cmds' = Append(cmds, snd) /\ UNCHANGED <<sensor, hPort, tty>>
      BY <1>8, <1>b, WrittenHeard DEF Resend
    <2>2. Synced(t) /\ Wanted(t)' = Wanted(t)
      BY <1>8 DEF Resend, Wanted
    <2>3. IF snd.type = t THEN snd.arg = Wanted(t)'
          ELSE WillSet(cmds, sensor, t, Wanted(t)')
      BY <1>8, <2>1, <2>2 DEF Resend, Wanted, SetOK
    <2> QED
      BY <2>1, <2>3, SetAppended
  <1>9. CASE StartAcked
    <2>1. UNCHANGED <<cmds, sensor, hPort, tty>> /\ Synced(t)
      BY <1>9, <1>t DEF StartAcked, WaitReturns
    <2>2. Wanted(t)' = Wanted(t)
      BY <1>9, <1>t DEF StartAcked, WaitReturns, Wanted
    <2> QED
      BY <1>0, <2>1, <2>2
  <1>10. CASE SettingAcked
    <2>1. UNCHANGED <<cmds, sensor, hPort, tty>> /\ Synced(t)
      BY <1>10 DEF SettingAcked, WaitReturns
    <2>2. Wanted(t)' = cfg'.set[t]
      BY <1>10 DEF SettingAcked, Wanted
    <2>3. cfg'.set[t] = Wanted(t)
      BY <1>10 DEF SettingAcked, WaitReturns, Wanted
    <2> QED
      BY <1>0, <2>1, <2>2, <2>3
  <1>11. CASE ProbeAcked
    BY <1>11, ConstantsAssumption DEF ProbeAcked, WaitReturns
  <1>12. CASE StopAcked
    BY <1>12, ConstantsAssumption DEF StopAcked, WaitReturns
  <1>13. CASE BaudRateSent
    BY <1>13, ConstantsAssumption DEF BaudRateSent, WaitReturns
  <1>14. CASE StopWrite
    <2>1. cmds' = Append(cmds, Stopping) /\ UNCHANGED <<sensor, hPort, tty>>
      BY <1>14, <1>b, WrittenHeard DEF StopWrite
    <2>2. Synced(t) /\ Wanted(t)' = Wanted(t)
      BY <1>14 DEF StopWrite, Wanted
    <2>3. Stopping.type # t /\ WillSet(cmds, sensor, t, Wanted(t)')
      BY <1>t, <2>1, <2>2 DEF SetOK
    <2> QED
      BY <2>1, <2>3, Commands, SetAppended
  <1>15. CASE Join
    BY <1>15, ConstantsAssumption DEF Join, AfterStop
  <1>16. CASE CloseStops
    <2>1. UNCHANGED <<cmds, sensor, hPort, tty>> /\ Synced(t)
      BY <1>16, <1>t DEF CloseStops
    <2>2. Wanted(t)' = Wanted(t)
      BY <1>16, <1>t DEF CloseStops, Wanted
    <2> QED
      BY <1>0, <2>1, <2>2
  <1>17. CASE ClosePort
    BY <1>17, ConstantsAssumption DEF ClosePort, ClosedPort
  <1>18. CASE Reopen
    BY <1>18, ConstantsAssumption DEF Reopen, ClosedPort
  <1>19. CASE ReopenSucceeds
    BY <1>19, ConstantsAssumption DEF ReopenSucceeds, RateSet, Reopened
  <1>20. CASE ReopenFails
    BY <1>20, ConstantsAssumption DEF ReopenFails, FailedOpen, Reopened
  <1>21. CASE Start
    BY <1>21, ConstantsAssumption DEF Start
  <1>22. CASE Stop
    <2>1. UNCHANGED <<cmds, sensor, hPort, tty>> /\ Synced(t)
      BY <1>22, <1>t DEF Stop
    <2>2. Wanted(t)' = Wanted(t)
      BY <1>22, <1>t DEF Stop, Wanted
    <2> QED
      BY <1>0, <2>1, <2>2
  <1>23. CASE Close
    <2>1. UNCHANGED <<cmds, sensor, hPort, tty>> /\ Synced(t)
      BY <1>23, <1>t DEF Close
    <2>2. Wanted(t)' = Wanted(t)
      BY <1>23, <1>t DEF Close, Wanted
    <2> QED
      BY <1>0, <2>1, <2>2
  <1>24. ASSUME NEW b \in Bauds \union {AutoRate}, NEW s \in Configurations,
               Connect(b, s)
        PROVE  WillSet(cmds, sensor, t, Wanted(t))'
    BY <1>24, ConstantsAssumption DEF Connect
  <1>25. ASSUME NEW a \in Settings, NEW v \in Values,
               Set(a, v)
        PROVE  WillSet(cmds, sensor, t, Wanted(t))'
    <2>1. UNCHANGED <<cmds, sensor, hPort, tty>> /\ Synced(t)
      BY <1>25, <1>t DEF Set
    <2>2. Wanted(t)' = Wanted(t)
      BY <1>25, <1>t DEF Set, Wanted
    <2> QED
      BY <1>0, <2>1, <2>2
  <1>26. ASSUME NEW b \in Bauds, SetBaudRate(b) PROVE WillSet(cmds, sensor, t, Wanted(t))'
    BY <1>26, ConstantsAssumption DEF SetBaudRate
  <1>27. CASE LoopTest
    <2>1. UNCHANGED <<cmds, sensor, hPort, tty>> /\ Synced(t)
      BY <1>27, <1>t DEF LoopTest
    <2>2. Wanted(t)' = Wanted(t)
      BY <1>27, <1>t DEF LoopTest, Wanted
    <2> QED
      BY <1>0, <2>1, <2>2
  <1>28. CASE Read
    <2>1. UNCHANGED <<cmds, sensor, hPort, tty>> /\ Synced(t)
      BY <1>28, <1>t DEF Read
    <2>2. Wanted(t)' = Wanted(t)
      BY <1>28, <1>t DEF Read, Wanted
    <2> QED
      BY <1>0, <2>1, <2>2
  <1>29. CASE Parse
    <2>1. UNCHANGED <<cmds, sensor, hPort, tty>> /\ Synced(t)
      BY <1>29, <1>t DEF Parse
    <2>2. Wanted(t)' = Wanted(t)
      BY <1>29, <1>t DEF Parse, Wanted
    <2> QED
      BY <1>0, <2>1, <2>2
  <1>30. CASE SensorHandles
    <2>1. cmds # <<>> /\ cmds' = Tail(cmds)
      BY <1>30 DEF SensorHandles
    <2>2. Synced(t) /\ Wanted(t)' = Wanted(t) /\ UNCHANGED <<hPort, tty>>
      BY <1>30 DEF SensorHandles, Wanted
    <2>3. WillSet(cmds, sensor, t, Wanted(t)')
      BY <1>b, <2>2 DEF SetOK
    <2> DEFINE c == Head(cmds)
    <2>4. c \in Command
      BY <2>1
    <2>5. sensor'.set[t] = IF c.type = t THEN c.arg ELSE sensor.set[t]
      <3>1. CASE c.type \in {"START", "STOP", "BAUDRATE"}
        BY <1>30, <1>t, <3>1 DEF SensorHandles
      <3>2. CASE c.type \notin {"START", "STOP", "BAUDRATE"}
        <4>1. c.type \in Settings
          BY <2>4, <3>2 DEF Command
        <4> QED
          BY <1>30, <3>2, <4>1 DEF SensorHandles
      <3> QED
        BY <3>1, <3>2
    <2> QED
      BY <2>1, <2>3, <2>5, SetHandled
  <1>31. CASE SensorScans
    <2>1. UNCHANGED <<cmds, sensor, hPort, tty>> /\ Synced(t)
      BY <1>31, <1>t DEF SensorScans
    <2>2. Wanted(t)' = Wanted(t)
      BY <1>31, <1>t DEF SensorScans, Wanted
    <2> QED
      BY <1>0, <2>1, <2>2
  <1>32. CASE UNCHANGED vars
    <2>1. UNCHANGED <<cmds, sensor, hPort, tty>> /\ Synced(t)
      BY <1>32, <1>t DEF vars
    <2>2. Wanted(t)' = Wanted(t)
      BY <1>32, <1>t DEF vars, Wanted
    <2> QED
      BY <1>0, <2>1, <2>2
  <1> QED
    BY <1>o, <1>1, <1>2, <1>3, <1>4, <1>5, <1>6, <1>7, <1>8, <1>9, <1>10, <1>11,
       <1>12, <1>13, <1>14, <1>15, <1>16, <1>17, <1>18, <1>19, <1>20, <1>21,
       <1>22, <1>23, <1>24, <1>25, <1>26, <1>27, <1>28, <1>29, <1>30, <1>31,
       <1>32 DEF Next, NewCall, CallStep, UpdateThread, Sensor

\* Over a line that loses no command, a settled sensor of a started driver has
\* the settings the getters report, although every wait may time out and every
\* reply be lost: the last command of a type decides, and the driver's last is the
\* one whose value it keeps.
THEOREM SettingsAgreed ==
  ASSUME ~Lossy, "setBaudRate" \notin Ops PROVE Spec => []SettingsAgree
  <1>c. Careful
    BY DEF Careful
  <1>1. Init => NoRebaudOK /\ StartOK /\ SetOK
    BY ConstantsAssumption DEF Init, NoRebaudOK, StartOK, SetOK, Hearing, Stopping, Cmd
  <1>2. SafeInv /\ NoRebaudOK /\ StartOK /\ SetOK /\ [Next]_vars
          => (NoRebaudOK /\ StartOK /\ SetOK)'
    BY NoRebaudStep, StartStep, SetStep DEF SafeInv, TypeInv
  <1>3. SafeInv /\ SetOK => SettingsAgree
    <2> SUFFICES ASSUME SafeInv, SetOK, Settled, started
                 PROVE  sensor.set = cfg.set
      BY DEF SettingsAgree
    <2>1. sensor.set \in [Settings -> Values] /\ cfg.set \in [Settings -> Values]
      BY DEF SafeInv, TypeInv, TypeOK, DriverTypeOK, LineTypeOK
    <2>2. ASSUME NEW t \in Settings PROVE sensor.set[t] = cfg.set[t]
      BY <2>2 DEF SetOK, Settled, Hearing, Synced, Sent, Wanted, WillSet
    <2> QED
      BY <2>1, <2>2
  <1> QED
    BY <1>c, <1>1, <1>2, <1>3, SafeCorrect, PTL DEF Spec

-----------------------------------------------------------------------------
(***************************************************************************)
(* Spinning                                                                *)
(***************************************************************************)
\* A start() under way, autoFindBaudRate's too, has sent its START and no STOP yet.
Spun ==
  /\ call \in {"start", "connect"}
  /\ \/ pc = "nextSetting"
     \/ pc = "send" /\ snd.type # "START"
     \/ pc = "wait" /\ snd.type # "STOP"

ShouldSpin == Spun \/ (started /\ pc # "join")

SpinOK == Hearing => WillSpin(cmds, sensor, ShouldSpin)

LEMMA SpinStep ==
  ASSUME ~Lossy, "setBaudRate" \notin Ops, TypeOK, ControlOK, ThreadOK, NoRebaudOK,
         SpinOK, [Next]_vars
  PROVE  SpinOK'
  <1> SUFFICES ASSUME Hearing' PROVE WillSpin(cmds, sensor, ShouldSpin)'
    BY DEF SpinOK
  <1> USE DEF ControlOK, ThreadOK, NoRebaudOK, Starting, Return, Cmd, Stopping, Setting,
              appVars, portVars, loopVars, lineVars, Hearing
  <1> USE DEF TypeOK, CallTypeOK, DriverTypeOK, LineTypeOK, Public
  <1>b. sensor'.baud = sensor.baud /\ sensor.baud \in Bauds
    BY SameBaud
  <1>t. ShouldSpin \in BOOLEAN /\ ShouldSpin' \in BOOLEAN
    BY DEF ShouldSpin, Spun
  <1>0. ASSUME UNCHANGED <<cmds, sensor, hPort, tty>>, ShouldSpin' <=> ShouldSpin
        PROVE  WillSpin(cmds, sensor, ShouldSpin)'
    <2>1. ShouldSpin' = ShouldSpin
      BY <1>t, <1>0
    <2> QED
      BY <1>0, <2>1 DEF SpinOK
  <1>s. ASSUME NEW c \in Command, cmds' = Append(cmds, c), UNCHANGED sensor,
               IF c.type \in {"START", "STOP"} THEN ShouldSpin' <=> c.type = "START"
               ELSE UNCHANGED <<hPort, tty>> /\ (ShouldSpin' <=> ShouldSpin)
        PROVE  WillSpin(cmds, sensor, ShouldSpin)'
    <2>1. ASSUME NEW b \in BOOLEAN, b = ShouldSpin'
          PROVE  IF c.type \in {"START", "STOP"} THEN b <=> c.type = "START"
                 ELSE WillSpin(cmds, sensor, b)
      <3>1. c.type \notin {"START", "STOP"} => b = ShouldSpin /\ Hearing
        BY <1>t, <1>s, <2>1
      <3> QED
        BY <1>s, <2>1, <3>1 DEF SpinOK
    <2>2. ASSUME NEW b \in BOOLEAN, b = ShouldSpin'
          PROVE  WillSpin(Append(cmds, c), sensor, b)
      <3>1. cmds \in Seq(Command)
        OBVIOUS
      <3> QED
        BY <2>1, <2>2, <3>1, SpinAppended
    <2> QED
      BY <1>t, <1>s, <2>2
  <1>1. CASE ProbeNext
    <2>1. UNCHANGED <<cmds, sensor, hPort, tty>>
      BY <1>1 DEF ProbeNext
    <2>2. ShouldSpin' <=> ShouldSpin
      BY <1>1 DEF ProbeNext, ShouldSpin, Spun
    <2> QED
      BY <1>0, <2>1, <2>2
  <1>o. CASE OpenFlushes
    BY <1>o, ConstantsAssumption DEF OpenFlushes
  <1>2. CASE OpenSucceeds
    <2>1. cmds' = Append(cmds, Stopping) /\ UNCHANGED sensor
      BY <1>2, <1>b, Written DEF OpenSucceeds, RateSet
    <2>2. ~ShouldSpin'
      BY <1>2 DEF OpenSucceeds, ShouldSpin, Spun
    <2> QED
      BY <1>s, <2>1, <2>2, Commands
  <1>3. CASE OpenFails
    BY <1>3, ConstantsAssumption DEF OpenFails, FailedOpen
  <1>4. CASE LaunchThread
    <2>1. UNCHANGED <<cmds, sensor, hPort, tty>>
      BY <1>4 DEF LaunchThread
    <2>2. ShouldSpin' <=> ShouldSpin
      BY <1>4 DEF LaunchThread, ShouldSpin, Spun
    <2> QED
      BY <1>0, <2>1, <2>2
  <1>5. CASE StartThrows
    <2>1. UNCHANGED <<cmds, sensor, hPort, tty>>
      BY <1>5 DEF StartThrows
    <2>2. ShouldSpin' <=> ShouldSpin
      BY <1>5 DEF StartThrows, ShouldSpin, Spun
    <2> QED
      BY <1>0, <2>1, <2>2
  <1>6. CASE NextSetting
    <2>1. UNCHANGED <<cmds, sensor, hPort, tty>>
      BY <1>6 DEF NextSetting
    <2>2. ShouldSpin' <=> ShouldSpin
      <3>1. CASE sent < Len(SettingOrder)
        <4>1. SettingOrder[sent + 1] \in Settings
          BY <3>1, Lists
        <4>2. SettingOrder[sent + 1] # "START"
          BY <4>1, SettingTypes
        <4> QED
          BY <1>6, <3>1, <4>2 DEF NextSetting, ShouldSpin, Spun
      <3>2. CASE ~(sent < Len(SettingOrder))
        BY <1>6, <3>2 DEF NextSetting, ShouldSpin, Spun
      <3> QED
        BY <3>1, <3>2
    <2> QED
      BY <1>0, <2>1, <2>2
  <1>7. CASE Send
    <2>1. cmds' = Append(cmds, snd) /\ UNCHANGED <<sensor, hPort, tty>>
      BY <1>7, <1>b, WrittenHeard DEF Send
    <2>2. CASE snd.type \in {"START", "STOP"}
      <3>1. ShouldSpin' <=> snd.type = "START"
        BY <1>7, <2>2, SettingTypes DEF Send, ShouldSpin, Spun
      <3> QED
        BY <1>s, <2>1, <2>2, <3>1
    <2>3. CASE snd.type \notin {"START", "STOP"}
      <3>1. ShouldSpin' <=> ShouldSpin
        BY <1>7, <2>3 DEF Send, ShouldSpin, Spun
      <3> QED
        BY <1>s, <2>1, <2>3, <3>1
    <2> QED
      BY <2>2, <2>3
  <1>8. CASE Resend
    <2>1. cmds' = Append(cmds, snd) /\ UNCHANGED <<sensor, hPort, tty>>
      BY <1>8, <1>b, WrittenHeard DEF Resend
    <2>2. ShouldSpin' <=> ShouldSpin
      BY <1>8 DEF Resend, ShouldSpin, Spun
    <2>3. snd.type \in {"START", "STOP"} => (ShouldSpin <=> snd.type = "START")
      BY <1>8, SettingTypes DEF Resend, ShouldSpin, Spun
    <2> QED
      BY <1>s, <2>1, <2>2, <2>3
  <1>9. CASE StartAcked
    <2>1. UNCHANGED <<cmds, sensor, hPort, tty>>
      BY <1>9 DEF StartAcked, WaitReturns
    <2>2. ShouldSpin' <=> ShouldSpin
      BY <1>9 DEF StartAcked, WaitReturns, ShouldSpin, Spun
    <2> QED
      BY <1>0, <2>1, <2>2
  <1>10. CASE SettingAcked
    <2>1. UNCHANGED <<cmds, sensor, hPort, tty>>
      BY <1>10 DEF SettingAcked, WaitReturns
    <2>2. ShouldSpin' <=> ShouldSpin
      BY <1>10, SettingTypes, Lists DEF SettingAcked, WaitReturns, ShouldSpin, Spun
    <2> QED
      BY <1>0, <2>1, <2>2
  <1>11. CASE ProbeAcked
    <2>1. UNCHANGED <<cmds, sensor, hPort, tty>>
      BY <1>11 DEF ProbeAcked, WaitReturns
    <2>2. ShouldSpin' <=> ShouldSpin
      BY <1>11 DEF ProbeAcked, WaitReturns, ShouldSpin, Spun
    <2> QED
      BY <1>0, <2>1, <2>2
  <1>12. CASE StopAcked
    BY <1>12, ConstantsAssumption DEF StopAcked, WaitReturns
  <1>13. CASE BaudRateSent
    BY <1>13, ConstantsAssumption DEF BaudRateSent, WaitReturns
  <1>14. CASE StopWrite
    <2>1. cmds' = Append(cmds, Stopping) /\ UNCHANGED <<sensor, hPort, tty>>
      BY <1>14, <1>b, WrittenHeard DEF StopWrite
    <2>2. ~ShouldSpin'
      BY <1>14 DEF StopWrite, ShouldSpin, Spun
    <2> QED
      BY <1>s, <2>1, <2>2, Commands
  <1>15. CASE Join
    <2>1. UNCHANGED <<cmds, sensor, hPort, tty>>
      BY <1>15 DEF Join, AfterStop
    <2>2. ShouldSpin' <=> ShouldSpin
      BY <1>15 DEF Join, AfterStop, ShouldSpin, Spun
    <2> QED
      BY <1>0, <2>1, <2>2
  <1>16. CASE CloseStops
    <2>1. UNCHANGED <<cmds, sensor, hPort, tty>>
      BY <1>16 DEF CloseStops
    <2>2. ShouldSpin' <=> ShouldSpin
      BY <1>16 DEF CloseStops, ShouldSpin, Spun
    <2> QED
      BY <1>0, <2>1, <2>2
  <1>17. CASE ClosePort
    BY <1>17, ConstantsAssumption DEF ClosePort, ClosedPort
  <1>18. CASE Reopen
    BY <1>18, ConstantsAssumption DEF Reopen, ClosedPort
  <1>19. CASE ReopenSucceeds
    BY <1>19, ConstantsAssumption DEF ReopenSucceeds, RateSet, Reopened
  <1>20. CASE ReopenFails
    BY <1>20, ConstantsAssumption DEF ReopenFails, FailedOpen, Reopened
  <1>21. CASE Start
    <2>1. UNCHANGED <<cmds, sensor, hPort, tty>>
      BY <1>21 DEF Start
    <2>2. ShouldSpin' <=> ShouldSpin
      BY <1>21 DEF Start, ShouldSpin, Spun
    <2> QED
      BY <1>0, <2>1, <2>2
  <1>22. CASE Stop
    <2>1. UNCHANGED <<cmds, sensor, hPort, tty>>
      BY <1>22 DEF Stop
    <2>2. ShouldSpin' <=> ShouldSpin
      BY <1>22 DEF Stop, ShouldSpin, Spun
    <2> QED
      BY <1>0, <2>1, <2>2
  <1>23. CASE Close
    <2>1. UNCHANGED <<cmds, sensor, hPort, tty>>
      BY <1>23 DEF Close
    <2>2. ShouldSpin' <=> ShouldSpin
      BY <1>23 DEF Close, ShouldSpin, Spun
    <2> QED
      BY <1>0, <2>1, <2>2
  <1>24. ASSUME NEW b \in Bauds \union {AutoRate}, NEW s \in Configurations,
               Connect(b, s)
        PROVE  WillSpin(cmds, sensor, ShouldSpin)'
    <2>1. UNCHANGED <<cmds, sensor, hPort, tty>>
      BY <1>24 DEF Connect
    <2>2. ShouldSpin' <=> ShouldSpin
      BY <1>24 DEF Connect, ShouldSpin, Spun
    <2> QED
      BY <1>0, <2>1, <2>2
  <1>25. ASSUME NEW t \in Settings, NEW v \in Values,
               Set(t, v)
        PROVE  WillSpin(cmds, sensor, ShouldSpin)'
    <2>1. UNCHANGED <<cmds, sensor, hPort, tty>>
      BY <1>25 DEF Set
    <2>2. ShouldSpin' <=> ShouldSpin
      BY <1>25 DEF Set, ShouldSpin, Spun
    <2> QED
      BY <1>0, <2>1, <2>2
  <1>26. ASSUME NEW b \in Bauds, SetBaudRate(b) PROVE WillSpin(cmds, sensor, ShouldSpin)'
    BY <1>26, ConstantsAssumption DEF SetBaudRate
  <1>27. CASE LoopTest
    <2>1. UNCHANGED <<cmds, sensor, hPort, tty>>
      BY <1>27 DEF LoopTest
    <2>2. ShouldSpin' <=> ShouldSpin
      BY <1>27 DEF LoopTest, ShouldSpin, Spun
    <2> QED
      BY <1>0, <2>1, <2>2
  <1>28. CASE Read
    <2>1. UNCHANGED <<cmds, sensor, hPort, tty>>
      BY <1>28 DEF Read
    <2>2. ShouldSpin' <=> ShouldSpin
      BY <1>28 DEF Read, ShouldSpin, Spun
    <2> QED
      BY <1>0, <2>1, <2>2
  <1>29. CASE Parse
    <2>1. UNCHANGED <<cmds, sensor, hPort, tty>>
      BY <1>29 DEF Parse
    <2>2. ShouldSpin' <=> ShouldSpin
      BY <1>29 DEF Parse, ShouldSpin, Spun
    <2> QED
      BY <1>0, <2>1, <2>2
  <1>30. CASE SensorHandles
    <2>1. cmds # <<>> /\ cmds' = Tail(cmds) /\ UNCHANGED <<hPort, tty>>
      BY <1>30 DEF SensorHandles
    <2>2. ShouldSpin' = ShouldSpin
      BY <1>30 DEF SensorHandles, ShouldSpin, Spun
    <2> DEFINE c == Head(cmds)
    <2>3. /\ c.type = "START" => sensor'.spinning = TRUE
          /\ c.type = "STOP" => sensor'.spinning = FALSE
          /\ c.type \notin {"START", "STOP"} => sensor'.spinning = sensor.spinning
      BY <1>30 DEF SensorHandles
    <2>4. WillSpin(cmds, sensor, ShouldSpin)
      BY <1>b, <2>1 DEF SpinOK
    <2>5. ASSUME NEW b \in BOOLEAN, WillSpin(cmds, sensor, b)
          PROVE  WillSpin(cmds', sensor', b)
      <3>1. cmds \in Seq(Command)
        OBVIOUS
      <3> HIDE DEF TypeOK, ControlOK, ThreadOK
      <3> QED
        BY <2>1, <2>3, <2>5, <3>1, SpinHandled
    <2> QED
      BY <1>t, <2>2, <2>4, <2>5
  <1>31. CASE SensorScans
    <2>1. UNCHANGED <<cmds, sensor, hPort, tty>>
      BY <1>31 DEF SensorScans
    <2>2. ShouldSpin' <=> ShouldSpin
      BY <1>31 DEF SensorScans, ShouldSpin, Spun
    <2> QED
      BY <1>0, <2>1, <2>2
  <1>32. CASE UNCHANGED vars
    <2>1. UNCHANGED <<cmds, sensor, hPort, tty>>
      BY <1>32 DEF vars
    <2>2. ShouldSpin' <=> ShouldSpin
      BY <1>32 DEF vars, ShouldSpin, Spun
    <2> QED
      BY <1>0, <2>1, <2>2
  <1> QED
    BY <1>o, <1>1, <1>2, <1>3, <1>4, <1>5, <1>6, <1>7, <1>8, <1>9, <1>10, <1>11,
       <1>12, <1>13, <1>14, <1>15, <1>16, <1>17, <1>18, <1>19, <1>20, <1>21,
       <1>22, <1>23, <1>24, <1>25, <1>26, <1>27, <1>28, <1>29, <1>30, <1>31,
       <1>32 DEF Next, NewCall, CallStep, UpdateThread, Sensor

\* Over such a line the settled sensor spins exactly when the driver is started:
\* the last START or STOP decides, and autoFindBaudRate's probes end in a STOP.
THEOREM SpinningAgreed ==
  ASSUME ~Lossy, "setBaudRate" \notin Ops PROVE Spec => []SpinningAgrees
  <1>c. Careful
    BY DEF Careful
  <1>1. Init => NoRebaudOK /\ SpinOK
    BY ConstantsAssumption DEF Init, NoRebaudOK, SpinOK, Hearing, Stopping, Cmd
  <1>2. SafeInv /\ NoRebaudOK /\ SpinOK /\ [Next]_vars => (NoRebaudOK /\ SpinOK)'
    BY NoRebaudStep, SpinStep DEF SafeInv, TypeInv
  <1>3. SafeInv /\ SpinOK => SpinningAgrees
    <2> SUFFICES ASSUME SafeInv, SpinOK, Settled PROVE sensor.spinning <=> started
      BY DEF SpinningAgrees
    <2>1. ShouldSpin <=> started
      BY DEF Settled, ShouldSpin, Spun
    <2>2. WillSpin(<<>>, sensor, ShouldSpin)
      BY DEF Settled, SpinOK, Hearing
    <2>3. sensor.spinning = ShouldSpin
      BY <2>2 DEF WillSpin
    <2> QED
      BY <2>1, <2>3
  <1> QED
    BY <1>c, <1>1, <1>2, <1>3, SafeCorrect, PTL DEF Spec

-----------------------------------------------------------------------------
(***************************************************************************)
(* Refinement                                                              *)
(***************************************************************************)
LEMMA RefinementStep ==
  ASSUME Careful, SafeInv, SafeInv', [Next]_vars
  PROVE  [SD!Next]_(SD!vars)
  <1> USE DEF SafeInv, TypeInv, ThreadOK, TypeOK, DriverTypeOK, BufferTypeOK,
              SD!Next, SD!vars, appVars, portVars, loopVars, lineVars
  <1>0. frameCount \in Nat /\ frameCount' \in Nat
    BY ConstantsAssumption
  <1>1. CASE ProbeNext
    BY <1>1 DEF ProbeNext
  <1>o. CASE OpenFlushes
    BY <1>o DEF OpenFlushes, SD!Relink
  <1>2. CASE OpenSucceeds
    BY <1>2 DEF OpenSucceeds, RateSet, SD!Relink
  <1>3. CASE OpenFails
    BY <1>3 DEF OpenFails, FailedOpen, SD!Relink
  <1>4. CASE LaunchThread
    BY <1>4 DEF LaunchThread, SD!Launch
  <1>5. CASE StartThrows
    BY <1>5 DEF StartThrows
  <1>6. CASE NextSetting
    BY <1>6 DEF NextSetting
  <1>7. CASE Send
    BY <1>7 DEF Send
  <1>8. CASE Resend
    BY <1>8 DEF Resend
  <1>9. CASE StartAcked
    BY <1>9 DEF StartAcked, WaitReturns
  <1>10. CASE SettingAcked
    BY <1>10 DEF SettingAcked, WaitReturns
  <1>11. CASE ProbeAcked
    BY <1>11 DEF ProbeAcked, WaitReturns
  <1>12. CASE StopAcked
    BY <1>12 DEF StopAcked, WaitReturns
  <1>13. CASE BaudRateSent
    BY <1>13 DEF BaudRateSent, WaitReturns
  <1>14. CASE StopWrite
    BY <1>14 DEF StopWrite
  <1>15. CASE Join
    BY <1>15 DEF Join, SD!Retire
  <1>16. CASE CloseStops
    BY <1>16 DEF CloseStops
  <1>17. CASE ClosePort
    BY <1>17 DEF ClosePort, ClosedPort, SD!Relink
  <1>18. CASE Reopen
    BY <1>18 DEF Reopen, ClosedPort, SD!Relink
  <1>19. CASE ReopenSucceeds
    BY <1>19 DEF ReopenSucceeds, RateSet, SD!Relink
  <1>20. CASE ReopenFails
    BY <1>20 DEF ReopenFails, FailedOpen, SD!Relink
  <1>21. CASE Start
    BY <1>21 DEF Start
  <1>22. CASE Stop
    BY <1>22 DEF Stop
  <1>23. CASE Close
    BY <1>23 DEF Close
  <1>24. ASSUME NEW b \in Bauds \union {AutoRate}, NEW s \in Configurations,
               Connect(b, s)
        PROVE  UNCHANGED SD!vars
    BY <1>24 DEF Connect
  <1>25. ASSUME NEW t \in Settings, NEW v \in Values,
               Set(t, v)
        PROVE  UNCHANGED SD!vars
    BY <1>25 DEF Set
  <1>26. ASSUME NEW b \in Bauds, SetBaudRate(b) PROVE UNCHANGED SD!vars
    BY <1>26 DEF SetBaudRate
  <1>27. CASE UNCHANGED vars
    BY <1>27 DEF vars
  <1>28. CASE LoopTest \/ Read
    BY <1>28 DEF LoopTest, Read
  <1>29. CASE Parse
    <2>1. frameCount' = frameCount \/ frameCount' > frameCount
      BY <1>0, <1>29, ConstantsAssumption DEF Parse
    <2> QED
      BY <1>0, <1>29, <2>1 DEF Parse, SD!Deliver
  <1>30. CASE Sensor
    BY <1>30 DEF Sensor, SensorHandles, SensorScans
  <1> QED
    BY <1>o, <1>1, <1>2, <1>3, <1>4, <1>5, <1>6, <1>7, <1>8, <1>9, <1>10, <1>11,
       <1>12, <1>13, <1>14, <1>15, <1>16, <1>17, <1>18, <1>19, <1>20, <1>21,
       <1>22, <1>23, <1>24, <1>25, <1>26, <1>27, <1>28, <1>29, <1>30 DEF Next,
       NewCall, CallStep, UpdateThread

\* Pro::Driver implements SensorDriver, for every number of rates, settings and
\* retries, and whatever the line loses.
THEOREM Implements == ASSUME Careful PROVE Spec => SensorDriverSpec
  <1>1. Init => SD!Init
    BY DEF Init, SD!Init
  <1>2. SafeInv /\ SafeInv' /\ [Next]_vars => [SD!Next]_(SD!vars)
    BY RefinementStep
  <1> QED
    BY <1>1, <1>2, SafeCorrect, PTL DEF Spec, SensorDriverSpec, SD!Spec
=============================================================================
