# Verification of the Parakeet SDK

TLA+ models of the Parakeet SDK (`src/`), a C++ library that connects
applications to MechaSpin's rotating lidars: the Parakeet Pro over a serial line
and the Parakeet Pro E over Ethernet. The modules are translated from the source;
`PROJECT.json` names the source lines of each definition, the TLC runs, the
mutants each property is tested with, the hazards and the theorems.

## Inventory

| Component | State | Operations | Interacts with |
|---|---|---|---|
| base `Driver` (`src/src/parakeet/Driver.cpp`) | `runUpdateThread`, `updateThread`, frame count, `pointHoldingList`, callbacks | start, stop, close, the thread's loop, `onScanDataReceived` | calls the derived driver's update function and the application's callback on its own thread |
| `Pro::Driver` (`Pro/Driver.cpp`) | `sensorConfiguration`, `sensorReturnMessageState` flags, receive buffer | connect with automatic baud rate, start, stop, close, setters and getters, `setBaudRate`, the update function | writes commands to `SerialPort` from the application thread; the update thread reads replies and data and raises flags the application thread polls, without a lock |
| `SerialPort` | the global handle `hPort`, `lastUsedPort` | open, close, read, write, `changeBaudRate` with retries | the operating system |
| `SensorResponseParser` | none | the reply a text contains | `Pro::Driver` |
| `ProE::Driver` | configuration, addresses included; a mutex shared by commands and update thread; buffer | connect, start, stop, close, setters, address settings, update function | sends commands and waits for answers through `UdpSocket` under the mutex; the update thread takes the mutex for each read and gives the datagram to `MessageParser` |
| `ProE::internal::MessageParser` | partial messages of a sector, last timestamp | parse, reset | hands complete sectors to `ProE::Driver` |
| `UdpSocket` | socket, 0 when there is none | open, close, read with timeout, write, send and wait for OK | the operating system; who calls it takes turns by the driver's mutex |
| `util`, points, scans, exceptions, `BaudRate` | none | pure functions, values | |
| SimpleExample, ConfigureProEIPv4Settings | shared pointers, no lock | main and a scan callback | the drivers |

Each driver has two threads: the application's, which makes the public calls, and
the update thread, which reads, parses and calls the application back. What is
hard:

- *The thread's life cycle.* `start()` assigns `updateThread`; over a joinable
  thread that ends the process. `setBaudRate` and the automatic baud rate stop,
  close, re-open and restart, with failures at each step. Correct means: one
  thread at most, over a connection that does not change under it, and none
  when the driver was not started.
- *Commands and replies.* A reply of the Pro names only its command's type, one of
  the Pro E nothing at all. Waits time out and commands are sent again, so
  replies come late, doubled or never, and the Pro's parser sees one reply per
  text. Correct means: every call returns, the baud rate found is the sensor's,
  the getters agree with the sensor when nothing is lost.
- *The mutex of the Pro E.* Commands and the update thread read the same socket,
  each for seconds at a time. Correct means: an answer is not taken from the
  command that waits for it, and the mutex comes back.
- *Finding frames.* The Pro's data is bytes cut anywhere by reads; points may look
  like headers, counts may be spoiled, and the width of a point may change.
  Correct means: no frame is lost or invented while the line is good, and the
  parser can hear again after it was not.
- *Putting scans together.* Datagrams make sectors and sectors make
  rotations; either may be lost, and a driver stopped and started again in
  between. Correct means: points are delivered once, in order, a scan is a
  rotation when its sectors arrived, and data without a valid time is not
  delivered.

`PROJECT.json` lists the single hazards at their lines under "hazards".

## Modules

### SensorDriver: the promise

The abstract specification of the base class as an application sees it: `link`
(the connection), `reading` (an update thread exists) and `scans` (callbacks since
the thread was launched). The link changes only while nothing reads (`Relink`); a
thread is launched only over a link and only when there is none (`Launch`); scans
come only from a thread with a link (`Deliver`); the thread goes away (`Retire`).

### ProDriver: the serial driver

`Pro::Driver`, the base `Driver` and one `SerialPort`, with the sensor and the line
as environment. The application thread is `pc` and `call`; each public call is cut
at every point where another thread or the sensor can get in between:

| Code | Actions |
|---|---|
| `connect`, `open`, `autoFindBaudRate` | `Connect`, `OpenFlushes`, `OpenSucceeds` (`RateSet`), `OpenFails`, `ProbeNext`, `ProbeAcked` |
| `start` and the setters it calls | `Start`, `LaunchThread`, `StartThrows`, `StartAcked`, `NextSetting`, `SettingAcked` |
| `sendMessageWaitForResponseOrTimeout` | `Send`, `Resend`, `WaitReturns` (in the `...Acked` actions) |
| the four setters | `Set`, `SettingAcked` |
| `stop`, `close` | `Stop`, `StopWrite`, `Join`, `Close`, `CloseStops`, `ClosePort` |
| `setBaudRate`, `changeBaudRate` | `SetBaudRate`, `StopAcked`, `BaudRateSent`, `Reopen`, `OpenFlushes`, `ReopenSucceeds`, `ReopenFails`, `Reopened` |
| the update thread | `LoopTest`, `Read`, `Parse` |

What is abstracted:

- The handle `hPort` is known by the rate that was asked for when it was opened;
  `Closed` is 0 and `Unset` a handle that is not set up, because `open` is not yet
  done with it or because its attributes could not be read or set (`open` then
  returns false and leaves it in `hPort`). What a handle that a later open leaks
  does to the line is left out.
- `tty` is the rate the line runs at, which the system keeps while the port is
  closed. `open` sets the attributes, which flushes what was received, and only
  then the rate (`SerialPort.cpp:209-215`): `OpenFlushes` and `RateSet` are two
  steps, and what arrives between them at the old rate stays. The ioctls that set
  the rate may fail and nobody looks: with `RateMayFail` the line may then have any
  rate. `clean` is history: whether, at the last open of a probe, no STOP reply
  came in that gap and the rate was taken.
- Received bytes are tokens, a reply by its type or `FRAME`. `Read` takes any
  prefix of what has arrived, may add junk, as a wrong rate does, and may lose a
  reply that it cuts. `Parse` takes the text before the first frame as one message, which
  raises one flag (`FirstResponse`), then the frames that follow it.
- A wait may end at any moment, so timeouts and the clock need no state.
- Replies are never attributed to a particular command, as in the code.
- `run`, the flags and the port are read and written without a lock in the code.
  The steps are atomic in the model; both threads' calls into the operating
  system between accesses keep a compiler from caching them, so no other outcome
  of these races is modelled.
- The flag of DRAGPOINTREMOVAL lies one past the end of its array; the model
  treats it as a flag like the others, which is what the padding after the array
  makes of it.

The application is assumed to call from one thread, not from the callback, and not
to call `start` or `connect` on a started driver; the code terminates the process
in the latter case. `started` is what such an application knows: its last `start()`
returned and nothing has stopped the driver since. `EagerRebaud` says whether it
may call `setBaudRate` before `runUpdateThread` has ever been assigned.

### ProEDriver: the Ethernet driver

`ProE::Driver`, the base `Driver` and a `UdpSocket`, with the sensor and the network
as environment.

| Code | Actions |
|---|---|
| `connect`, `UdpSocket::open` | `Connect`, `OpenSucceeds`, `OpenFails`, and a STOP command |
| `start` and the setters it calls | `Start`, `NextSetting`, `ValueStored`, `LaunchThread`, `StartThrows` |
| `sendMessageWaitForResponseOrTimeout`, of the driver and of the socket | `Send` (takes the mutex), `Resend`, `Receive`, `WaitTimesOut` |
| the setters, `setSensorIPv4Settings`, `setSensorDestinationIPv4Settings` | `Set`, `ValueStored` |
| `stop`, `close` | `Stop`, `Close`, `StopAnswered`, `Join`, `ClosePort` |
| the update thread | `LoopTest`, `UpdateLock`, `Read`, `Parse` |

What is abstracted:

- A datagram is a scan datagram or an answer. An answer is not attributed to a
  command, as in the code, which looks for the bytes OK only; scan data may hold
  them (`OKFRAME`). The network is a queue each way that may lose a datagram.
- A wait may end at any moment, so timeouts need no clock. The driver's waits, the
  sleeps between resends included, hold the mutex (`holder`).
- The socket is known by the port it is bound to, `Unbound` after a failed open and
  `Closed` when there is none. `leaked` are the ports of sockets that a second
  connect overwrote; they stay taken.
- An address is known by whether all its numbers have three digits (`Wide`):
  `setSensorIPv4Settings` stores it with leading zeros, which `inet_pton` takes
  only if there are none. A command written to an address that was not parsed may
  go anywhere, the sensor included. `Assigned` are the addresses a sensor may have
  before an application sets one.
- The settings are a function; `enableIntensityData` sends nothing and is left out,
  as is the CRC of a command.
- Address settings take effect when the sensor is switched off and on
  (`PowerCycle`), which happens only when the driver is not started.
- `lost` is history: whether, since the last open, the sensor missed a command.
  `abandoned` is what the application knows of a `start()` that threw: the sensor
  may spin all the same.

The application is assumed not to call `connect` or `start` on a started driver.

### FrameParser: bytes to frames

`serialUpdateThreadFunction` and `parseSensorDataFromBuffer`, byte by byte and to
scale: a frame has two header bytes, a count, its points and a checksum, one byte
each for the code's two, and a point has one byte, or two with intensity, for two
and three. The 8 bytes around the points are `Overhead` = 4, the 8192 of the buffer
`BufferSize`, the 1000 points of ScanData `MaxPoints`; what matters is that they
stand in the same order.

| Code | Actions |
|---|---|
| the read into what room there is | `Read` |
| the search for a header, the status block ("ST....ED") stepped over, the text before it given to the reply parser | `SkipText` (`Search`) |
| a frame that is whole, its checksum, the step to the next | `TakeFrame` |
| a frame whose rest has not come | `AwaitFrame` |
| a count above 1000 | `Overrun`: the model ends where the code writes past its arrays |
| `enableIntensityData`, `stop` and `start` | `enableIntensityData`, `Restart` |

The search looks one byte past the data when a header's first byte is the last;
that byte is what an earlier read left (`past`, any byte). The sensor sends frames
and text, a byte may be spoiled, and either side may switch the width of a point.
`disturbed` is history: since the driver was last started over a quiet line,
something of that kind happened, or a header was cut behind a status block, where
the code loses it.

### ScanAssembly: sectors to rotations

`onScanDataReceived`: points are held back until the sector that ends at 360
degrees (within one degree) and then delivered with that sector's timestamp.
`SectorParsed` is a sector that reaches the driver, `SectorMissed` one the sensor
gave while the driver was stopped, or that was lost or failed its checksum.
`Start` and `Stop` keep the points held. Angles are exact: `Sectors` units make a
degree. `scans`, `received` and `shipped` are history.

### MessageParser: datagrams to sectors

`ProE::internal::MessageParser::parse`: a partial message is pushed on the list,
the list starts over from it when it has too many points or the message's
checksum is wrong, and a complete list is published unless its first message has
no timestamp. A message is its sector, its place in it and how the sector is
split; `good` says whether the checksum matches. The network (external) loses,
duplicates, spoils and, by duplicating and losing, reorders; a spoiled datagram
fails its checksum and keeps its point counts. `Restart` is `stop`
followed by `start`, which resets only the timestamp. An alarm ends the process,
and with it the model. `published` is the scan the last step handed on, if any;
`trouble` is history: the worst that has happened, nothing, the network's faults
or a restart.

`Sums` is the sum of a sequence, which the parser of messages and the checksum of
a frame use. The `*_proofs` modules hold the theorems about the module they are
named after, `CommandQueue` the lemmas on commands under way that the proofs about
both drivers use, and the `MC*` modules the finite sets the runs use.

## Runs

| Run | Shows | Bounds |
|---|---|---|
| ProDriver_lossy | types, `NeverTerminates`, `ThreadOnlyWhenStarted`, `ReportedRateIsPorts`, ProDriver implements SensorDriver | 2 rates, 1 setting, 1 value, both kinds of failed open, 1 retry, 1 resend, 1 command and 1 token under way |
| ProDriver_probe | `FoundRateIsSensors`: a stale reply never proves a rate, over clean opens | connect and close only, 2 rates, both kinds of failed open, rates not taken, 1 resend, 2 commands and 2 tokens under way |
| ProDriver_lossless | `SettingsAgree`, `SpinningAgrees` | 1 rate, 1 setting with 2 values, both kinds of failed open, 1 resend, 2 commands and 2 tokens under way, no lost commands, no `setBaudRate` |
| ProDriver_live | `CallsReturn` under `FairSpec` | 1 rate, no setting, both kinds of failed open, 1 retry, 1 resend, 1 command and 2 tokens under way |
| ProDriver_eager | violation: `setBaudRate` before the first start may launch the thread | 1 rate |
| ProEDriver_lossy | types, `ThreadOnlyWhenStarted`, `BoundWhileRunning`, `OneReader`, `SettingsAgree`, `SpinningExplained`, ProEDriver implements SensorDriver; under `FairSpec`, `LockReleased` and `ReturnsIfLockIsFair` | 1 address, 1 port, 1 setting with 2 values, both kinds of scan data, 1 resend, 1 datagram each way, power cycles |
| ProEDriver_starved | violation: a call may wait for the mutex for ever | no setting, no resend |
| ProEDriver_address | violation: commands to a configured address go elsewhere | 2 addresses, one with leading zeros, which the sensor does not have at first, nothing lost |
| FrameParser_spoiled | types, `NothingLost`, `NeverMisled`, `DeafOnlyToOversize` | 5 byte values, frames of 0 to 3 point bytes that look like headers, a status block and a longer text, a buffer and a line of 9 bytes, at most 2 points |
| ScanAssembly_lossy | types, `EveryPointOnce`, `HeldPointsAreOpen`, `WholeRotations` | 3 sectors a rotation, 0 to 2 points each, 8 sectors |
| MessageParser_lossy | types, `BadOnlyFirst`, `HeldIsIncomplete`, `UnstampedNotPublished`, `ScansAreSectors` | sectors of 3 points in 1 or 3 messages, 2 datagrams under way, restarts and alarms |
| MessageParser_restart | violation: untimed points published after a restart | sectors of 3 points in 1 to 3 messages, nothing lost |

Why the bounds are enough. Two rates are the least at which a probe can be wrong
and at which a change of rate is one. One token and one command under way already
let a reply arrive in any later call, since waits may end at once; the probe run
has two of each so that a reply of the previous rate can stand before one of the
present. The lossless and live runs have two tokens, too, so that two replies can
share a text, of which only one is seen. The live run has no setting, since a
setter sends and waits as `start` does, and counts no scans, which no wait looks
at. One resend and one retry take both branches of their loops. The runs of
ProDriver look at states through the view `Live`, which drops what no later step
reads: the variables of calls that are not under way, and the flags nobody waits
for, each of which is lowered before the next wait. States that agree in it have the
same steps and properties. One datagram
each way is enough for a late answer to be taken for another command's, and for a
scan datagram to be taken for an answer. With one port a second connect finds its
own port taken, which is the case that fails; that a connect to another port
leaks the first one's socket is covered by the theorems, which hold for any set of
ports. In FrameParser the buffer holds a whole frame of either width and not two,
and the byte values include both header bytes, counts that fit, that overrun and
that can never fit. Eight sectors are two whole rotations and a start and stop in
each; the message bounds let a sector be mixed with the one before it and the one
after it. All bounds are named constants: `MaxResend`, `MaxQueue`, `MaxWire`,
`MaxInbound`, `MaxFrames` (frames over it are still consumed), `RetryLimit` (5 in
the code), `MaxSectors`, `MaxNet`. Deadlock is checked except in
MessageParser_lossy and FrameParser_spoiled, where the process may end.

Fairness. `FairSpec` of ProDriver has weak fairness of the steps of a call under
way and of the update thread, which is what a scheduler gives two runnable threads:
sleeps end and reads return after the port's timeout (`VTIME`). The latter holds
only of a port that `open` set up: on one it gave up on (`Unset`) a read may wait
for data for ever, and gets no fairness. A `stop()` or `close()` that joins such a
read is the one exception `CallsReturn` makes. ProEDriver adds the
timeout of a wait, which the code measures. Nothing is assumed of the sensor, of
the line or network, of the application's next call or of an open ever succeeding.
`std::mutex` promises nothing to a thread that waits while others come and go, so
weak fairness is all that is given of taking it. Under that a holder gives the
mutex back (`LockReleased`), and that every call returns needs the assumption
`ReturnsIfLockIsFair` names; without it the update thread, which takes the mutex
again at once, may keep `stop()` out for ever (ProEDriver_starved).

The four violations are disagreements between the code and what its comments and
documents say; "findings" quotes each.

Other differences seen while modelling, which no run is spent on since the code
shows them at a glance:

- The setters store what they were asked for although the sensor did not answer
  (`Pro/Driver.cpp:157`, `ProE/Driver.cpp:235`); the getters then report it.
- `enableIntensityData` of the Pro E sends nothing (`ProE/Driver.cpp:249`).
- The first scan of a start is whatever was left of the rotation
  (`Driver.cpp:104`), with points held since the last stop in front of it, although
  `docs/SimpleExample Code Explanation.md` says that a callback is a full rotation.
- A late STOP reply that arrives while `open` has flushed and not yet changed the
  rate (`SerialPort.cpp:209`, `internal/SerialPortHelper.cpp:31`) is read after the
  change and proves the wrong rate to `autoFindBaudRate` (`Pro/Driver.cpp:110`);
  so does a reply at a rate the port kept because the ioctl failed.
  `FoundRateIsSensors` is about opens without either (`clean`).
- `stop()` may hang when an open failed half way (`SerialPort.cpp:196-213`): the port
  counts as connected, `start()` reads from it, and without `VTIME` the read it has
  to join need not return.
- A scan carries its last sector's time (`Driver.cpp:108`), although
  `ScanDataPolar.h` says when the first point was received.

## Proofs

All are checked by TLAPS for every value of the constants that satisfies the
modules' assumptions and what the theorem itself assumes, which is said here. Every
safety property of the passing runs has its theorem.

**ProDriver_proofs.** `TypeCorrect`, `NoTermination`, `ThreadFollowsStart`,
`ReportedRate`, `FoundRate`, `SettingsAgreed`, `SpinningAgreed` and `Implements`.
None of the properties is inductive. The invariant is `TypeInv` (types and
`ControlOK`: which `call` and `snd` go with which `pc`) with `ThreadOK` (at each
`pc`, whether a thread may exist, what `run` and `started` are then, and that there
is a port under a thread) and `RateOK` (at each `pc`, which of `cfg.baud` and
`rebaud` an open port was asked for). `ThreadOK` is what makes setBaudRate's `stop` reach the
launch with the old thread joined, so that the launch neither terminates the
process nor finds a closed port under a live thread. `NoTermination`,
`ThreadFollowsStart` and `Implements` assume `Careful`: if the application may call
`setBaudRate` before the first start, it never calls it. Without it the first
read of `runUpdateThread` is of an unassigned value, and ProDriver_eager shows that
the second fails. `Implements` maps each step to a step of SensorDriver or a
stutter, with `ThreadOK` and types as the step invariant.

`FoundRate`, `SettingsAgreed` and `SpinningAgreed` assume that `setBaudRate` is not
called, and the last two that no command is lost. In the code a command of
`setBaudRate` changes the sensor's rate before the port's, so that what is sent in
between is lost: the properties are about drivers that leave the rate alone, as
are their runs. `NoRebaudOK` says that no command changes the rate. `FoundRate`
rests on `DeafOK`: after a clean open the line has the rate being tried, and while
that is not the sensor's there is no STOP reply on the line or in the buffer of a
running thread, and the flag a probe waits for is down. Nothing the sensor sends
then is received, so none comes later either; only an open that is not clean lets a
reply of another rate prove a wrong one, and the theorem leaves out no more.
For the other two, `SetOK` and `SpinOK` look past the commands under way:
CommandQueue's `WillSet(q, s, t, v)` says that once the queue `q` is handled the
setting `t` of the sensor `s` is `v`, because the last command of that type says so
or there is none; `WillSpin` the like of START and STOP. Lemmas on appending a command
and handling one carry them through each step. To which command a reply belongs
never enters the argument, which is why late replies do no harm.

**ProEDriver_proofs.** `TypeCorrect`, `ThreadFollowsStart`, `BoundThread`,
`OneReaderOnly`, `SettingsAgreed`, `SpinningFollows` and `Implements`. `SafeInv`
joins types and `ControlOK` with `ThreadOK` (`started` says whether there is a
thread), `BoundOK` (what was received came through a bound socket, so an answered
START proves one) and `MutexOK` (who waits or reads has the mutex). `SetOK` states
`WillSet` of every setting the present start has sent, of the value being sent or,
once stored, of the getter's; `SpinOK` uses `WillSpin`, as above.

**ScanAssembly_proofs.** `TypeCorrect`; `PointsConserved`, by associativity of
concatenation; `HeldPoints`, strengthened by "held points are of sectors before the
present one" (`HeldInv`). `RotationsWhole` needs to know what a scan was made of:
of the sectors parsed none held is older than one that closed a rotation
(`NoneOlder`), and none since the last such sector is missing (`NoneForgotten`). It
assumes fewer than 360 sectors to the rotation: with more, several sectors end
within the one degree of 360 that the code allows, and each of them closes one.

**MessageParser_proofs.** `TypeCorrect`; `CheckedAfterFirst`, inductive with types;
`OnlyStamped`, strengthened by `StampInv`: until a restart, from the second message
on the list is stamped, and it is empty while there is no timestamp.
MessageParser_restart shows that it ends there. They rest on one lemma,
`ParseStep`, of what parsing a message does to the list. `HeldFitsSector` assumes
that all sectors have the same number of points, as in the runs; the code does not
ask for it, so this is an assumption on the sensor. So is, here and in the two
before it, that a spoiled datagram keeps its point counts. With sectors of different sizes
the property is false: when messages are lost, one of a small sector with those of a
large one behind it can be as many points as the small one has. `SectorsWhole` has no assumption; its invariant `OrderInv`
says that, while there is no trouble, datagrams under way are consecutive, the
first of them continues what the list holds, the sensor continues the last, and the
list is the beginning of one sector.

**FrameParser_proofs.** `TypeCorrect`; `Hears` (`DeafOnlyToOversize`), with
`AtHeader`: a frame that is waited for starts the buffer; `NotMisled` (`NeverMisled`)
and `NothingIsLost` (`NothingLost`). The last two rest on `Undisturbed`: while
nothing is disturbed, the bytes held and under way are `Marked`, that is, they are
text and whole frames that do not overlap, which start at a set of marks. Sending
adds to them (`MarkedJoined`), consuming text or the first frame takes away
(`MarkedDropped`), reading changes nothing (`ReadOfAll`), and a frame in front is
the one taken (`TakenIsFrame`). What the search finds is a function defined by
recursion, from the back to the front: that it exists (`SearchExists`), where it
ends (`SearchEnds`), and that it passes no mark (`SearchStopsAtFrames`) are
inductions on the distance from the end, by the lemma `Induction` on sets of
numbers.

`NotMisled` and `NothingIsLost` assume `ED \notin 0..MaxPoints`: the byte a status
block ends with is no count. If it were, text that ends in the block's first byte
with a frame behind it would look like a block, and the search would step into the
frame. The code asks for "ST" and "ED" six bytes apart (`Pro/Driver.cpp:291`): the
last two would be the count of a frame, its high byte and the start angle, or the
start angle. No count up to 1000 has 0x45 for its high byte, and 0x4445 is no start
angle in tenths of a degree, so the code meets the assumption.

**Sums_proofs.** What `SumOf` is of the empty sequence, of one with an element
appended and of a part of one, and that it grows with the sequence; with the
`Induction` these and FrameParser's lemmas use.

Only model-checked, since liveness under fairness is beyond this prover:
`CallsReturn`, `LockReleased` and `ReturnsIfLockIsFair`.

## Not modelled

- Two `SerialPort`s in one process: a global handle makes them one; each use of the
  library with a single Pro is ProDriver.
- The Windows bodies of `SerialPort` and `UdpSocket`: the same interface; one body is
  enough.
- `util::transform` and the angles of single points: floating point.
- The CRC of Pro E commands, the conversions of numbers and addresses to text, and
  the string helpers: short pure functions on bytes, without state.
- Values, exceptions, `getScanRate_Hz`, the registration of callbacks, printing:
  no state the properties speak of.
- Memory outside arrays: FrameParser says when it is reached, the flag one past the
  end of its array is treated as padding.
- SimpleExample and ConfigureProEIPv4Settings, applications of the library: what
  they ask of the drivers are calls the models make in any order. The example's
  unguarded shared pointers are listed as a hazard.
- Vendored code, build files.

## Plan

Models that may follow: `MessageParser` and `ScanAssembly` composed, with sectors of
different sizes and restarts, and two ports over the one global handle. Theorems
that may follow: that one, and what `SectorsWhole` becomes after a loss over a
network that then loses nothing.
