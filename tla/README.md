# A verification of the antenna controller

This directory holds TLA+ specifications of the program in this repository: the
firmware that stands between a PC and a satellite antenna (STM32F407, ChibiOS),
and the PC programs that drive it. TLC checks the specifications on small
instances, TLAPS proves the main safety theorems for every value of the
constants.

## 1. The system

| part | source | state | operations |
|---|---|---|---|
| message protocol | `Messages/messages.h` | - | identifiers of orders, alerts and logs; `SimpleMessage`, `StampedMessage` |
| FIFOs | `main.c`, `Messages/messages.c` | `Fifo_order`, `Fifo_log`: a pool of 20 objects and a mailbox of 20 slots each | `writeLogToFifo`, `writeEmergencyToOrder`, the post at the end of `handleCommunMessage`, the receives of two threads |
| trajectory | `Trajectory/Trajectory.h` | number of points, current point, table of 1200 frames, date | `trajInit`, `trajSetLength`, `trajAddPoint`, `trajCheckCorrectLength`, `trajGetNextTarget`, `trajPrepareTargeting`, `setTrajDate` |
| antenna transmission thread | `Antenna_interface/` | `state` (nominal, waiting, tracking, emergency) | once per second: take one order, dispatch it, perform the behaviour of the state |
| antenna receiver thread | `Antenna_interface/` | the bytes of an answer it has read | reads answers byte by byte with a timeout per byte, logs an answer or a byte that cannot begin one |
| PC receiver thread | `PC_interface/` | - | loads the trajectory, posts orders, answers with logs |
| PC transmission thread | `PC_interface/` | the log object it is writing | sends the logs |
| GPS thread | `GpsTimeHandler/` | the real-time clock | sets it from ZDA sentences, logs anything else |
| main | `main.c` | - | polls the user button every 150 ms, posts an emergency while it is held |
| targeting client | `CodesPC/Targeting.c` | its place in the script | loads a target file, sends the orders of a mission |
| automate | `CodesPC/Automate/` | the targets | chooses the next target, runs the client, sleeps until the end of the pass |
| operator commands | `CodesPC/EasyComTools/` | - | six programs that each write one message to the pipe |
| communication server | `CodesPC/ComServer/` | the message it has read from the pipe | is started and stopped by the user, forwards messages from a named pipe to the serial line, prints the logs |
| frame construction | `TrameAntennaConstructor/` | - | azimuth and elevation to encoder steps to ASCII |

The parts interact by calls on shared objects. The PC receiver writes the
trajectory directly and posts all other orders to `Fifo_order`; the antenna
transmission thread reads one order per second from it and plays the trajectory;
every thread posts to `Fifo_log`, which the PC transmission thread empties. The
trajectory has a field `_locked` that nothing reads, so nothing keeps the loader
and the player apart but the good manners of the client.

**Scheduling.** All threads and `main` run at `NORMALPRIO`, and `chconf.h` sets
`CH_CFG_TIME_QUANTUM` to 0: a thread runs until it blocks. The interleavings are
therefore those of *blocking points*. In the antenna thread they are the wait for
the 1PPS pulse and the ten seconds of sleep in `emergencyBehaviour`; in the PC
transmission thread the wait for a log and the `sdWrite` that blocks on a full
serial queue, during which it holds a log object; in the others the reads at the
top of their loops. Kernel assertions and parameter checks are on
(`CH_DBG_ENABLE_ASSERTS`, `CH_DBG_ENABLE_CHECKS`), so a failed post stops the
system.

**What is hard here.** Emergencies come from three places (the order `SURVIE`, an
antenna frame that means the same, the button), at any moment of the cycle, and
must go before everything else; FIFOs are taken from without checking whether an
object was left; a trajectory is loaded by one thread and played by another; the
client is synchronised with the player only by clocks, and cycles without pulses lag
behind both; messages may be lost or corrupted and nothing is retransmitted; the
operator's commands and a client that is started again arrive in the middle of a
mission; the server may be stopped with a message in its hands; a burst of noise on the
line of the antenna turns each byte into a log of 23. `PROJECT.json` lists these hazards with
their lines and the properties that watch them.

**What makes each part correct.**
* FIFOs: no object lost or used twice, no post refused.
* Emergencies: first in the queue, alone to reach the antenna while they wait,
  always served, always ended, always reported.
* State machine: idle, armed, tracking, idle, interrupted by emergencies only;
  what the logs tell the PC is what the thread does.
* Trajectory: complete before it is played, played in order and once.
* Client: starts when the antenna thread is idle, accomplishes every mission it
  starts in time; whatever goes wrong, only what arrived is played, in its order, and
  the length check that the firmware offers would tell an incomplete loading.
* Automate: a better target never begins while another is followed, and a target
  that nothing disputes is not missed.
* Links: what is handed over is what was sent, but for one message at most of each
  damage, and after a damage the beginning of a message is found again.
* Pipe: every message is forwarded whole, once and in order, whenever the server is
  stopped and started.
* Antenna line: no log is lost in a burst of noise, no answer in what noise left behind.
* Frames: a frame commands the direction it was computed for, or none, and is never
  taken for a named one.
* Start: each thread finds its own objects, initialised.

## 2. The modules

| module | models | how |
|---|---|---|
| `Messages` | `messages.h`, the named frames | a message is `[id, frame, value]`: frames are opaque values, a date is its second, a length its number |
| `ObjectsFifo` | the ChibiOS objects FIFO (outside the repository, from how it is used) | a sequence (`mbx`) and a count of free objects (`free`) |
| `Trajectory` | `Trajectory.h` | one action per function; `table` is a function of indices |
| `Board` | what the threads share | two instances of `ObjectsFifo`, the trajectory, clock, antenna line, `panic` |
| `AntennaTx` | the antenna transmission thread | one action per branch; `txPc` is the place in the loop |
| `PcSerial` | both PC link threads | one action per case of the message switches |
| `Firmware` | the composition and its environment | `TxThread`, `OtherThread` (only when `CpuFree`), `ClockTick` |
| `AntennaModes` | the abstract specification of the firmware | four modes, one flag for a pending emergency |
| `Targeting` | Automate and the targeting client driving `Firmware` | the script of `executeTargeting`, time by the second; faults and seconds without a cycle |
| `OperatorCommands` | the six programs of `EasyComTools` | the message each of them writes |
| `EmergencyLoad` | button against `Fifo_order` in real time | ticks of 50 ms, one step per poll |
| `Selection` | the loop of `Automate.c` and `checkForNextTargeting` | one action per outcome of a call; a target is its dates and its priority |
| `Pipe` | the named pipe between the PC programs and the server | messages in the pipe and an offset in the first of them; both ends open and close |
| `Frames` | lengths and encoding of `messages.c` | operators on sequences of bytes; the CRC is a constant operator |
| `Crc` | the CRC of `messages.c`, table and division | operators on bytes; the value of the constant in the run |
| `AntennaFrames` | the bytes of a frame (`TrameAntennaConstructor`), from encoder steps | operators; the trigonometry is external |
| `SerialLink` | `readMessage` behind a line that damages bytes | one step per byte |
| `Gps` | `gpsThread` behind a line that loses bursts | one step per byte; a byte is its place in its sentence |
| `Startup` | `main` and the start of the threads | `main` as a list of operations, interleaved with the threads |
| `AntennaRx` | the antenna receiver thread behind a noisy line, once `Startup` is over | one step per byte of the line, during which the line of the PC drains |
| `MCFirmware`, `MCTargeting`, `MCSelection`, `MCSerialLink` | values for TLC | message sets, missions, targets, payloads; the reference definition of the CRC |
| `FirmwareProofs`, `PipeProofs`, `ReceptionProofs`, `SelectionProofs`, `TargetingProofs`, `EmergencyLoadProofs`, `GpsProofs`, `LinkProofs` | proofs | section 5 |

`Firmware` extends `AntennaTx` and `PcSerial`, which both extend `Board`; `Targeting`
extends `Firmware`, `AntennaRx` extends `Startup`, `MCTargeting` adds
`OperatorCommands`, `SerialLink` extends `Frames` and `AntennaFrames`, whose frames its payloads
carry, and `MCSerialLink` gives it the CRC of `Crc`; `AntennaModes`
is instantiated by `Firmware` with `mode <- state`, `emergency <- EmergencyAsked`, `down
<- ~Running`.

Choices a reader of the code should know:

* **Atomicity.** `AntennaTx` splits a cycle into the wait, the reading of the order, the
  dispatch and the behaviour, but no other thread runs in between (`CpuFree`); only the
  clock may. A handler of the PC receiver is one step.
* **No free log object.** `writeLogToFifo` does not test what `chFifoTakeObjectTimeout`
  returns. The stores through NULL are undefined: the model allows them to stop the
  system (`LogCrash`) or to be harmless, after which the NULL is posted if a mailbox
  slot is left (`SendNull`; that is the case when the PC transmission thread holds an
  object), and stops the system when it is returned to the pool (`PcTxReturnNull`). No
  thread holds an *order* object across a blocking call, so an empty order pool always
  meets a full mailbox and the assertion of the post fails (`OrderCrash`).
* **Stores outside the table.** `trajAddPoint` with an index of -1 or beyond the table
  overwrites something the model does not follow: it ends the behaviour
  (`Stop("wild")`). What such a build does next is not claimed.
* **Reads outside the table** give `GarbageFrame`.
* **`DO_TRAJ_AT_DATE`** keeps the date as a second of the clock.
* The names of the frames `ANTENNA_*` are eleven-digit strings that fill the twelve
  bytes of an antenna message; the terminator that `strcpy` writes after them falls into
  the padding of the parameter and is not modelled.
* **Time in `Selection`** is the clock of the PC. A turn of the loop begins when the
  sleep ends or a second later and ends within that second; `main`, `updateTargetsTime`
  and each recursive call of `checkForNextTargeting` read the clock for themselves, and
  a second may pass between any two of them.
* **Time in `Targeting`** is whole seconds: the cycle of the antenna thread, its logs
  and the messages that the client sends 50 ms apart all fit in one. The 5 ms that a
  cycle without a pulse takes too long add up to a whole second after 200 of them: that
  is a *slip*, a second in which no cycle begins, whatever the phase. Six slips are a
  trajectory of the full 1200 points without a single pulse.
* **Faults in `Targeting`** (`FaultKinds`) are the button, a command of the operator, a
  message lost, a message damaged, a missing pulse, the client killed and started again;
  each happens at any place of the script or of the cycle. A damaged message is one whose
  CRC fails: the point that a changed length cuts, and that the firmware would store
  (section 3), is not among the faults. An emergency lasts two
  seconds here instead of ten, so that it is no longer than the passes (two and three
  seconds), as the real one is. A client is killed only before it has given the date;
  the one that follows may start a target that begins a second later (`Margin`). A lost
  `SET_LENGTH` leaves the index at -1, and the first point is then a store outside the
  table, which ends the behaviour.
* **The pipe** is a sequence of messages: only how many bytes of the first one have been
  read matters. `Paused` says that a program's next message comes when the emitter has
  read its last one (50 ms later, also when the server has only just started); with
  `Together` it waits for no one else's. An end that is being opened counts as open for
  the other one. A program that writes to a server that is down is killed by SIGPIPE
  (`Leave`); what is in the pipe is lost when both ends are closed. A server that is
  stopped drops the message it holds.
* **The timeouts of `readMessage`** change nothing: before the header the function is
  called again, after it the loops read on. `SerialLink` therefore has no time.
* **The timeouts of `readAntennaMessage`** do: a silence in the middle of an answer ends
  it, and what was read is logged as if it were whole. `AntennaRx` has a step for a
  silence. Its clock is the byte time of the antenna line (19200 baud), in which the
  line of the PC (115200) takes six bytes.
* **Noise in `AntennaRx`** is a burst: at most `MaxNoise` bytes that are changed, lost
  or come from nowhere, with answers between them; the bounds begin again when the PC
  has received every log, at most 70 ms later.
* **Encoder steps** are what `asin` and `acos` yield for a direction; `AntennaFrames`
  begins with their sixteen bits, and takes every value of them.
* **A wrong date** of the GPS, read from shifted bytes, is one value that is no date:
  what the arithmetic of `getMillisFromGpsBuffer` makes of it is not modelled.
* **Faulty variants.** Definitions whose comment begins with "Faulty variant"
  (`writeEmergencyBehind`, `trajPrepareAgain`, ...) are used by no specification. Each
  is a plausible bug in the definition that follows it, and the run named in
  `PROJECT.json` finds the property violated when it takes that definition's place.

## 3. The runs

| run | specification | bounds | checks |
|---|---|---|---|
| `MCFirmware_emergency` | `FairSpec` | FIFOs of 2, table of 2, clock 0..1 | `EmergencyFirst`, `EmergencyCycle`, `OnlySurvivalWhileAsked`, `ImplementsModes`, `ServesEmergencies`, `EmergencyReported`, `WaitingEnds` |
| `MCFirmware_environment` | `Spec` | order FIFO of 1, log FIFO of 2, table of 1, all noise | `TypeOK`, `ObjectsAccounted`, `StateReported` |
| `MCTargeting_missions` | `TargetingFairSpec` | two missions, 31 s, up to six slips | `FramesInOrder`, `LoadedBeforePlayed`, `StartsWhenIdle`, `MissionsAccomplished` |
| `MCTargeting_disturbed` | `TargetingSpec` | two missions, 31 s, one fault of any kind at any moment | `FramesInOrder`, `LoadedBeforePlayed`, `CheckTells` |
| `EmergencyLoad_short` | `Spec` | real constants, at most 21 polls pressed | `OrdersKept`, `SurvivalsEnd` |
| `MCSelection` | `Spec` | all tables of three targets on 6 beginnings, 2 durations, 3 priorities; 20 s | `BestIsFollowed`, `FollowedInTime` |
| `Pipe_apart` | `Spec` | real lengths, two programs, 5 messages, the server stopped twice | `MessagesIntact` |
| `MCSerialLink` | `Spec` | three payloads, any byte as noise, one damage; every value of a step | `Resynchronises`, `DamageDeceivesOnce`, `OneChangeDetected`, `CrcIsRemainder`, `PointsAreCommands` |
| `Gps` | `Spec` | sentences of 13 bytes, two bursts of up to 13 | `ClockFollows` |
| `AntennaRx` | `ReceptionSpec` | real sizes; bursts of 19 bytes, 2 answers, 2 other logs | `Connected`, `LogsKept`, `AnswersHeard`, `AllRun` |
| `Pipe_together` | `Spec` | as `apart`, programs that write at the same time | violates `MessagesIntact` |
| `EmergencyLoad_held` | `Spec` | at most 40 polls pressed | violates `OrdersKept` |

**What they show.** An emergency always overtakes the queue, from whichever of its three
sources, and while one waits the antenna receives nothing but the survival frame, even
in the middle of a trajectory. Seen from outside the firmware is the four-mode machine
of `AntennaModes`. Every emergency is served, ends and is reported, unless the system
stops. What the PC concludes from the logs, in the order it receives them, is the state
of the thread whenever that thread is blocked, unless a NULL log is on its way. A
mission that starts at least thirteen seconds before its beginning is loaded before it
is played, played without a frame missing, repeated or stale, and over when the client
wakes up, even if the antenna thread is two seconds late for lack of pulses. Later than
that, the orders that prepare the next mission are dropped because the thread still
tracks, but up to six seconds late, a full table without a pulse, the next loading does
not reach the trajectory that is played. Whichever single fault disturbs a mission, the
frames that reach the antenna are points that arrived for it, in their order; a stale
entry is played only at the end, in place of a lost point; and `CHECK_CORRECT`, which no
client sends, would have told (`CheckTells`).

The automate gives up a target for a better one, and that one for a still better one,
without ever missing a pass that no better mission disputes, and has almost all of the
preparation time left to load it (`FollowedInTime`); it is the `LoadingMargin` that the
`missions` run needs. One case is excluded (`Unconfused`): a target that collides with
two better ones that are far from each other. The check finds the later one first, if
its file is read first, and waits for it; the other, if it begins a few seconds after
the target, is missed.

Over a line that damages one byte, `readMessage` loses at most six good frames of one
byte each, those that fill the 23 bytes it waits for after a damaged length. It may hand
over a message that nobody sent, because the CRC has eight bits and does not cover the
length. The point of the run is one that can be cut: with its length of 13 changed to 5,
the CRC of its first five bytes (31, 22, 56, 50, 69) is 65, the sixth, and a
`TRAJ_SET_NEW_POINT` of five bytes is handed over, the rest zero. It does so once at most
for a damage (`DamageDeceivesOnce`), and not when the byte that is changed comes after
the length (`OneChangeDetected`): such a frame is refused.

Every direction the antenna can point to becomes a frame that commands it,
negative steps included, and every other one the frame of the steps 0 and 0; none is a
frame with a name. After lost bytes the GPS thread may set the clock to a wrong date,
which no checksum prevents, and may swallow one whole sentence; it is right again at the
next.

Messages cross the pipe whole wherever the server is stopped: it never begins in the
middle of one, because a program writes again only when its last message was read.
A burst of 19 bytes of noise with two answers and two other logs fits in the 320 bytes of the
driver and the 20 objects of `Fifo_log`; an answer after a silence is heard whatever header
was made of noise before.

**What the violations show.** (1) A button held for 22 polls, 3.3 s, fills `Fifo_order`
and stops the firmware at the 21st object that is waiting; 21 polls, 3.15 s, are always
absorbed. (2) A program writes 23 bytes for each 20-byte message to the pipe. Alone, its
three extra bytes are a short read that the emitter ignores; with the message of another
program behind them they shift everything that follows.

**What else the models contain.** No run is spent on these, which are visible in one
definition. `trajAddPoint` tests nothing: a loader that goes on beyond the table reaches
`WildStore`. `trajInit` clears 1200 bytes of a table of 14400 (`ClearedEntries`), so what
is left of an earlier trajectory stays. `StartsWhenIdle` needs its margin: with a
`LoadingMargin` of 1 the client starts the next mission while the antenna still tracks,
because it sleeps until the date of the last line and not until the end of the tracking. A
client that is killed after it has given the date and started again empties the
trajectory that waits (`TRAJ_REINI` also sets its date to the present): what is then
played is what was in the table. `Targeting` excludes it.

**Bounds.** In `Selection` three targets are the fewest that make a chain (one gives way
to a second, which gives way to a third), and a preparation of 6 s with a loop of 2 s
keeps the order of the real ones (900 and 10); beginnings and durations are on both
sides of every comparison with them. In `SerialLink` `MaxLost` is tight: five fails. In
`Gps` a burst may be as long as a sentence, so that reading resumes at every place, and
the date is longer than the rest of the sentence, as in the code (21 and 11 bytes).
`MaxTime` ends the clock; the time comparisons of `waitingBehaviour` only need a date
before, equal to and after the clock, for which two instants suffice. `MaxPoint`
saturates `current_point` above every length a run uses, so the equality test of the end
is never met by saturation. FIFOs of one to three slots reach empty, partly filled,
full, and (for the logs) full with an object in flight; the queue properties are about
the relative order of two entries, for which two slots are enough, and the proofs cover
the other sizes. `MaxAsked` limits how long the button is held in one go; 21 and 22 are
the two sides of the boundary. `LoadingMargin` is an assumption on when the client
starts a mission, not a constant of the code: `Automate.c` accepts any target between 0
and 15 minutes ahead. Without slips eleven seconds suffice for the missions of the run
and ten do not (four seconds of pauses, four orders or so at one per second, four
seconds of anticipation); with them thirteen do and twelve do not. Six slips are what
1200 points can lose; with seven `LoadedBeforePlayed` fails. One fault per behaviour
reaches every place of a script; the second mission shows what the fault of the first
has left behind. In `AntennaRx` the bounds are tight: a burst of 20 bytes fails, since a
damaged header makes each of the twelve bytes of an answer a log, and a log brings 23
bytes for the six that leave meanwhile. With one answer and one other log it may be of
32 bytes. Two stops of the server in `Pipe` are the fewest that let a message of one run
of the server meet that of the next but one; five messages are two for each run and one
more. Deadlock is not checked where the clock ends or the system may stop; it is checked
in `EmergencyLoad_short`, `Pipe_apart` and `AntennaRx`.

## 4. Fairness

`Fairness` in `Firmware`: the antenna thread is woken by the pulse, by its timeout
of 1005 ms or by the end of its sleep, and then runs until it blocks (weak
fairness of `TxThread`). The PC transmission thread is woken by a post and by the
serial driver that drains its queue; it can run only while the antenna thread is
blocked, which happens again and again, and the ready list of equal priorities is
first in, first out: strong fairness of `PcTxThread`. The clock runs (weak fairness of
`ClockTick`). Nothing is assumed of the PC, the user, the antenna or the GPS.
`TargetingFairSpec` adds that the client sends its messages and that seconds pass.
`EmergencyLoad` assumes that a user lets go of the button in the end: weak
fairness of `PollReleased`, the only step left once `MaxAsked` polls saw it pressed.
`Startup` assumes that every thread that is ready gets the processor, which it does
when the others block; all have the same priority. `AntennaRx` uses it for the start and
assumes nothing of the line of the antenna; `MCTargeting_disturbed` assumes nothing.

## 5. What is proved

For all values of the constants that satisfy the assumptions named in the modules
(`PointsAssumption`, `TrajectoryAssumption`, `BoardAssumption`,
`AnticipationAssumption`, `EnvironmentAssumption`, `PipeAssumption`,
`NoMessageAssumption`, `ReceptionAssumption`, `SelectionAssumption`, `FaultsAssumption`,
`MissionsAssumption`, `ClientAssumption`, `OperatorAssumption`, `LoadAssumption`, `GpsAssumption`, `LinkAssumption`), and of
the hypotheses named in the table:

| theorem | states | argument |
|---|---|---|
| `TypeCorrect` | `Spec => []TypeOK` | `TypeOK` is inductive; one lemma per operation of the shared objects, one step per action |
| `EmergenciesFirst` | `Spec => []EmergencyFirst` | from `EmergencyInv` |
| `EmergenciesInCycle` | `Spec => []EmergencyCycle` | from `EmergencyInv` |
| `OnlySurvivalReachesAntenna` | `Spec => OnlySurvivalWhileAsked` | the steps that write another frame are at a place of the cycle where, by `EmergencyCycle`, no emergency waits |
| `FirmwareImplementsModes` | `Spec => ImplementsModes` | each step of `Next` maps to a step of `AntennaModes` or to a stutter |
| `NoObjectLost` | `Spec => []ObjectsAccounted` | each half by its own induction |
| `LogsTellState` | `Spec => []StateReported` | `ReportInv` of `FirmwareProofs` |
| `MessagesCrossWhole` | `~Together` implies `Spec => []MessagesIntact` | `PipeInv` of `PipeProofs`: `SentInv`, `ForwardedInv`, `HeldInv`, `ContentInv`, `NoneMissing` |
| `ThreadsConnected` | `ReceptionSpec => []Connected` | `StartInv` of `ReceptionProofs` |
| `EveryAnswerHeard` | `ReceptionSpec => []AnswersHeard` | `InStep`: without noise since the last silence, the reader is where the antenna is |
| `BurstsAbsorbed` | `Absorbed` implies `ReceptionSpec => []LogsKept` | `AbsorbInv`: the backlog is no more than the bytes so far would make if each were a log |
| `BestFollowed` | `Spec => []BestIsFollowed` | `IInv` of `SelectionProofs` |
| `UndisputedFollowed` | `Planned`, `Known` imply `Spec => []FollowedInTime` | `IInv` and `InView` |
| `TableIsKept` | `Timely`, `OneLoss` imply `TargetingSpec => []LoadedBeforePlayed` | `TargetingInv` of `TargetingProofs` |
| `LengthTellsLoss` | `Timely`, `OneLoss` imply `TargetingSpec => []CheckTells` | `TargetingInv` |
| `FramesAreInOrder` | `Timely`, `OneLoss`, `Prompt` imply `TargetingSpec => []FramesInOrder` | `TargetingInv` |
| `MissionsStartIdle` | `Timely`, `OneLoss`, `Prompt` imply `TargetingSpec => StartsWhenIdle` | `TargetingInv`, and the only step that begins a mission |
| `ClockIsRight` | `Spec => []ClockFollows` | `GpsInv` of `GpsProofs` |
| `LinkResynchronises` | `HeaderOnlyFirst`, `LostAllowed` imply `Spec => []Resynchronises` | `LinkInv` of `LinkProofs` |
| `DamagesDeceiveOnce` | `HeaderOnlyFirst` implies `Spec => []DamageDeceivesOnce` | `LinkInv /\ DeceitInv` of `LinkProofs` |
| `FramesCommand` | `Commands` for every mode of a point, pair of steps, side and elevation; `Spec => []PointsAreCommands` | the bytes of a frame, and what its digits are read as |
| `ButtonOrdersKept` | `Bounded` implies `Spec => []OrdersKept` | `Inv` of `EmergencyLoadProofs` |

`PipeAssumption` has the writes less than twice as long as the reads (23 and 20), so
that what is left over of one message is never a whole read. `PipeInv` says that the
pipe is empty, or holds one message, the last that was written, or what is left over of
it (`ContentInv`); that what the emitter holds is younger than what it has forwarded and
older than what is in the pipe (`HeldInv`, `ForwardedInv`); and that every message
written since the last stop is in one of the three (`NoneMissing`).

`StartInv` says how far `main` is when a thread is created (`Created`), and that from
before it is created until it has read its last argument the structure is there and the
semaphore taken (`Handshake`), hence `main` cannot leave the function. `AbsorbInv`
counts every byte of noise and of an answer as a log of `LOG_LENGTH` bytes for which
`DRAIN` bytes leave. With the sizes of the firmware, two answers and two other logs it
covers bursts of up to 17 bytes; the run goes to 19, because the first byte of an answer
is a log only if bytes before it were taken for the rest of one, and those were no logs.
The theorem holds for all sizes and speeds, the run finds the boundary of the real ones.

`SelectionAssumption` has every loading at least three seconds shorter than
`PREPARATION_TIME` (about a minute against fifteen): the sleep after a short pass may
end late, and the better target that follows must not have begun. `IInv` follows the
choice: the chosen target begins after the turn of the loop began, hence a turn that
takes less than a second ends before the target does (`Chosen`, `OnTime`); when the
check keeps it, every better target that collides with it has begun (`Settled`); and a
better one that has not begun is then `PREPARATION_TIME` behind its end (`Followed`),
longer than the client can oversleep.

`UndisputedFollowed` needs more of the files, all of which the tables of `MCSelection`
satisfy. `Planned`: they are read in the order of `Prio.txt`, and the passes of one
satellite, an orbit apart, do not collide with each other. `Known`: the client runs
`LoadingMargin` before its first target begins, and no loading takes longer than the pass
and a turn of the loop, since a pass of n seconds has n points that are sent one every
50 ms, and few seconds of pauses before. (A longer loading that starts late would end
after the pass, and the sleep with it.) `InView` says of a target the client still owes
that no sleep ends much later than it comes into preparation (`Early`), and that a turn
of the loop which begins after that is on its way to it: the chosen target is the one
owed, or a worse one that collides with it (`OnTheWay`). The first rival of a worse one
is then the target owed itself (`FirstRival`): a rival before it in the order of the
files would collide with it (`Unconfused`), be no better (`Undisputed`), hence be a pass
of the same mission, which does not collide.

`ReportInv` is about what the logs on their way will have told: `LastTold` is the last
of them with a telling identifier, or what the PC has heard before. It is `state` at
every place of the cycle but one, between the dispatch of `DO_TRAJ_AT_DATE` and the
behaviour that tells `WAITING_TIME`. The orders that wait have identifiers of orders
(`OrdersKnown`); their echoes, 150 more, are therefore not taken for logs that tell.

**The client and the antenna thread.** Nothing keeps the loading of a trajectory apart
from the playing of another but the clocks of both sides, so the invariant of
`TargetingProofs`, `Dyn`, measures time; it was checked by TLC on an instance within the
hypotheses before it was proved. `QueueInv` says when each order that waits will be read
at the latest, with the emergencies ahead of it, the sleep that is under way and what the
faults can still cost, and compares it with the date the order belongs to. `DateInv`
follows a `DO_TRAJ_AT_DATE` from the client to its dispatch: all the while its trajectory
is in the table (`Tabled`) and the client cannot begin to empty it before the pass is
over (`Kept`, `Earliest`). `PlayInv` is the same while the thread waits and tracks: the
point that is played is as far as the clock, but for the seconds without cycle. `LoadInv`
says what a table that is being loaded holds; `PrepInv` numbers the orders of the
script, obeyed, read, waiting and still to send; `Written` is what has reached the antenna.
A system that stops keeps the histories of its last state, which is why the three safety
properties are part of `TargetingInv`.

The hypotheses are about the constants only. `Timely`: a pass and the time left before it
are longer than two emergencies, the pauses of the script and the seconds without a cycle
(`Nap`, `Gap`, `MaxSlips`), and the pauses longer than these seconds. `OneLoss`: one
message at most is lost or damaged; the other faults may all happen, one of each kind.
`Prompt`: the margin is enough for the script. `ValuesOfTheCode` derives `Timely` and
`Prompt` from the values in the code (an emergency of ten seconds, pauses of two, four
seconds of anticipation) for two seconds without cycle, a margin of thirteen and passes
of 36 s or more; `UndisputedFollowed` has the automatic client start with `LoadingMargin`
of the automate, fifteen minutes less twelve seconds. The theorems hold for any number
of missions and for tables and queues of any size. They and the runs do not contain one
another: the runs have passes of two and three seconds and up to six seconds without a
cycle, which `Timely` excludes, because there the exact phase of each order decides.

`GpsInv` says that the GPS thread is in step with the receiver (`InStep`: it has read as
many bytes of the type or date as were sent, and those) or behind it by what a burst has
left (`Behind`). A thread that is behind is back at looking for a header before the
sentence ends, because the type or date it reads is complete before the sentence has
sent as many bytes; the type cannot pass for "GPZDA," by then, and no later byte of the
sentence is a header. So the next sentence is read, and one at most was swallowed.

`LinkInv` has four cases for the receiver of the serial line while a frame is sent: it has
read of the frame what was sent (`InStep`); the frame is damaged, and it is anywhere
(`Disturbed`); it is inside a message that began before the frame (`Behind`); or it waits
for a header and will find the next (`Scanning`). A receiver that is behind has in its
buffer, since the damage, four bytes or more of every frame lost, and the buffer is never
longer than 22 bytes (`Open`, from the cap on the length): hence five whole frames at most, and
the sixth in which the message ends. Damages add up: `LostAllowed` has six frames for each,
the bound that the run finds tight for one. `LinkAssumption` has payloads as long as their
identifier says and a CRC of one byte; nothing else is known of the CRC, and nothing of the
damaged bytes.

`DeceitInv` is the argument of `DamagesDeceiveOnce`: the receiver has read what was sent of
the frame, and nothing else (`Aligned`), so that it hands over the message being sent; or
its buffer is empty, and stays so until a header; or what it reads did not begin with the
frame, and then a damage is left that has deceived it in nothing yet. When that message
ends the buffer is empty again. The CRC has no part in this: it makes the deceptions
rarer, and what it does for the bytes it covers is `OneChangeDetected`.

`HeaderOnlyFirst` is needed, and is not true of all messages: no byte of a frame but the
first is 40, the header. It is true of the short commands and of every point (its bytes are
31, 22, digits, 13), but for a CRC that happens to be 40, and TLC evaluates both hypotheses
for the payloads of the run (`LinkHypotheses`). It is false of a `TRAJ_SET_LENGTH` of 12
points, whose CRC is 40, and of a log with a 40 in its date. A receiver that is out of step
may begin a message at such a byte, in each repetition of the frame, and the code gives no
bound on how long; messages that differ bring it back.

In `FramesCommand` the encoder steps are all those of an `int16_t`, both axes together,
where the run takes one axis at a time. `HexadecimalDigits` says that four digits stand for
a word, `SignedUnsigned` that the antenna reads the steps back from the `uint16_t` they
were cast to, `StepsCommanded` that the limits leave what the antenna can reach and
nothing else, and `NamedIsStill` that the strings of the header are the frames of their
power and mode.

`Bounded` is tight: `MaxAsked` is at most `FIFO_BUFFER_SIZE + 1` (21) and a pulse comes
within `FIFO_BUFFER_SIZE` polls (1 s, three seconds of polls). `Taken` says that orders
queued are no more than orders asked for, and fewer once one was served; that the thread,
unless it sleeps, reads within a period; and that as long as nothing was taken the polls
that posted are within that period. `EmergencyLoad_held` shows one more to be too many.

The inductive invariant is `EmergencyInv == EmergencyFirst /\ EmergencyCycle`.
Neither half suffices for the claim that only survival frames are sent while an
emergency waits. `EmergencyFirst` says that an order which is no emergency can
only be at the head of the queue when no emergency is in it; so at the moment such
an order is read, none waits; no other thread can post one before the order is
dispatched and the behaviour performed (`CpuFree`), which is the last conjunct of
`EmergencyCycle`. The lemmas on the queue (`PostOrderFirst`, `PostEmergencyFirst`,
`ReadOrderFirst`) say what appending, pushing in front and reading do to the order
of entries.

`ObjectsAccounted` counts the log objects only while no NULL is in flight: a NULL
occupies a mailbox slot without an object, and once one is in the mailbox the sum
no longer holds, until the system stops on its return. The proof shows that this
is the only way to break the sum.

Only model-checked:

* all liveness, which is outside the prover's reach (`ServesEmergencies`,
  `EmergencyReported`, `WaitingEnds`, `MissionsAccomplished`, `SurvivalsEnd`, `AllRun`);
* `OneChangeDetected` and `CrcIsRemainder`: the CRC is made of bitwise operators and of
  folds over bytes, out of the prover's reach. This is why `Crc` is a module apart and the CRC a constant of
  `Frames`.

## 6. What is left

Planned, in this order:

1. Proofs: the hypotheses of `Targeting` closer to the bounds its runs find.
2. `Selection` and `Targeting` together: the margin that one guarantees is the
   assumption of the other; target files that appear while the client runs.
3. A client that is started again after it has given the date.

Not modelled: the trigonometry of `TrameAntennaConstructor.c` (arithmetic on doubles);
the terminal settings and the printing of `ComServer` (pure I/O); the rewriting of
Cortex configuration files (two assignments to lines of a text for another program; what
may go wrong in it depends on the disk and on the contents of the stack, and is listed
among the hazards); build files and driver configuration, but for the scheduling, the
checks and the size of the serial queues.
