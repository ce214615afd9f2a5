# stark_periph_manager_node: TLA+ models and proofs

The program is the peripheral manager of a two-motor exoskeleton: a Linux
process ("the node") that talks CANopen over CAN FD to the motors, reads IMU,
barometer and foot pressure sensors, and serves one algorithm process through
a POSIX shared memory segment. This directory holds TLA+ models of its control
logic, the TLC configurations that check them, and TLAPS proofs. Paths below
are relative to the repository.

## 1. The system

| Part | Source | State | Operations |
|---|---|---|---|
| Command mailbox | `src/stark_client.h`, `src/stark_shm.h`, `src/motor/motor_rt_worker.cpp` | ring of 8 frames, `seq_write`, `seq_read` | `_stark_mbox_begin`, fill, `_stark_mbox_commit`; `ProcessMailbox` |
| Management slot | the same, `src/web/WebServer.cpp` | `mgmt_cmd`, `mgmt_seq`, `mgmt_ack` per motor | `_stark_mgmt_cmd`, web request; `ProcessMgmt` |
| Control byte | `src/motor_hal/motor_hal.c` | `pdo_byte0`, `clr_err_pending`, `enabled` per motor, under `hal->lock` | `motor_hal_pdo_*`, `_consume_pdo_byte0`, frames |
| Main loop | `src/main_loop/main_loop.cpp` | `g_stark_state`, `calib_*` flags, sensor flags | `poll_common`, `poll_booting`, `poll_ready`, RUNNING case, `poll_sdo_commands` |
| Calibration | `src/motor_hal/motor_calib.c` | `motor_calib_t` | start, poll, exit |
| RT worker | `src/motor/motor_rt_worker.cpp` | `m_active`, `m_report_enabled`, mode memory | one period per ms: mgmt, mailbox, feedback |
| SDO client | `src/motor_hal/sdo_client.c` | queue of 32 answers, mutex, condition variable | `sdo_push_response`, `_sdo_wait_response`, read, write |
| SDO commands | `main_loop.cpp`, `src/motor/motor_ctrl.cpp` | `sdo_cmds`, `sdo_seq`, `sdo_ack`, `m_mode_cache` | forward, poll, `Torque`, `SpeedEx`, `AbsPositionEx` |
| Feedback and report | `motor_rt_worker.cpp`, `stark_client.h` | two frames and `active_idx`; report and `periodic_version` | `PublishFeedback`; `stark_fb`..., `stark_report_wait`, `_try_read` |
| Motor startup | `src/motor_hal/motor_hal.c`, `motor_hal_startup.c`, `main_loop.cpp` | `state`, `enabled`, `pending_startup` per motor, under `hal->lock` | bootup message, `motor_hal_process_pending_startups`, `motor_hal_enable`, `_disable`, `_fault_reset` |
| Web server | `src/web/WebServer.cpp` | writes the mailbox, the management slot, the SDO slot | a command from the page |
| Button | `src/button/button_handler.cpp`, `main_loop.cpp` | `m_calib_press_us`, `m_calib_first_us`, `m_calib_cnt`, `m_calib_trig` | GPIO edge, `poll`, consumption by the main loop |
| Foot pressure | `src/foot_pressure/FootPressureSensor.cpp` | receive buffer, ring of pending bytes, cached frame | read, `ParseFrames`, `Read` |
| IMU, barometer, logging, ROS, configuration | `src/imu*`, `src/utils`, `src/log_helper`, `src/ros`, `src/shm` | | see section 8 |

Threads and processes: the algorithm process; in the node the main loop
(50 ms), the RT thread (1 ms, SCHED_FIFO), the SYNC thread, the CAN receiving
thread, the SDO telemetry thread, the web server, the GPIO and sensor threads.
The algorithm and the node share memory without locks: cursors, sequence
numbers and versions are C11-style atomics, the payload is plain memory. Inside
the node the RT thread is switched by an atomic flag; `motor_hal` has one
mutex, the SDO queue another with a condition variable.

What is hard: lock-free hand-over between two processes; commands that
overtake one another on their three ways to a motor (management slot, mailbox,
SDO slot); a second producer on a single-producer ring; a lock that is given
back in the middle of a motor's startup; bytes that arrive in pieces; an
activity flag that does not wait for the period in progress;
requests whose direction is a toggle; SDO answers that are late, lost or meant
for somebody else; byte-wide sequence numbers; a restart of the node under a
running algorithm; cached modes. `PROJECT.json` lists each of these hazards at
its line.

What makes each part correct:

- mailbox: a bounded lossless FIFO; nobody writes a slot that is being read;
- management slot: the latest command wins and is acknowledged; no frame
  undoes a stop;
- main loop: calibration and the RT thread exclude each other; a motor streams
  sensor data after a calibration only, unless a CANCEL failed to stop it; a
  CANCEL holds; a calibration ends;
- SDO client: an ordered box of answers, no lost wake-up, the right answer;
- feedback: whole frames, never back in time, no report missed while asleep;
- SDO commands: the last command is run whole, in the mode it needs;
- motor startup: a motor that boots is started; a call that sets the flag
  `enabled` leaves it in agreement with the drive, until a fault, a loss or one
  of the writers that change only one of the two; the lock always comes back;
- button: three clicks within the window and nothing else ask for a
  calibration, each once; a long press is one and is served;
- foot pressure: what is delivered depends on the bytes, not on the pieces they
  come in, and a clean line loses nothing.

## 2. Modules

| Module | Models | Composed with |
|---|---|---|
| `CommandChannel` | abstract: bounded FIFO with reset | implemented by `Mailbox` |
| `Mailbox` | the ring, its client, `ProcessMailbox`, activation, crash and boot | |
| `MailboxProofs` | theorems about `Mailbox` | extends `Mailbox` |
| `WebMailbox` | the web page as a second producer, frames with a half per motor | extends `Mailbox` |
| `MotorControl` | management slot with both writers, mailbox frames (control and management), control byte, the main loop's control words, drive, shutdown | takes the mailbox as the FIFO that `Mailbox` implements; what `MotorStartup` writes is a step that switches the drive |
| `MotorControlProofs` | theorems about `MotorControl` | extends `MotorControl` |
| `NodeControl` | main loop, calibration, RT activity, power of the motors, the motors that stream sensor data | the SDO commands appear as "a motor is enabled" |
| `NodeControlProofs` | theorems about `NodeControl` | extends `NodeControl` |
| `ResponseBox` | abstract: ordered box of answers | implemented by `SdoClient` |
| `SdoClient` | answer queue, waiting threads, deadlines, bus | |
| `SdoClientProofs` | theorems about `SdoClient`, and that it implements `ResponseBox` | extends `SdoClient` |
| `SdoCommands` | SDO slot, `poll_sdo_commands`, `StarkMotorCtrl` with its mode cache | takes an SDO call as a step that `SdoClient` explains |
| `SdoCommandsProofs` | theorems about `SdoCommands` | extends `SdoCommands` |
| `Feedback` | double-buffered feedback, versioned report with futex | |
| `FeedbackProofs` | theorems about `Feedback` | extends `Feedback` |
| `MotorStartup` | bootup, pending startups, enable, disable, fault reset, the control words of calibration and CANCEL, what the RT thread does to flag and power, `hal->lock`, DS402 state of the drives | an SDO write is a step with its outcomes, as `SdoClient` has them; the control byte of RT frames is `MotorControl`'s |
| `MotorStartupProofs` | theorems about `MotorStartup` | extends `MotorStartup` |
| `Button` | GPIO thread, `poll`, main loop, three clocks | hands its request to `NodeControl` |
| `FootPressure` | the stream parser and its buffers | |
| `DeviceProofs` | theorems about the two devices with a thread of their own | extends `Button` and `FootPressure` |
| `MC*` | instances for TLC | |

State and actions correspond to the code as follows. A variable is named after
the field it stands for, or explained where it is declared. An access to
memory that another thread or process uses is one step, so that every
interleaving is explored; what runs under a mutex is one step; an SDO call,
which sleeps, is one step of the caller with all its outcomes. "History"
variables (declared as such) are read by properties only. Constants stand for
sizes of the code; the comments give the value the code uses.

Names of steps: `pc`, `rpc`, `cpc`... are control points and show where a
thread is within the function the action's comment names. `PROJECT.json` maps
every definition to its lines.

`stark_client.h` itself puts no management command but SET_MODE into the
mailbox; `stark_shm.h` allows all of them there and the RT thread runs them, so
`MotorControl` has them among its frames (`RtFrameCommand`).

Memory order: every hand-over of the code is a release store or an atomic
read-modify-write read by an acquire load, so plain accesses before the one
are seen after the other, and an interleaving of the steps is all that can
show. The exceptions are listed as hazards (plain `periodic_enabled`, the web
page's `mgmt_seq++`, which is modelled as a load and a store).

`Mailbox.Full` is the code's unsigned comparison: with the cursors crossed
(`r > w`) the difference wraps to a large number and the ring counts as full.
With one producer that never happens (`NoUnsignedWrapHolds`, proved); with two
it does.

## 3. Runs

| Run | Instance | Shows |
|---|---|---|
| `mailbox` | 2 slots, 2 commands, 5 calls, 1 reboot | nothing is overrun, torn or lost, the ring implements the channel, calls return |
| `motor_control` | mailbox of 2, sequence modulo 2, 3 calls, 1 web request, 1 lost frame | latest command wins; after an ESTOP with an empty mailbox only a later control word of the main loop gives the drive power; the clear bit is a pulse; commands are acknowledged |
| `node_control` | 2 motors, 4 requests, 2 polls per calibration | flags, RT thread, power and toggle stay consistent; outside RUNNING no motor streams that a CANCEL stopped or that nobody calibrated; no deadlock; calibrations end |
| `sdo` | 2 threads, 2 objects, queue of 3, 4 requests | ring implements the box, right answer for clean requests, no lost wake-up, deadlines hold |
| `feedback` | 2 parts, 3 cycles | frames whole for readers in time, reports never older than their version, no lost wake-up |
| `sdo_commands` | 2 values (1 refused), sequence modulo 2, 3 commands, 1 outside change | last command run whole, targets in their mode unless the mode changed behind the cache, always acknowledged |
| `button` | clock of 10 ticks, debounce 2, window 4, long press 5 | a request per three clicks or long press, a press still held is not lost, no deadlock |
| `motor_startup` | 2 motors, 1 of them auto-enabled, 2 commands, calibrations, CANCELs or RT steps, 1 lost frame, fault or power failure | a call that sets the flag leaves it in agreement with the drive until something named comes between; a bootup is served; the lock comes back |
| `foot_pressure` | 4 byte values, reads of up to 7 bytes, ring of 12, 3 frames, 2 line faults | frames do not depend on the pieces; a clean line is lossless; the ring is never full |

`Inv` of a module (`FootInv` of `FootPressure`) is its type invariant with one
named part beside it (`NoDuplicate`, `NoLostWakeup`, `OneShot`,
`CleanLineIsLossless`).
The type invariants of `Mailbox` and `NodeControl`, `NoUnsignedWrap` and
`RunningIsActive` are proved for all values of the constants (section 5), so
no run repeats them.

Three runs check what a comment of the code says and end in a counterexample:

| Run | Comment | What the code does |
|---|---|---|
| `node_ready` | `stark_client.h:114` `calib_state == 2` means controllable | two quick requests leave 2 with the RT thread idle |
| `button_longpress` | `button_handler.cpp:116` a press held for the long time | an unsigned difference of clocks, or a release dropped as a bounce, makes a short press a long one |
| `web_mailbox` | `stark_client.h:209`, `:211` a single-producer ring that loses no frame | the web page reserves the same slot: a frame is executed that nobody gave, or a frame is lost; the cursors may cross, after which every call spins |

Six more refutations have a configuration to run by hand, `tlc -config
<cfg> <module>`:

| Configuration, property | Comment | What the code does |
|---|---|---|
| `MCMotorEstop.cfg`, `EstopHolds` | `stark_client.h:584` ESTOP disables | frames queued before the ESTOP are executed after it and enable the motor |
| `MCMotorSdo.cfg`, `EstopHolds` | `stark_client.h:584` ESTOP disables | an SDO command or a startup that waits when the ESTOP is taken (`motor_ctrl.cpp:152`, `motor_hal.c:446`) is run after it and switches the drive on, with slot and mailbox empty |
| `MCMotorClear.cfg`, `ClearBitIsSent` | `motor_hal_types.h:176`, `stark_client.h:594` the clear bit goes out for one frame | `_consume_pdo_byte0` drops it from the frame it was meant for |
| `MCMotorShutdown.cfg`, `ShutdownDisables` | `motor_init.cpp:144` sends enable=0, torque=0 | `motor_hal_set_torque` gives up, because the call before it cleared `enabled` |
| `MCNodeSync.cfg`, `SyncIsRetried` | `main_loop.cpp:245` "will retry" | READY is entered in the same call; nothing retries |
| `MCSdoMode.cfg`, `CachedModeIsSet` | `motor_ctrl.cpp:34` "mode unchanged" | a mode write with a lost answer leaves the cache wrong |

Disagreements read off the code, without a run: `doc/cansend_debug_guide.md:504`
promises two retries of an SDO request, `sdo_client.c` ignores `retry_count`;
`stark_shm.h:361` says the RT thread watches `algo_heartbeat`, the check was
removed (`motor_rt_worker.cpp:1012`); the control calls of the RT thread are
said not to block and take `hal->lock`, which `motor_hal_enable` keeps across
SDO calls; `FootPressureSensor::Read` hands out a frame of any age;
`update_cycle` is the cycle of the copy and not of the frame; the report button
debounces its two edges apart; `motor_hal.c:822` says that the PDO functions
change neither `m->enabled` nor `m->state`, and they do (`motor_hal.c:845`,
`:858`, `:916`, `:930`).

### Bounds, and why they are enough

- Ring and queue sizes 2 and 3: full, empty, wrapped and compacted in the
  middle all occur; more calls than slots are made, so indices wrap.
- Sequence numbers modulo 2 with 3 commands: a byte that comes round unseen
  occurs; the properties name that case.
- Calls, requests, reboots, losses, outside changes: each is counted by a
  constant, `Max...`; the run has enough of each for two of them to overlap
  with one operation in progress. Losses and reboots come at any point.
- `CalibPolls` stands for the time-out of a calibration, `MaxCycles` for the
  life of the RT thread: three cycles let the writer lap a reader.
- The button's clock stops at 10: room for a long press and three clicks after
  it, or for a click, a pause longer than the window and three more. The
  debounce time, the window and the long press keep their order.
- `motor_startup`: two commands, calibrations, CANCELs or steps of the RT thread
  beside the startups are enough for a call after a CANCEL has set the drive
  apart from the flag, and for the RT thread to change flag or power between
  two SDO writes. The one fault is a lost frame, a fault of the drive or a power
  failure, at any point.
- `foot_pressure`: head, SRC and tail are values data bytes may have too. A read
  may bring a whole frame and half of the next. Two faults (a byte lost or
  changed) let a false head and a false tail meet.

`CHECK_DEADLOCK FALSE` in every run whose environment is bounded and then
stops; `node_control` and `button` run for ever and are checked for deadlock.

## 4. Fairness

- `Mailbox`: WF of the client's call and of the RT thread's period (a thread
  that is scheduled goes on), and of the boot after a crash (a service that is
  restarted). Nothing makes the main loop activate the RT thread, so the
  liveness properties assume `<>[]active`.
- `MotorControl`: WF of the RT thread and of a web request under way. None for
  the algorithm, which may die anywhere.
- `NodeControl`: WF of the end of an RT period; SF of the main loop's step,
  because `Wake` (the 50 ms sleep ends) and the end of a CANCEL's sleep are
  disabled while a period lasts and the periods repeat: a timer is not put off
  by another thread.
- `SdoClient`: WF of each client in its wait: the deadline passes and the
  mutex is obtained. None for motors and bus.
- `Feedback`: WF of the period and of the reader while it is awake.
- `Button`: WF of the polling thread and of the main loop's use of the triggers.
  None for the finger.
- `MotorStartup`: WF of the receiving thread and of the main loop in its call
  (an SDO call ends by its deadline); SF of `Poll`, the main loop's start of a
  pending motor: the lock is free again and again and every round visits every
  motor. None for commands, RT thread and drives.
- `SdoCommands`: WF of the main loop; its SDO calls end because `SdoClient`
  has `RequestReturns`.

## 5. Proved

Every safety property that a passing run checks is a theorem, for all values of
the constants; so are both refinements. Each component has the same plan: an
inductive invariant `IInv` (`FootIInv`), a conjunction of named parts, which TLC
checked on a small instance first; a lemma that
`Init` establishes it; lemmas on the operators of the model; a lemma or a step
per action that keeps it, and under it one step per part the action can
disturb; then the theorems, each from `IInv`. An assumption on a constant
stands in the module that declares it, and TLC evaluates it in every run.

The bounds on the environment (`Max...`) are constants as well: a theorem that
holds for every bound holds for any number of calls, faults and requests.

### Mailbox

`MailboxProofs` proves for every depth of the ring, set of commands and bound
(assumptions: `Depth` a positive natural, `Empty` not a command, bounds
natural):

- `MailboxInvariant`: the inductive invariant `IInv`, and `MailboxTypeOK`;
- `NoOverrunHolds`, `NoUnsignedWrapHolds`, `NoTornFrameHolds`,
  `PublishesItsCommandHolds`: the safety invariants of the run, and that the
  unsigned difference of the cursors never wraps;
- `MailboxImplementsChannel`: `Spec => Channel!Spec`, with the histories of
  published and executed commands as the refinement mapping.

None of the invariants is inductive by itself. `IInv` adds: the client's `w`
is at most `seq_write` and equal to it, if no reboot came between, from its
load to the commit; a client past the full test has a free slot at `w`; the
RT thread's `r` is `seq_read` and `r + count` is at most `seq_write`; the
frames between the cursors are those published and not executed; and a call
overtaken by a reboot has a `w` of the ring before, for which the weaker facts
still give `NoOverrun`. With `SlotsDiffer` (two sequence numbers less than
`Depth` apart have different slots) no torn frame follows.

Each of its lemmas has one step per action, and the environment (activation,
crash, boot) has a lemma of its own.

### Main loop

`NodeControlProofs` proves for every finite set of motors, every time-out of a
calibration and every number of requests (assumptions: `Motors` finite and not
empty, `ReportAuto` a Boolean, bounds natural):

- `NodeInvariant`: the inductive invariant `IInv`, and `NodeTypeOK`;
- `CalibrationExcludesRtHolds`, `SensorFollowsCalibrationHolds`,
  `CancelHoldsHolds`, `ToggleMatchesHolds`: all safety invariants of the
  run `node_control`; and `RunningIsActiveHolds`.

`CalibInv` ties the four places that say a calibration runs (`calib_state`,
`motor_calib_t`, `running`, the static `triggered`) together and to READY with
an idle RT thread, and says that the toggle stays on CALIBRATE until a request
flips it. `StateInv` says what the first boot still lacks, that `done` never
outlives RUNNING, and what holds inside a CANCEL. `ToggleInv` carries
`toggle <=> done` through the rounds in which a request is on its way.
`SensorInv` and `StateInv` give `SensorFollowsCalibration`, which speaks of the
motors themselves (`streaming`) beside the loop's flag. A CANCEL passes over a
motor that is off line and ignores a stop that fails: such a motor goes on
streaming in READY with the flag cleared. It is named in `unstopped` and excused
until it is stopped; no other motor streams there. `CancelInv` is the
delicate part: a period of the RT thread may still be under way when a CANCEL
with no motor on line finishes. Then the CANCEL has reached no motor and all
are excused; otherwise the 10 ms sleep has ended every period. As the RT thread
is not active no later period begins, and the power stays off. The lemmas
follow the phases of the loop, one step per action and under it one per
conjunct of `IInv`.

### Management slot and control byte

`MotorControlProofs` proves for every width of the sequence number above one
value, every depth of the mailbox and every choice of commands and frames that
the writers make (assumptions: the choices are among the commands of the code,
bounds natural): `MotorInvariant`, `MotorTypeOK`, `LastCommandWinsHolds`,
`EstopAloneHoldsHolds` and `ClearIsAPulseHolds`.

`LastCommandWins` speaks of a slot at rest only. Between the writes the proof
needs `SeqInv`: as long as the writers have not overlapped and fewer than a
whole turn of announcements is unseen, `mgmt_seq` is `unseen` steps after the
announcement the RT thread has looked at; so equal bytes mean that nothing is
unseen. `CommandInv` then says that with everything looked at, the last command
written is the one in hand or the one executed. `PeriodInv` keeps the two ways
of a management command apart: frames are left to execute in `ProcessMailbox`
only, so a command with none left came from the slot (`Serving`). `EstopInv`
adds what an ESTOP found alone keeps true: no frame follows it, and once it is
executed the drive has power only if the main loop's control word was the last
to set it (`bySdo`). A control word before the ESTOP's frame does not outlast
it; one after it switches the drive on, which is how the code is
(`MCMotorSdo.cfg`). `StopInv` says that past the join of the RT thread no period
is under way and that the estop of the dispatcher leaves a control byte that
says off, which the last frame of the shutdown, if there is one, carries.

### SDO client

`SdoClientProofs` proves for every set of clients and objects, every size of the
ring above zero and every number of requests (assumption beside these:
`NoFrame`, an empty slot, is not a frame): `SdoClientInvariant`, `SdoClientInv`,
`NoLostWakeupHolds`, `OwnAnswerHolds`, and `SdoClientImplementsBox`:
`Spec => Box!Spec`, with the frames from `tail` on, in their order, as the
refinement mapping.

`EnqueueFacts` and `RemoveFacts` are the lemmas that carry the proof. They say
what the two operations on the ring do to the frames that wait, as numbered
from the oldest, so that nothing else has to deal with the modulus; the second
is about the compaction of `_sdo_wait_response`, which moves frames while other
clients wait for them. `OldestMatches` says what the search finds. `TagInv` and
`OnceInv` follow a request through bus, ring and client: its tag is new when it
is sent and in one place after that. `SleepInv` is the lost wake-up; it is
inductive because a broadcast wakes every client. `CleanInv` is what makes
`OwnAnswer` inductive: while a clean request waits, every answer to its object,
queued or still to come, is its own. The refinement maps a frame received to
`Put` (with `Tail` when the ring is full), a match taken to `Take`, all else to a
stutter; `RemoveAtFacts` is the lemma on sequences it needs.

### Feedback

`FeedbackProofs` proves for every set of parts and number of cycles
(assumption: the bound is natural): `FeedbackInvariant`, `FeedbackInv`,
`InTimeIsWholeHolds`, `NeverBackHolds` and `ReportNotOlderHolds`.

`BufferInv` says that the active buffer holds one frame and that the RT thread
fills the other one. `ReaderInv` counts the flips since the reader loaded
`active_idx`: none or one flip tells which buffer is active, and a reader in
time still has its frame there. `ReportInv` bounds the age of every part of a
report from below by the version published, which a writer in the middle of the
next report can only raise. `CountInv` bounds versions and flips by cycles.

### SDO commands

`SdoCommandsProofs` proves for every width of the sequence number, set of values
and number of commands and outside changes (assumptions: refused values are
values, bounds natural): `SdoCommandsInvariant`, `SdoCommandsTypeOK`,
`LastForwardedRunsHolds` and `TargetInModeHolds`.

The poll reads the kind and the value of a slot at two times, and the RT thread
may write between. `ReadInv` says why that does no harm: with every announced
command looked at, what the poll has read is the slot as it stands, because a
write behind its back is announced after it. `SeqInv` is the modulus again.
`CommandInv` keeps empty slots from being run; `CacheInv` ties the mode cache
to the drive and to the place in the code where a target is written; `DoneInv`
keeps the target of a command that went well in the drive.

### Button

`DeviceProofs` proves for every debounce time, window, long-press time, number
of clicks above one, width of the clock and end of time (assumptions: times
are natural, the debounce time is positive, and the clock stops before it and a
long press together wrap, which a 64-bit clock never reaches):
`ButtonInvariant`, `ButtonInv`, and the action properties `ThreeClicksHolds` and
`HeldUnlessDroppedHolds`.

`GroupInv` is what `ThreeClicks` needs: the first of the clicks being counted is
the `cnt`-th last accepted press, one further back between the stamp of a press
and its count; and unless `poll()` forgot a press while one was counted, it
forgets only with no count running. `TimeInv` keeps differences of stamps from
wrapping there. `PressInv` is what `HeldUnlessDropped` needs: a noted press
time, with no edge dropped, is the time since which the button is down.

### Foot pressure sensor

`DeviceProofs` proves for every number of values of a byte, whichever of them
are head, source and tail, every size of a read and every number of frames and
faults (assumptions: the three marks are bytes, and the ring has room for a read
beside an unfinished frame, as the 4096 bytes of the code have beside 256 and a
frame): `FootPressureInvariant`, `FootInvHolds` and `ChunkingIrrelevantHolds`.

`ChunkingIrrelevant` compares the reader with a scanner that parses the whole
stream at once. That says too little to be inductive: between two reads the
scanner has stopped at the end of the stream, and the next byte may complete a
frame there. `ScanInv` says it of the stream followed by any bytes `t`: the
scanner finds in it the frames delivered, and then what it finds from the first
byte that is not parsed. A read moves bytes from `t` to the stream. A parse
takes the scanner's step (`ParseFollowsScan`) because by `BufferInv` the ring
holds the bytes from there on; where the parser skips to the first head at once, the
scanner goes byte by byte (`ScanPassesOver`). With fewer bytes than a frame left
the scanner finds nothing more, which is `ChunkingIrrelevant`.

`CleanInv` is what `CleanLineIsLossless` needs: on a clean line the bytes read
and to come are those of the frames sent, and the reader stands at the start of
a frame, so that a head value inside a frame is never looked at.

The scanner is a recursive function, and the proofs use no induction over it
but the least counterexample (`HasLeast`): that a function with its equation
exists (`ScanExists`, built from the end of the stream), that it yields bytes
(`ScanFromType`), and that it passes over bytes that are no head.

### Motor startup

`MotorStartupProofs` proves for every finite set of motors, any of them with
`auto_enable`, and every number of commands and faults (assumption: the bounds
are natural): `MotorStartupInvariant`, `MotorStartupTypeOK` and
`FlagMatchesDriveHolds`.

`FlagMatchesDrive` is about a motor in no call whose flag and power are the
business of the calls that change both. The code has other writers: calibration
and CANCEL send control words without the flag (`main_loop.cpp:654`,
`motor_calib.c:81`, `:220`, `:269`), a fault reset leaves the flag as it was,
and the RT thread sets the flag and sends its frame later (`motor_hal.c:562`,
`:845`, `:858`). They are all steps of the model. What they touch is in
`touched` until the next enable, disable or startup with `auto_enable` begins.
In the same way a motor is in `suspect` that lost a frame or its power or fell
into a fault. So the theorem says that such a call puts flag and drive back in
agreement whatever went before, unless the drive is in a fault, and that it takes
one of these to part them.

It is not inductive, as it is silent while a call is in progress. `DriveInv`
fills that gap: the number of writes left tells in which state the call has left
the drive (`Fits`), counting a write as done when the drive has taken it, not
when its answer is there (`Left`). `WriteInv` bounds that number. `RawInv` and
`FaultInv` tie the calls that note nothing, and faults, to the two histories.
`NewInv` says that only the RT thread enables a motor that was never started,
so that one that is switched on again is as good as new.

## 6. Model-checked only

- All liveness (`CallReturns`, `CommandIsTaken`, `CalibrationEnds`,
  `RequestReturns`, `NewReportIsSeen`, `CommandIsAcked`, `LongPressIsServed`,
  `BootupIsServed`, `LockComesBack`): the proof system has no rule for fairness
  or ENABLED.
- `WebMailbox`, whose purpose is a counterexample, and the other expected
  violations.

## 7. Plan

Done: Mailbox, MotorControl, NodeControl, SdoClient, Feedback, SdoCommands,
which are the ways of a command to a motor and of its state back; then Button,
MotorStartup, FootPressure, and the web page on the mailbox. Proved: the safety
properties of all of them that a passing run checks. Next:

1. The web page: which change of its code would let both producers keep the
   theorems of the mailbox. That its calls do not overlap the algorithm's is not
   enough: it leaves the other motors' parts of its slot as it finds them.
2. Extend the models: `ModeSwitch` (resend on a mode change against multi-axis,
   MIT and management frames); the web page as second writer of the SDO slot;
   the report button; `rt_log`; a composition of `NodeControl` with
   `MotorControl` so that power, `enabled` and the control byte are one.

## 8. Not modelled

- Values, units, targets and the layout of frames (`canopen_frames.c`,
  `pdo_mapper.c`): pure data.
- IMU and barometer: vendor code and device I/O with one mutex; the barometer
  is not fitted and its part of the frame is zeroed.
- Web routes that only display, page, JSON; ROS adapter (publishes what shared
  memory holds; its callbacks run in the main loop's `spinOnce`, and what they
  do to a motor is in `MotorStartup`); configuration; creation of
  the segment: sequential code, run once or for display.
- The report button: it flips a Boolean that `Feedback` lets change at any time.
- `motor_hal_startup`: nothing in the node calls it; the startup that runs is
  the one of a pending motor.
- The FAULT state: no code requests it (`m_pending_state` is never written).
- LED commands and the trace rings: displayed, not acted on.
- Third-party code: `src/3rd_party`, two copies of spdlog and the vendor's IMU
  driver (`src/imu_hal`) are four fifths of the lines under `src/`; no control
  logic is in them.
