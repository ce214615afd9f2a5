----------------------------- MODULE NodeControl -----------------------------
(***************************************************************************)
(* The main loop of the node (main_loop_run): the states BOOTING, READY and*)
(* RUNNING, the calibration of the motors, and the button, web page or     *)
(* algorithm that asks for it through shm->calib_requested.  Every request *)
(* flips calib_toggle: TRUE calibrates, FALSE cancels.                     *)
(*                                                                         *)
(* The loop runs every 50 ms.  It switches the 1 kHz RT thread between     *)
(* active and idle by an atomic flag and does not wait for the period the  *)
(* RT thread is in; that is why the RT thread is here, although all that   *)
(* is left of its period is which motors its frames switch on or off.      *)
(* Two sleeps of the code order the threads: the 50 ms between two rounds  *)
(* (Wake) and the 10 ms before a CANCEL disables a motor (FinishCancel):   *)
(* a period of the RT thread begun before them has ended after them.       *)
(*                                                                         *)
(* External: the motors.  SDO calls to them may fail, with or without their*)
(* effect, and which motors are on line may change at every poll; a motor  *)
(* that restarts between two rounds streams no sensor data any more.       *)
(*                                                                         *)
(* Left out: FAULT, which no code requests (m_pending_state is never set); *)
(* the LED; the copy of the state in shm->node_state; calloc failures.     *)
(***************************************************************************)
EXTENDS Integers, FiniteSets

CONSTANTS
  Motors,        \* the registered motors
  ReportAuto,    \* report.auto_enable
  CalibPolls,    \* polls of a calibration before calib_timeout_ms has elapsed
  MaxRequests    \* bound on requests to calibrate or cancel

ASSUME MotorsAssumption == IsFiniteSet(Motors) /\ Motors # {}
ASSUME ReportAutoAssumption == ReportAuto \in BOOLEAN
ASSUME BoundAssumption == CalibPolls \in Nat /\ MaxRequests \in Nat

VARIABLES
  calibState, calibReq, online,       \* of stark_shm_t
  requested, toggle, done, running,   \* calib_* of StarkNodeContext
  cal, calMotors, polls,              \* motor_calib_t, its motors, time spent
  triggered, firstBoot, sensorCfg,    \* statics of main_loop.cpp
  streaming,                          \* the motors whose passthrough is on
  state, waiting, syncStarted,        \* g_stark_state, boot timer, SYNC runs
  pc,                                 \* where the main loop is in its round
  rtRunning, active, report, rpc,     \* StarkRtWorker
  powered,                            \* the motors whose drive is enabled
  cancelled, excused, requests,       \* history, see CancelHolds
  unstopped                           \* streaming on since the last CANCEL

shm == <<calibState, calibReq, online>>
flags == <<requested, toggle, done, running, triggered>>
calib == <<cal, calMotors, polls>>
boot == <<firstBoot, waiting, syncStarted, rtRunning>>
sensors == <<sensorCfg, streaming>>
worker == <<active, report>>
history == <<cancelled, excused, unstopped, requests>>
vars == <<shm, flags, calib, boot, sensors, state, pc, worker, rpc, powered,
          history>>

Init ==
  /\ calibState = 0 /\ calibReq = FALSE /\ online = {}
  /\ requested = FALSE /\ toggle = FALSE /\ done = FALSE /\ running = FALSE
  /\ cal = "none" /\ calMotors = {} /\ polls = 0
  /\ triggered = FALSE /\ firstBoot = TRUE /\ sensorCfg = {}
  /\ streaming = {} /\ unstopped = {}
  /\ state = "booting" /\ waiting = FALSE /\ syncStarted = FALSE
  /\ pc = "common"
  /\ rtRunning = FALSE /\ active = FALSE /\ report = FALSE /\ rpc = "idle"
  /\ powered \in SUBSET Motors
  /\ cancelled = FALSE /\ excused = {} /\ requests = 0

(* s is switched on by something a CANCEL does not stop.                   *)
PowerUp(s) ==
  /\ powered' = powered \cup s
  /\ excused' = IF cancelled THEN excused \cup s ELSE excused

-----------------------------------------------------------------------------
(* poll_common: bootups of auto_enable motors, the online mask, the sensor *)
(* passthrough of motors that are calibrated and not yet configured.  Then *)
(* the motors of streams stream: some may have restarted, and a call whose *)
(* answer was lost may have switched the passthrough on.                   *)
PollCommon ==
  /\ pc = "common"
  /\ \E started, on, streams \in SUBSET Motors : \E configured \in SUBSET streams :
       LET kept == sensorCfg \ (online \ on)
       IN  /\ streams \ streaming \subseteq Motors \ kept
           /\ configured \cup (streams \ streaming) # {} => done
           /\ sensorCfg' = kept \cup configured
           /\ streaming' = streams /\ unstopped' = unstopped \cap streams
           /\ PowerUp(started)
           /\ online' = on
  /\ pc' = "dispatch"
  /\ UNCHANGED <<calibState, calibReq, flags, calib, boot, state, worker, rpc,
                 cancelled, requests>>

-----------------------------------------------------------------------------
(* poll_booting.                                                           *)

BootNobody ==
  /\ pc = "dispatch" /\ state = "booting" /\ online = {}
  /\ waiting' = FALSE
  /\ pc' = "serve"
  /\ UNCHANGED <<shm, flags, calib, firstBoot, syncStarted, rtRunning,
                 sensors, state, worker, rpc, powered, history>>

(* sync: motor_hal_sync_start succeeds.  late: 5 s since the first motor.  *)
BootPoll(sync, late) ==
  /\ pc = "dispatch" /\ state = "booting" /\ online # {}
  /\ late => waiting
  /\ rtRunning' = TRUE
  /\ syncStarted' = (syncStarted \/ sync)
  /\ active' = (active \/ syncStarted')
  /\ IF online = Motors \/ late
     THEN state' = "ready" /\ waiting' = FALSE
     ELSE waiting' = TRUE /\ UNCHANGED state
  /\ pc' = "serve"
  /\ UNCHANGED <<shm, flags, calib, firstBoot, sensors, report, rpc,
                 powered, history>>

-----------------------------------------------------------------------------
(* poll_ready.                                                             *)

Ready == pc = "dispatch" /\ state = "ready" /\ ~done /\ ~firstBoot

(* Calibrated already, or nothing to calibrate on the first boot.          *)
EnterRunning ==
  /\ pc = "dispatch" /\ state = "ready" /\ (done \/ firstBoot)
  /\ active' = TRUE
  /\ report' = (report \/ (done /\ ReportAuto))
  /\ firstBoot' = (firstBoot /\ done)
  /\ calibState' = IF done THEN calibState ELSE 2
  /\ state' = "running" /\ pc' = "serve"
  /\ UNCHANGED <<calibReq, online, flags, calib, waiting, syncStarted,
                 rtRunning, sensors, rpc, powered, history>>

(* Mutant: motor_hal_sensor_stop is not called.                            *)
CancelledStreams(ok, stopped) ==
  /\ powered' = powered \ ok
  /\ UNCHANGED streaming /\ unstopped' = streaming \ stopped
  /\ cal' = "none" /\ calMotors' = {} /\ polls' = 0
  /\ running' = FALSE /\ done' = FALSE /\ calibState' = 0
  /\ sensorCfg' = {} /\ report' = FALSE
  /\ cancelled' = TRUE /\ excused' = Motors \ ok

(* What both ways to CANCEL leave behind: the power-off reaches the motors *)
(* ok and motor_hal_sensor_stop the motors stopped, whose results no one   *)
(* looks at; g_sensor_configured is cleared for every motor all the same.  *)
Cancelled(ok, stopped) ==
  /\ powered' = powered \ ok
  /\ streaming' = streaming \ stopped /\ unstopped' = streaming'
  /\ cal' = "none" /\ calMotors' = {} /\ polls' = 0
  /\ running' = FALSE /\ done' = FALSE /\ calibState' = 0
  /\ sensorCfg' = {} /\ report' = FALSE
  /\ cancelled' = TRUE /\ excused' = Motors \ ok

(* A request while a calibration runs: motor_calib_exit.                   *)
CancelCalibration(ok, stopped) ==
  /\ Ready /\ requested /\ running
  /\ ok \subseteq calMotors /\ stopped \subseteq calMotors
  /\ requested' = FALSE
  /\ IF toggle
     THEN UNCHANGED <<powered, calib, running, done, calibState, sensors,
                      report, triggered, cancelled, excused, unstopped>>
     ELSE Cancelled(ok, stopped) /\ triggered' = FALSE
  /\ pc' = "serve"
  /\ UNCHANGED <<calibReq, online, toggle, boot, state, active, rpc, requests>>

NothingToCancel ==
  /\ Ready /\ requested /\ ~running /\ ~triggered /\ ~toggle
  /\ requested' = FALSE
  /\ pc' = "serve"
  /\ UNCHANGED <<shm, toggle, done, running, triggered, calib, boot, sensors,
                 state, worker, rpc, powered, history>>

Calibrate == Ready /\ requested /\ ~running /\ ~triggered /\ toggle

(* Mutant: a calibration starts beside an active RT thread.                *)
StartBesideRt ==
  /\ Calibrate
  /\ requested' = FALSE /\ triggered' = TRUE /\ running' = TRUE
  /\ cal' = "checking" /\ calMotors' = online /\ polls' = 0
  /\ powered' = powered \ online
  /\ calibState' = 1
  /\ cancelled' = FALSE /\ excused' = {}
  /\ pc' = "calibPoll"
  /\ UNCHANGED <<calibReq, online, toggle, done, active, boot, sensors, state,
                 report, rpc, unstopped,
                 requests>>

(* motor_calib_start shuts the motors down and sets their zero, ...        *)
StartCalibration ==
  /\ Calibrate
  /\ requested' = FALSE /\ triggered' = TRUE /\ running' = TRUE
  /\ active' = FALSE
  /\ cal' = "checking" /\ calMotors' = online /\ polls' = 0
  /\ powered' = powered \ online
  /\ calibState' = 1
  /\ cancelled' = FALSE /\ excused' = {}
  /\ pc' = "calibPoll"
  /\ UNCHANGED <<calibReq, online, toggle, done, boot, sensors, state,
                 report, rpc, unstopped,
                 requests>>

(* ... or fails, having reached only the motors of off.                    *)
StartFails(off) ==
  /\ Calibrate
  /\ off \subseteq online /\ online # {}
  /\ requested' = FALSE
  /\ active' = TRUE
  /\ powered' = powered \ off
  /\ cancelled' = FALSE /\ excused' = {}
  /\ pc' = "serve"
  /\ UNCHANGED <<shm, toggle, done, running, triggered, calib, boot, sensors,
                 state, report, rpc, unstopped,
                 requests>>

(* motor_calib_poll, called at once after the start and then every round.  *)
CalibPolled ==
  pc = "calibPoll" \/ (Ready /\ running /\ ~requested)

(* Mutant: the clock starts again at every poll.                           *)
CheckingAnew ==
  /\ CalibPolled
  /\ polls' = 0
  /\ pc' = "serve"
  /\ UNCHANGED <<shm, flags, cal, calMotors, boot, sensors, state, worker,
                 rpc, powered, history>>

Checking ==
  /\ CalibPolled /\ polls < CalibPolls
  /\ polls' = polls + 1
  /\ pc' = "serve"
  /\ UNCHANGED <<shm, flags, cal, calMotors, boot, sensors, state, worker,
                 rpc, powered, history>>

CalibOver ==
  /\ running' = FALSE /\ triggered' = FALSE
  /\ cal' = "none" /\ calMotors' = {} /\ polls' = 0
  /\ active' = TRUE
  /\ pc' = "serve"
  /\ UNCHANGED <<calibReq, online, requested, toggle, boot, sensorCfg, rpc,
                 history>>

(* MOTOR_CALIB_DONE with every motor enabled, and the passthrough of those *)
(* of s, for no one looks at the result; MOTOR_CALIB_TIMEOUT when the time *)
(* is up, or when enabling failed and left power to the motors of on.      *)
CalibDone(s) ==
  /\ CalibPolled /\ polls < CalibPolls
  /\ s \subseteq calMotors
  /\ powered' = powered \cup calMotors
  /\ streaming' = streaming \cup s
  /\ done' = TRUE /\ calibState' = 2
  /\ report' = (report \/ ReportAuto)
  /\ state' = "running"
  /\ CalibOver

(* Mutant: a timed-out calibration does not count as one.                  *)
TimeoutNotDone(on) ==
  /\ CalibPolled
  /\ IF polls = CalibPolls
     THEN on = {} /\ UNCHANGED powered
     ELSE /\ calMotors # {} /\ on \subseteq calMotors
          /\ powered' = (powered \ calMotors) \cup on
  /\ calibState' = 3
  /\ report' = (report \/ ReportAuto)
  /\ state' = "running" /\ UNCHANGED <<done, streaming>>
  /\ CalibOver

CalibTimeout(on) ==
  /\ CalibPolled
  /\ IF polls = CalibPolls
     THEN on = {} /\ UNCHANGED powered
     ELSE /\ calMotors # {} /\ on \subseteq calMotors
          /\ powered' = (powered \ calMotors) \cup on
  /\ done' = TRUE /\ calibState' = 3
  /\ report' = (report \/ ReportAuto)
  /\ state' = "running" /\ UNCHANGED streaming
  /\ CalibOver

(* MOTOR_CALIB_FAILED: a motor refused the control mode.                   *)
CalibFailed ==
  /\ CalibPolled /\ polls < CalibPolls /\ calMotors # {}
  /\ done' = FALSE /\ calibState' = 3
  /\ UNCHANGED <<powered, streaming, report, state>>
  /\ CalibOver

(* Nothing asked and nothing to poll.                                      *)
ReadyIdle ==
  /\ Ready /\ ~running /\ ~(requested /\ ~triggered)
  /\ pc' = "serve"
  /\ UNCHANGED <<shm, flags, calib, boot, sensors, state, worker, rpc,
                 powered, history>>

-----------------------------------------------------------------------------
(* The RUNNING case of main_loop_run.                                      *)

RunningIdle ==
  /\ pc = "dispatch" /\ state = "running" /\ ~requested
  /\ pc' = "serve"
  /\ UNCHANGED <<shm, flags, calib, boot, sensors, state, worker, rpc,
                 powered, history>>

(* CALIBRATE: idle the RT thread and pass the request on to poll_ready.    *)
RelayCalibrate ==
  /\ pc = "dispatch" /\ state = "running" /\ requested /\ toggle
  /\ active' = FALSE
  /\ done' = FALSE
  /\ state' = "ready" /\ pc' = "serve"
  /\ UNCHANGED <<shm, requested, toggle, running, triggered, calib, boot,
                 sensors, report, rpc, powered, history>>

(* Mutant: a CANCEL leaves the RT thread active.                           *)
BeginCancelActive ==
  /\ pc = "dispatch" /\ state = "running" /\ requested /\ ~toggle
  /\ requested' = FALSE
  /\ report' = FALSE
  /\ pc' = "cancel"
  /\ UNCHANGED <<shm, toggle, done, running, triggered, calib, boot, sensors,
                 state, active, rpc, powered, history>>

(* CANCEL: idle the RT thread and stop the reports, ...                    *)
BeginCancel ==
  /\ pc = "dispatch" /\ state = "running" /\ requested /\ ~toggle
  /\ requested' = FALSE
  /\ active' = FALSE /\ report' = FALSE
  /\ pc' = "cancel"
  /\ UNCHANGED <<shm, toggle, done, running, triggered, calib, boot, sensors,
                 state, rpc, powered, history>>

(* ... then stop the sensors and, 10 ms later, the motors that are on line.*)
FinishCancel(ok, stopped) ==
  /\ pc = "cancel"
  /\ LET targets == IF running THEN calMotors ELSE online
     IN  /\ ok \subseteq targets /\ stopped \subseteq targets
         /\ targets = {} \/ rpc = "idle"
  /\ Cancelled(ok, stopped)
  /\ triggered' = (triggered /\ ~running)
  /\ state' = "ready" /\ pc' = "serve"
  /\ UNCHANGED <<calibReq, online, requested, toggle, boot, active, rpc,
                 requests>>

-----------------------------------------------------------------------------
(* The end of a round.                                                     *)

(* poll_sdo_commands: a torque, speed or position command of the algorithm *)
(* enables its motor, in any state of the node.                            *)
Serve(s) ==
  /\ pc = "serve"
  /\ PowerUp(s)
  /\ pc' = "sync"
  /\ UNCHANGED <<shm, flags, calib, boot, sensors, state, worker, rpc,
                 cancelled, unstopped, requests>>

TakeRequest ==
  /\ pc = "sync"
  /\ IF calibReq
     THEN requested' = TRUE /\ toggle' = ~toggle /\ pc' = "clear"
     ELSE pc' = "sleep" /\ UNCHANGED <<requested, toggle>>
  /\ UNCHANGED <<shm, done, running, triggered, calib, boot, sensors, state,
                 worker, rpc, powered, history>>

ClearRequest ==
  /\ pc = "clear"
  /\ calibReq' = FALSE
  /\ pc' = "sleep"
  /\ UNCHANGED <<calibState, online, flags, calib, boot, sensors, state,
                 worker, rpc, powered, history>>

Wake ==
  /\ pc = "sleep" /\ rpc = "idle"
  /\ pc' = "common"
  /\ UNCHANGED <<shm, flags, calib, boot, sensors, state, worker, rpc,
                 powered, history>>

-----------------------------------------------------------------------------
(* The RT thread, and who asks.                                            *)

RtBegin ==
  /\ rtRunning /\ active /\ rpc = "idle"
  /\ rpc' = "period"
  /\ UNCHANGED <<shm, flags, calib, boot, sensors, state, pc, worker,
                 powered, history>>

(* The commands of a period leave the drives of s enabled.                 *)
RtEnd(s) ==
  /\ rpc = "period"
  /\ rpc' = "idle" /\ powered' = s
  /\ UNCHANGED <<shm, flags, calib, boot, sensors, state, pc, worker, history>>

(* stark_request_calib, the button's triple click, the web page.           *)
Request ==
  /\ requests < MaxRequests
  /\ calibReq' = TRUE /\ requests' = requests + 1
  /\ UNCHANGED <<calibState, online, flags, calib, boot, sensors, state, pc,
                 worker, rpc, powered, cancelled, excused, unstopped>>

Loop ==
  \/ PollCommon
  \/ BootNobody \/ \E sync, late \in BOOLEAN : BootPoll(sync, late)
  \/ EnterRunning \/ NothingToCancel \/ StartCalibration
  \/ \E s \in SUBSET Motors :
       \/ StartFails(s) \/ CalibDone(s) \/ CalibTimeout(s) \/ Serve(s)
  \/ \E ok, stopped \in SUBSET Motors :
       CancelCalibration(ok, stopped) \/ FinishCancel(ok, stopped)
  \/ Checking \/ CalibFailed \/ ReadyIdle
  \/ RunningIdle \/ RelayCalibrate \/ BeginCancel
  \/ TakeRequest \/ ClearRequest

Next ==
  \/ Loop \/ Wake
  \/ RtBegin \/ \E s \in SUBSET Motors : RtEnd(s)
  \/ Request

Spec == Init /\ [][Next]_vars

(* A period of the RT thread ends and the main loop goes round: SF, for its *)
(* sleeps end whatever the RT thread does, but Wake and FinishCancel are   *)
(* disabled while a period lasts.                                          *)
FairSpec ==
  /\ Spec
  /\ SF_vars(Loop \/ Wake)
  /\ WF_vars(\E s \in SUBSET Motors : RtEnd(s))

-----------------------------------------------------------------------------
TypeOK ==
  /\ calibState \in 0 .. 3
  /\ online \subseteq Motors /\ calMotors \subseteq Motors
  /\ sensorCfg \subseteq Motors /\ streaming \subseteq Motors
  /\ powered \subseteq Motors /\ excused \subseteq Motors
  /\ unstopped \subseteq Motors
  /\ {calibReq, requested, toggle, done, running, triggered, firstBoot,
      waiting, syncStarted, rtRunning, active, report, cancelled}
       \subseteq BOOLEAN
  /\ cal \in {"none", "checking"} /\ polls \in 0 .. CalibPolls
  /\ state \in {"booting", "ready", "running"}
  /\ pc \in {"common", "dispatch", "calibPoll", "cancel", "serve", "sync",
             "clear", "sleep"}
  /\ rpc \in {"idle", "period"} /\ requests \in 0 .. MaxRequests

(* While a calibration runs, and only then, its motor_calib_t exists and   *)
(* calib_state says so, the node is READY and the RT thread is switched    *)
(* off (poll_ready against the RUNNING case of main_loop_run).             *)
CalibrationExcludesRt ==
  /\ running <=> calibState = 1
  /\ running <=> cal = "checking"
  /\ running => triggered /\ ~active /\ state = "ready"

(* Motors stream their sensors, and reports are on, only in a node that is *)
(* RUNNING with a calibration behind it: "the same switch as the button"   *)
(* (poll_common).  No order of requests, drop-outs and failures leaves one *)
(* streaming in READY, nor the loop's flag set, but a motor that streamed  *)
(* and that the last CANCEL did not stop: it was off line, no part of the  *)
(* calibration, or motor_hal_sensor_stop failed.                           *)
SensorFollowsCalibration ==
  (sensorCfg \cup (streaming \ unstopped) # {} \/ report)
    => (done /\ state = "running")

(* After a CANCEL the RT thread is off and the motors are without power,   *)
(* until the next attempt to calibrate; excused are the motors the CANCEL  *)
(* did not reach and those an SDO command or a bootup has enabled since.   *)
CancelHolds ==
  cancelled => ~active /\ powered \subseteq excused

(* In RUNNING, with no request on its way, the toggle stands for what the  *)
(* operator sees: the next request cancels if there is a calibration to    *)
(* cancel, and calibrates if there is none.                                *)
ToggleMatches ==
  (state = "running" /\ pc = "sleep" /\ ~requested) => (toggle <=> done)

(* A node that is RUNNING has its RT thread started and active, except     *)
(* within a CANCEL.                                                        *)
RunningIsActive ==
  (state = "running" /\ pc # "cancel") => rtRunning /\ active

(* A calibration ends, in DONE, TIMEOUT, FAILED or a CANCEL.               *)
CalibrationEnds == running ~> ~running

-----------------------------------------------------------------------------
(* "calib_state = 2 means the motors can be controlled" (stark_ready): at  *)
(* rest between two rounds, with no request on its way.                    *)
ReadyIsControllable ==
  (pc = "sleep" /\ ~requested /\ ~calibReq /\ calibState = 2) => active

(* "SYNC start failed, will retry" (poll_booting): a node that has left    *)
(* BOOTING has its SYNC thread.                                            *)
SyncIsRetried == state # "booting" => syncStarted
=============================================================================
