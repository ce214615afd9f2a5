------------------------- MODULE NodeControlProofs --------------------------
(***************************************************************************)
(* Proofs about NodeControl, for any set of motors, any length of a        *)
(* calibration and any number of requests: the calibration excludes the RT *)
(* thread, the sensors follow the calibration, a CANCEL holds, the toggle  *)
(* stands for what the operator sees, and a RUNNING node is active.  None  *)
(* of these is inductive; IInv is, and implies them all.                   *)
(***************************************************************************)
EXTENDS NodeControl, TLAPS

(* A calibration runs in READY only, beside an idle RT thread, and with    *)
(* the toggle on CALIBRATE until a request has flipped it.                 *)
CalibInv ==
  /\ running <=> calibState = 1
  /\ running <=> cal = "checking"
  /\ running <=> triggered
  /\ running => ~active /\ state = "ready" /\ ~done /\ ~firstBoot
  /\ running /\ ~requested => toggle
  /\ running /\ pc \in {"common", "dispatch"} => rpc = "idle"
  /\ pc = "calibPoll" => running /\ ~requested

(* Where the node is in its life: booting or just booted, calibrated, or   *)
(* in the middle of a CANCEL.                                              *)
StateInv ==
  /\ state = "booting" => firstBoot
  /\ firstBoot => state # "running" /\ ~done /\ (~requested => ~toggle)
  /\ state # "booting" => rtRunning
  /\ done => state = "running"
  /\ pc = "cancel" =>
       state = "running" /\ ~active /\ ~report /\ ~requested /\ ~toggle
  /\ state = "running" /\ pc # "cancel" => active

(* In RUNNING the toggle is the calibration, or a request has flipped it.  *)
ToggleInv ==
  /\ state = "running" /\ requested /\ toggle => ~done
  /\ state = "running" /\ ~requested /\ pc # "cancel" => (toggle <=> done)
  /\ done /\ pc \in {"serve", "sync"} => ~requested

(* Sensors and reports are on after a calibration only, but for the motors *)
(* that a CANCEL has left streaming.                                       *)
SensorInv == sensorCfg \cup (streaming \ unstopped) # {} \/ report => done

(* After a CANCEL the node waits in READY.  If a period of the RT thread   *)
(* was still under way, the CANCEL reached no motor at all.                *)
CancelInv ==
  cancelled =>
    /\ ~active /\ ~running /\ ~done /\ ~firstBoot /\ state = "ready"
    /\ powered \subseteq excused
    /\ rpc = "idle" \/ excused = Motors

IInv == TypeOK /\ CalibInv /\ StateInv /\ ToggleInv /\ SensorInv /\ CancelInv

(* TypeOK in three parts, for the leaves that need them one at a time.     *)
SetsOK ==
  /\ online \subseteq Motors /\ calMotors \subseteq Motors
  /\ sensorCfg \subseteq Motors /\ streaming \subseteq Motors
  /\ powered \subseteq Motors /\ excused \subseteq Motors
  /\ unstopped \subseteq Motors

FlagsOK ==
  {calibReq, requested, toggle, done, running, triggered, firstBoot, waiting,
   syncStarted, rtRunning, active, report, cancelled} \subseteq BOOLEAN

RestOK ==
  /\ calibState \in 0 .. 3
  /\ cal \in {"none", "checking"} /\ polls \in 0 .. CalibPolls
  /\ state \in {"booting", "ready", "running"}
  /\ pc \in {"common", "dispatch", "calibPoll", "cancel", "serve", "sync",
             "clear", "sleep"}
  /\ rpc \in {"idle", "period"} /\ requests \in 0 .. MaxRequests

(* The first state satisfies the inductive invariant.                      *)
LEMMA InitIInv == Init => IInv
<1>1. Init => SetsOK /\ FlagsOK
  BY DEF Init, SetsOK, FlagsOK
<1>2. Init => RestOK
  BY BoundAssumption DEF Init, RestOK
<1>3. Init => CalibInv /\ StateInv /\ ToggleInv /\ SensorInv /\ CancelInv
  BY DEF Init, CalibInv, StateInv, ToggleInv, SensorInv, CancelInv
<1>4. QED
  BY <1>1, <1>2, <1>3 DEF IInv, TypeOK, SetsOK, FlagsOK, RestOK

(* What every round of the main loop begins and ends with.                 *)
LEMMA RoundKeeps ==
  ASSUME IInv,
         \/ PollCommon
         \/ (\E s \in SUBSET Motors : Serve(s))
         \/ TakeRequest
         \/ ClearRequest
         \/ Wake
  PROVE  IInv'
<1> USE DEF sensors
<1>1. CASE PollCommon
  <2>0. PICK started, on, streams \in SUBSET Motors :
          \E configured \in SUBSET streams :
            LET kept == sensorCfg \ (online \ on)
            IN  /\ streams \ streaming \subseteq Motors \ kept
                /\ configured \cup (streams \ streaming) # {} => done
                /\ sensorCfg' = kept \cup configured
                /\ streaming' = streams /\ unstopped' = unstopped \cap streams
                /\ PowerUp(started)
                /\ online' = on
    BY <1>1 DEF PollCommon
  <2>1. TypeOK'
    <3>1. SetsOK'
      BY <1>1, <2>0 DEF PollCommon, PowerUp, calib, IInv, TypeOK, SetsOK
    <3>2. FlagsOK'
      BY <1>1 DEF PollCommon, flags, boot, worker, IInv, TypeOK, FlagsOK
    <3>3. RestOK'
      BY <1>1 DEF PollCommon, calib, IInv, TypeOK, RestOK
    <3>4. QED
      BY <3>1, <3>2, <3>3 DEF TypeOK, SetsOK, FlagsOK, RestOK
  <2>2. CalibInv'
    BY <1>1 DEF PollCommon, flags, calib, boot, worker, IInv, TypeOK,
                CalibInv, StateInv
  <2>3. StateInv'
    BY <1>1 DEF PollCommon, flags, calib, boot, worker, IInv, TypeOK,
                CalibInv, StateInv, ToggleInv
  <2>4. ToggleInv'
    BY <1>1 DEF PollCommon, flags, calib, boot, worker, IInv, TypeOK,
                CalibInv, StateInv, ToggleInv
  <2>5. SensorInv'
    BY <1>1, <2>0 DEF PollCommon, flags, worker, IInv, TypeOK, SensorInv
  <2>6. CancelInv'
    BY <1>1, <2>0 DEF PollCommon, PowerUp, flags, calib, boot, worker, IInv,
                      TypeOK, CalibInv, StateInv, CancelInv
  <2>7. QED
    BY <2>1, <2>2, <2>3, <2>4, <2>5, <2>6 DEF IInv
<1>2. ASSUME NEW s \in SUBSET Motors,
            Serve(s)
     PROVE  IInv'
  <2>1. TypeOK'
    BY <1>2, BoundAssumption DEF Serve, PowerUp, shm, flags, calib, boot,
                                 worker, IInv, TypeOK
  <2>2. CalibInv'
    BY <1>2 DEF Serve, PowerUp, shm, flags, calib, boot, worker, IInv,
                TypeOK, CalibInv, StateInv
  <2>3. StateInv'
    BY <1>2 DEF Serve, PowerUp, shm, flags, calib, boot, worker, IInv,
                TypeOK, CalibInv, StateInv, ToggleInv
  <2>4. ToggleInv'
    BY <1>2 DEF Serve, PowerUp, shm, flags, calib, boot, worker, IInv,
                TypeOK, CalibInv, StateInv, ToggleInv
  <2>5. SensorInv'
    BY <1>2 DEF Serve, PowerUp, shm, flags, calib, boot, worker, IInv,
                TypeOK, CalibInv, StateInv, ToggleInv, SensorInv
  <2>6. CancelInv'
    BY <1>2 DEF Serve, PowerUp, shm, flags, calib, boot, worker, IInv,
                TypeOK, CalibInv, StateInv, CancelInv
  <2>7. QED
    BY <2>1, <2>2, <2>3, <2>4, <2>5, <2>6 DEF IInv
<1>3. CASE TakeRequest
  <2>1. TypeOK'
    BY <1>3, BoundAssumption DEF TakeRequest, shm, calib, boot, worker,
                                 history, IInv, TypeOK
  <2>2. CalibInv'
    BY <1>3 DEF TakeRequest, shm, calib, boot, worker, history, IInv, TypeOK,
                CalibInv, StateInv
  <2>3. StateInv'
    BY <1>3 DEF TakeRequest, shm, calib, boot, worker, history, IInv, TypeOK,
                CalibInv, StateInv, ToggleInv
  <2>4. ToggleInv'
    BY <1>3 DEF TakeRequest, shm, calib, boot, worker, history, IInv, TypeOK,
                CalibInv, StateInv, ToggleInv
  <2>5. SensorInv'
    BY <1>3 DEF TakeRequest, shm, calib, boot, worker, history, IInv, TypeOK,
                CalibInv, StateInv, ToggleInv, SensorInv
  <2>6. CancelInv'
    BY <1>3 DEF TakeRequest, shm, calib, boot, worker, history, IInv, TypeOK,
                CalibInv, StateInv, CancelInv
  <2>7. QED
    BY <2>1, <2>2, <2>3, <2>4, <2>5, <2>6 DEF IInv
<1>4. CASE ClearRequest
  <2>1. TypeOK'
    BY <1>4, BoundAssumption DEF ClearRequest, flags, calib, boot, worker,
                                 history, IInv, TypeOK
  <2>2. CalibInv'
    BY <1>4 DEF ClearRequest, flags, calib, boot, worker, history, IInv,
                TypeOK, CalibInv, StateInv
  <2>3. StateInv'
    BY <1>4 DEF ClearRequest, flags, calib, boot, worker, history, IInv,
                TypeOK, CalibInv, StateInv, ToggleInv
  <2>4. ToggleInv'
    BY <1>4 DEF ClearRequest, flags, calib, boot, worker, history, IInv,
                TypeOK, CalibInv, StateInv, ToggleInv
  <2>5. SensorInv'
    BY <1>4 DEF ClearRequest, flags, calib, boot, worker, history, IInv,
                TypeOK, CalibInv, StateInv, ToggleInv, SensorInv
  <2>6. CancelInv'
    BY <1>4 DEF ClearRequest, flags, calib, boot, worker, history, IInv,
                TypeOK, CalibInv, StateInv, CancelInv
  <2>7. QED
    BY <2>1, <2>2, <2>3, <2>4, <2>5, <2>6 DEF IInv
<1>5. CASE Wake
  <2>1. TypeOK'
    BY <1>5, BoundAssumption DEF Wake, shm, flags, calib, boot, worker,
                                 history, IInv, TypeOK
  <2>2. CalibInv'
    BY <1>5 DEF Wake, shm, flags, calib, boot, worker, history, IInv, TypeOK,
                CalibInv, StateInv
  <2>3. StateInv'
    BY <1>5 DEF Wake, shm, flags, calib, boot, worker, history, IInv, TypeOK,
                CalibInv, StateInv, ToggleInv
  <2>4. ToggleInv'
    BY <1>5 DEF Wake, shm, flags, calib, boot, worker, history, IInv, TypeOK,
                CalibInv, StateInv, ToggleInv
  <2>5. SensorInv'
    BY <1>5 DEF Wake, shm, flags, calib, boot, worker, history, IInv, TypeOK,
                CalibInv, StateInv, ToggleInv, SensorInv
  <2>6. CancelInv'
    BY <1>5 DEF Wake, shm, flags, calib, boot, worker, history, IInv, TypeOK,
                CalibInv, StateInv, CancelInv
  <2>7. QED
    BY <2>1, <2>2, <2>3, <2>4, <2>5, <2>6 DEF IInv
<1>6. QED
  BY <1>1, <1>2, <1>3, <1>4, <1>5

(* BOOTING, and the first step of READY.                                   *)
LEMMA BootKeeps ==
  ASSUME IInv,
         \/ BootNobody
         \/ (\E sync, late \in BOOLEAN : BootPoll(sync, late))
         \/ EnterRunning
  PROVE  IInv'
<1> USE DEF sensors
<1>1. CASE BootNobody
  <2>1. TypeOK'
    BY <1>1, BoundAssumption DEF BootNobody, shm, flags, calib, worker,
                                 history, IInv, TypeOK
  <2>2. CalibInv'
    BY <1>1 DEF BootNobody, shm, flags, calib, worker, history, IInv, TypeOK,
                CalibInv, StateInv
  <2>3. StateInv'
    BY <1>1 DEF BootNobody, shm, flags, calib, worker, history, IInv, TypeOK,
                CalibInv, StateInv, ToggleInv
  <2>4. ToggleInv'
    BY <1>1 DEF BootNobody, shm, flags, calib, worker, history, IInv, TypeOK,
                CalibInv, StateInv, ToggleInv
  <2>5. SensorInv'
    BY <1>1 DEF BootNobody, shm, flags, calib, worker, history, IInv, TypeOK,
                CalibInv, StateInv, ToggleInv, SensorInv
  <2>6. CancelInv'
    BY <1>1 DEF BootNobody, shm, flags, calib, worker, history, IInv, TypeOK,
                CalibInv, StateInv, CancelInv
  <2>7. QED
    BY <2>1, <2>2, <2>3, <2>4, <2>5, <2>6 DEF IInv
<1>2. ASSUME NEW sync \in BOOLEAN,
            NEW late \in BOOLEAN,
            BootPoll(sync, late)
     PROVE  IInv'
  <2>1. TypeOK'
    BY <1>2, BoundAssumption DEF BootPoll, shm, flags, calib, history, IInv,
                                 TypeOK
  <2>2. CalibInv'
    BY <1>2 DEF BootPoll, shm, flags, calib, history, IInv, TypeOK, CalibInv,
                StateInv
  <2>3. StateInv'
    BY <1>2 DEF BootPoll, shm, flags, calib, history, IInv, TypeOK, CalibInv,
                StateInv, ToggleInv
  <2>4. ToggleInv'
    BY <1>2 DEF BootPoll, shm, flags, calib, history, IInv, TypeOK, CalibInv,
                StateInv, ToggleInv
  <2>5. SensorInv'
    BY <1>2 DEF BootPoll, shm, flags, calib, history, IInv, TypeOK, CalibInv,
                StateInv, ToggleInv, SensorInv
  <2>6. CancelInv'
    BY <1>2 DEF BootPoll, shm, flags, calib, history, IInv, TypeOK, CalibInv,
                StateInv, CancelInv
  <2>7. QED
    BY <2>1, <2>2, <2>3, <2>4, <2>5, <2>6 DEF IInv
<1>3. CASE EnterRunning
  <2>1. TypeOK'
    BY <1>3, BoundAssumption DEF EnterRunning, flags, calib, history, IInv,
                                 TypeOK
  <2>2. CalibInv'
    BY <1>3 DEF EnterRunning, flags, calib, history, IInv, TypeOK, CalibInv,
                StateInv
  <2>3. StateInv'
    BY <1>3 DEF EnterRunning, flags, calib, history, IInv, TypeOK, CalibInv,
                StateInv, ToggleInv
  <2>4. ToggleInv'
    BY <1>3 DEF EnterRunning, flags, calib, history, IInv, TypeOK, CalibInv,
                StateInv, ToggleInv
  <2>5. SensorInv'
    BY <1>3 DEF EnterRunning, flags, calib, history, IInv, TypeOK, CalibInv,
                StateInv, ToggleInv, SensorInv
  <2>6. CancelInv'
    BY <1>3 DEF EnterRunning, flags, calib, history, IInv, TypeOK, CalibInv,
                StateInv, CancelInv
  <2>7. QED
    BY <2>1, <2>2, <2>3, <2>4, <2>5, <2>6 DEF IInv
<1>4. QED
  BY <1>1, <1>2, <1>3

(* A request in READY.                                                     *)
LEMMA RequestKeeps ==
  ASSUME IInv,
         \/ (\E ok, stopped \in SUBSET Motors : CancelCalibration(ok, stopped))
         \/ NothingToCancel
         \/ StartCalibration
         \/ (\E off \in SUBSET Motors : StartFails(off))
  PROVE  IInv'
<1> USE DEF sensors
<1>1. ASSUME NEW ok \in SUBSET Motors,
            NEW stopped \in SUBSET Motors,
            CancelCalibration(ok, stopped)
     PROVE  IInv'
  <2>1. TypeOK'
    <3>1. SetsOK'
      BY <1>1 DEF CancelCalibration, Ready, Cancelled, calib, boot, IInv,
                  TypeOK, SetsOK
    <3>2. FlagsOK'
      BY <1>1 DEF CancelCalibration, Ready, Cancelled, calib, boot, IInv,
                  TypeOK, FlagsOK
    <3>3. RestOK'
      <4>1. CASE toggle
        BY <1>1, <4>1, BoundAssumption DEF CancelCalibration, Ready,
                                           Cancelled, calib, boot, IInv,
                                           TypeOK, RestOK
      <4>2. CASE ~toggle
        BY <1>1, <4>2, BoundAssumption DEF CancelCalibration, Ready,
                                           Cancelled, calib, boot, IInv,
                                           TypeOK, RestOK
      <4>3. QED
        BY <4>1, <4>2
    <3>4. QED
      BY <3>1, <3>2, <3>3 DEF TypeOK, SetsOK, FlagsOK, RestOK
  <2>2. CalibInv'
    <3>1. CASE toggle
      BY <1>1, <3>1 DEF CancelCalibration, Ready, Cancelled, calib, boot,
                        IInv, TypeOK, CalibInv, StateInv
    <3>2. CASE ~toggle
      BY <1>1, <3>2 DEF CancelCalibration, Ready, Cancelled, calib, boot,
                        IInv, TypeOK, CalibInv, StateInv
    <3>3. QED
      BY <3>1, <3>2
  <2>3. StateInv'
    BY <1>1 DEF CancelCalibration, Ready, Cancelled, calib, boot, IInv,
                TypeOK, CalibInv, StateInv, ToggleInv
  <2>4. ToggleInv'
    BY <1>1 DEF CancelCalibration, Ready, Cancelled, calib, boot, IInv,
                TypeOK, CalibInv, StateInv, ToggleInv
  <2>5. SensorInv'
    BY <1>1 DEF CancelCalibration, Ready, Cancelled, calib, boot, IInv,
                TypeOK, CalibInv, StateInv, ToggleInv, SensorInv
  <2>6. CancelInv'
    BY <1>1 DEF CancelCalibration, Ready, Cancelled, calib, boot, IInv,
                TypeOK, CalibInv, StateInv, CancelInv
  <2>7. QED
    BY <2>1, <2>2, <2>3, <2>4, <2>5, <2>6 DEF IInv
<1>2. CASE NothingToCancel
  <2>1. TypeOK'
    BY <1>2, BoundAssumption DEF NothingToCancel, Ready, shm, calib, boot,
                                 worker, history, IInv, TypeOK
  <2>2. CalibInv'
    BY <1>2 DEF NothingToCancel, Ready, shm, calib, boot, worker, history,
                IInv, TypeOK, CalibInv, StateInv
  <2>3. StateInv'
    BY <1>2 DEF NothingToCancel, Ready, shm, calib, boot, worker, history,
                IInv, TypeOK, CalibInv, StateInv, ToggleInv
  <2>4. ToggleInv'
    BY <1>2 DEF NothingToCancel, Ready, shm, calib, boot, worker, history,
                IInv, TypeOK, CalibInv, StateInv, ToggleInv
  <2>5. SensorInv'
    BY <1>2 DEF NothingToCancel, Ready, shm, calib, boot, worker, history,
                IInv, TypeOK, CalibInv, StateInv, ToggleInv, SensorInv
  <2>6. CancelInv'
    BY <1>2 DEF NothingToCancel, Ready, shm, calib, boot, worker, history,
                IInv, TypeOK, CalibInv, StateInv, CancelInv
  <2>7. QED
    BY <2>1, <2>2, <2>3, <2>4, <2>5, <2>6 DEF IInv
<1>3. CASE StartCalibration
  <2>1. TypeOK'
    <3>1. SetsOK'
      BY <1>3 DEF StartCalibration, Calibrate, Ready, boot, IInv, TypeOK,
                  SetsOK
    <3>2. FlagsOK'
      BY <1>3 DEF StartCalibration, Calibrate, Ready, boot, IInv, TypeOK,
                  FlagsOK
    <3>3. RestOK'
      BY <1>3, BoundAssumption DEF StartCalibration, Calibrate, Ready, boot,
                                   IInv, TypeOK, RestOK
    <3>4. QED
      BY <3>1, <3>2, <3>3 DEF TypeOK, SetsOK, FlagsOK, RestOK
  <2>2. CalibInv'
    BY <1>3 DEF StartCalibration, Calibrate, Ready, boot, IInv, TypeOK,
                CalibInv, StateInv
  <2>3. StateInv'
    BY <1>3 DEF StartCalibration, Calibrate, Ready, boot, IInv, TypeOK,
                CalibInv, StateInv, ToggleInv
  <2>4. ToggleInv'
    BY <1>3 DEF StartCalibration, Calibrate, Ready, boot, IInv, TypeOK,
                CalibInv, StateInv, ToggleInv
  <2>5. SensorInv'
    BY <1>3 DEF StartCalibration, Calibrate, Ready, boot, IInv, TypeOK,
                CalibInv, StateInv, ToggleInv, SensorInv
  <2>6. CancelInv'
    BY <1>3 DEF StartCalibration, Calibrate, Ready, boot, IInv, TypeOK,
                CalibInv, StateInv, CancelInv
  <2>7. QED
    BY <2>1, <2>2, <2>3, <2>4, <2>5, <2>6 DEF IInv
<1>4. ASSUME NEW off \in SUBSET Motors,
            StartFails(off)
     PROVE  IInv'
  <2>1. TypeOK'
    BY <1>4, BoundAssumption DEF StartFails, Calibrate, Ready, shm, calib,
                                 boot, IInv, TypeOK
  <2>2. CalibInv'
    BY <1>4 DEF StartFails, Calibrate, Ready, shm, calib, boot, IInv, TypeOK,
                CalibInv, StateInv
  <2>3. StateInv'
    BY <1>4 DEF StartFails, Calibrate, Ready, shm, calib, boot, IInv, TypeOK,
                CalibInv, StateInv, ToggleInv
  <2>4. ToggleInv'
    BY <1>4 DEF StartFails, Calibrate, Ready, shm, calib, boot, IInv, TypeOK,
                CalibInv, StateInv, ToggleInv
  <2>5. SensorInv'
    BY <1>4 DEF StartFails, Calibrate, Ready, shm, calib, boot, IInv, TypeOK,
                CalibInv, StateInv, ToggleInv, SensorInv
  <2>6. CancelInv'
    BY <1>4 DEF StartFails, Calibrate, Ready, shm, calib, boot, IInv, TypeOK,
                CalibInv, StateInv, CancelInv
  <2>7. QED
    BY <2>1, <2>2, <2>3, <2>4, <2>5, <2>6 DEF IInv
<1>5. QED
  BY <1>1, <1>2, <1>3, <1>4

(* A calibration is polled, or there is none.                              *)
LEMMA CalibrationKeeps ==
  ASSUME IInv,
         \/ Checking
         \/ (\E s \in SUBSET Motors : CalibDone(s))
         \/ (\E on \in SUBSET Motors : CalibTimeout(on))
         \/ CalibFailed
         \/ ReadyIdle
  PROVE  IInv'
<1> USE DEF sensors
<1>1. CASE Checking
  <2>1. TypeOK'
    BY <1>1, BoundAssumption DEF Checking, CalibPolled, Ready, shm, flags,
                                 boot, worker, history, IInv, TypeOK
  <2>2. CalibInv'
    BY <1>1 DEF Checking, CalibPolled, Ready, shm, flags, boot, worker,
                history, IInv, TypeOK, CalibInv, StateInv
  <2>3. StateInv'
    BY <1>1 DEF Checking, CalibPolled, Ready, shm, flags, boot, worker,
                history, IInv, TypeOK, CalibInv, StateInv, ToggleInv
  <2>4. ToggleInv'
    BY <1>1 DEF Checking, CalibPolled, Ready, shm, flags, boot, worker,
                history, IInv, TypeOK, CalibInv, StateInv, ToggleInv
  <2>5. SensorInv'
    BY <1>1 DEF Checking, CalibPolled, Ready, shm, flags, boot, worker,
                history, IInv, TypeOK, CalibInv, StateInv, ToggleInv,
                SensorInv
  <2>6. CancelInv'
    BY <1>1 DEF Checking, CalibPolled, Ready, shm, flags, boot, worker,
                history, IInv, TypeOK, CalibInv, StateInv, CancelInv
  <2>7. QED
    BY <2>1, <2>2, <2>3, <2>4, <2>5, <2>6 DEF IInv
<1>2. ASSUME NEW s \in SUBSET Motors,
            CalibDone(s)
     PROVE  IInv'
  <2>1. TypeOK'
    <3>1. SetsOK'
      BY <1>2 DEF CalibDone, CalibPolled, Ready, CalibOver, boot, history,
                  IInv, TypeOK, SetsOK
    <3>2. FlagsOK'
      BY <1>2 DEF CalibDone, CalibPolled, Ready, CalibOver, boot, history,
                  IInv, TypeOK, FlagsOK
    <3>3. RestOK'
      BY <1>2, BoundAssumption DEF CalibDone, CalibPolled, Ready, CalibOver,
                                   boot, history, IInv, TypeOK, RestOK
    <3>4. QED
      BY <3>1, <3>2, <3>3 DEF TypeOK, SetsOK, FlagsOK, RestOK
  <2>2. CalibInv'
    BY <1>2 DEF CalibDone, CalibPolled, Ready, CalibOver, boot, history,
                IInv, TypeOK, CalibInv, StateInv
  <2>3. StateInv'
    BY <1>2 DEF CalibDone, CalibPolled, Ready, CalibOver, boot, history,
                IInv, TypeOK, CalibInv, StateInv, ToggleInv
  <2>4. ToggleInv'
    BY <1>2 DEF CalibDone, CalibPolled, Ready, CalibOver, boot, history,
                IInv, TypeOK, CalibInv, StateInv, ToggleInv
  <2>5. SensorInv'
    BY <1>2 DEF CalibDone, CalibPolled, Ready, CalibOver, boot, history,
                IInv, TypeOK, CalibInv, StateInv, ToggleInv, SensorInv
  <2>6. CancelInv'
    BY <1>2 DEF CalibDone, CalibPolled, Ready, CalibOver, boot, history,
                IInv, TypeOK, CalibInv, StateInv, CancelInv
  <2>7. QED
    BY <2>1, <2>2, <2>3, <2>4, <2>5, <2>6 DEF IInv
<1>3. ASSUME NEW on \in SUBSET Motors,
            CalibTimeout(on)
     PROVE  IInv'
  <2>1. TypeOK'
    <3>1. SetsOK'
      BY <1>3 DEF CalibTimeout, CalibPolled, Ready, CalibOver, boot, history,
                  IInv, TypeOK, SetsOK
    <3>2. FlagsOK'
      BY <1>3 DEF CalibTimeout, CalibPolled, Ready, CalibOver, boot, history,
                  IInv, TypeOK, FlagsOK
    <3>3. RestOK'
      BY <1>3, BoundAssumption DEF CalibTimeout, CalibPolled, Ready,
                                   CalibOver, boot, history, IInv, TypeOK,
                                   RestOK
    <3>4. QED
      BY <3>1, <3>2, <3>3 DEF TypeOK, SetsOK, FlagsOK, RestOK
  <2>2. CalibInv'
    BY <1>3 DEF CalibTimeout, CalibPolled, Ready, CalibOver, boot, history,
                IInv, TypeOK, CalibInv, StateInv
  <2>3. StateInv'
    BY <1>3 DEF CalibTimeout, CalibPolled, Ready, CalibOver, boot, history,
                IInv, TypeOK, CalibInv, StateInv, ToggleInv
  <2>4. ToggleInv'
    BY <1>3 DEF CalibTimeout, CalibPolled, Ready, CalibOver, boot, history,
                IInv, TypeOK, CalibInv, StateInv, ToggleInv
  <2>5. SensorInv'
    BY <1>3 DEF CalibTimeout, CalibPolled, Ready, CalibOver, boot, history,
                IInv, TypeOK, CalibInv, StateInv, ToggleInv, SensorInv
  <2>6. CancelInv'
    BY <1>3 DEF CalibTimeout, CalibPolled, Ready, CalibOver, boot, history,
                IInv, TypeOK, CalibInv, StateInv, CancelInv
  <2>7. QED
    BY <2>1, <2>2, <2>3, <2>4, <2>5, <2>6 DEF IInv
<1>4. CASE CalibFailed
  <2>1. TypeOK'
    <3>1. SetsOK'
      BY <1>4 DEF CalibFailed, CalibPolled, Ready, CalibOver, boot, history,
                  IInv, TypeOK, SetsOK
    <3>2. FlagsOK'
      BY <1>4 DEF CalibFailed, CalibPolled, Ready, CalibOver, boot, history,
                  IInv, TypeOK, FlagsOK
    <3>3. RestOK'
      BY <1>4, BoundAssumption DEF CalibFailed, CalibPolled, Ready,
                                   CalibOver, boot, history, IInv, TypeOK,
                                   RestOK
    <3>4. QED
      BY <3>1, <3>2, <3>3 DEF TypeOK, SetsOK, FlagsOK, RestOK
  <2>2. CalibInv'
    BY <1>4 DEF CalibFailed, CalibPolled, Ready, CalibOver, boot, history,
                IInv, TypeOK, CalibInv, StateInv
  <2>3. StateInv'
    BY <1>4 DEF CalibFailed, CalibPolled, Ready, CalibOver, boot, history,
                IInv, TypeOK, CalibInv, StateInv, ToggleInv
  <2>4. ToggleInv'
    BY <1>4 DEF CalibFailed, CalibPolled, Ready, CalibOver, boot, history,
                IInv, TypeOK, CalibInv, StateInv, ToggleInv
  <2>5. SensorInv'
    BY <1>4 DEF CalibFailed, CalibPolled, Ready, CalibOver, boot, history,
                IInv, TypeOK, CalibInv, StateInv, ToggleInv, SensorInv
  <2>6. CancelInv'
    BY <1>4 DEF CalibFailed, CalibPolled, Ready, CalibOver, boot, history,
                IInv, TypeOK, CalibInv, StateInv, CancelInv
  <2>7. QED
    BY <2>1, <2>2, <2>3, <2>4, <2>5, <2>6 DEF IInv
<1>5. CASE ReadyIdle
  <2>1. TypeOK'
    BY <1>5, BoundAssumption DEF ReadyIdle, Ready, shm, flags, calib, boot,
                                 worker, history, IInv, TypeOK
  <2>2. CalibInv'
    BY <1>5 DEF ReadyIdle, Ready, shm, flags, calib, boot, worker, history,
                IInv, TypeOK, CalibInv, StateInv
  <2>3. StateInv'
    BY <1>5 DEF ReadyIdle, Ready, shm, flags, calib, boot, worker, history,
                IInv, TypeOK, CalibInv, StateInv, ToggleInv
  <2>4. ToggleInv'
    BY <1>5 DEF ReadyIdle, Ready, shm, flags, calib, boot, worker, history,
                IInv, TypeOK, CalibInv, StateInv, ToggleInv
  <2>5. SensorInv'
    BY <1>5 DEF ReadyIdle, Ready, shm, flags, calib, boot, worker, history,
                IInv, TypeOK, CalibInv, StateInv, ToggleInv, SensorInv
  <2>6. CancelInv'
    BY <1>5 DEF ReadyIdle, Ready, shm, flags, calib, boot, worker, history,
                IInv, TypeOK, CalibInv, StateInv, CancelInv
  <2>7. QED
    BY <2>1, <2>2, <2>3, <2>4, <2>5, <2>6 DEF IInv
<1>6. QED
  BY <1>1, <1>2, <1>3, <1>4, <1>5

(* RUNNING.                                                                *)
LEMMA RunningKeeps ==
  ASSUME IInv,
         \/ RunningIdle
         \/ RelayCalibrate
         \/ BeginCancel
         \/ (\E ok, stopped \in SUBSET Motors : FinishCancel(ok, stopped))
  PROVE  IInv'
<1> USE DEF sensors
<1>1. CASE RunningIdle
  <2>1. TypeOK'
    BY <1>1, BoundAssumption DEF RunningIdle, shm, flags, calib, boot,
                                 worker, history, IInv, TypeOK
  <2>2. CalibInv'
    BY <1>1 DEF RunningIdle, shm, flags, calib, boot, worker, history, IInv,
                TypeOK, CalibInv, StateInv
  <2>3. StateInv'
    BY <1>1 DEF RunningIdle, shm, flags, calib, boot, worker, history, IInv,
                TypeOK, CalibInv, StateInv, ToggleInv
  <2>4. ToggleInv'
    BY <1>1 DEF RunningIdle, shm, flags, calib, boot, worker, history, IInv,
                TypeOK, CalibInv, StateInv, ToggleInv
  <2>5. SensorInv'
    BY <1>1 DEF RunningIdle, shm, flags, calib, boot, worker, history, IInv,
                TypeOK, CalibInv, StateInv, ToggleInv, SensorInv
  <2>6. CancelInv'
    BY <1>1 DEF RunningIdle, shm, flags, calib, boot, worker, history, IInv,
                TypeOK, CalibInv, StateInv, CancelInv
  <2>7. QED
    BY <2>1, <2>2, <2>3, <2>4, <2>5, <2>6 DEF IInv
<1>2. CASE RelayCalibrate
  <2>1. TypeOK'
    BY <1>2, BoundAssumption DEF RelayCalibrate, shm, calib, boot, history,
                                 IInv, TypeOK
  <2>2. CalibInv'
    BY <1>2 DEF RelayCalibrate, shm, calib, boot, history, IInv, TypeOK,
                CalibInv, StateInv
  <2>3. StateInv'
    BY <1>2 DEF RelayCalibrate, shm, calib, boot, history, IInv, TypeOK,
                CalibInv, StateInv, ToggleInv
  <2>4. ToggleInv'
    BY <1>2 DEF RelayCalibrate, shm, calib, boot, history, IInv, TypeOK,
                CalibInv, StateInv, ToggleInv
  <2>5. SensorInv'
    BY <1>2 DEF RelayCalibrate, shm, calib, boot, history, IInv, TypeOK,
                CalibInv, StateInv, ToggleInv, SensorInv
  <2>6. CancelInv'
    BY <1>2 DEF RelayCalibrate, shm, calib, boot, history, IInv, TypeOK,
                CalibInv, StateInv, CancelInv
  <2>7. QED
    BY <2>1, <2>2, <2>3, <2>4, <2>5, <2>6 DEF IInv
<1>3. CASE BeginCancel
  <2>1. TypeOK'
    BY <1>3, BoundAssumption DEF BeginCancel, shm, calib, boot, history,
                                 IInv, TypeOK
  <2>2. CalibInv'
    BY <1>3 DEF BeginCancel, shm, calib, boot, history, IInv, TypeOK,
                CalibInv, StateInv
  <2>3. StateInv'
    BY <1>3 DEF BeginCancel, shm, calib, boot, history, IInv, TypeOK,
                CalibInv, StateInv, ToggleInv
  <2>4. ToggleInv'
    BY <1>3 DEF BeginCancel, shm, calib, boot, history, IInv, TypeOK,
                CalibInv, StateInv, ToggleInv
  <2>5. SensorInv'
    BY <1>3 DEF BeginCancel, shm, calib, boot, history, IInv, TypeOK,
                CalibInv, StateInv, ToggleInv, SensorInv
  <2>6. CancelInv'
    BY <1>3 DEF BeginCancel, shm, calib, boot, history, IInv, TypeOK,
                CalibInv, StateInv, CancelInv
  <2>7. QED
    BY <2>1, <2>2, <2>3, <2>4, <2>5, <2>6 DEF IInv
<1>4. ASSUME NEW ok \in SUBSET Motors,
            NEW stopped \in SUBSET Motors,
            FinishCancel(ok, stopped)
     PROVE  IInv'
  <2>1. TypeOK'
    <3>1. SetsOK'
      BY <1>4 DEF FinishCancel, Cancelled, boot, IInv, TypeOK, SetsOK
    <3>2. FlagsOK'
      BY <1>4 DEF FinishCancel, Cancelled, boot, IInv, TypeOK, FlagsOK
    <3>3. RestOK'
      BY <1>4, BoundAssumption DEF FinishCancel, Cancelled, boot, IInv,
                                   TypeOK, RestOK
    <3>4. QED
      BY <3>1, <3>2, <3>3 DEF TypeOK, SetsOK, FlagsOK, RestOK
  <2>2. CalibInv'
    BY <1>4 DEF FinishCancel, Cancelled, boot, IInv, TypeOK, CalibInv,
                StateInv
  <2>3. StateInv'
    BY <1>4 DEF FinishCancel, Cancelled, boot, IInv, TypeOK, CalibInv,
                StateInv, ToggleInv
  <2>4. ToggleInv'
    BY <1>4 DEF FinishCancel, Cancelled, boot, IInv, TypeOK, CalibInv,
                StateInv, ToggleInv
  <2>5. SensorInv'
    BY <1>4 DEF FinishCancel, Cancelled, boot, IInv, TypeOK, CalibInv,
                StateInv, ToggleInv, SensorInv
  <2>6. CancelInv'
    BY <1>4 DEF FinishCancel, Cancelled, boot, IInv, TypeOK, CalibInv,
                StateInv, CancelInv
  <2>7. QED
    BY <2>1, <2>2, <2>3, <2>4, <2>5, <2>6 DEF IInv
<1>5. QED
  BY <1>1, <1>2, <1>3, <1>4

(* The RT thread, and who asks.                                            *)
LEMMA WorkerKeeps ==
  ASSUME IInv,
         \/ RtBegin
         \/ (\E s \in SUBSET Motors : RtEnd(s))
         \/ Request
  PROVE  IInv'
<1> USE DEF sensors
<1>1. CASE RtBegin
  <2>1. TypeOK'
    BY <1>1, BoundAssumption DEF RtBegin, shm, flags, calib, boot, worker,
                                 history, IInv, TypeOK
  <2>2. CalibInv'
    BY <1>1 DEF RtBegin, shm, flags, calib, boot, worker, history, IInv,
                TypeOK, CalibInv, StateInv
  <2>3. StateInv'
    BY <1>1 DEF RtBegin, shm, flags, calib, boot, worker, history, IInv,
                TypeOK, CalibInv, StateInv, ToggleInv
  <2>4. ToggleInv'
    BY <1>1 DEF RtBegin, shm, flags, calib, boot, worker, history, IInv,
                TypeOK, CalibInv, StateInv, ToggleInv
  <2>5. SensorInv'
    BY <1>1 DEF RtBegin, shm, flags, calib, boot, worker, history, IInv,
                TypeOK, CalibInv, StateInv, ToggleInv, SensorInv
  <2>6. CancelInv'
    BY <1>1 DEF RtBegin, shm, flags, calib, boot, worker, history, IInv,
                TypeOK, CalibInv, StateInv, CancelInv
  <2>7. QED
    BY <2>1, <2>2, <2>3, <2>4, <2>5, <2>6 DEF IInv
<1>2. ASSUME NEW s \in SUBSET Motors,
            RtEnd(s)
     PROVE  IInv'
  <2>1. TypeOK'
    BY <1>2, BoundAssumption DEF RtEnd, shm, flags, calib, boot, worker,
                                 history, IInv, TypeOK
  <2>2. CalibInv'
    BY <1>2 DEF RtEnd, shm, flags, calib, boot, worker, history, IInv,
                TypeOK, CalibInv, StateInv
  <2>3. StateInv'
    BY <1>2 DEF RtEnd, shm, flags, calib, boot, worker, history, IInv,
                TypeOK, CalibInv, StateInv, ToggleInv
  <2>4. ToggleInv'
    BY <1>2 DEF RtEnd, shm, flags, calib, boot, worker, history, IInv,
                TypeOK, CalibInv, StateInv, ToggleInv
  <2>5. SensorInv'
    BY <1>2 DEF RtEnd, shm, flags, calib, boot, worker, history, IInv,
                TypeOK, CalibInv, StateInv, ToggleInv, SensorInv
  <2>6. CancelInv'
    BY <1>2 DEF RtEnd, shm, flags, calib, boot, worker, history, IInv,
                TypeOK, CalibInv, StateInv, CancelInv
  <2>7. QED
    BY <2>1, <2>2, <2>3, <2>4, <2>5, <2>6 DEF IInv
<1>3. CASE Request
  <2>1. TypeOK'
    BY <1>3, BoundAssumption DEF Request, flags, calib, boot, worker, IInv,
                                 TypeOK
  <2>2. CalibInv'
    BY <1>3 DEF Request, flags, calib, boot, worker, IInv, TypeOK, CalibInv,
                StateInv
  <2>3. StateInv'
    BY <1>3 DEF Request, flags, calib, boot, worker, IInv, TypeOK, CalibInv,
                StateInv, ToggleInv
  <2>4. ToggleInv'
    BY <1>3 DEF Request, flags, calib, boot, worker, IInv, TypeOK, CalibInv,
                StateInv, ToggleInv
  <2>5. SensorInv'
    BY <1>3 DEF Request, flags, calib, boot, worker, IInv, TypeOK, CalibInv,
                StateInv, ToggleInv, SensorInv
  <2>6. CancelInv'
    BY <1>3 DEF Request, flags, calib, boot, worker, IInv, TypeOK, CalibInv,
                StateInv, CancelInv
  <2>7. QED
    BY <2>1, <2>2, <2>3, <2>4, <2>5, <2>6 DEF IInv
<1>4. QED
  BY <1>1, <1>2, <1>3

(* Every reachable state of the node satisfies the inductive invariant.    *)
THEOREM NodeInvariant == Spec => []IInv
<1>1. Init => IInv
  BY InitIInv
<1>2. IInv /\ [Next]_vars => IInv'
  <2>1. SUFFICES ASSUME IInv, [Next]_vars PROVE IInv'
    OBVIOUS
  <2>2. CASE Next
    BY <2>1, <2>2, RoundKeeps, BootKeeps, RequestKeeps, CalibrationKeeps,
       RunningKeeps, WorkerKeeps DEF Next, Loop
  <2>3. CASE UNCHANGED vars
    BY <2>1, <2>3 DEF vars, shm, sensors, flags, calib, boot, worker, history, IInv,
                      TypeOK, CalibInv, StateInv, ToggleInv, SensorInv,
                      CancelInv
  <2>4. QED
    BY <2>1, <2>2, <2>3
<1>3. QED
  BY <1>1, <1>2, PTL DEF Spec

-----------------------------------------------------------------------------
(* Every variable keeps to its domain; a calibration is given up after     *)
(* CalibPolls polls (motor_calib_poll).                                    *)
THEOREM NodeTypeOK == Spec => []TypeOK
<1>1. IInv => TypeOK
  BY DEF IInv
<1>2. QED
  BY <1>1, NodeInvariant, PTL

(* While motor_calib_t exists, and only then, calib_state is 1, and the RT *)
(* thread is switched off (poll_ready, RUNNING case of main_loop_run).     *)
THEOREM CalibrationExcludesRtHolds == Spec => []CalibrationExcludesRt
<1>1. IInv => CalibrationExcludesRt
  BY DEF IInv, TypeOK, CalibInv, CalibrationExcludesRt
<1>2. QED
  BY <1>1, NodeInvariant, PTL

(* No motor streams its sensors in a node that is not RUNNING with a       *)
(* calibration behind it, but for one that streamed when the last CANCEL   *)
(* failed to stop it; no report is on, and the loop's flags are clear      *)
(* (poll_common, poll_ready, motor_calib_poll and both CANCEL paths).      *)
THEOREM SensorFollowsCalibrationHolds == Spec => []SensorFollowsCalibration
<1>1. IInv => SensorFollowsCalibration
  BY DEF IInv, TypeOK, StateInv, SensorInv, SensorFollowsCalibration
<1>2. QED
  BY <1>1, NodeInvariant, PTL

(* After a CANCEL the motors it reached stay off until somebody else       *)
(* enables them or a calibration is tried (both CANCEL paths).             *)
THEOREM CancelHoldsHolds == Spec => []CancelHolds
<1>1. IInv => CancelHolds
  BY DEF IInv, TypeOK, CancelInv, CancelHolds
<1>2. QED
  BY <1>1, NodeInvariant, PTL

(* In RUNNING the toggle stands for the calibration (calib_toggle).        *)
THEOREM ToggleMatchesHolds == Spec => []ToggleMatches
<1>1. IInv => ToggleMatches
  BY DEF IInv, TypeOK, StateInv, ToggleInv, ToggleMatches
<1>2. QED
  BY <1>1, NodeInvariant, PTL

(* A RUNNING node has its RT thread started and active outside a CANCEL.   *)
THEOREM RunningIsActiveHolds == Spec => []RunningIsActive
<1>1. IInv => RunningIsActive
  BY DEF IInv, TypeOK, StateInv, RunningIsActive
<1>2. QED
  BY <1>1, NodeInvariant, PTL
=============================================================================
