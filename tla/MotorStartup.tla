----------------------------- MODULE MotorStartup -----------------------------
(***************************************************************************)
(* Bringing the motors up and down over SDO, and the lock of motor_hal.    *)
(*                                                                         *)
(* The receiving thread marks a motor whose bootup message arrives         *)
(* (pending_startup) and delivers the answers of SDO calls; it never takes *)
(* hal->lock.  All SDO calls that switch a drive are the main loop's: once *)
(* a round it starts the marked motors (motor_hal_process_pending_startups)*)
(* and gives the lock back for the SDO calls; motor_hal_enable, _disable   *)
(* and _fault_reset keep the lock for theirs; the calibration and CANCEL   *)
(* write control words without the lock and without m->enabled.  The RT    *)
(* thread takes the lock to set m->enabled, and then sends its frame.      *)
(*                                                                         *)
(* External: the drives.  They take a control word as DS402 says (in a     *)
(* fault, only the reset), take power from a frame of the RT thread, may   *)
(* fall into a fault, may lose power and come back, and a request to them  *)
(* or its answer may be lost.                                              *)
(*                                                                         *)
(* Left out: the SDO calls of a startup whose result is ignored (watchdog, *)
(* firmware version, profile, TPDO1), the up to 500 ms a startup waits for *)
(* the bootup message, that the calibration writes each word to both motors*)
(* before the next word, and motor_hal_startup, which nothing in the node  *)
(* calls.  That answers reach the call they belong to is SdoClient's       *)
(* business.                                                               *)
(***************************************************************************)
EXTENDS Integers, FiniteSets

CONSTANTS
  Motors,       \* the registered motors
  AutoEnable,   \* those with auto_enable
  MaxCommands,  \* bound on commands, calibrations, CANCELs and what the RT
                \* thread does to a motor's power, together
  MaxFaults     \* bound on lost SDO frames, faults and power failures

ASSUME MotorsAssumption == IsFiniteSet(Motors) /\ AutoEnable \subseteq Motors
ASSUME BoundAssumption == {MaxCommands, MaxFaults} \subseteq Nat

VARIABLES
  drive,              \* the DS402 state of each drive
  booting,            \* bootup messages on their way
  state,              \* m->state
  enabled, pending,   \* m->enabled, m->pending_startup
  lock,               \* hal->lock, as the main loop holds it
  job,                \* the main loop: the call it is in, for which motor,
                      \* and how many SDO writes it has still to make
  sdo,                \* its SDO write
  suspect, touched,   \* history, see FlagMatchesDrive
  commands, faults

node == <<state, enabled>>
history == <<suspect, touched>>
bounds == <<commands, faults>>
vars == <<drive, booting, node, pending, lock, job, sdo, history, bounds>>

Locked == {"enable", "disable", "reset"}  \* the calls that hold the lock
Raw == {"rawOn", "rawOff"}                \* calibration and CANCEL
Operations == Locked \cup Raw \cup {"auto"}

(* The operations that note the power they give in m->enabled.             *)
Notes(o, m) == o \in {"enable", "disable"} \/ (o = "auto" /\ m \in AutoEnable)

(* The SDO writes of motor_startup_full, motor_startup_enable,             *)
(* motor_hal_disable, motor_hal_fault_reset, motor_calib_start,            *)
(* motor_calib_poll, motor_calib_exit and CANCEL: how many, and which is   *)
(* next when n are left.                                                   *)
Writes(o, m) ==
  CASE o \in {"disable", "rawOff", "reset"} -> 1
    [] o \in {"enable", "rawOn"} -> 3
    [] o = "auto" -> IF m \in AutoEnable THEN 4 ELSE 1

Word(o, m, n) ==
  CASE o \in {"disable", "rawOff"} -> "shutdown"
    [] o = "reset" -> "faultReset"
    [] o = "auto" /\ (n = 4 \/ m \notin AutoEnable) -> "heartbeat"
    [] OTHER -> IF n = 3 THEN "shutdown" ELSE IF n = 2 THEN "switchOn"
                ELSE "enableOp"

(* What a drive does with a write.                                         *)
Takes(d, w) ==
  CASE w = "shutdown" -> IF d \in {"off", "fault"} THEN d ELSE "ready"
    [] w = "switchOn" -> IF d \in {"ready", "on", "op"} THEN "on" ELSE d
    [] w = "enableOp" -> IF d \in {"on", "op"} THEN "op" ELSE d
    [] w = "faultReset" -> IF d = "off" THEN d ELSE "disabled"
    [] OTHER -> d

Idle == [op |-> "none"]
Job(o, m) == [op |-> o, motor |-> m, left |-> Writes(o, m)]

(* A call for m is in progress.                                            *)
Busy(m) == job # Idle /\ job.motor = m

(* A call that notes the power it gives settles whatever was amiss with m, *)
(* unless its drive is in a fault; one that does not touches m.            *)
Begin(o, m) ==
  /\ job' = Job(o, m)
  /\ IF Notes(o, m)
     THEN /\ suspect' = IF drive[m] = "fault" THEN suspect ELSE suspect \ {m}
          /\ touched' = touched \ {m}
     ELSE /\ touched' = IF o = "auto" THEN touched ELSE touched \cup {m}
          /\ UNCHANGED suspect

Init ==
  /\ drive \in [Motors -> {"off", "disabled", "op", "fault"}]
  /\ booting = {}
  /\ state = [m \in Motors |-> "notReady"]
  /\ enabled = {} /\ pending = {}
  /\ lock = "free" /\ job = Idle /\ sdo = "none"
  /\ suspect = {m \in Motors : drive[m] \in {"op", "fault"}} /\ touched = {}
  /\ commands = 0 /\ faults = 0

-----------------------------------------------------------------------------
(* The drives and the receiving thread.                                    *)

PowerOff(m) ==
  /\ drive[m] # "off" /\ faults < MaxFaults
  /\ drive' = [drive EXCEPT ![m] = "off"]
  /\ booting' = booting \ {m}
  /\ suspect' = suspect \cup {m} /\ faults' = faults + 1
  /\ UNCHANGED <<node, pending, lock, job, sdo, touched, commands>>

(* The drive switches itself off; m->enabled and m->state do not follow.   *)
Fault(m) ==
  /\ drive[m] \notin {"off", "fault"} /\ faults < MaxFaults
  /\ drive' = [drive EXCEPT ![m] = "fault"]
  /\ suspect' = suspect \cup {m} /\ faults' = faults + 1
  /\ UNCHANGED <<booting, node, pending, lock, job, sdo, touched, commands>>

(* A motor the node has neither started nor enabled is as good as new.     *)
PowerOn(m) ==
  /\ drive[m] = "off"
  /\ drive' = [drive EXCEPT ![m] = "disabled"]
  /\ booting' = booting \cup {m}
  /\ suspect' = IF state[m] = "notReady" /\ m \notin enabled /\ ~Busy(m)
                THEN suspect \ {m} ELSE suspect
  /\ UNCHANGED <<node, pending, lock, job, sdo, touched, bounds>>

(* case 0x700 of _dispatch_frame.                                          *)
Bootup(m) ==
  /\ m \in booting
  /\ booting' = booting \ {m}
  /\ pending' = IF state[m] = "notReady" THEN pending \cup {m} ELSE pending
  /\ UNCHANGED <<drive, node, lock, job, sdo, history, bounds>>

(* Mutant: the receiving thread takes the lock to deliver an answer.       *)
AnswerUnderLock ==
  /\ sdo = "answered" /\ lock = "free"
  /\ sdo' = "none" /\ job' = [job EXCEPT !.left = @ - 1]
  /\ UNCHANGED <<drive, booting, node, pending, lock, history, bounds>>

(* case 0x580: the answer wakes the main loop, which goes on to its next   *)
(* write.                                                                  *)
Answer ==
  /\ sdo = "answered"
  /\ sdo' = "none" /\ job' = [job EXCEPT !.left = @ - 1]
  /\ UNCHANGED <<drive, booting, node, pending, lock, history, bounds>>

-----------------------------------------------------------------------------
(* SDO writes.                                                             *)

(* fate: what becomes of the request and of its answer.                    *)
Request(fate) ==
  /\ job # Idle /\ sdo = "none" /\ job.left > 0
  /\ fate # "arrives" => faults < MaxFaults
  /\ LET m == job.motor IN
       /\ drive' = IF fate = "lost" THEN drive
                   ELSE [drive EXCEPT
                           ![m] = Takes(@, Word(job.op, m, job.left))]
       /\ sdo' = IF fate = "arrives" /\ drive[m] # "off"
                 THEN "answered" ELSE "silence"
       /\ IF fate = "arrives" THEN UNCHANGED <<suspect, faults>>
          ELSE suspect' = suspect \cup {m} /\ faults' = faults + 1
  /\ UNCHANGED <<booting, node, pending, lock, job, touched, commands>>

(* Mutant: the error return forgets to unlock.                             *)
GiveUpLocked ==
  /\ sdo = "silence"
  /\ sdo' = "none"
  /\ job' = IF job.op \in Raw THEN [job EXCEPT !.left = @ - 1] ELSE Idle
  /\ suspect' = suspect \cup {job.motor}
  /\ UNCHANGED <<drive, booting, node, pending, lock, touched, bounds>>

(* No answer by the deadline: the call returns the error and changes no    *)
(* field; the lock, if it is held, is given back.  The calibration and     *)
(* CANCEL go on to their next write.                                       *)
GiveUp ==
  /\ sdo = "silence"
  /\ sdo' = "none"
  /\ job' = IF job.op \in Raw THEN [job EXCEPT !.left = @ - 1] ELSE Idle
  /\ lock' = "free"
  /\ suspect' = suspect \cup {job.motor}
  /\ UNCHANGED <<drive, booting, node, pending, touched, bounds>>

-----------------------------------------------------------------------------
(* motor_hal_process_pending_startups, in poll_common.                     *)

(* Mutant: one mark for all motors.                                        *)
StartPendingAll(m) ==
  /\ job = Idle /\ m \in pending
  /\ lock = "free" /\ state[m] = "notReady"
  /\ pending' = {}
  /\ Begin("auto", m)
  /\ UNCHANGED <<drive, booting, node, lock, sdo, bounds>>

(* Every round looks at every motor: the visit that finds nothing to do    *)
(* changes nothing.                                                        *)
StartPending(m) ==
  /\ job = Idle /\ m \in pending
  /\ lock = "free" /\ state[m] = "notReady"
  /\ pending' = pending \ {m}
  /\ Begin("auto", m)
  /\ UNCHANGED <<drive, booting, node, lock, sdo, bounds>>

(* Mutant: the enabled flag is set whatever auto_enable says.              *)
StartedEnabled ==
  /\ job.op = "auto" /\ job.left = 0 /\ lock = "free"
  /\ enabled' = enabled \cup {job.motor}
  /\ state' = [state EXCEPT ![job.motor] = "opEnabled"]
  /\ job' = Idle
  /\ UNCHANGED <<drive, booting, pending, lock, sdo, history, bounds>>

(* The flags are set without a look at what the RT thread set meanwhile.   *)
Started ==
  /\ job.op = "auto" /\ job.left = 0 /\ lock = "free"
  /\ LET m == job.motor IN
       IF m \in AutoEnable
       THEN /\ enabled' = enabled \cup {m}
            /\ state' = [state EXCEPT ![m] = "opEnabled"]
       ELSE /\ enabled' = enabled \ {m}
            /\ state' = [state EXCEPT ![m] = "switchOnDisabled"]
  /\ job' = Idle
  /\ UNCHANGED <<drive, booting, pending, lock, sdo, history, bounds>>

-----------------------------------------------------------------------------
(* motor_hal_enable, _disable, _fault_reset: under the lock from the first *)
(* write to the last; the reset leaves m->enabled as it was.               *)

Command(o, m) ==
  /\ job = Idle /\ lock = "free" /\ commands < MaxCommands
  /\ lock' = "main"
  /\ Begin(o, m)
  /\ commands' = commands + 1
  /\ UNCHANGED <<drive, booting, node, pending, sdo, faults>>

Done ==
  /\ job.op \in Locked /\ job.left = 0
  /\ LET m == job.motor IN
       /\ enabled' = CASE job.op = "enable" -> enabled \cup {m}
                       [] job.op = "disable" -> enabled \ {m}
                       [] OTHER -> enabled
       /\ state' = [state EXCEPT
                      ![m] = CASE job.op = "enable" -> "opEnabled"
                               [] job.op = "disable" -> "readyToSwitchOn"
                               [] OTHER -> "switchOnDisabled"]
  /\ lock' = "free" /\ job' = Idle
  /\ UNCHANGED <<drive, booting, pending, sdo, history, bounds>>

(* The calibration switches a motor off and on, CANCEL switches it off,    *)
(* and neither notes it in m->enabled or m->state.                         *)
RawWords(o, m) ==
  /\ job = Idle /\ commands < MaxCommands
  /\ Begin(o, m)
  /\ commands' = commands + 1
  /\ UNCHANGED <<drive, booting, node, pending, lock, sdo, faults>>

RawDone ==
  /\ job.op \in Raw /\ job.left = 0
  /\ job' = Idle
  /\ UNCHANGED <<drive, booting, node, pending, lock, sdo, history, bounds>>

-----------------------------------------------------------------------------
(* The RT thread.                                                          *)

(* motor_hal_pdo_enable, _recover and motor_hal_mit_control set m->enabled,*)
(* _disable and _estop clear it; motor_hal_pdo_enable sets m->state too.   *)
RtCall(m, on) ==
  /\ lock = "free" /\ commands < MaxCommands
  /\ enabled' = IF on THEN enabled \cup {m} ELSE enabled \ {m}
  /\ UNCHANGED state \/ (on /\ state' = [state EXCEPT ![m] = "opEnabled"])
  /\ touched' = touched \cup {m} /\ commands' = commands + 1
  /\ UNCHANGED <<drive, booting, pending, lock, job, sdo, suspect, faults>>

(* A frame, sent when the lock is given back, switches the drive.          *)
RtFrame(m, d) ==
  /\ drive[m] \notin {"off", "fault"} /\ commands < MaxCommands
  /\ drive' = [drive EXCEPT ![m] = d]
  /\ touched' = touched \cup {m} /\ commands' = commands + 1
  /\ UNCHANGED <<booting, node, pending, lock, job, sdo, suspect, faults>>

-----------------------------------------------------------------------------
Fates == {"arrives", "lost", "answerLost"}

Environment == \E m \in Motors : PowerOff(m) \/ Fault(m) \/ PowerOn(m)
Receive == (\E m \in Motors : Bootup(m)) \/ Answer
Caller == (\E f \in Fates : Request(f)) \/ GiveUp \/ Done \/ RawDone
Poll == (\E m \in Motors : StartPending(m)) \/ Started
Commands ==
  \E m \in Motors :
    (\E o \in Locked : Command(o, m)) \/ (\E o \in Raw : RawWords(o, m))
RtThread ==
  \E m \in Motors :
    \/ \E on \in BOOLEAN : RtCall(m, on)
    \/ \E d \in {"ready", "op"} : RtFrame(m, d)

Next == Environment \/ Receive \/ Caller \/ Poll \/ Commands \/ RtThread

(* Every thread goes on; every round of the main loop looks at all motors, *)
(* and it gets the lock if it is free again and again.                     *)
Spec ==
  /\ Init /\ [][Next]_vars
  /\ WF_vars(Receive) /\ WF_vars(Caller) /\ SF_vars(Poll)

-----------------------------------------------------------------------------
DriveStates == {"off", "disabled", "ready", "on", "op", "fault"}

TypeOK ==
  /\ drive \in [Motors -> DriveStates]
  /\ state \in [Motors -> {"notReady", "switchOnDisabled", "readyToSwitchOn",
                           "opEnabled"}]
  /\ booting \subseteq Motors /\ enabled \subseteq Motors
  /\ pending \subseteq Motors
  /\ suspect \subseteq Motors /\ touched \subseteq Motors
  /\ lock \in {"free", "main"} /\ (lock = "main" <=> job.op \in Locked)
  /\ job # Idle => /\ job.op \in Operations /\ job.motor \in Motors
                   /\ job.left \in 0 .. 4
  /\ sdo \in {"none", "answered", "silence"}

(* m->enabled is set exactly when the drive is in Operation Enabled, from  *)
(* the end of each motor_hal_enable, motor_hal_disable and startup with    *)
(* auto_enable, whatever was amiss before, until something comes between.  *)
(* Suspect are the motors an SDO frame to which was lost, that fell into a *)
(* fault (no call looks at the statusword) or lost their power; touched are*)
(* those whose power the calibration, CANCEL or a fault reset has changed  *)
(* since without a note in the flag, or whose flag or power the RT thread  *)
(* has changed, also in the middle of the call: of these the flag says     *)
(* nothing.                                                                *)
FlagMatchesDrive ==
  \A m \in Motors \ (suspect \cup touched) :
    ~Busy(m) => (m \in enabled <=> drive[m] = "op")

(* A motor whose bootup message was noted is started, or a command (the    *)
(* fault reset too) or the RT thread's ENABLE has set m->state, which drops*)
(* the mark; unless a frame is lost, the drive falls into a fault or the   *)
(* power fails.  pending_startup is neither lost nor starved by commands.  *)
Marked(m) == m \in pending /\ state[m] = "notReady" /\ m \notin suspect
BootupIsServed ==
  \A m \in Motors : Marked(m) ~> (state[m] # "notReady" \/ m \in suspect)

(* The lock comes back (the RT thread takes it for every control frame)    *)
(* though the main loop holds it across its SDO calls: the receiving       *)
(* thread, which ends them, does not need it.                              *)
LockComesBack == lock # "free" ~> lock = "free"
=============================================================================
