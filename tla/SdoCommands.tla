----------------------------- MODULE SdoCommands -----------------------------
(***************************************************************************)
(* The SDO commands of the algorithm to one motor (current, position,      *)
(* speed, torque calibration, MIT migration).  They come through the       *)
(* mailbox; the RT thread copies each into the motor's slot sdo_cmds and   *)
(* counts sdo_seq up.  The main loop polls the slot, runs the command as a *)
(* sequence of SDO calls (StarkMotorCtrl) that may take seconds, and       *)
(* acknowledges the sequence number it had loaded before it read the slot. *)
(*                                                                         *)
(* StarkMotorCtrl remembers in m_mode_cache the mode it last gave the      *)
(* drive and skips the write of a mode it believes to be set.              *)
(*                                                                         *)
(* An access to shared memory is a step, and so is an SDO call with what   *)
(* it does to the drive.  An SDO call succeeds, fails, or fails although   *)
(* the drive has obeyed, its answer being late or lost; what makes an      *)
(* answer the right one is module SdoClient's business.  External: the     *)
(* drive, whose power and mode others change as well: the frames of the RT *)
(* thread, the calibration, a restart of the motor.                        *)
(*                                                                         *)
(* Left out: profile speed and acceleration, whose failure the code        *)
(* ignores; the halt before a motion; the other motor, which has a slot    *)
(* and a mode of its own and can only empty this one's cache.              *)
(***************************************************************************)
EXTENDS Integers

CONSTANTS
  SeqMod,        \* sdo_seq and sdo_ack are uint8_t: 256
  Values,        \* what a command asks for
  Refused,       \* the values outside the range that StarkMotorCtrl accepts
  MaxForwards,   \* bound on commands
  MaxOthers      \* bound on changes that others make to the drive

Kinds == {"cur", "pos", "vel", "service"}
Modes == {"current", "profilePos", "profileVel", "other"}
ModeOf == [cur |-> "current", pos |-> "profilePos", vel |-> "profileVel"]

ASSUME SeqModAssumption == SeqMod \in Nat \ {0, 1}
ASSUME RefusedAssumption == Refused \subseteq Values
ASSUME BoundAssumption == MaxForwards \in Nat /\ MaxOthers \in Nat

VARIABLES
  slot, sdoSeq, sdoAck,      \* sdo_cmds, sdo_seq, sdo_ack of the motor
  rtpc, command, forwards,   \* the RT thread and the command it forwards
  pc, seq, kind, value,      \* the main loop and the command it runs
  cache,                     \* m_mode_cache of the motor
  drive, others,             \* its power, mode and last target; see OthersChange
  lastForwarded, unseen,     \* last command announced, how many unseen
  lastRun, stale             \* last command run; see TargetInMode

shm == <<slot, sdoSeq, sdoAck>>
worker == <<rtpc, command, forwards>>
loop == <<pc, seq, kind, value>>
history == <<lastForwarded, unseen, lastRun, stale>>
vars == <<shm, worker, loop, cache, drive, others, history>>

NoCommand == [kind |-> "none", value |-> "none"]
Command == [kind : Kinds, value : Values]

Init ==
  /\ slot = NoCommand /\ sdoSeq = 0 /\ sdoAck = 0
  /\ rtpc = "idle" /\ command = NoCommand /\ forwards = 0
  /\ pc = "idle" /\ seq = 0 /\ kind = "none" /\ value = "none"
  /\ cache = "none"
  /\ drive \in [enabled : BOOLEAN, mode : {"other"}, target : {NoCommand}]
  /\ others = 0
  /\ lastForwarded = NoCommand /\ unseen = 0
  /\ lastRun = [cmd |-> NoCommand, result |-> "none"] /\ stale = FALSE

-----------------------------------------------------------------------------
(* The RT thread: ProcessMailbox copies the command field by field, ...    *)

ForwardKind(c) ==
  /\ rtpc = "idle" /\ forwards < MaxForwards
  /\ slot' = [slot EXCEPT !.kind = c.kind]
  /\ command' = c
  /\ rtpc' = "value" /\ forwards' = forwards + 1
  /\ UNCHANGED <<sdoSeq, sdoAck, loop, cache, drive, others, history>>

ForwardValue ==
  /\ rtpc = "value"
  /\ slot' = [slot EXCEPT !.value = command.value]
  /\ rtpc' = "announce"
  /\ UNCHANGED <<sdoSeq, sdoAck, command, forwards, loop, cache, drive, others,
                 history>>

(* Mutant: the sequence does not wrap like the byte it is.                 *)
AnnounceWide ==
  /\ rtpc = "announce"
  /\ sdoSeq' = sdoSeq + 1
  /\ rtpc' = "idle" /\ command' = NoCommand
  /\ lastForwarded' = command /\ unseen' = unseen + 1
  /\ UNCHANGED <<slot, sdoAck, forwards, loop, cache, drive, others, lastRun,
                 stale>>

(* ... then counts the sequence up.                                        *)
Announce ==
  /\ rtpc = "announce"
  /\ sdoSeq' = (sdoSeq + 1) % SeqMod
  /\ rtpc' = "idle" /\ command' = NoCommand
  /\ lastForwarded' = command /\ unseen' = unseen + 1
  /\ UNCHANGED <<slot, sdoAck, forwards, loop, cache, drive, others, lastRun,
                 stale>>

-----------------------------------------------------------------------------
(* The main loop: poll_sdo_commands.                                       *)

Goto(label) == pc' = label /\ UNCHANGED <<seq, kind, value>>
OnlyTheDrive == UNCHANGED <<shm, worker, others, lastForwarded, unseen>>

LoadSeq ==
  /\ pc = "idle" /\ sdoSeq # sdoAck
  /\ seq' = sdoSeq /\ unseen' = 0
  /\ pc' = "kind"
  /\ UNCHANGED <<shm, worker, kind, value, cache, drive, others, lastForwarded,
                 lastRun, stale>>

ReadKind ==
  /\ pc = "kind"
  /\ kind' = slot.kind
  /\ pc' = "value"
  /\ UNCHANGED <<seq, value, cache, drive, lastRun, stale>> /\ OnlyTheDrive

(* What the command came to is known: it will be acknowledged.             *)
Finish(result) ==
  /\ lastRun' = [cmd |-> [kind |-> kind, value |-> value'], result |-> result]
  /\ pc' = "ack"

(* The value is read after the kind, and checked before anything is sent.  *)
(* A torque calibration or MIT migration leaves power and mode alone.      *)
ReadValue ==
  /\ pc = "value"
  /\ value' = slot.value
  /\ IF kind = "service" \/ slot.value \in Refused
     THEN Finish("skipped")
     ELSE pc' = "state" /\ UNCHANGED lastRun
  /\ UNCHANGED <<seq, kind, cache, drive, stale>> /\ OnlyTheDrive

Fail == UNCHANGED <<seq, kind, value>> /\ Finish("failed")
Continue(label) == Goto(label) /\ UNCHANGED lastRun

(* motor_hal_get_state: a drive that does not answer counts as disabled.   *)
ReadState(answers) ==
  /\ pc = "state"
  /\ Continue(IF answers /\ drive.enabled THEN "mode" ELSE "enable")
  /\ UNCHANGED <<cache, drive, stale>> /\ OnlyTheDrive

(* motor_hal_enable: three writes to the controlword; if one fails, the    *)
(* drive may be left with power or without.                                *)
Enable(ok, power) ==
  /\ pc = "enable"
  /\ ok => power
  /\ drive' = [drive EXCEPT !.enabled = power]
  /\ IF ok
     THEN cache' = "none" /\ stale' = FALSE /\ Continue("mode")
     ELSE UNCHANGED <<cache, stale>> /\ Fail
  /\ OnlyTheDrive

(* Mutants: the mode counts as set before the drive has confirmed it; a    *)
(* mode that is not confirmed ends the call, and the poll with it.         *)
CacheAnyway(ok, obeyed) ==
  /\ pc = "mode" /\ cache # ModeOf[kind]
  /\ ok => obeyed
  /\ drive' = [drive EXCEPT !.mode = IF obeyed THEN ModeOf[kind] ELSE @]
  /\ cache' = ModeOf[kind]
  /\ IF ok THEN stale' = FALSE /\ Continue("target")
     ELSE /\ stale' = (stale \/ obeyed)
          /\ IF kind = "vel" THEN Continue("target") ELSE Fail
  /\ OnlyTheDrive

NoAckAfterFailure(ok, obeyed) ==
  /\ pc = "mode" /\ cache # ModeOf[kind]
  /\ ok => obeyed
  /\ drive' = [drive EXCEPT !.mode = IF obeyed THEN ModeOf[kind] ELSE @]
  /\ IF ok THEN cache' = ModeOf[kind] /\ stale' = FALSE /\ Continue("target")
     ELSE UNCHANGED cache /\ stale' = (stale \/ obeyed) /\ Continue("idle")
  /\ OnlyTheDrive

(* _set_mode_cached writes a mode that is not in the cache.  If that fails, *)
(* Torque and AbsPositionEx give up, SpeedEx goes on.                      *)
SetMode(ok, obeyed) ==
  /\ pc = "mode" /\ cache # ModeOf[kind]
  /\ ok => obeyed
  /\ drive' = [drive EXCEPT !.mode = IF obeyed THEN ModeOf[kind] ELSE @]
  /\ IF ok THEN cache' = ModeOf[kind] /\ stale' = FALSE /\ Continue("target")
     ELSE /\ UNCHANGED cache /\ stale' = (stale \/ obeyed)
          /\ IF kind = "vel" THEN Continue("target") ELSE Fail
  /\ OnlyTheDrive

SkipMode ==
  /\ pc = "mode" /\ cache = ModeOf[kind]
  /\ Continue("target")
  /\ UNCHANGED <<cache, drive, stale>> /\ OnlyTheDrive

(* The target; a position starts to be approached by a write of its own.   *)
WriteTarget(ok, obeyed) ==
  /\ pc = "target"
  /\ ok => obeyed
  /\ drive' = [drive EXCEPT !.target =
       IF obeyed THEN [kind |-> kind, value |-> value] ELSE @]
  /\ IF ~ok THEN Fail
     ELSE IF kind = "pos" THEN Continue("start")
     ELSE UNCHANGED <<seq, kind, value>> /\ Finish("done")
  /\ UNCHANGED <<cache, stale>> /\ OnlyTheDrive

StartMotion(ok) ==
  /\ pc = "start"
  /\ UNCHANGED <<seq, kind, value>> /\ Finish(IF ok THEN "done" ELSE "failed")
  /\ UNCHANGED <<cache, drive, stale>> /\ OnlyTheDrive

(* Mutant: the sequence is read again for the acknowledgement.             *)
AckLatest ==
  /\ pc = "ack"
  /\ sdoAck' = sdoSeq
  /\ pc' = "idle" /\ seq' = 0 /\ kind' = "none" /\ value' = "none"
  /\ UNCHANGED <<slot, sdoSeq, worker, cache, drive, others, history>>

Ack ==
  /\ pc = "ack"
  /\ sdoAck' = seq
  /\ pc' = "idle" /\ seq' = 0 /\ kind' = "none" /\ value' = "none"
  /\ UNCHANGED <<slot, sdoSeq, worker, cache, drive, others, history>>

MainStep ==
  \/ LoadSeq \/ ReadKind \/ ReadValue \/ SkipMode \/ Ack
  \/ \E ok, effect \in BOOLEAN :
       \/ Enable(ok, effect) \/ SetMode(ok, effect) \/ WriteTarget(ok, effect)
  \/ \E ok \in BOOLEAN : ReadState(ok) \/ StartMotion(ok)

-----------------------------------------------------------------------------
(* Whoever else changes the power or the mode of the drive.                *)
OthersChange(power, mode) ==
  /\ others < MaxOthers
  /\ others' = others + 1
  /\ drive' = [drive EXCEPT !.enabled = power, !.mode = mode]
  /\ stale' = (stale \/ mode # drive.mode)
  /\ UNCHANGED <<shm, worker, loop, cache, lastForwarded, unseen, lastRun>>

Next ==
  \/ \E c \in Command : ForwardKind(c)
  \/ ForwardValue \/ Announce
  \/ LoadSeq \/ ReadKind \/ ReadValue \/ SkipMode \/ Ack
  \/ \E ok, effect \in BOOLEAN :
       \/ Enable(ok, effect) \/ SetMode(ok, effect) \/ WriteTarget(ok, effect)
  \/ \E ok \in BOOLEAN : ReadState(ok) \/ StartMotion(ok)
  \/ \E power \in BOOLEAN, mode \in Modes : OthersChange(power, mode)

Spec == Init /\ [][Next]_vars

(* The main loop goes round, and each SDO call ends at its deadline.       *)
FairSpec == Spec /\ WF_vars(MainStep)

-----------------------------------------------------------------------------
TypeOK ==
  /\ slot \in [kind : Kinds \cup {"none"}, value : Values \cup {"none"}]
  /\ sdoSeq \in 0 .. SeqMod - 1 /\ sdoAck \in 0 .. SeqMod - 1
  /\ rtpc \in {"idle", "value", "announce"}
  /\ command \in Command \cup {NoCommand} /\ forwards \in 0 .. MaxForwards
  /\ pc \in {"idle", "kind", "value", "state", "enable", "mode", "target",
             "start", "ack"}
  /\ seq \in 0 .. SeqMod - 1
  /\ kind \in Kinds \cup {"none"} /\ value \in Values \cup {"none"}
  /\ cache \in Modes \cup {"none"}
  /\ drive \in [enabled : BOOLEAN, mode : Modes,
                target : Command \cup {NoCommand}]
  /\ others \in 0 .. MaxOthers /\ unseen \in 0 .. MaxForwards
  /\ lastForwarded \in Command \cup {NoCommand} /\ stale \in BOOLEAN
  /\ lastRun.cmd \in Command \cup {NoCommand}
  /\ lastRun.result \in {"none", "skipped", "failed", "done"}

(* When the slot is acknowledged and no command is on its way, the last    *)
(* command that was forwarded is the last one run, whole, and if it went   *)
(* well its target is the one the drive holds: whatever poll_sdo_commands  *)
(* read of a slot that ProcessMailbox was writing is made good.  The byte  *)
(* sdo_seq must not have come round meanwhile.                             *)
LastForwardedRuns ==
  (sdoSeq = sdoAck /\ pc = "idle" /\ rtpc = "idle" /\ unseen < SeqMod)
    => /\ lastRun.cmd = lastForwarded
       /\ lastRun.result = "done" => drive.target = lastForwarded

(* A current or position target goes to a drive in its mode, unless the    *)
(* mode was changed behind the cache, by others or by a write whose answer *)
(* was lost (Torque and AbsPositionEx with _set_mode_cached).              *)
TargetInMode ==
  (pc = "target" /\ kind # "vel" /\ ~stale) => drive.mode = ModeOf[kind]

(* A command in the slot is acknowledged, whatever its SDO calls return.   *)
CommandIsAcked == sdoSeq # sdoAck ~> sdoSeq = sdoAck

-----------------------------------------------------------------------------
(* "Idempotent: the mode has not changed" (_set_mode_cached): the write of *)
(* the mode is skipped only for a drive that is in that mode.              *)
CachedModeIsSet ==
  (pc = "mode" /\ cache = ModeOf[kind]) => drive.mode = ModeOf[kind]
=============================================================================
