---------------------------- MODULE MotorControl ----------------------------
(***************************************************************************)
(* What the commands of the algorithm do to one motor: the management slot *)
(* (enable, disable, estop, recover, clear fault), the frames of the       *)
(* mailbox, the RT thread that serves both once a period, the control byte *)
(* pdo_byte0 that motor_hal keeps, and the drive at the other end of the   *)
(* CAN bus.                                                                *)
(*                                                                         *)
(* The slot is written by the algorithm process (stark_client.h: plain     *)
(* store of the command, atomic increment of the sequence) and by the      *)
(* debug web server (plain store, then load and store of the sequence).    *)
(* The RT thread loads the sequence, then reads the command, acts on it    *)
(* and acknowledges the sequence it loaded.  Each of these accesses is a   *)
(* step.  The mailbox is the FIFO that module Mailbox implements.  The     *)
(* other motors have slots of their own and share nothing with this one.   *)
(*                                                                         *)
(* pdo_byte0 and m->enabled change under hal->lock, so each motor_hal call *)
(* is one step, with the frame it sends; a frame may be lost on the bus.   *)
(* The main loop switches the drive as well, with control words over SDO.  *)
(* External: the drive, which takes the enable, bus and clear bits of every*)
(* frame that reaches it, and power from a control word as from a frame:   *)
(* the last that reaches it counts.  Modes and targets are left out.       *)
(***************************************************************************)
EXTENDS Integers, Sequences

CONSTANTS
  MboxDepth,        \* STARK_MBOX_DEPTH
  SeqMod,           \* mgmt_seq and mgmt_ack are uint8_t: 256
  MgmtCalls,        \* the management commands the algorithm uses
  FrameKinds,       \* the kinds of mailbox frame the algorithm uses
  WebCommands,      \* the management commands that come from the web page
  SdoPowers,        \* what the main loop's control words do: power on, off
  MaxCalls, MaxWeb, MaxLoss  \* bounds on the environment

MgmtCommands == {"enable", "disable", "estop", "recover", "clearFault"}
Kinds == {"control", "mit", "mitMulti"} \cup MgmtCommands

ASSUME SeqModAssumption == SeqMod \in Nat \ {0, 1}
ASSUME CommandAssumption ==
  /\ MgmtCalls \subseteq MgmtCommands /\ WebCommands \subseteq MgmtCommands
  /\ FrameKinds \subseteq Kinds /\ SdoPowers \subseteq BOOLEAN
ASSUME BoundAssumption ==
  {MboxDepth, MaxCalls, MaxWeb, MaxLoss} \subseteq Nat

VARIABLES
  mgmtCmd, mgmtSeq, mgmtAck,   \* the motor's management slot in stark_shm_t
  mbox,                        \* the mailbox frames not yet executed
  hal,                         \* motor_node_t: pdo_byte0, enabled, clr_err_pending
  active,                      \* StarkRtWorker::m_active
  rpc, rseq, rcmd, todo,       \* the RT thread
  apc, calls,                  \* the algorithm: in a management call, or dead
  wpc, wseq, webs,             \* the web server: in a management request
  phase,                       \* main(): running, then its shutdown steps
  drive, losses,               \* the drive's power, bus and clear bit
  bySdo,                       \* a control word was the last to set its power
  lastExecuted, unseen,        \* last command executed, announced since RT looked
  lastWritten, raced,          \* last command stored; the two writers overlapped
  estop                        \* the last call was ESTOP, and the mailbox empty

slot == <<mgmtCmd, mgmtSeq, mgmtAck>>
worker == <<rpc, rseq, rcmd, todo>>
callers == <<apc, calls, wpc, wseq, webs>>
bus == <<drive, losses, bySdo>>
seen == <<lastExecuted, unseen>>
said == <<lastWritten, raced, estop>>
vars == <<slot, mbox, hal, active, worker, callers, phase, bus, seen, said>>

Frame(en, busOn, clr) == [en |-> en, bus |-> busOn, clr |-> clr]

Init ==
  /\ mgmtCmd = "none" /\ mgmtSeq = 0 /\ mgmtAck = 0 /\ mbox = <<>>
  /\ hal = [en |-> FALSE, bus |-> FALSE, clr |-> FALSE,
            enabled |-> FALSE, pending |-> FALSE]
  /\ active = FALSE /\ rpc = "idle" /\ rseq = 0 /\ rcmd = "none" /\ todo = 0
  /\ apc = "idle" /\ calls = 0 /\ wpc = "idle" /\ wseq = 0 /\ webs = 0
  /\ phase = "run"
  /\ drive = Frame(FALSE, FALSE, FALSE) /\ losses = 0 /\ bySdo = FALSE
  /\ lastExecuted = "none" /\ unseen = 0
  /\ lastWritten = "none" /\ raced = FALSE /\ estop = "no"

-----------------------------------------------------------------------------
(* motor_hal: the control byte.                                            *)

PdoEnable(h) == [h EXCEPT !.en = TRUE, !.bus = TRUE, !.enabled = TRUE]
PdoDisable(h) == [h EXCEPT !.en = FALSE, !.enabled = FALSE]
PdoClearFault(h) == [h EXCEPT !.clr = TRUE, !.pending = TRUE]

PdoEstop(h) ==
  [h EXCEPT !.en = FALSE, !.bus = FALSE, !.clr = FALSE, !.enabled = FALSE,
            !.pending = FALSE]
PdoRecover(h) ==
  [h EXCEPT !.en = TRUE, !.bus = TRUE, !.clr = FALSE, !.enabled = TRUE,
            !.pending = FALSE]

(* Mutant: the clear bit stays in the byte.                                *)
ConsumeKeepsBit(h) == [h EXCEPT !.pending = FALSE]

(* _consume_pdo_byte0: a pending clear bit is dropped before the byte is   *)
(* handed to the frame.                                                    *)
Consume(h) == [h EXCEPT !.clr = @ /\ ~h.pending, !.pending = FALSE]

(* motor_hal_mit_control consumes the byte and switches the motor on.      *)
MitControl(h) ==
  [Consume(h) EXCEPT !.en = TRUE, !.bus = TRUE, !.enabled = TRUE]
Byte0(h) == Frame(h.en, h.bus, h.clr)

-----------------------------------------------------------------------------
(* The bus: a frame arrives or is lost.                                    *)

Send(f) ==
  \/ drive' = f /\ bySdo' = FALSE /\ UNCHANGED losses
  \/ losses < MaxLoss /\ losses' = losses + 1 /\ UNCHANGED <<drive, bySdo>>

-----------------------------------------------------------------------------
(* The algorithm process.                                                  *)

(* _stark_mgmt_cmd: the command is stored first, ...                       *)
StoreCommand(c) ==
  /\ apc = "idle" /\ calls < MaxCalls
  /\ mgmtCmd' = c
  /\ apc' = "bump" /\ calls' = calls + 1
  /\ lastWritten' = c
  /\ estop' = IF c # "estop" THEN "no"
              ELSE IF mbox = <<>> THEN "alone" ELSE "behindFrames"
  /\ raced' = (raced \/ wpc # "idle")
  /\ UNCHANGED <<mgmtSeq, mgmtAck, mbox, hal, active, worker, wpc, wseq, webs,
                 phase, bus, seen>>

(* Mutant: the sequence does not wrap like the byte it is.                 *)
BumpWide ==
  /\ apc = "bump"
  /\ mgmtSeq' = mgmtSeq + 1
  /\ unseen' = unseen + 1
  /\ apc' = "idle"
  /\ UNCHANGED <<mgmtCmd, mgmtAck, mbox, hal, active, worker, calls, wpc, wseq,
                 webs, phase, bus, lastExecuted, said>>

(* ... then announced.                                                     *)
BumpSeq ==
  /\ apc = "bump"
  /\ mgmtSeq' = (mgmtSeq + 1) % SeqMod
  /\ unseen' = unseen + 1
  /\ apc' = "idle"
  /\ UNCHANGED <<mgmtCmd, mgmtAck, mbox, hal, active, worker, calls, wpc, wseq,
                 webs, phase, bus, lastExecuted, said>>

(* stark_torque, stark_multi, ...: a frame in the mailbox.                 *)
PutFrame(k) ==
  /\ apc = "idle" /\ calls < MaxCalls
  /\ Len(mbox) < MboxDepth
  /\ mbox' = Append(mbox, k)
  /\ calls' = calls + 1
  /\ estop' = "no"
  /\ UNCHANGED <<slot, hal, active, worker, apc, wpc, wseq, webs, phase, bus,
                 seen, lastWritten, raced>>

(* The process ends, in the middle of a call or between two.               *)
AlgoDies ==
  /\ apc # "dead"
  /\ apc' = "dead"
  /\ UNCHANGED <<slot, mbox, hal, active, worker, calls, wpc, wseq, webs,
                 phase, bus, seen, said>>

-----------------------------------------------------------------------------
(* The web server: mgmt_cmd = c; mgmt_seq++ on a volatile byte.            *)

WebStore(c) ==
  /\ wpc = "idle" /\ webs < MaxWeb
  /\ mgmtCmd' = c
  /\ wpc' = "load" /\ webs' = webs + 1
  /\ lastWritten' = c /\ estop' = "no"
  /\ raced' = (raced \/ apc = "bump")
  /\ UNCHANGED <<mgmtSeq, mgmtAck, mbox, hal, active, worker, apc, calls, wseq,
                 phase, bus, seen>>

WebLoadSeq ==
  /\ wpc = "load"
  /\ wseq' = mgmtSeq
  /\ wpc' = "store"
  /\ UNCHANGED <<slot, mbox, hal, active, worker, apc, calls, webs, phase, bus,
                 seen, said>>

WebStoreSeq ==
  /\ wpc = "store"
  /\ mgmtSeq' = (wseq + 1) % SeqMod
  /\ unseen' = unseen + 1
  /\ wpc' = "idle" /\ wseq' = 0
  /\ UNCHANGED <<mgmtCmd, mgmtAck, mbox, hal, active, worker, apc, calls, webs,
                 phase, bus, lastExecuted, said>>

-----------------------------------------------------------------------------
(* The RT thread.  ProcessMgmt: load the sequence, read the command, act.  *)

RtLoadSeq ==
  /\ rpc = "idle" /\ phase = "run"
  /\ IF active /\ mgmtSeq # mgmtAck
     THEN rpc' = "read" /\ rseq' = mgmtSeq /\ unseen' = 0
     ELSE rpc' = "mailbox" /\ UNCHANGED <<rseq, unseen>>
  /\ UNCHANGED <<slot, mbox, hal, active, rcmd, todo, callers, phase, bus,
                 lastExecuted, said>>

RtReadCommand ==
  /\ rpc = "read"
  /\ rcmd' = mgmtCmd
  /\ rpc' = "execute"
  /\ UNCHANGED <<slot, mbox, hal, active, rseq, todo, callers, phase, bus,
                 seen, said>>

(* Mutants: the sequence is read again for the acknowledgement; there is   *)
(* none.                                                                   *)
AcknowledgeLatest ==
  /\ mgmtAck' = mgmtSeq /\ lastExecuted' = rcmd
  /\ rpc' = "mailbox" /\ rseq' = 0
  /\ UNCHANGED <<mgmtCmd, mgmtSeq, mbox, todo, unseen>>

NoAcknowledge ==
  /\ lastExecuted' = rcmd
  /\ rpc' = "mailbox" /\ rseq' = 0
  /\ UNCHANGED <<slot, mbox, todo, unseen>>

Acknowledge ==
  /\ mgmtAck' = rseq /\ lastExecuted' = rcmd
  /\ rpc' = "mailbox" /\ rseq' = 0
  /\ UNCHANGED <<mgmtCmd, mgmtSeq, mbox, todo, unseen>>

NextFrame ==
  /\ mbox' = Tail(mbox) /\ todo' = todo - 1
  /\ rpc' = "frames"
  /\ UNCHANGED <<slot, rseq, seen>>

(* A command of the slot is acknowledged; one of a mailbox frame is not:   *)
(* ProcessMailbox goes on to the next frame.                               *)
Complete ==
  /\ rcmd' = "none"
  /\ IF todo = 0 THEN Acknowledge ELSE NextFrame

(* ENABLE and RECOVER send nothing: a later frame carries the byte.        *)
RtEnable ==
  /\ rpc = "execute" /\ rcmd \in {"enable", "recover"}
  /\ hal' = IF rcmd = "enable" THEN PdoEnable(hal) ELSE PdoRecover(hal)
  /\ Complete
  /\ UNCHANGED <<active, callers, phase, bus, said>>

(* DISABLE and ESTOP clear the byte, ...                                   *)
RtDisable ==
  /\ rpc = "execute" /\ rcmd \in {"disable", "estop"}
  /\ hal' = IF rcmd = "disable" THEN PdoDisable(hal) ELSE PdoEstop(hal)
  /\ rpc' = "off"
  /\ UNCHANGED <<slot, mbox, active, rseq, rcmd, todo, callers, phase, bus,
                 seen, said>>

(* Mutant: ESTOP sends the frame of DISABLE, which leaves the bus on.      *)
RtDisableOnly ==
  /\ rpc = "off"
  /\ Send(Frame(FALSE, TRUE, FALSE))
  /\ Complete
  /\ UNCHANGED <<hal, active, callers, phase, said>>

(* ... then send a frame that says off.                                    *)
RtOffFrame ==
  /\ rpc = "off"
  /\ Send(Frame(FALSE, rcmd = "disable", FALSE))
  /\ Complete
  /\ UNCHANGED <<hal, active, callers, phase, said>>

(* CLEAR_FAULT: pdo_clear_fault, ...                                       *)
RtClearFault ==
  /\ rpc = "execute" /\ rcmd = "clearFault"
  /\ hal' = PdoClearFault(hal)
  /\ rpc' = "clear"
  /\ UNCHANGED <<slot, mbox, active, rseq, rcmd, todo, callers,
                 phase, bus, seen, said>>

(* ... pdo_enable, ...                                                     *)
RtClearEnable ==
  /\ rpc = "clear"
  /\ hal' = PdoEnable(hal)
  /\ rpc' = "clearFrame"
  /\ UNCHANGED <<slot, mbox, active, rseq, rcmd, todo, callers,
                 phase, bus, seen, said>>

(* ... then motor_hal_ctrl_raw with the byte it consumes, if still enabled. *)
RtClearFrame ==
  /\ rpc = "clearFrame"
  /\ hal' = Consume(hal)
  /\ IF hal.enabled THEN Send(Byte0(hal')) ELSE UNCHANGED bus
  /\ Complete
  /\ UNCHANGED <<active, callers, phase, said>>

(* ProcessMailbox: how many frames wait, then one after the other.         *)
RtLoadMailbox ==
  /\ rpc = "mailbox"
  /\ todo' = IF active THEN Len(mbox) ELSE 0
  /\ rpc' = "frames"
  /\ UNCHANGED <<slot, mbox, hal, active, rseq, rcmd, callers, phase, bus,
                 seen, said>>

(* A frame with a management command runs it as ProcessMgmt does.          *)
RtFrameCommand ==
  /\ rpc = "frames" /\ todo > 0 /\ Head(mbox) \in MgmtCommands
  /\ rcmd' = Head(mbox)
  /\ rpc' = "execute"
  /\ UNCHANGED <<slot, mbox, hal, active, rseq, todo, callers, phase, bus,
                 seen, said>>

(* The frames of motor_hal_multi_ctrl carry the flags of their caller, not *)
(* pdo_byte0; that _pdo_send_with_switch may send one twice changes        *)
(* nothing here.  SET_MODE frames touch the mode bits only and are left out. *)
ExecuteFrame(k) ==
  \/ k = "control" /\ Send(Frame(TRUE, TRUE, FALSE)) /\ UNCHANGED hal
  \/ k = "mit" /\ hal' = MitControl(hal) /\ Send(Byte0(hal'))
  \/ /\ k = "mitMulti" /\ UNCHANGED hal
     /\ IF hal.enabled THEN Send(Frame(TRUE, FALSE, FALSE)) ELSE UNCHANGED bus

RtFrame ==
  /\ rpc = "frames" /\ todo > 0
  /\ ExecuteFrame(Head(mbox))
  /\ NextFrame
  /\ UNCHANGED <<active, rcmd, callers, phase, said>>

RtPeriodEnds ==
  /\ rpc = "frames" /\ todo = 0
  /\ rpc' = "idle"
  /\ UNCHANGED <<slot, mbox, hal, active, rseq, rcmd, todo, callers, phase, bus,
                 seen, said>>

RtStep ==
  \/ RtLoadSeq \/ RtReadCommand \/ RtEnable \/ RtDisable \/ RtOffFrame
  \/ RtClearFault \/ RtClearEnable \/ RtClearFrame
  \/ RtLoadMailbox \/ RtFrameCommand \/ RtFrame \/ RtPeriodEnds

-----------------------------------------------------------------------------
(* The rest of the node.                                                   *)

SetActive(b) ==
  /\ phase = "run" /\ active # b
  /\ active' = b
  /\ UNCHANGED <<slot, mbox, hal, worker, callers, phase, bus, seen, said>>

(* Control words of the main loop.  motor_hal_enable, motor_hal_disable and*)
(* the startup of a motor with auto_enable note the new power in m->enabled*)
(* when all words were answered; a call that fails on the way, the         *)
(* calibration and CANCEL switch the drive and note nothing.  pdo_byte0    *)
(* stays as it is.                                                         *)
SdoPower(power) ==
  /\ phase = "run"
  /\ drive' = [drive EXCEPT !.en = power] /\ bySdo' = TRUE
  /\ hal' \in {hal, [hal EXCEPT !.enabled = power]}
  /\ UNCHANGED <<slot, mbox, active, worker, callers, phase, losses, seen,
                 said>>

(* The startup of a motor without auto_enable sends no control word.       *)
StartedOff ==
  /\ phase = "run" /\ hal.enabled
  /\ hal' = [hal EXCEPT !.enabled = FALSE]
  /\ UNCHANGED <<slot, mbox, active, worker, callers, phase, bus, seen, said>>

(* main(): its loop has ended, the RT thread finishes its period and is    *)
(* joined, ...                                                             *)
StopRt ==
  /\ phase = "run" /\ rpc = "idle"
  /\ phase' = "joined"
  /\ UNCHANGED <<slot, mbox, hal, active, worker, callers, bus, seen, said>>

(* ... and DestroyDispatcher stops the motor: motor_hal_pdo_estop, ...     *)
DestroyEstop ==
  /\ phase = "joined"
  /\ hal' = PdoEstop(hal)
  /\ phase' = "estopped"
  /\ UNCHANGED <<slot, mbox, active, worker, callers, bus, seen,
                 said>>

(* ... then motor_hal_set_torque(0), which gives up on a motor that is not *)
(* enabled.                                                                *)
DestroyTorque ==
  /\ phase = "estopped"
  /\ hal' = Consume(hal)
  /\ IF hal.enabled THEN Send(Byte0(hal')) ELSE UNCHANGED bus
  /\ phase' = "down"
  /\ UNCHANGED <<slot, mbox, active, worker, callers, seen, said>>

Next ==
  \/ \E c \in MgmtCalls : StoreCommand(c)
  \/ BumpSeq
  \/ \E k \in FrameKinds : PutFrame(k)
  \/ AlgoDies
  \/ \E c \in WebCommands : WebStore(c)
  \/ WebLoadSeq \/ WebStoreSeq
  \/ RtLoadSeq \/ RtReadCommand \/ RtEnable \/ RtDisable \/ RtOffFrame
  \/ RtClearFault \/ RtClearEnable \/ RtClearFrame
  \/ RtLoadMailbox \/ RtFrameCommand \/ RtFrame \/ RtPeriodEnds
  \/ \E b \in BOOLEAN : SetActive(b)
  \/ \E power \in SdoPowers : SdoPower(power)
  \/ StartedOff
  \/ StopRt \/ DestroyEstop \/ DestroyTorque

Spec == Init /\ [][Next]_vars

(* The RT thread has its period and a web request under way goes on; the   *)
(* algorithm owes nobody a step.                                           *)
FairSpec ==
  Spec /\ WF_vars(RtStep) /\ WF_vars(WebLoadSeq \/ WebStoreSeq)

-----------------------------------------------------------------------------
TypeOK ==
  /\ mgmtCmd \in MgmtCommands \cup {"none"}
  /\ mgmtSeq \in 0 .. SeqMod - 1 /\ mgmtAck \in 0 .. SeqMod - 1
  /\ mbox \in Seq(FrameKinds) /\ Len(mbox) <= MboxDepth
  /\ hal \in [en : BOOLEAN, bus : BOOLEAN, clr : BOOLEAN,
              enabled : BOOLEAN, pending : BOOLEAN]
  /\ active \in BOOLEAN
  /\ rpc \in {"idle", "read", "execute", "off", "clear", "clearFrame",
              "mailbox", "frames"}
  /\ rseq \in 0 .. SeqMod - 1 /\ rcmd \in MgmtCommands \cup {"none"}
  /\ todo \in 0 .. Len(mbox)
  /\ apc \in {"idle", "bump", "dead"} /\ wpc \in {"idle", "load", "store"}
  /\ wseq \in 0 .. SeqMod - 1
  /\ phase \in {"run", "joined", "estopped", "down"}
  /\ drive \in [en : BOOLEAN, bus : BOOLEAN, clr : BOOLEAN] /\ bySdo \in BOOLEAN
  /\ raced \in BOOLEAN /\ estop \in {"no", "alone", "behindFrames"}
  /\ calls \in Nat /\ webs \in Nat /\ losses \in Nat /\ unseen \in Nat
  /\ lastWritten \in MgmtCommands \cup {"none"}
  /\ lastExecuted \in MgmtCommands \cup {"none"}

(* No call under way, the RT thread between two periods, nothing waiting.  *)
Quiet ==
  /\ apc = "idle" /\ wpc = "idle" /\ rpc = "idle"
  /\ mgmtSeq = mgmtAck /\ mbox = <<>>

(* The writers kept to the protocol: they did not overlap, and fewer than  *)
(* 256 commands came while the RT thread was idle.                         *)
SlotRespected == ~raced /\ unseen < SeqMod

(* When the slot is acknowledged, the last command written to it is the    *)
(* last one executed: ProcessMgmt may skip a command that a later one has  *)
(* overwritten, or run one twice, but ends with the latest.                *)
LastCommandWins ==
  (Quiet /\ SlotRespected) => lastExecuted = lastWritten

(* Once the RT thread has taken an ESTOP that is the algorithm's last call *)
(* and found the mailbox empty, the drive is off and its bus too, unless   *)
(* the frame was lost (ProcessMgmt, STARK_CMD_ESTOP).  Only a control word *)
(* that the main loop sent after that frame can have given it power again: *)
(* no frame does, and no control word from before the ESTOP outlasts it.   *)
EstopAloneHolds ==
  (Quiet /\ SlotRespected /\ estop = "alone" /\ losses = 0)
    => (drive.en => bySdo) /\ ~drive.bus

(* The clear bit of pdo_byte0 is there only while its pulse is pending, so *)
(* no later frame repeats it (motor_hal_pdo_clear_fault, _estop, _recover  *)
(* and _consume_pdo_byte0 together).                                       *)
ClearIsAPulse == hal.clr <=> hal.pending

(* A command in the slot is acknowledged, as long as the main loop leaves  *)
(* the RT thread active and the node is not shut down.                     *)
CommandIsTaken ==
  <>[](active /\ phase = "run")
    => (mgmtSeq # mgmtAck ~> mgmtSeq = mgmtAck)

-----------------------------------------------------------------------------
(* "Estop: PDO disable and bus off" (stark_client.h): once the RT thread   *)
(* has taken the algorithm's last call, an ESTOP, the drive is off.        *)
EstopHolds ==
  (Quiet /\ SlotRespected /\ estop # "no" /\ losses = 0) => ~drive.en

(* "Clear fault: the PDO clear bit" (stark_client.h), "cleared after one   *)
(* frame" (motor_hal_types.h): the frame that CLEAR_FAULT sends carries    *)
(* the clear bit to the drive.                                             *)
ClearBitIsSent ==
  [][(rpc = "clearFrame" /\ rpc' # rpc /\ hal.enabled /\ losses' = losses)
       => drive'.clr]_vars

(* "Send the PDO frame: enable = 0, torque = 0" (motor_init.cpp): after    *)
(* the shutdown the drive is off.                                          *)
ShutdownDisables == (phase = "down" /\ losses = 0) => ~drive.en
=============================================================================
