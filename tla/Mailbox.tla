------------------------------ MODULE Mailbox -------------------------------
(***************************************************************************)
(* The command mailbox of the shared memory segment: a ring of Depth       *)
(* frames between the algorithm process (stark_client.h, the only writer)  *)
(* and the 1 kHz RT thread of the node (StarkRtWorker::ProcessMailbox, the *)
(* only reader).  No lock: the cursors seq_write and seq_read are atomics, *)
(* and a slot is cleared and filled in plain stores before seq_write moves *)
(* past it.                                                                *)
(*                                                                         *)
(* Each atomic access and each plain access to a slot is a step of its     *)
(* own.  The release/acquire pairs of the code order the plain accesses,   *)
(* so an interleaving of these steps is all a run can show.                *)
(*                                                                         *)
(* The node may crash at any point and boot again while the algorithm      *)
(* keeps its mapping of the segment: InitDispatcher zeroes the segment.    *)
(* The zeroing is one step here.                                           *)
(*                                                                         *)
(* "published" and "executed" are histories, the frames the client         *)
(* published and those the RT thread executed since the last boot, and     *)
(* "boots" counts boots.  What executing a frame does to a motor is the    *)
(* subject of module MotorControl.                                         *)
(***************************************************************************)
EXTENDS Integers, Sequences

CONSTANTS
  Depth,      \* STARK_MBOX_DEPTH, 8 in the code
  Frames,     \* the commands an algorithm sends
  Empty,      \* a zeroed frame: no motor id, executed without effect
  MaxCalls,   \* bound on the client's calls
  MaxBoots    \* bound on reboots of the node

ASSUME DepthAssumption == Depth \in Nat \ {0}
ASSUME EmptyAssumption == Empty \notin Frames
ASSUME BoundsAssumption == MaxCalls \in Nat /\ MaxBoots \in Nat

VARIABLES
  seqWrite, seqRead, slots,        \* stark_mailbox_t
  cpc, cw, cframe, cboot,          \* the client: control point, w, the command
  rpc, rr, rcount, rn,             \* the RT thread: control point, r, count, n
  active,                          \* StarkRtWorker::m_active
  published, executed, boots, calls

shm == <<seqWrite, seqRead, slots>>
client == <<cpc, cw, cframe, cboot>>
worker == <<rpc, rr, rcount, rn>>
history == <<published, executed, boots, calls>>
vars == <<shm, client, worker, active, history>>

Slot == 0 .. Depth - 1
At(seq) == seq % Depth

Init ==
  /\ seqWrite = 0 /\ seqRead = 0
  /\ slots = [i \in Slot |-> Empty]
  /\ cpc = "idle" /\ cw = 0 /\ cframe = Empty /\ cboot = 0
  /\ rpc = "idle" /\ rr = 0 /\ rcount = 0 /\ rn = 0
  /\ active = FALSE
  /\ published = <<>> /\ executed = <<>> /\ boots = 0 /\ calls = 0

-----------------------------------------------------------------------------
(* The client: any of the stark_torque, stark_pv, ... calls.               *)

CallCommand(f) ==
  /\ cpc = "idle" /\ calls < MaxCalls
  /\ cpc' = "loadWrite" /\ cframe' = f
  /\ calls' = calls + 1
  /\ UNCHANGED <<shm, cw, cboot, worker, active, published, executed, boots>>

(* _stark_mbox_begin: w, then r, and round again while the ring is full.   *)
LoadWrite ==
  /\ cpc = "loadWrite"
  /\ cw' = seqWrite /\ cboot' = boots
  /\ cpc' = "loadRead"
  /\ UNCHANGED <<shm, cframe, worker, active, history>>

(* Mutants: off by one; the distance to r forgotten.                       *)
FullOffByOne(w, r) == w - r > Depth
FullForEver(w, r) == r >= 0 /\ w >= Depth

(* w - r is unsigned: an r past w makes it huge.                            *)
Full(w, r) == r > w \/ w - r >= Depth

LoadRead ==
  /\ cpc = "loadRead"
  /\ cpc' = IF Full(cw, seqRead) THEN "loadWrite" ELSE "clear"
  /\ UNCHANGED <<shm, cw, cframe, cboot, worker, active, history>>

ClearSlot ==
  /\ cpc = "clear"
  /\ slots' = [slots EXCEPT ![At(cw)] = Empty]
  /\ cpc' = "fill"
  /\ UNCHANGED <<seqWrite, seqRead, cw, cframe, cboot, worker, active, history>>

(* Mutant: the command goes to the slot after the one cleared.             *)
FillNextSlot ==
  /\ cpc = "fill"
  /\ slots' = [slots EXCEPT ![At(cw + 1)] = cframe]
  /\ cpc' = "commit"
  /\ UNCHANGED <<seqWrite, seqRead, cw, cframe, cboot, worker, active, history>>

FillSlot ==
  /\ cpc = "fill"
  /\ slots' = [slots EXCEPT ![At(cw)] = cframe]
  /\ cpc' = "commit"
  /\ UNCHANGED <<seqWrite, seqRead, cw, cframe, cboot, worker, active, history>>

(* _stark_mbox_commit: an atomic increment, not a store of w + 1.  What it *)
(* publishes is whatever the slot of the old seq_write then holds.         *)
Commit ==
  /\ cpc = "commit"
  /\ seqWrite' = seqWrite + 1
  /\ published' = Append(published, slots[At(seqWrite)])
  /\ cpc' = "idle"
  /\ UNCHANGED <<seqRead, slots, cw, cframe, cboot, worker, active,
                 executed, boots, calls>>

ClientStep == LoadWrite \/ LoadRead \/ ClearSlot \/ FillSlot \/ Commit

-----------------------------------------------------------------------------
(* The RT thread: ProcessMailbox, called once a period.                    *)

RtLoadRead ==
  /\ rpc = "idle" /\ active
  /\ rr' = seqRead
  /\ rpc' = "loadWrite"
  /\ UNCHANGED <<shm, client, rcount, rn, active, history>>

(* Mutant: the frames are confirmed before they are copied.                *)
RtConfirmFirst ==
  /\ rpc = "loadWrite"
  /\ IF rr >= seqWrite
     THEN rpc' = "idle" /\ UNCHANGED <<seqRead, rcount, rn>>
     ELSE /\ rcount' = IF seqWrite - rr > Depth THEN Depth ELSE seqWrite - rr
          /\ rn' = 0 /\ rpc' = "execute"
          /\ seqRead' = rr + rcount'
  /\ UNCHANGED <<seqWrite, slots, client, rr, active, history>>

RtLoadWrite ==
  /\ rpc = "loadWrite"
  /\ IF rr >= seqWrite
     THEN rpc' = "idle" /\ UNCHANGED <<rcount, rn>>
     ELSE /\ rcount' = IF seqWrite - rr > Depth THEN Depth ELSE seqWrite - rr
          /\ rn' = 0
          /\ rpc' = "execute"
  /\ UNCHANGED <<shm, client, rr, active, history>>

RtExecute ==
  /\ rpc = "execute" /\ rn < rcount
  /\ executed' = Append(executed, slots[At(rr + rn)])
  /\ rn' = rn + 1
  /\ UNCHANGED <<shm, client, rpc, rr, rcount, active, published, boots, calls>>

(* Mutant: what came in during the copying is confirmed too.               *)
RtConfirmAll ==
  /\ rpc = "execute" /\ rn = rcount
  /\ seqRead' = seqWrite
  /\ rpc' = "idle"
  /\ UNCHANGED <<seqWrite, slots, client, rr, rcount, rn, active, history>>

RtConfirm ==
  /\ rpc = "execute" /\ rn = rcount
  /\ seqRead' = rr + rcount
  /\ rpc' = "idle"
  /\ UNCHANGED <<seqWrite, slots, client, rr, rcount, rn, active, history>>

RtStep == RtLoadRead \/ RtLoadWrite \/ RtExecute \/ RtConfirm

-----------------------------------------------------------------------------
(* The main loop switches the RT thread between active and idle; the node  *)
(* dies and boots again with the segment zeroed.                           *)

SetActive(b) ==
  /\ rpc # "down" /\ active # b
  /\ active' = b
  /\ UNCHANGED <<shm, client, worker, history>>

NodeCrash ==
  /\ rpc # "down" /\ boots < MaxBoots
  /\ rpc' = "down" /\ active' = FALSE
  /\ UNCHANGED <<shm, client, rr, rcount, rn, history>>

NodeBoot ==
  /\ rpc = "down"
  /\ seqWrite' = 0 /\ seqRead' = 0 /\ slots' = [i \in Slot |-> Empty]
  /\ rpc' = "idle" /\ rr' = 0 /\ rcount' = 0 /\ rn' = 0
  /\ published' = <<>> /\ executed' = <<>> /\ boots' = boots + 1
  /\ UNCHANGED <<client, active, calls>>

Next ==
  \/ \E f \in Frames : CallCommand(f)
  \/ LoadWrite \/ LoadRead \/ ClearSlot \/ FillSlot \/ Commit
  \/ RtLoadRead \/ RtLoadWrite \/ RtExecute \/ RtConfirm
  \/ \E b \in BOOLEAN : SetActive(b)
  \/ NodeCrash \/ NodeBoot

Spec == Init /\ [][Next]_vars

(* The client's thread runs, and so does the RT thread while it is active; *)
(* nothing makes the main loop activate it.                                *)
FairSpec == Spec /\ WF_vars(ClientStep) /\ WF_vars(RtStep) /\ WF_vars(NodeBoot)

-----------------------------------------------------------------------------
TypeOK ==
  /\ seqWrite \in Nat /\ seqRead \in Nat
  /\ slots \in [Slot -> Frames \cup {Empty}]
  /\ cpc \in {"idle", "loadWrite", "loadRead", "clear", "fill", "commit"}
  /\ cw \in Nat /\ cframe \in Frames \cup {Empty} /\ cboot \in Nat
  /\ rpc \in {"idle", "loadWrite", "execute", "down"}
  /\ rr \in Nat /\ rcount \in Nat /\ rn \in Nat
  /\ active \in BOOLEAN
  /\ published \in Seq(Frames \cup {Empty})
  /\ executed \in Seq(Frames \cup {Empty})
  /\ boots \in Nat /\ calls \in Nat

(* A call that a reboot has overtaken: its slot index belongs to the ring  *)
(* of the boot before.                                                     *)
Overtaken == cpc # "idle" /\ cpc # "loadWrite" /\ cboot # boots

(* No more frames wait than there are slots, so none is overwritten unread *)
(* (_stark_mbox_begin and _stark_mbox_commit against ProcessMailbox), also *)
(* when a reboot resets both cursors under a call in progress.             *)
NoOverrun == seqRead <= seqWrite /\ seqWrite - seqRead <= Depth

(* The w - r of _stark_mbox_begin is unsigned: a w loaded before a reboot  *)
(* or an older w than r never makes it wrap.                               *)
NoUnsignedWrap == cpc = "loadRead" => seqRead <= cw

(* The RT thread has no slot left to copy that the client is about to      *)
(* clear or fill: every frame ProcessMailbox reads is whole.               *)
NoTornFrame ==
  \A n \in 0 .. rcount - 1 :
    (rpc = "execute" /\ n >= rn /\ cpc \in {"clear", "fill"})
      => At(rr + n) # At(cw)

(* What a call publishes is the command it was called with, unless a       *)
(* reboot of the node has overtaken the call.                              *)
PublishesItsCommand ==
  (cpc = "commit" /\ ~Overtaken) => slots[At(seqWrite)] = cframe

(* The mailbox implements the bounded FIFO: first in first out, nothing    *)
(* lost, nothing twice, since the node last booted.                        *)
Channel == INSTANCE CommandChannel WITH
  Commands <- Frames \cup {Empty}, Capacity <- Depth,
  in <- published, out <- executed

ImplementsChannel == Channel!Spec

(* A call returns, provided the main loop finally leaves the RT thread     *)
(* active.                                                                 *)
CallReturns == <>[]active => (cpc # "idle" ~> cpc = "idle")
=============================================================================
