--------------------------- MODULE MailboxProofs ----------------------------
(***************************************************************************)
(* The command mailbox is safe for every ring size, set of commands and    *)
(* number of calls and reboots.                                            *)
(***************************************************************************)
EXTENDS Mailbox, TLAPS

(* A call with a slot in hand, or about to compare the cursors, knows the  *)
(* write cursor: nobody else moves it.  A call that a reboot has overtaken *)
(* finds both cursors at zero until it commits.                            *)
ClientInv ==
  /\ cpc \in {"loadRead", "clear", "fill", "commit"} =>
       IF cboot = boots THEN cw = seqWrite ELSE seqWrite = 0 /\ seqRead = 0
  /\ cpc \in {"clear", "fill", "commit"} => seqWrite - seqRead < Depth
  /\ (cpc = "commit" /\ cboot = boots) => slots[At(seqWrite)] = cframe

(* The RT thread has executed exactly the frames up to its place in the    *)
(* batch, and the batch lies inside what is published.                     *)
WorkerInv ==
  /\ rpc \in {"idle", "loadWrite"} => Len(executed) = seqRead
  /\ rpc \in {"loadWrite", "execute"} => rr = seqRead
  /\ rpc = "execute" =>
       /\ rn <= rcount /\ rr + rcount <= seqWrite
       /\ Len(executed) = rr + rn
  /\ rpc = "down" => seqRead <= Len(executed) /\ Len(executed) <= seqWrite

(* Every slot between the cursors still holds the frame published in it.   *)
RingInv ==
  /\ seqWrite = Len(published)
  /\ \A i \in Nat : (seqRead <= i /\ i < seqWrite) =>
                      slots[At(i)] = published[i + 1]

IInv == TypeOK /\ NoOverrun /\ ClientInv /\ WorkerInv /\ RingInv

-----------------------------------------------------------------------------
(* A sequence number falls on a slot of the ring.                          *)
LEMMA SlotInRange == \A i \in Nat : At(i) \in Slot
  BY DepthAssumption DEF At, Slot

(* Two sequence numbers less than a ring apart fall on different slots.    *)
LEMMA SlotsDiffer ==
  ASSUME NEW i \in Nat, NEW j \in Nat, i < j, j - i < Depth
  PROVE  At(i) # At(j)
<1> DEFINE p == i \div Depth
           q == j \div Depth
<1>1. /\ p \in Int /\ q \in Int
      /\ i = Depth * p + At(i) /\ j = Depth * q + At(j)
  BY DepthAssumption DEF At
<1> HIDE DEF p, q
<1>2. SUFFICES ASSUME At(i) = At(j) PROVE FALSE
  OBVIOUS
<1>3. j - i = Depth * (q - p)
  BY <1>1, <1>2, DepthAssumption DEF At
<1>4. CASE q - p <= 0
  BY <1>1, <1>3, <1>4, DepthAssumption
<1>5. CASE q - p >= 1
  BY <1>1, <1>3, <1>5, DepthAssumption
<1>6. QED
  BY <1>1, <1>4, <1>5

-----------------------------------------------------------------------------
(* The mailbox is well typed and its inductive invariant holds initially.  *)
LEMMA InitIInv == Init => IInv
  BY DepthAssumption
     DEF Init, IInv, TypeOK, Slot, NoOverrun, ClientInv, WorkerInv, RingInv

(* The client's steps keep the inductive invariant.                        *)
LEMMA ClientKeepsIInv ==
  ASSUME IInv, (\E f \in Frames : CallCommand(f)) \/ ClientStep
  PROVE  IInv'
<1> USE DepthAssumption
<1>1. ASSUME NEW f \in Frames, CallCommand(f) PROVE IInv'
  BY <1>1 DEF CallCommand, IInv, TypeOK, NoOverrun, ClientInv, WorkerInv,
              RingInv, shm, worker
<1>2. CASE LoadWrite
  BY <1>2 DEF LoadWrite, IInv, TypeOK, NoOverrun, ClientInv, WorkerInv,
              RingInv, shm, worker, history
<1>3. CASE LoadRead
  BY <1>3 DEF LoadRead, Full, IInv, TypeOK, NoOverrun, ClientInv, WorkerInv,
              RingInv, shm, worker, history
<1>4. CASE ClearSlot
  <2>1. TypeOK'
    BY <1>4, SlotInRange DEF ClearSlot, IInv, TypeOK, worker, history
  <2>2. RingInv'
    <3>1. SUFFICES ASSUME NEW i \in Nat, seqRead <= i, i < seqWrite
                   PROVE  slots'[At(i)] = published[i + 1]
      BY <1>4 DEF ClearSlot, IInv, RingInv, history
    <3>2. cboot = boots
      BY <1>4, <3>1 DEF ClearSlot, IInv, TypeOK, ClientInv
    <3>3. At(i) # At(cw)
      BY <1>4, <3>1, <3>2, SlotsDiffer DEF ClearSlot, IInv, TypeOK, ClientInv
    <3>4. QED
      BY <1>4, <3>1, <3>3, SlotInRange DEF ClearSlot, IInv, TypeOK, RingInv
  <2>3. NoOverrun' /\ ClientInv' /\ WorkerInv'
    BY <1>4 DEF ClearSlot, IInv, TypeOK, NoOverrun, ClientInv, WorkerInv,
                worker, history
  <2>4. QED
    BY <2>1, <2>2, <2>3 DEF IInv
<1>5. CASE FillSlot
  <2>1. TypeOK'
    BY <1>5, SlotInRange DEF FillSlot, IInv, TypeOK, worker, history
  <2>2. RingInv'
    <3>1. SUFFICES ASSUME NEW i \in Nat, seqRead <= i, i < seqWrite
                   PROVE  slots'[At(i)] = published[i + 1]
      BY <1>5 DEF FillSlot, IInv, RingInv, history
    <3>2. cboot = boots
      BY <1>5, <3>1 DEF FillSlot, IInv, TypeOK, ClientInv
    <3>3. At(i) # At(cw)
      BY <1>5, <3>1, <3>2, SlotsDiffer DEF FillSlot, IInv, TypeOK, ClientInv
    <3>4. QED
      BY <1>5, <3>1, <3>3, SlotInRange DEF FillSlot, IInv, TypeOK, RingInv
  <2>3. ClientInv'
    BY <1>5, SlotInRange DEF FillSlot, IInv, TypeOK, ClientInv, worker, history
  <2>4. NoOverrun' /\ WorkerInv'
    BY <1>5 DEF FillSlot, IInv, TypeOK, NoOverrun, WorkerInv, worker, history
  <2>5. QED
    BY <2>1, <2>2, <2>3, <2>4 DEF IInv
<1>6. CASE Commit
  <2>1. slots[At(seqWrite)] \in Frames \cup {Empty}
    BY SlotInRange DEF IInv, TypeOK
  <2>2. TypeOK'
    BY <1>6, <2>1 DEF Commit, IInv, TypeOK, worker
  <2>3. NoOverrun' /\ ClientInv' /\ WorkerInv'
    BY <1>6 DEF Commit, IInv, TypeOK, NoOverrun, ClientInv, WorkerInv, worker
  <2>4. RingInv'
    <3>1. seqWrite' = Len(published')
      BY <1>6, <2>1 DEF Commit, IInv, TypeOK, RingInv
    <3>2. ASSUME NEW i \in Nat, seqRead <= i, i < seqWrite + 1
          PROVE  slots[At(i)] = published'[i + 1]
      BY <1>6, <2>1, <3>2 DEF Commit, IInv, TypeOK, RingInv
    <3>3. QED
      BY <1>6, <3>1, <3>2 DEF Commit, RingInv
  <2>5. QED
    BY <2>2, <2>3, <2>4 DEF IInv
<1>7. QED
  BY <1>1, <1>2, <1>3, <1>4, <1>5, <1>6 DEF ClientStep

(* The RT thread's steps keep the inductive invariant.                     *)
LEMMA WorkerKeepsIInv ==
  ASSUME IInv, RtStep
  PROVE  IInv'
<1> USE DepthAssumption
<1>1. CASE RtLoadRead
  BY <1>1 DEF RtLoadRead, IInv, TypeOK, NoOverrun, ClientInv, WorkerInv,
              RingInv, shm, client, history
<1>2. CASE RtLoadWrite
  BY <1>2 DEF RtLoadWrite, IInv, TypeOK, NoOverrun, ClientInv, WorkerInv,
              RingInv, shm, client, history
<1>3. CASE RtExecute
  <2>1. slots[At(rr + rn)] \in Frames \cup {Empty}
    BY SlotInRange DEF IInv, TypeOK
  <2>2. TypeOK'
    BY <1>3, <2>1 DEF RtExecute, IInv, TypeOK, shm, client
  <2>3. WorkerInv'
    BY <1>3, <2>1 DEF RtExecute, IInv, TypeOK, WorkerInv, shm
  <2>4. NoOverrun' /\ ClientInv' /\ RingInv'
    BY <1>3 DEF RtExecute, IInv, NoOverrun, ClientInv, RingInv, shm, client
  <2>5. QED
    BY <2>2, <2>3, <2>4 DEF IInv
<1>4. CASE RtConfirm
  BY <1>4 DEF RtConfirm, IInv, TypeOK, NoOverrun, ClientInv, WorkerInv,
              RingInv, client, history
<1>5. QED
  BY <1>1, <1>2, <1>3, <1>4 DEF RtStep

(* Activation, a crash and a boot keep the inductive invariant.            *)
LEMMA NodeKeepsIInv ==
  ASSUME IInv, (\E b \in BOOLEAN : SetActive(b)) \/ NodeCrash \/ NodeBoot
  PROVE  IInv'
<1> USE DepthAssumption
<1>1. ASSUME NEW b \in BOOLEAN, SetActive(b) PROVE IInv'
  BY <1>1 DEF SetActive, IInv, TypeOK, NoOverrun, ClientInv, WorkerInv,
              RingInv, shm, client, worker, history
<1>2. CASE NodeCrash
  <2>1. TypeOK' /\ NoOverrun' /\ ClientInv' /\ RingInv'
    BY <1>2 DEF NodeCrash, IInv, TypeOK, NoOverrun, ClientInv, RingInv,
                shm, client, history
  <2>2. WorkerInv'
    <3>1. seqRead <= Len(executed) /\ Len(executed) <= seqWrite
      BY <1>2 DEF NodeCrash, IInv, TypeOK, NoOverrun, WorkerInv
    <3>2. QED
      BY <1>2, <3>1 DEF NodeCrash, WorkerInv, shm, history
  <2>3. QED
    BY <2>1, <2>2 DEF IInv
<1>3. CASE NodeBoot
  BY <1>3 DEF NodeBoot, IInv, TypeOK, NoOverrun, ClientInv, WorkerInv,
              RingInv, Slot, client
<1>4. QED
  BY <1>1, <1>2, <1>3

(* Every reachable state of the mailbox satisfies the inductive invariant. *)
THEOREM MailboxInvariant == Spec => []IInv
<1>1. Init => IInv
  BY InitIInv
<1>2. IInv /\ [Next]_vars => IInv'
  <2>1. SUFFICES ASSUME IInv, [Next]_vars PROVE IInv'
    OBVIOUS
  <2>2. CASE Next
    BY <2>1, <2>2, ClientKeepsIInv, WorkerKeepsIInv, NodeKeepsIInv
       DEF Next, ClientStep, RtStep
  <2>3. CASE UNCHANGED vars
    BY <2>1, <2>3 DEF vars, shm, client, worker, history, IInv, TypeOK,
                      NoOverrun, ClientInv, WorkerInv, RingInv
  <2>4. QED
    BY <2>1, <2>2, <2>3
<1>3. QED
  BY <1>1, <1>2, PTL DEF Spec

(* Every variable keeps to its domain, the cursors of client and RT thread *)
(* included (_stark_mbox_begin, ProcessMailbox).                           *)
THEOREM MailboxTypeOK == Spec => []TypeOK
<1>1. IInv => TypeOK
  BY DEF IInv
<1>2. QED
  BY <1>1, MailboxInvariant, PTL

-----------------------------------------------------------------------------
(* No frame is overwritten before the RT thread has confirmed it.          *)
THEOREM NoOverrunHolds == Spec => []NoOverrun
<1>1. IInv => NoOverrun
  BY DEF IInv
<1>2. QED
  BY <1>1, MailboxInvariant, PTL

(* The unsigned occupancy test of the client never wraps.                  *)
THEOREM NoUnsignedWrapHolds == Spec => []NoUnsignedWrap
<1>1. IInv => NoUnsignedWrap
  BY DEF IInv, TypeOK, NoOverrun, ClientInv, NoUnsignedWrap
<1>2. QED
  BY <1>1, MailboxInvariant, PTL

(* The client and the RT thread are never at the same slot.                *)
THEOREM NoTornFrameHolds == Spec => []NoTornFrame
<1>1. IInv => NoTornFrame
  <2>1. SUFFICES ASSUME IInv,
                        NEW n \in 0 .. rcount - 1,
                        rpc = "execute", n >= rn, cpc \in {"clear", "fill"}
                 PROVE  At(rr + n) # At(cw)
    BY DEF NoTornFrame
  <2>2. n \in Nat /\ rr + n \in Nat /\ rr + n < seqWrite
    BY <2>1 DEF IInv, TypeOK, WorkerInv
  <2>3. cboot = boots
    BY <2>1, <2>2 DEF IInv, TypeOK, ClientInv, WorkerInv
  <2>4. cw = seqWrite /\ cw - (rr + n) < Depth
    BY <2>1, <2>2, <2>3, DepthAssumption DEF IInv, TypeOK, ClientInv, WorkerInv
  <2>5. cw \in Nat /\ rr + n < cw
    BY <2>1, <2>2, <2>4 DEF IInv, TypeOK
  <2>6. QED
    BY <2>2, <2>4, <2>5, SlotsDiffer
<1>2. QED
  BY <1>1, MailboxInvariant, PTL

(* A call not overtaken by a reboot publishes its own command.             *)
THEOREM PublishesItsCommandHolds == Spec => []PublishesItsCommand
<1>1. IInv => PublishesItsCommand
  BY DEF IInv, ClientInv, PublishesItsCommand, Overtaken
<1>2. QED
  BY <1>1, MailboxInvariant, PTL

-----------------------------------------------------------------------------
(* A step of the mailbox is a step of the bounded FIFO or leaves it alone: *)
(* Commit puts, RtExecute takes, NodeBoot resets.                          *)
LEMMA StepImplementsChannel ==
  ASSUME IInv, [Next]_vars
  PROVE  [Channel!Next]_<<published, executed>>
<1>1. CASE Commit
  <2>1. slots[At(seqWrite)] \in Frames \cup {Empty}
    BY SlotInRange DEF IInv, TypeOK
  <2>2. seqRead <= Len(executed)
    BY DEF IInv, TypeOK, WorkerInv
  <2>3. Len(published) - Len(executed) < Depth
    BY <1>1, <2>2, DepthAssumption
       DEF Commit, IInv, TypeOK, ClientInv, RingInv
  <2>4. Channel!Put(slots[At(seqWrite)])
    BY <1>1, <2>3 DEF Commit, Channel!Put
  <2>5. QED
    BY <2>1, <2>4 DEF Channel!Next
<1>2. CASE RtExecute
  <2>1. /\ rr + rn \in Nat /\ seqRead <= rr + rn /\ rr + rn < seqWrite
        /\ Len(executed) = rr + rn
    BY <1>2 DEF RtExecute, IInv, TypeOK, WorkerInv
  <2>2. slots[At(rr + rn)] = published[Len(executed) + 1]
    BY <2>1 DEF IInv, RingInv
  <2>3. Len(executed) < Len(published)
    BY <2>1 DEF IInv, RingInv
  <2>4. Channel!Take
    BY <1>2, <2>2, <2>3 DEF RtExecute, Channel!Take
  <2>5. QED
    BY <2>4 DEF Channel!Next
<1>3. CASE NodeBoot
  BY <1>3 DEF NodeBoot, Channel!Reset, Channel!Next
<1>4. CASE ~Commit /\ ~RtExecute /\ ~NodeBoot
  BY <1>4 DEF Next, vars, history, CallCommand, LoadWrite, LoadRead, ClearSlot,
              FillSlot, RtLoadRead, RtLoadWrite, RtConfirm, SetActive, NodeCrash
<1>5. QED
  BY <1>1, <1>2, <1>3, <1>4

(* The mailbox implements the bounded, lossless FIFO channel.              *)
THEOREM MailboxImplementsChannel == Spec => ImplementsChannel
<1>1. Init => Channel!Init
  BY DEF Init, Channel!Init
<1>2. IInv /\ [Next]_vars => [Channel!Next]_(Channel!vars)
  BY StepImplementsChannel DEF Channel!vars
<1>3. QED
  BY <1>1, <1>2, MailboxInvariant, PTL
     DEF Spec, ImplementsChannel, Channel!Spec
=============================================================================
