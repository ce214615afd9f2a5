-------------------------- MODULE MotorControlProofs ---------------------------
(***************************************************************************)
(* The management slot, the control byte and the drive of one motor, for   *)
(* every width of the sequence number, depth of the mailbox, set of        *)
(* commands and frames, and number of calls and lost frames.               *)
(***************************************************************************)
EXTENDS MotorControl, TLAPS

(* From the join of the RT thread on nobody is in a period, and after the  *)
(* estop of the dispatcher the control byte says off.                      *)
StopInv ==
  /\ phase # "run" => rpc = "idle"
  /\ phase = "estopped" => ~hal.en /\ ~hal.bus

(* Frames are left to execute only in ProcessMailbox.                      *)
PeriodInv == rpc \in {"idle", "read", "mailbox"} => todo = 0

(* The RT thread has a command of the slot in hand, announced up to rseq.  *)
Serving ==
  \/ rpc = "read"
  \/ rpc \in {"execute", "off", "clear", "clearFrame"} /\ todo = 0
(* The announcement up to which the RT thread has looked.                  *)
Looked == IF Serving THEN rseq ELSE mgmtAck
(* Sequence number n steps after b, for n less than a whole turn.          *)
After(b, n) == IF b + n < SeqMod THEN b + n ELSE b + n - SeqMod

(* Writers that do not overlap leave in mgmt_seq what they announced.      *)
SeqInv ==
  /\ ~raced => (apc = "bump" => wpc = "idle")
  /\ (~raced /\ wpc = "store") => wseq = mgmtSeq
  /\ (~raced /\ unseen < SeqMod) => mgmtSeq = After(Looked, unseen)

(* No writer is in the middle of a call and all announced was looked at.   *)
Settled == unseen = 0 /\ apc = "idle" /\ wpc = "idle"

(* With all announced looked at, the last command written is the one in    *)
(* hand, or already executed.                                              *)
CommandInv ==
  /\ mgmtCmd = lastWritten
  /\ rpc \in {"clear", "clearFrame"} => rcmd = "clearFault"
  /\ Settled => /\ ~Serving => lastExecuted = lastWritten
                /\ Serving /\ rpc # "read" => rcmd = lastWritten

(* An ESTOP that found the mailbox empty is followed by no frame, and once *)
(* it is executed only a control word can have given the drive power.      *)
EstopInv ==
  estop = "alone" =>
    /\ mbox = <<>> /\ lastWritten = "estop"
    /\ (Settled /\ ~Serving /\ losses = 0) => (drive.en => bySdo) /\ ~drive.bus

IInv ==
  TypeOK /\ ClearIsAPulse /\ StopInv /\ PeriodInv /\ SeqInv /\ CommandInv
  /\ EstopInv

-----------------------------------------------------------------------------
(* The next sequence number, without the modulus.                          *)
LEMMA NextSeq ==
  ASSUME NEW n \in 0 .. SeqMod - 1
  PROVE  (n + 1) % SeqMod = IF n + 1 = SeqMod THEN 0 ELSE n + 1
<1>1. CASE n + 1 = SeqMod
  BY <1>1, SeqModAssumption
<1>2. CASE n + 1 # SeqMod
  BY <1>2, SeqModAssumption
<1>3. QED
  BY <1>1, <1>2

Hal == [en : BOOLEAN, bus : BOOLEAN, clr : BOOLEAN,
        enabled : BOOLEAN, pending : BOOLEAN]
DriveByte == [en : BOOLEAN, bus : BOOLEAN, clr : BOOLEAN]

(* Every call of motor_hal leaves a well-typed control byte.               *)
LEMMA HalCalls ==
  ASSUME NEW h \in Hal
  PROVE  /\ PdoEnable(h) \in Hal /\ PdoDisable(h) \in Hal
         /\ PdoClearFault(h) \in Hal /\ PdoEstop(h) \in Hal
         /\ PdoRecover(h) \in Hal /\ Consume(h) \in Hal
         /\ MitControl(h) \in Hal /\ Byte0(h) \in DriveByte
<1>1. Consume(h) \in Hal
  BY DEF Hal, Consume
<1>2. MitControl(h) \in Hal
  BY <1>1 DEF Hal, MitControl
<1>3. QED
  BY <1>1, <1>2 DEF Hal, DriveByte, PdoEnable, PdoDisable, PdoClearFault,
     PdoEstop, PdoRecover, Byte0, Frame

(* A frame that is sent arrives or is lost.                                *)
LEMMA SendType ==
  ASSUME NEW f \in DriveByte, TypeOK, Send(f)
  PROVE  drive' \in DriveByte /\ losses' \in Nat /\ bySdo' \in BOOLEAN
<1>0. drive \in DriveByte /\ losses \in Nat /\ bySdo \in BOOLEAN
  BY DEF TypeOK, DriveByte
<1>1. CASE drive' = f /\ bySdo' = FALSE /\ UNCHANGED losses
  BY <1>0, <1>1
<1>2. CASE losses' = losses + 1 /\ UNCHANGED <<drive, bySdo>>
  <2>1. losses' \in Nat
    BY <1>0, <1>2
  <2>2. QED
    BY <1>0, <1>2, <2>1
<1>3. QED
  BY <1>1, <1>2 DEF Send

(* The frame at the head of the mailbox is taken off.                      *)
LEMMA PopFrame ==
  ASSUME TypeOK, todo > 0
  PROVE  /\ Head(mbox) \in FrameKinds /\ Tail(mbox) \in Seq(FrameKinds)
         /\ Len(Tail(mbox)) = Len(mbox) - 1 /\ Len(Tail(mbox)) <= MboxDepth
         /\ todo - 1 \in 0 .. Len(Tail(mbox))
<1>1. mbox \in Seq(FrameKinds) /\ mbox # <<>> /\ Len(mbox) <= MboxDepth
      /\ todo \in 1 .. Len(mbox)
  BY DEF TypeOK
<1>2. Head(mbox) \in FrameKinds /\ Tail(mbox) \in Seq(FrameKinds)
      /\ Len(Tail(mbox)) = Len(mbox) - 1
  BY <1>1
<1>3. Len(mbox) \in Nat /\ MboxDepth \in Nat
  BY <1>1, BoundAssumption
<1>4. QED
  BY <1>1, <1>2, <1>3

(* An action that completes a command, with what it does to the control    *)
(* byte and the drive, keeps all but the facts about these two.            *)
LEMMA CompleteKeeps ==
  ASSUME IInv, Complete, rpc \in {"execute", "off", "clear", "clearFrame"},
         hal' \in Hal, drive' \in DriveByte, losses' \in Nat,
         bySdo' \in BOOLEAN, UNCHANGED <<active, callers, phase, said>>
  PROVE  TypeOK' /\ StopInv' /\ PeriodInv' /\ SeqInv' /\ CommandInv'
<1> USE SeqModAssumption, CommandAssumption, BoundAssumption
<1> USE DEF IInv, slot, seen, callers, said
<1>1. CASE todo = 0
  <2> USE <1>1 DEF Complete, Acknowledge
  <2>1. TypeOK'
    BY DEF TypeOK, Hal, DriveByte
  <2>2. StopInv' /\ PeriodInv'
    BY DEF TypeOK, StopInv, PeriodInv
  <2>3. SeqInv'
    BY DEF TypeOK, SeqInv, PeriodInv, Serving, Looked, After
  <2>4. CommandInv'
    BY DEF TypeOK, CommandInv, PeriodInv, Serving, Settled
  <2>5. QED
    BY <2>1, <2>2, <2>3, <2>4
<1>2. CASE todo # 0
  <2> USE <1>2 DEF Complete, NextFrame
  <2>0. todo > 0
    BY DEF TypeOK
  <2>1. TypeOK'
    <3>1. mbox' \in Seq(FrameKinds) /\ Len(mbox') <= MboxDepth
          /\ todo' \in 0 .. Len(mbox')
      BY <2>0, PopFrame
    <3>2. hal' \in [en : BOOLEAN, bus : BOOLEAN, clr : BOOLEAN,
                    enabled : BOOLEAN, pending : BOOLEAN]
          /\ drive' \in [en : BOOLEAN, bus : BOOLEAN, clr : BOOLEAN]
      BY DEF Hal, DriveByte
    <3>3. QED
      BY <3>1, <3>2 DEF TypeOK
  <2>2. StopInv' /\ PeriodInv'
    BY DEF TypeOK, StopInv, PeriodInv
  <2>3. SeqInv'
    BY DEF TypeOK, SeqInv, PeriodInv, Serving, Looked, After
  <2>4. CommandInv'
    BY DEF TypeOK, CommandInv, PeriodInv, Serving, Settled
  <2>5. QED
    BY <2>1, <2>2, <2>3, <2>4
<1>3. QED
  BY <1>1, <1>2

(* The inductive invariant holds initially.                                *)
LEMMA InitIInv == Init => IInv
<1> SUFFICES ASSUME Init PROVE IInv
  OBVIOUS
<1>1. TypeOK
  <2>1. hal \in Hal /\ drive \in DriveByte
    BY DEF Init, Hal, DriveByte, Frame
  <2>2. mbox \in Seq(FrameKinds) /\ Len(mbox) <= MboxDepth /\ todo \in 0 .. Len(mbox)
    BY BoundAssumption DEF Init
  <2>3. mgmtSeq \in 0 .. SeqMod - 1 /\ mgmtAck \in 0 .. SeqMod - 1
        /\ rseq \in 0 .. SeqMod - 1 /\ wseq \in 0 .. SeqMod - 1
    BY SeqModAssumption DEF Init
  <2>4. QED
    BY <2>1, <2>2, <2>3 DEF Init, TypeOK, Hal, DriveByte
<1>2. ClearIsAPulse /\ StopInv /\ PeriodInv
  BY DEF Init, ClearIsAPulse, StopInv, PeriodInv
<1>3. SeqInv /\ CommandInv /\ EstopInv
  BY SeqModAssumption
     DEF Init, SeqInv, CommandInv, EstopInv, Serving, Looked, After, Settled
<1>4. QED
  BY <1>1, <1>2, <1>3 DEF IInv

(* The algorithm keeps the inductive invariant.                            *)
LEMMA AlgorithmKeepsIInv ==
  ASSUME IInv,
           \/ \E c \in MgmtCalls : StoreCommand(c)
           \/ BumpSeq
           \/ \E k \in FrameKinds : PutFrame(k)
           \/ AlgoDies
  PROVE  IInv'
<1> USE SeqModAssumption, CommandAssumption, BoundAssumption
<1> USE DEF IInv, slot, worker, callers, bus, seen, said
<1>1. ASSUME NEW c \in MgmtCalls, StoreCommand(c) PROVE IInv'
  <2>1. TypeOK'
    BY <1>1 DEF StoreCommand, TypeOK
  <2>2. ClearIsAPulse' /\ StopInv' /\ PeriodInv'
    BY <1>1 DEF StoreCommand, TypeOK, ClearIsAPulse, StopInv, PeriodInv
  <2>3. SeqInv'
    BY <1>1 DEF StoreCommand, TypeOK, SeqInv, PeriodInv, Serving, Looked, After
  <2>4. CommandInv'
    BY <1>1 DEF StoreCommand, TypeOK, CommandInv, PeriodInv, Serving, Settled
  <2>5. EstopInv'
    BY <1>1 DEF StoreCommand, TypeOK, StopInv, PeriodInv, CommandInv, EstopInv, Serving, Settled
  <2>6. QED
    BY <2>1, <2>2, <2>3, <2>4, <2>5
<1>2. CASE BumpSeq
  <2>1. TypeOK'
    BY <1>2 DEF BumpSeq, TypeOK
  <2>2. ClearIsAPulse' /\ StopInv' /\ PeriodInv'
    BY <1>2 DEF BumpSeq, TypeOK, ClearIsAPulse, StopInv, PeriodInv
  <2>3. SeqInv'
    BY <1>2, NextSeq DEF BumpSeq, TypeOK, SeqInv, PeriodInv, Serving, Looked, After
  <2>4. CommandInv'
    BY <1>2 DEF BumpSeq, TypeOK, CommandInv, PeriodInv, Serving, Settled
  <2>5. EstopInv'
    BY <1>2 DEF BumpSeq, TypeOK, StopInv, PeriodInv, CommandInv, EstopInv, Serving, Settled
  <2>6. QED
    BY <2>1, <2>2, <2>3, <2>4, <2>5
<1>3. ASSUME NEW k \in FrameKinds, PutFrame(k) PROVE IInv'
  <2>1. TypeOK'
    BY <1>3 DEF PutFrame, TypeOK
  <2>2. ClearIsAPulse' /\ StopInv' /\ PeriodInv'
    BY <1>3 DEF PutFrame, TypeOK, ClearIsAPulse, StopInv, PeriodInv
  <2>3. SeqInv'
    BY <1>3 DEF PutFrame, TypeOK, SeqInv, PeriodInv, Serving, Looked, After
  <2>4. CommandInv'
    BY <1>3 DEF PutFrame, TypeOK, CommandInv, PeriodInv, Serving, Settled
  <2>5. EstopInv'
    BY <1>3 DEF PutFrame, TypeOK, StopInv, PeriodInv, CommandInv, EstopInv, Serving, Settled
  <2>6. QED
    BY <2>1, <2>2, <2>3, <2>4, <2>5
<1>4. CASE AlgoDies
  <2>1. TypeOK'
    BY <1>4 DEF AlgoDies, TypeOK
  <2>2. ClearIsAPulse' /\ StopInv' /\ PeriodInv'
    BY <1>4 DEF AlgoDies, TypeOK, ClearIsAPulse, StopInv, PeriodInv
  <2>3. SeqInv'
    BY <1>4 DEF AlgoDies, TypeOK, SeqInv, PeriodInv, Serving, Looked, After
  <2>4. CommandInv'
    BY <1>4 DEF AlgoDies, TypeOK, CommandInv, PeriodInv, Serving, Settled
  <2>5. EstopInv'
    BY <1>4 DEF AlgoDies, TypeOK, StopInv, PeriodInv, CommandInv, EstopInv, Serving, Settled
  <2>6. QED
    BY <2>1, <2>2, <2>3, <2>4, <2>5
<1>5. QED
  BY <1>1, <1>2, <1>3, <1>4

(* The web server keeps it.                                                *)
LEMMA WebKeepsIInv ==
  ASSUME IInv,
           \/ \E c \in WebCommands : WebStore(c)
           \/ WebLoadSeq \/ WebStoreSeq
  PROVE  IInv'
<1> USE SeqModAssumption, CommandAssumption, BoundAssumption
<1> USE DEF IInv, slot, worker, callers, bus, seen, said
<1>1. ASSUME NEW c \in WebCommands, WebStore(c) PROVE IInv'
  <2>1. TypeOK'
    BY <1>1 DEF WebStore, TypeOK
  <2>2. ClearIsAPulse' /\ StopInv' /\ PeriodInv'
    BY <1>1 DEF WebStore, TypeOK, ClearIsAPulse, StopInv, PeriodInv
  <2>3. SeqInv'
    BY <1>1 DEF WebStore, TypeOK, SeqInv, PeriodInv, Serving, Looked, After
  <2>4. CommandInv'
    BY <1>1 DEF WebStore, TypeOK, CommandInv, PeriodInv, Serving, Settled
  <2>5. EstopInv'
    BY <1>1 DEF WebStore, TypeOK, StopInv, PeriodInv, CommandInv, EstopInv, Serving, Settled
  <2>6. QED
    BY <2>1, <2>2, <2>3, <2>4, <2>5
<1>2. CASE WebLoadSeq
  <2>1. TypeOK'
    BY <1>2 DEF WebLoadSeq, TypeOK
  <2>2. ClearIsAPulse' /\ StopInv' /\ PeriodInv'
    BY <1>2 DEF WebLoadSeq, TypeOK, ClearIsAPulse, StopInv, PeriodInv
  <2>3. SeqInv'
    BY <1>2 DEF WebLoadSeq, TypeOK, SeqInv, PeriodInv, Serving, Looked, After
  <2>4. CommandInv'
    BY <1>2 DEF WebLoadSeq, TypeOK, CommandInv, PeriodInv, Serving, Settled
  <2>5. EstopInv'
    BY <1>2 DEF WebLoadSeq, TypeOK, StopInv, PeriodInv, CommandInv, EstopInv, Serving, Settled
  <2>6. QED
    BY <2>1, <2>2, <2>3, <2>4, <2>5
<1>3. CASE WebStoreSeq
  <2>1. TypeOK'
    BY <1>3 DEF WebStoreSeq, TypeOK
  <2>2. ClearIsAPulse' /\ StopInv' /\ PeriodInv'
    BY <1>3 DEF WebStoreSeq, TypeOK, ClearIsAPulse, StopInv, PeriodInv
  <2>3. SeqInv'
    BY <1>3, NextSeq DEF WebStoreSeq, TypeOK, SeqInv, PeriodInv, Serving, Looked, After
  <2>4. CommandInv'
    BY <1>3 DEF WebStoreSeq, TypeOK, CommandInv, PeriodInv, Serving, Settled
  <2>5. EstopInv'
    BY <1>3 DEF WebStoreSeq, TypeOK, StopInv, PeriodInv, CommandInv, EstopInv, Serving, Settled
  <2>6. QED
    BY <2>1, <2>2, <2>3, <2>4, <2>5
<1>4. QED
  BY <1>1, <1>2, <1>3

(* ProcessMgmt keeps it.                                                   *)
LEMMA ManagementKeepsIInv ==
  ASSUME IInv,
           \/ RtLoadSeq \/ RtReadCommand \/ RtEnable \/ RtDisable \/ RtOffFrame
           \/ RtClearFault \/ RtClearEnable \/ RtClearFrame
  PROVE  IInv'
<1> USE SeqModAssumption, CommandAssumption, BoundAssumption
<1> USE DEF IInv, slot, worker, callers, bus, seen, said
<1>1. CASE RtLoadSeq
  <2>1. TypeOK'
    BY <1>1 DEF RtLoadSeq, TypeOK
  <2>2. ClearIsAPulse' /\ StopInv' /\ PeriodInv'
    BY <1>1 DEF RtLoadSeq, TypeOK, ClearIsAPulse, StopInv, PeriodInv
  <2>3. SeqInv'
    BY <1>1 DEF RtLoadSeq, TypeOK, SeqInv, PeriodInv, Serving, Looked, After
  <2>4. CommandInv'
    BY <1>1 DEF RtLoadSeq, TypeOK, CommandInv, PeriodInv, Serving, Settled
  <2>5. EstopInv'
    BY <1>1 DEF RtLoadSeq, TypeOK, StopInv, PeriodInv, CommandInv, EstopInv, Serving, Settled
  <2>6. QED
    BY <2>1, <2>2, <2>3, <2>4, <2>5
<1>2. CASE RtReadCommand
  <2>1. TypeOK'
    BY <1>2 DEF RtReadCommand, TypeOK
  <2>2. ClearIsAPulse' /\ StopInv' /\ PeriodInv'
    BY <1>2 DEF RtReadCommand, TypeOK, ClearIsAPulse, StopInv, PeriodInv
  <2>3. SeqInv'
    BY <1>2 DEF RtReadCommand, TypeOK, SeqInv, PeriodInv, Serving, Looked, After
  <2>4. CommandInv'
    BY <1>2 DEF RtReadCommand, TypeOK, CommandInv, PeriodInv, Serving, Settled
  <2>5. EstopInv'
    BY <1>2 DEF RtReadCommand, TypeOK, StopInv, PeriodInv, CommandInv, EstopInv, Serving, Settled
  <2>6. QED
    BY <2>1, <2>2, <2>3, <2>4, <2>5
<1>3. CASE RtEnable
  <2>0. hal' \in Hal
    BY <1>3, HalCalls DEF RtEnable, TypeOK, Hal
  <2>1. TypeOK' /\ StopInv' /\ PeriodInv' /\ SeqInv' /\ CommandInv'
    BY <1>3, <2>0, CompleteKeeps DEF RtEnable, TypeOK, DriveByte
  <2>2. ClearIsAPulse'
    BY <1>3 DEF RtEnable, TypeOK, ClearIsAPulse, PdoEnable, PdoRecover
  <2>3. EstopInv'
    <3>1. SUFFICES ASSUME estop = "alone" PROVE EstopInv'
      BY <1>3 DEF RtEnable, EstopInv
    <3>2. mbox = <<>> /\ lastWritten = "estop" /\ todo = 0
      BY <3>1 DEF EstopInv, TypeOK
    <3>3. ~Settled
      BY <1>3, <3>2 DEF RtEnable, CommandInv, Serving
    <3>4. QED
      BY <1>3, <3>2, <3>3
         DEF RtEnable, Complete, Acknowledge, EstopInv, Settled
  <2>4. QED
    BY <2>1, <2>2, <2>3
<1>4. CASE RtDisable
  <2>1. TypeOK'
    <3>1. hal' \in Hal
      BY <1>4, HalCalls DEF RtDisable, TypeOK, Hal
    <3>2. QED
      BY <1>4, <3>1 DEF RtDisable, TypeOK, Hal
  <2>2. ClearIsAPulse' /\ StopInv' /\ PeriodInv'
    BY <1>4 DEF RtDisable, TypeOK, ClearIsAPulse, StopInv, PeriodInv,
                PdoDisable, PdoEstop
  <2>3. SeqInv'
    BY <1>4 DEF RtDisable, TypeOK, SeqInv, PeriodInv, Serving, Looked, After
  <2>4. CommandInv'
    BY <1>4 DEF RtDisable, TypeOK, CommandInv, PeriodInv, Serving, Settled
  <2>5. EstopInv'
    BY <1>4 DEF RtDisable, TypeOK, EstopInv, Serving, Settled
  <2>6. QED
    BY <2>1, <2>2, <2>3, <2>4, <2>5
<1>5. CASE RtOffFrame
  <2> DEFINE f == Frame(FALSE, rcmd = "disable", FALSE)
  <2>0. f \in DriveByte /\ f.en = FALSE /\ f.bus = (rcmd = "disable") /\ Send(f)
    BY <1>5 DEF RtOffFrame, DriveByte, Frame
  <2> HIDE DEF f
  <2>1. drive' \in DriveByte /\ losses' \in Nat /\ bySdo' \in BOOLEAN
    BY <2>0, SendType
  <2>2. TypeOK' /\ StopInv' /\ PeriodInv' /\ SeqInv' /\ CommandInv'
    BY <1>5, <2>1, CompleteKeeps DEF RtOffFrame, TypeOK, Hal
  <2>3. ClearIsAPulse'
    BY <1>5 DEF RtOffFrame, ClearIsAPulse
  <2>4. EstopInv'
    <3>1. SUFFICES ASSUME estop = "alone" PROVE EstopInv'
      BY <1>5 DEF RtOffFrame, EstopInv
    <3>2. mbox = <<>> /\ lastWritten = "estop" /\ todo = 0
      BY <3>1 DEF EstopInv, TypeOK
    <3>3. Settled => rcmd = "estop"
      BY <1>5, <3>2 DEF RtOffFrame, CommandInv, Serving
    <3>4. losses' # 0 \/ drive' = f
      BY <2>0 DEF Send, TypeOK
    <3>5. (Settled /\ losses' = 0) => drive'.en = FALSE /\ drive'.bus = FALSE
      BY <2>0, <3>3, <3>4
    <3>6. QED
      BY <1>5, <3>2, <3>5
         DEF RtOffFrame, Complete, Acknowledge, EstopInv, Settled
  <2>5. QED
    BY <2>2, <2>3, <2>4
<1>6. CASE RtClearFault
  <2>1. TypeOK'
    <3>1. hal' \in Hal
      BY <1>6, HalCalls DEF RtClearFault, TypeOK, Hal
    <3>2. QED
      BY <1>6, <3>1 DEF RtClearFault, TypeOK, Hal
  <2>2. ClearIsAPulse' /\ StopInv' /\ PeriodInv'
    BY <1>6 DEF RtClearFault, TypeOK, ClearIsAPulse, StopInv, PeriodInv, PdoClearFault
  <2>3. SeqInv'
    BY <1>6 DEF RtClearFault, TypeOK, SeqInv, PeriodInv, Serving, Looked, After, PdoClearFault
  <2>4. CommandInv'
    BY <1>6 DEF RtClearFault, TypeOK, CommandInv, PeriodInv, Serving, Settled, PdoClearFault
  <2>5. EstopInv'
    BY <1>6 DEF RtClearFault, TypeOK, StopInv, PeriodInv, CommandInv, EstopInv, Serving, Settled, PdoClearFault
  <2>6. QED
    BY <2>1, <2>2, <2>3, <2>4, <2>5
<1>7. CASE RtClearEnable
  <2>1. TypeOK'
    <3>1. hal' \in Hal
      BY <1>7, HalCalls DEF RtClearEnable, TypeOK, Hal
    <3>2. QED
      BY <1>7, <3>1 DEF RtClearEnable, TypeOK, Hal
  <2>2. ClearIsAPulse' /\ StopInv' /\ PeriodInv'
    BY <1>7 DEF RtClearEnable, TypeOK, ClearIsAPulse, StopInv, PeriodInv, PdoEnable
  <2>3. SeqInv'
    BY <1>7 DEF RtClearEnable, TypeOK, SeqInv, PeriodInv, Serving, Looked, After, PdoEnable
  <2>4. CommandInv'
    BY <1>7 DEF RtClearEnable, TypeOK, CommandInv, PeriodInv, Serving, Settled, PdoEnable
  <2>5. EstopInv'
    BY <1>7 DEF RtClearEnable, TypeOK, StopInv, PeriodInv, CommandInv, EstopInv, Serving, Settled, PdoEnable
  <2>6. QED
    BY <2>1, <2>2, <2>3, <2>4, <2>5
<1>8. CASE RtClearFrame
  <2>1. hal' \in Hal
    BY <1>8, HalCalls DEF RtClearFrame, TypeOK, Hal
  <2>2. drive' \in DriveByte /\ losses' \in Nat /\ bySdo' \in BOOLEAN
    BY <1>8, <2>1, HalCalls, SendType
       DEF RtClearFrame, TypeOK, DriveByte
  <2>3. TypeOK' /\ StopInv' /\ PeriodInv' /\ SeqInv' /\ CommandInv'
    BY <1>8, <2>1, <2>2, CompleteKeeps DEF RtClearFrame
  <2>4. ClearIsAPulse'
    BY <1>8 DEF RtClearFrame, TypeOK, ClearIsAPulse, Consume
  <2>5. EstopInv'
    <3>1. SUFFICES ASSUME estop = "alone" PROVE EstopInv'
      BY <1>8 DEF RtClearFrame, EstopInv
    <3>2. mbox = <<>> /\ lastWritten = "estop" /\ todo = 0
      BY <3>1 DEF EstopInv, TypeOK
    <3>3. ~Settled
      BY <1>8, <3>2 DEF RtClearFrame, CommandInv, Serving
    <3>4. QED
      BY <1>8, <3>2, <3>3
         DEF RtClearFrame, Complete, Acknowledge, EstopInv, Settled
  <2>6. QED
    BY <2>3, <2>4, <2>5
<1>9. QED
  BY <1>1, <1>2, <1>3, <1>4, <1>6, <1>7, <1>8, <1>5

(* ProcessMailbox and the end of a period keep it.                         *)
LEMMA MailboxKeepsIInv ==
  ASSUME IInv,
           RtLoadMailbox \/ RtFrameCommand \/ RtFrame \/ RtPeriodEnds
  PROVE  IInv'
<1> USE SeqModAssumption, CommandAssumption, BoundAssumption
<1> USE DEF IInv, slot, worker, callers, bus, seen, said
<1>1. CASE RtLoadMailbox
  <2>1. TypeOK'
    BY <1>1 DEF RtLoadMailbox, TypeOK
  <2>2. ClearIsAPulse' /\ StopInv' /\ PeriodInv'
    BY <1>1 DEF RtLoadMailbox, TypeOK, ClearIsAPulse, StopInv, PeriodInv
  <2>3. SeqInv'
    BY <1>1 DEF RtLoadMailbox, TypeOK, SeqInv, PeriodInv, Serving, Looked, After
  <2>4. CommandInv'
    BY <1>1 DEF RtLoadMailbox, TypeOK, CommandInv, PeriodInv, Serving, Settled
  <2>5. EstopInv'
    BY <1>1 DEF RtLoadMailbox, TypeOK, StopInv, PeriodInv, CommandInv, EstopInv, Serving, Settled
  <2>6. QED
    BY <2>1, <2>2, <2>3, <2>4, <2>5
<1>2. CASE RtFrame
  <2>1. TypeOK'
    <3>1. Head(mbox) \in FrameKinds /\ Tail(mbox) \in Seq(FrameKinds)
          /\ Len(Tail(mbox)) <= MboxDepth /\ todo - 1 \in 0 .. Len(Tail(mbox))
      BY <1>2, PopFrame DEF RtFrame
    <3>2. hal' \in Hal
      BY <1>2, HalCalls DEF RtFrame, ExecuteFrame, TypeOK, Hal
    <3>3. drive' \in DriveByte /\ losses' \in Nat /\ bySdo' \in BOOLEAN
      BY <1>2, <3>2, HalCalls, SendType
         DEF RtFrame, ExecuteFrame, TypeOK, DriveByte, Frame
    <3>4. QED
      BY <1>2, <3>1, <3>2, <3>3 DEF RtFrame, NextFrame, TypeOK, Hal, DriveByte
  <2>2. ClearIsAPulse' /\ StopInv' /\ PeriodInv'
    BY <1>2 DEF RtFrame, NextFrame, TypeOK, ClearIsAPulse, StopInv, PeriodInv,
                ExecuteFrame, MitControl, Consume
  <2>3. SeqInv'
    BY <1>2 DEF RtFrame, NextFrame, TypeOK, SeqInv, Serving, Looked, After
  <2>4. CommandInv'
    BY <1>2 DEF RtFrame, NextFrame, TypeOK, CommandInv, Serving, Settled
  <2>5. EstopInv'
    BY <1>2 DEF RtFrame, TypeOK, EstopInv
  <2>6. QED
    BY <2>1, <2>2, <2>3, <2>4, <2>5
<1>3. CASE RtFrameCommand
  <2>1. TypeOK'
    BY <1>3 DEF RtFrameCommand, TypeOK
  <2>2. ClearIsAPulse' /\ StopInv' /\ PeriodInv'
    BY <1>3 DEF RtFrameCommand, TypeOK, ClearIsAPulse, StopInv, PeriodInv
  <2>3. SeqInv'
    BY <1>3 DEF RtFrameCommand, TypeOK, SeqInv, Serving, Looked, After
  <2>4. CommandInv'
    BY <1>3 DEF RtFrameCommand, TypeOK, CommandInv, Serving, Settled
  <2>5. EstopInv'
    BY <1>3 DEF RtFrameCommand, TypeOK, EstopInv
  <2>6. QED
    BY <2>1, <2>2, <2>3, <2>4, <2>5
<1>4. CASE RtPeriodEnds
  <2>1. TypeOK'
    BY <1>4 DEF RtPeriodEnds, TypeOK
  <2>2. ClearIsAPulse' /\ StopInv' /\ PeriodInv'
    BY <1>4 DEF RtPeriodEnds, TypeOK, ClearIsAPulse, StopInv, PeriodInv
  <2>3. SeqInv'
    BY <1>4 DEF RtPeriodEnds, TypeOK, SeqInv, PeriodInv, Serving, Looked, After
  <2>4. CommandInv'
    BY <1>4 DEF RtPeriodEnds, TypeOK, CommandInv, PeriodInv, Serving, Settled
  <2>5. EstopInv'
    BY <1>4 DEF RtPeriodEnds, TypeOK, StopInv, PeriodInv, CommandInv, EstopInv, Serving, Settled
  <2>6. QED
    BY <2>1, <2>2, <2>3, <2>4, <2>5
<1>5. QED
  BY <1>1, <1>2, <1>4, <1>3

(* The rest of the node keeps it.                                          *)
LEMMA NodeKeepsIInv ==
  ASSUME IInv,
           \/ \E b \in BOOLEAN : SetActive(b)
           \/ \E power \in SdoPowers : SdoPower(power)
           \/ StartedOff
           \/ StopRt \/ DestroyEstop \/ DestroyTorque
  PROVE  IInv'
<1> USE SeqModAssumption, CommandAssumption, BoundAssumption
<1> USE DEF IInv, slot, worker, callers, bus, seen, said
<1>1. ASSUME NEW b \in BOOLEAN, SetActive(b) PROVE IInv'
  <2>1. TypeOK'
    BY <1>1 DEF SetActive, TypeOK
  <2>2. ClearIsAPulse' /\ StopInv' /\ PeriodInv'
    BY <1>1 DEF SetActive, TypeOK, ClearIsAPulse, StopInv, PeriodInv
  <2>3. SeqInv'
    BY <1>1 DEF SetActive, TypeOK, SeqInv, PeriodInv, Serving, Looked, After
  <2>4. CommandInv'
    BY <1>1 DEF SetActive, TypeOK, CommandInv, PeriodInv, Serving, Settled
  <2>5. EstopInv'
    BY <1>1 DEF SetActive, TypeOK, StopInv, PeriodInv, CommandInv, EstopInv, Serving, Settled
  <2>6. QED
    BY <2>1, <2>2, <2>3, <2>4, <2>5
<1>2. ASSUME NEW power \in SdoPowers, SdoPower(power) PROVE IInv'
  <2>0. power \in BOOLEAN
    BY CommandAssumption
  <2>1. TypeOK'
    <3>1. hal' \in Hal
      BY <1>2, <2>0 DEF SdoPower, TypeOK, Hal
    <3>2. drive' \in DriveByte
      BY <1>2, <2>0 DEF SdoPower, TypeOK, DriveByte
    <3>3. bySdo' \in BOOLEAN
      BY <1>2 DEF SdoPower
    <3>4. /\ UNCHANGED <<slot, mbox, active, worker, callers, phase, losses>>
          /\ UNCHANGED <<seen, said>>
      BY <1>2 DEF SdoPower
    <3>5. QED
      BY <3>1, <3>2, <3>3, <3>4 DEF TypeOK, Hal, DriveByte
  <2>2. ClearIsAPulse' /\ StopInv' /\ PeriodInv'
    BY <1>2, <2>0 DEF SdoPower, TypeOK, ClearIsAPulse, StopInv, PeriodInv
  <2>3. SeqInv'
    BY <1>2 DEF SdoPower, TypeOK, SeqInv, Serving, Looked, After
  <2>4. CommandInv'
    BY <1>2 DEF SdoPower, TypeOK, CommandInv, Serving, Settled
  <2>5. EstopInv'
    BY <1>2 DEF SdoPower, TypeOK, EstopInv, Serving, Settled
  <2>6. QED
    BY <2>1, <2>2, <2>3, <2>4, <2>5
<1>3. CASE StartedOff
  <2>1. TypeOK'
    <3>1. hal' \in Hal
      BY <1>3 DEF StartedOff, TypeOK, Hal
    <3>2. QED
      BY <1>3, <3>1 DEF StartedOff, TypeOK, Hal
  <2>2. ClearIsAPulse' /\ StopInv' /\ PeriodInv'
    BY <1>3 DEF StartedOff, TypeOK, ClearIsAPulse, StopInv, PeriodInv
  <2>3. SeqInv'
    BY <1>3 DEF StartedOff, TypeOK, SeqInv, Serving, Looked, After
  <2>4. CommandInv'
    BY <1>3 DEF StartedOff, TypeOK, CommandInv, Serving, Settled
  <2>5. EstopInv'
    BY <1>3 DEF StartedOff, TypeOK, EstopInv, Serving, Settled
  <2>6. QED
    BY <2>1, <2>2, <2>3, <2>4, <2>5
<1>4. CASE StopRt
  <2>1. TypeOK'
    BY <1>4 DEF StopRt, TypeOK
  <2>2. ClearIsAPulse' /\ StopInv' /\ PeriodInv'
    BY <1>4 DEF StopRt, TypeOK, ClearIsAPulse, StopInv, PeriodInv
  <2>3. SeqInv'
    BY <1>4 DEF StopRt, TypeOK, SeqInv, PeriodInv, Serving, Looked, After
  <2>4. CommandInv'
    BY <1>4 DEF StopRt, TypeOK, CommandInv, PeriodInv, Serving, Settled
  <2>5. EstopInv'
    BY <1>4 DEF StopRt, TypeOK, StopInv, PeriodInv, CommandInv, EstopInv, Serving, Settled
  <2>6. QED
    BY <2>1, <2>2, <2>3, <2>4, <2>5
<1>5. CASE DestroyEstop
  <2>1. TypeOK'
    <3>1. hal' \in Hal
      BY <1>5, HalCalls DEF DestroyEstop, TypeOK, Hal
    <3>2. QED
      BY <1>5, <3>1 DEF DestroyEstop, TypeOK, Hal
  <2>2. ClearIsAPulse' /\ StopInv' /\ PeriodInv'
    BY <1>5 DEF DestroyEstop, TypeOK, ClearIsAPulse, StopInv, PeriodInv, PdoEstop
  <2>3. SeqInv'
    BY <1>5 DEF DestroyEstop, TypeOK, SeqInv, PeriodInv, Serving, Looked, After, PdoEstop
  <2>4. CommandInv'
    BY <1>5 DEF DestroyEstop, TypeOK, CommandInv, PeriodInv, Serving, Settled, PdoEstop
  <2>5. EstopInv'
    BY <1>5 DEF DestroyEstop, TypeOK, StopInv, PeriodInv, CommandInv, EstopInv, Serving, Settled, PdoEstop
  <2>6. QED
    BY <2>1, <2>2, <2>3, <2>4, <2>5
<1>6. CASE DestroyTorque
  <2>1. TypeOK'
    <3>1. hal' \in Hal
      BY <1>6, HalCalls DEF DestroyTorque, TypeOK, Hal
    <3>2. drive' \in DriveByte /\ losses' \in Nat /\ bySdo' \in BOOLEAN
      BY <1>6, <3>1, HalCalls, SendType DEF DestroyTorque, TypeOK, DriveByte
    <3>3. QED
      BY <1>6, <3>1, <3>2 DEF DestroyTorque, TypeOK, Hal, DriveByte
  <2>2. ClearIsAPulse' /\ StopInv' /\ PeriodInv'
    BY <1>6 DEF DestroyTorque, TypeOK, ClearIsAPulse, StopInv, PeriodInv, Consume, Send, Byte0, Frame
  <2>3. SeqInv'
    BY <1>6 DEF DestroyTorque, TypeOK, SeqInv, PeriodInv, Serving, Looked, After, Consume, Send, Byte0, Frame
  <2>4. CommandInv'
    BY <1>6 DEF DestroyTorque, TypeOK, CommandInv, PeriodInv, Serving, Settled, Consume, Send, Byte0, Frame
  <2>5. EstopInv'
    BY <1>6 DEF DestroyTorque, TypeOK, StopInv, PeriodInv, CommandInv, EstopInv, Serving, Settled, Consume, Send, Byte0, Frame
  <2>6. QED
    BY <2>1, <2>2, <2>3, <2>4, <2>5
<1>7. QED
  BY <1>1, <1>2, <1>4, <1>5, <1>6, <1>3

(* Every step keeps the inductive invariant.                               *)
LEMMA NextKeepsIInv == IInv /\ [Next]_vars => IInv'
<1> SUFFICES ASSUME IInv, [Next]_vars PROVE IInv'
  OBVIOUS
<1>1. CASE Next
  BY <1>1, AlgorithmKeepsIInv, WebKeepsIInv, ManagementKeepsIInv,
     MailboxKeepsIInv, NodeKeepsIInv DEF Next
<1>2. CASE UNCHANGED vars
  BY <1>2 DEF vars, slot, worker, callers, bus, seen, said, IInv, TypeOK,
     ClearIsAPulse, StopInv, PeriodInv, SeqInv, CommandInv, EstopInv, Serving, Looked,
     After, Settled
<1>3. QED
  BY <1>1, <1>2

-----------------------------------------------------------------------------
(* The slot, the control byte, the drive and the writers keep to the       *)
(* inductive invariant.                                                    *)
THEOREM MotorInvariant == Spec => []IInv
  BY InitIInv, NextKeepsIInv, PTL DEF Spec

(* Every variable keeps to its type: the sequence numbers stay bytes, the  *)
(* mailbox within its depth.                                               *)
THEOREM MotorTypeOK == Spec => []TypeOK
<1>1. IInv => TypeOK
  BY DEF IInv
<1>2. QED
  BY <1>1, MotorInvariant, PTL

(* With the slot quiet and the writers apart everything announced has been *)
(* looked at: the sequence has not gone a whole turn.                      *)
LEMMA QuietIsSettled ==
  ASSUME IInv, Quiet, SlotRespected
  PROVE  Settled /\ ~Serving
<1>1. mgmtAck = After(mgmtAck, unseen) /\ unseen < SeqMod
  BY DEF IInv, SeqInv, Quiet, SlotRespected, Looked, Serving
<1>2. unseen = 0
  BY <1>1, SeqModAssumption DEF IInv, TypeOK, After
<1>3. QED
  BY <1>2 DEF Quiet, Settled, Serving

(* The last command written to an acknowledged slot is the last executed.  *)
THEOREM LastCommandWinsHolds == Spec => []LastCommandWins
<1>1. IInv => LastCommandWins
  BY QuietIsSettled DEF IInv, CommandInv, LastCommandWins
<1>2. QED
  BY <1>1, MotorInvariant, PTL

(* An ESTOP taken with the mailbox empty leaves the drive and its bus off  *)
(* until a later control word of the main loop: no frame lifts it.         *)
THEOREM EstopAloneHoldsHolds == Spec => []EstopAloneHolds
<1>1. IInv => EstopAloneHolds
  BY QuietIsSettled DEF IInv, EstopInv, EstopAloneHolds
<1>2. QED
  BY <1>1, MotorInvariant, PTL

(* The clear bit is in the control byte exactly while its pulse is pending.*)
THEOREM ClearIsAPulseHolds == Spec => []ClearIsAPulse
<1>1. IInv => ClearIsAPulse
  BY DEF IInv
<1>2. QED
  BY <1>1, MotorInvariant, PTL
=============================================================================
