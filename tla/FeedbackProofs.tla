---------------------------- MODULE FeedbackProofs -----------------------------
(***************************************************************************)
(* The feedback and the periodic report are read whole, in order and       *)
(* without a lost wake-up, for every set of parts and number of cycles.    *)
(***************************************************************************)
EXTENDS Feedback, TLAPS

(* How often the RT thread can have published in the cycles so far.        *)
CountInv ==
  /\ version <= cycle /\ (wpc = "report" => version < cycle)
  /\ fflips <= cycle /\ (wpc # "idle" => fflips < cycle)
  /\ published <= cycle

(* The active buffer holds a frame of one cycle; the other one is filled.  *)
BufferInv ==
  /\ \A p \in Parts : fb[activeIdx][p] <= cycle
  /\ \A p, q \in Parts : fb[activeIdx][p] = fb[activeIdx][q]
  /\ wpc = "fill" =>
       /\ widx = 1 - activeIdx
       /\ \A p \in Parts \ wleft : fb[widx][p] = cycle

(* The frame that was active when the reader began is still in its buffer  *)
(* while the reader is in time, and no later frame is older.               *)
ReaderInv ==
  /\ \A p \in Parts : fprev[p] <= fb[activeIdx][p]
  /\ fpc = "idle" => DOMAIN fgot = {}
  /\ fpc = "copy" =>
       /\ \A p, q \in Parts : fseen[p] = fseen[q]
       /\ \A p \in Parts : fprev[p] <= fseen[p] /\ fseen[p] <= fb[activeIdx][p]
       /\ fflips = 0 => activeIdx = fidx
       /\ fflips = 1 => activeIdx = 1 - fidx
       /\ InTime => /\ fb[fidx] = fseen
                    /\ \A p \in DOMAIN fgot : fgot[p] = fseen[p]

(* The report is never older than the version it is published under, nor   *)
(* what was read of it than the version the reader was given.              *)
ReportInv ==
  /\ \A p \in Parts : published <= data[p] /\ data[p] <= cycle
  /\ wpc = "report" => \A p \in Parts \ wleft : data[p] = cycle
  /\ rneed <= published
  /\ rpc # "read" => DOMAIN rgot = {}

IInv ==
  /\ Inv /\ CountInv /\ BufferInv /\ ReaderInv /\ ReportInv
  /\ ReportNotOlder

-----------------------------------------------------------------------------
(* What a reader has after one more part.                                  *)
LEMMA WithType ==
  ASSUME NEW got \in Partial, NEW p \in Parts, NEW source \in Frames
  PROVE  /\ With(got, p, source) \in Partial
         /\ DOMAIN With(got, p, source) = DOMAIN got \cup {p}
         /\ \A q \in DOMAIN got \cup {p} :
              With(got, p, source)[q] = IF q = p THEN source[p] ELSE got[q]
<1>1. PICK S \in SUBSET Parts : got \in [S -> 0 .. MaxCycles]
  BY DEF Partial
<1>2. With(got, p, source) \in [S \cup {p} -> 0 .. MaxCycles]
  BY <1>1 DEF With, Frames
<1>3. S \cup {p} \in SUBSET Parts
  BY <1>1
<1>4. With(got, p, source) \in Partial
  BY <1>2, <1>3 DEF Partial
<1>5. QED
  BY <1>4 DEF With

(* Constant frames and the empty copy are well typed.                      *)
LEMMA ConstantFrames ==
  /\ Zeroed \in Frames /\ Nothing \in Partial /\ DOMAIN Nothing = {}
<1>1. Nothing \in [{} -> 0 .. MaxCycles]
  BY DEF Nothing
<1>2. QED
  BY <1>1, BoundAssumption DEF Zeroed, Frames, Nothing, Partial

(* The parts of frames and reports are natural numbers.                    *)
LEMMA FrameValues ==
  ASSUME TypeOK
  PROVE  \A p \in Parts :
           /\ data[p] \in Nat /\ fseen[p] \in Nat /\ fprev[p] \in Nat
           /\ fb[activeIdx][p] \in Nat /\ fb[1 - activeIdx][p] \in Nat
<1>1. fb[activeIdx] \in Frames /\ fb[1 - activeIdx] \in Frames
  BY DEF TypeOK
<1>2. data \in Frames /\ fseen \in Frames /\ fprev \in Frames
  BY DEF TypeOK
<1>3. QED
  BY <1>1, <1>2 DEF Frames

(* A copy with every part is a frame.                                      *)
LEMMA WholeCopy ==
  ASSUME NEW got \in Partial, DOMAIN got = Parts
  PROVE  got \in Frames
  BY DEF Partial, Frames

(* The inductive invariant holds initially.                                *)
LEMMA InitIInv == Init => IInv
<1> SUFFICES ASSUME Init PROVE IInv
  OBVIOUS
<1>1. TypeOK
  BY ConstantFrames, BoundAssumption DEF Init, TypeOK
<1>2. CountInv /\ BufferInv /\ NoLostWakeup
  BY BoundAssumption DEF Init, CountInv, BufferInv, NoLostWakeup, Zeroed
<1>3. ReaderInv /\ ReportInv /\ ReportNotOlder
  BY ConstantFrames DEF Init, ReaderInv, ReportInv, ReportNotOlder, Zeroed
<1>4. QED
  BY <1>1, <1>2, <1>3 DEF IInv, Inv

(* A step of the RT thread keeps the inductive invariant.                  *)
LEMMA WorkerKeepsIInv ==
  ASSUME IInv,
         \/ (\E due \in BOOLEAN : StartCycle(due))
         \/ (\E p \in Parts : CopyReport(p))
         \/ (\E p \in Parts : FillFrame(p))
         \/ BumpVersion
         \/ Wake
         \/ SkipFrame
         \/ BeginFrame
         \/ Flip
  PROVE  IInv'
<1> USE BoundAssumption
<1> USE DEF IInv, Inv, feedback, report, switches, worker, fbReader, reportReader
<1>1. ASSUME NEW due \in BOOLEAN, StartCycle(due)
      PROVE  IInv'
  <2>1. TypeOK'
    BY <1>1, FrameValues DEF StartCycle, TypeOK, CountInv
  <2>2. CountInv' /\ BufferInv'
    BY <1>1, FrameValues DEF StartCycle, TypeOK, CountInv, BufferInv
  <2>3. ReaderInv'
    BY <1>1, FrameValues DEF StartCycle, TypeOK, CountInv, BufferInv, ReaderInv, InTime
  <2>4. ReportInv' /\ ReportNotOlder' /\ NoLostWakeup'
    BY <1>1, FrameValues DEF StartCycle, TypeOK, CountInv, ReportInv, ReportNotOlder, NoLostWakeup
  <2>5. QED
    BY <2>1, <2>2, <2>3, <2>4
<1>2. ASSUME NEW p \in Parts, CopyReport(p)
      PROVE  IInv'
  <2>1. TypeOK'
    BY <1>2 DEF CopyReport, TypeOK, Frames
  <2>2. CountInv' /\ BufferInv'
    BY <1>2 DEF CopyReport, CountInv, BufferInv
  <2>3. ReaderInv'
    BY <1>2 DEF CopyReport, ReaderInv, InTime
  <2>4. ReportInv'
    <3>1. \A q \in Parts : data'[q] = IF q = p THEN cycle ELSE data[q]
      BY <1>2 DEF CopyReport, TypeOK, Frames
    <3>2. published <= cycle /\ cycle \in Nat
      BY DEF CountInv, TypeOK
    <3>3. QED
      BY <1>2, <3>1, <3>2 DEF CopyReport, ReportInv
  <2>5. ReportNotOlder' /\ NoLostWakeup'
    BY <1>2 DEF CopyReport, ReportNotOlder, NoLostWakeup
  <2>6. QED
    BY <2>1, <2>2, <2>3, <2>4, <2>5
<1>3. ASSUME NEW p \in Parts, FillFrame(p)
      PROVE  IInv'
  <2>1. TypeOK'
    BY <1>3, FrameValues DEF FillFrame, TypeOK, CountInv, Frames
  <2>2. CountInv' /\ BufferInv'
    BY <1>3, FrameValues DEF FillFrame, TypeOK, CountInv, BufferInv, Frames
  <2>3. ReaderInv'
    BY <1>3, FrameValues DEF FillFrame, TypeOK, CountInv, BufferInv, ReaderInv, InTime, Frames
  <2>4. ReportInv' /\ ReportNotOlder' /\ NoLostWakeup'
    BY <1>3, FrameValues DEF FillFrame, TypeOK, CountInv, ReportInv, ReportNotOlder, NoLostWakeup, Frames
  <2>5. QED
    BY <2>1, <2>2, <2>3, <2>4
<1>4. CASE BumpVersion
  <2>1. TypeOK'
    BY <1>4, FrameValues DEF BumpVersion, TypeOK, CountInv
  <2>2. CountInv' /\ BufferInv'
    BY <1>4, FrameValues DEF BumpVersion, TypeOK, CountInv, BufferInv
  <2>3. ReaderInv'
    BY <1>4, FrameValues DEF BumpVersion, TypeOK, CountInv, BufferInv, ReaderInv, InTime
  <2>4. ReportInv' /\ ReportNotOlder' /\ NoLostWakeup'
    BY <1>4, FrameValues DEF BumpVersion, TypeOK, CountInv, ReportInv, ReportNotOlder, NoLostWakeup
  <2>5. QED
    BY <2>1, <2>2, <2>3, <2>4
<1>5. CASE Wake
  BY <1>5 DEF Wake, TypeOK, CountInv, BufferInv, ReaderInv, InTime, ReportInv, ReportNotOlder, NoLostWakeup
<1>6. CASE SkipFrame
  BY <1>6 DEF SkipFrame, TypeOK, CountInv, BufferInv, ReaderInv, InTime, ReportInv, ReportNotOlder, NoLostWakeup
<1>7. CASE BeginFrame
  <2>1. TypeOK'
    BY <1>7, ConstantFrames DEF BeginFrame, TypeOK, CountInv
  <2>2. CountInv' /\ BufferInv'
    BY <1>7, ConstantFrames DEF BeginFrame, TypeOK, CountInv, BufferInv
  <2>3. ReaderInv'
    BY <1>7, ConstantFrames DEF BeginFrame, TypeOK, CountInv, BufferInv, ReaderInv, InTime
  <2>4. ReportInv' /\ ReportNotOlder' /\ NoLostWakeup'
    BY <1>7, ConstantFrames DEF BeginFrame, TypeOK, CountInv, ReportInv, ReportNotOlder, NoLostWakeup
  <2>5. QED
    BY <2>1, <2>2, <2>3, <2>4
<1>8. CASE Flip
  <2>1. TypeOK'
    BY <1>8, FrameValues DEF Flip, TypeOK, CountInv
  <2>2. CountInv' /\ BufferInv'
    BY <1>8, FrameValues DEF Flip, TypeOK, CountInv, BufferInv
  <2>3. ReaderInv'
    BY <1>8, FrameValues DEF Flip, TypeOK, CountInv, BufferInv, ReaderInv, InTime
  <2>4. ReportInv' /\ ReportNotOlder' /\ NoLostWakeup'
    BY <1>8, FrameValues DEF Flip, TypeOK, CountInv, ReportInv, ReportNotOlder, NoLostWakeup
  <2>5. QED
    BY <2>1, <2>2, <2>3, <2>4
<1>9. QED
  BY <1>1, <1>2, <1>3, <1>4, <1>5, <1>6, <1>7, <1>8

(* The main loop keeps it.                                                 *)
LEMMA MainLoopKeepsIInv ==
  ASSUME IInv,
         \/ (\E b \in BOOLEAN : SetActive(b))
         \/ (\E b \in BOOLEAN : SetEnabled(b))
         \/ SetEnabledShm
  PROVE  IInv'
<1> USE BoundAssumption
<1> USE DEF IInv, Inv, feedback, report, switches, worker, fbReader, reportReader
<1>1. ASSUME NEW b \in BOOLEAN, SetActive(b)
      PROVE  IInv'
  BY <1>1 DEF SetActive, TypeOK, CountInv, BufferInv, ReaderInv, InTime, ReportInv, ReportNotOlder, NoLostWakeup
<1>2. ASSUME NEW b \in BOOLEAN, SetEnabled(b)
      PROVE  IInv'
  BY <1>2 DEF SetEnabled, TypeOK, CountInv, BufferInv, ReaderInv, InTime, ReportInv, ReportNotOlder, NoLostWakeup
<1>3. CASE SetEnabledShm
  <2>1. TypeOK'
    BY <1>3 DEF SetEnabledShm, TypeOK, CountInv
  <2>2. CountInv' /\ BufferInv'
    BY <1>3 DEF SetEnabledShm, TypeOK, CountInv, BufferInv
  <2>3. ReaderInv'
    BY <1>3 DEF SetEnabledShm, TypeOK, CountInv, BufferInv, ReaderInv, InTime
  <2>4. ReportInv' /\ ReportNotOlder' /\ NoLostWakeup'
    BY <1>3 DEF SetEnabledShm, TypeOK, CountInv, ReportInv, ReportNotOlder, NoLostWakeup
  <2>5. QED
    BY <2>1, <2>2, <2>3, <2>4
<1>4. QED
  BY <1>1, <1>2, <1>3

(* stark_fb and its like keep it.                                          *)
LEMMA ReaderKeepsIInv ==
  ASSUME IInv,
         \/ LoadIndex
         \/ (\E p \in Parts : CopyFrame(p))
         \/ ReturnFrame
  PROVE  IInv'
<1> USE BoundAssumption
<1> USE DEF IInv, Inv, feedback, report, switches, worker, fbReader, reportReader
<1>1. CASE LoadIndex
  <2>1. TypeOK'
    BY <1>1, ConstantFrames, FrameValues DEF LoadIndex, TypeOK, CountInv
  <2>2. CountInv' /\ BufferInv'
    BY <1>1, ConstantFrames, FrameValues DEF LoadIndex, TypeOK, CountInv, BufferInv
  <2>3. ReaderInv'
    BY <1>1, ConstantFrames, FrameValues DEF LoadIndex, TypeOK, CountInv, BufferInv, ReaderInv, InTime
  <2>4. ReportInv' /\ ReportNotOlder' /\ NoLostWakeup'
    BY <1>1, ConstantFrames, FrameValues DEF LoadIndex, TypeOK, CountInv, ReportInv, ReportNotOlder, NoLostWakeup
  <2>5. QED
    BY <2>1, <2>2, <2>3, <2>4
<1>2. ASSUME NEW p \in Parts, CopyFrame(p)
      PROVE  IInv'
  <2>1. /\ fgot' \in Partial /\ DOMAIN fgot' = DOMAIN fgot \cup {p}
        /\ \A q \in DOMAIN fgot' :
             fgot'[q] = IF q = p THEN fb[fidx][p] ELSE fgot[q]
    <3>1. fgot \in Partial /\ fb[fidx] \in Frames
      BY DEF TypeOK
    <3>2. fgot' = With(fgot, p, fb[fidx])
      BY <1>2 DEF CopyFrame
    <3> DEFINE got == With(fgot, p, fb[fidx])
    <3>3. /\ got \in Partial /\ DOMAIN got = DOMAIN fgot \cup {p}
          /\ \A q \in DOMAIN fgot \cup {p} :
               got[q] = IF q = p THEN fb[fidx][p] ELSE fgot[q]
      BY <3>1, WithType
    <3> HIDE DEF got
    <3>4. fgot' = got
      BY <3>2 DEF got
    <3>5. QED
      BY <3>3, <3>4
  <2>2. TypeOK'
    BY <1>2, <2>1 DEF CopyFrame, TypeOK
  <2>3. ReaderInv'
    BY <1>2, <2>1 DEF CopyFrame, ReaderInv, InTime
  <2>4. CountInv' /\ BufferInv' /\ ReportInv' /\ ReportNotOlder' /\ NoLostWakeup'
    BY <1>2 DEF CopyFrame, CountInv, BufferInv, ReportInv, ReportNotOlder,
       NoLostWakeup
  <2>5. QED
    BY <2>2, <2>3, <2>4
<1>3. CASE ReturnFrame
  <2>1. TypeOK'
    BY <1>3, ConstantFrames, WholeCopy, FrameValues DEF ReturnFrame, TypeOK, CountInv
  <2>2. CountInv' /\ BufferInv'
    BY <1>3, ConstantFrames, WholeCopy, FrameValues DEF ReturnFrame, TypeOK, CountInv, BufferInv
  <2>3. ReaderInv'
    BY <1>3, ConstantFrames, WholeCopy, FrameValues DEF ReturnFrame, TypeOK, CountInv, BufferInv, ReaderInv, InTime
  <2>4. ReportInv' /\ ReportNotOlder' /\ NoLostWakeup'
    BY <1>3, ConstantFrames, WholeCopy, FrameValues DEF ReturnFrame, TypeOK, CountInv, ReportInv, ReportNotOlder, NoLostWakeup
  <2>5. QED
    BY <2>1, <2>2, <2>3, <2>4
<1>4. QED
  BY <1>1, <1>2, <1>3

(* stark_report_wait and stark_report_try_read keep it.                    *)
LEMMA WaiterKeepsIInv ==
  ASSUME IInv,
         \/ CallWait
         \/ CallTryRead
         \/ LoadVersion
         \/ FutexWait
         \/ TimeOut
         \/ (\E p \in Parts : ReadReport(p))
         \/ FinishReport
  PROVE  IInv'
<1> USE BoundAssumption
<1> USE DEF IInv, Inv, feedback, report, switches, worker, fbReader, reportReader
<1>1. CASE CallWait
  <2>1. TypeOK'
    BY <1>1 DEF CallWait, TypeOK, CountInv
  <2>2. CountInv' /\ BufferInv'
    BY <1>1 DEF CallWait, TypeOK, CountInv, BufferInv
  <2>3. ReaderInv'
    BY <1>1 DEF CallWait, TypeOK, CountInv, BufferInv, ReaderInv, InTime
  <2>4. ReportInv' /\ ReportNotOlder' /\ NoLostWakeup'
    BY <1>1 DEF CallWait, TypeOK, CountInv, ReportInv, ReportNotOlder, NoLostWakeup
  <2>5. QED
    BY <2>1, <2>2, <2>3, <2>4
<1>2. CASE CallTryRead
  <2>1. last' \in 0 .. version' /\ rneed' \in 0 .. MaxCycles
    BY <1>2 DEF CallTryRead, TakeReport, TypeOK
  <2>2. TypeOK'
    BY <1>2, <2>1 DEF CallTryRead, TakeReport, TypeOK
  <2>3. CountInv' /\ BufferInv' /\ ReaderInv'
    BY <1>2 DEF CallTryRead, CountInv, BufferInv, ReaderInv, InTime
  <2>4. ReportInv' /\ ReportNotOlder' /\ NoLostWakeup'
    BY <1>2 DEF CallTryRead, TakeReport, TypeOK, ReportInv, ReportNotOlder,
       NoLostWakeup
  <2>5. QED
    BY <2>2, <2>3, <2>4
<1>3. CASE LoadVersion
  <2>1. TypeOK'
    BY <1>3 DEF LoadVersion, TypeOK, CountInv, TakeReport
  <2>2. CountInv' /\ BufferInv'
    BY <1>3 DEF LoadVersion, TypeOK, CountInv, BufferInv, TakeReport
  <2>3. ReaderInv'
    BY <1>3 DEF LoadVersion, TypeOK, CountInv, BufferInv, ReaderInv, InTime, TakeReport
  <2>4. ReportInv' /\ ReportNotOlder' /\ NoLostWakeup'
    BY <1>3 DEF LoadVersion, TypeOK, CountInv, ReportInv, ReportNotOlder, NoLostWakeup, TakeReport
  <2>5. QED
    BY <2>1, <2>2, <2>3, <2>4
<1>4. CASE FutexWait
  BY <1>4 DEF FutexWait, TypeOK, CountInv, BufferInv, ReaderInv, InTime, ReportInv, ReportNotOlder, NoLostWakeup
<1>5. CASE TimeOut
  BY <1>5 DEF TimeOut, TypeOK, CountInv, BufferInv, ReaderInv, InTime, ReportInv, ReportNotOlder, NoLostWakeup
<1>6. ASSUME NEW p \in Parts, ReadReport(p)
      PROVE  IInv'
  <2>1. /\ rgot' \in Partial /\ DOMAIN rgot' = DOMAIN rgot \cup {p}
        /\ \A q \in DOMAIN rgot' :
             rgot'[q] = IF q = p THEN data[p] ELSE rgot[q]
    <3>1. rgot \in Partial /\ data \in Frames
      BY DEF TypeOK
    <3>2. rgot' = With(rgot, p, data)
      BY <1>6 DEF ReadReport
    <3>3. QED
      BY <3>1, <3>2, WithType
  <2>2. TypeOK'
    BY <1>6, <2>1 DEF ReadReport, TypeOK
  <2>3. rneed <= data[p]
    BY FrameValues DEF TypeOK, ReportInv
  <2>4. ReportInv' /\ ReportNotOlder'
    BY <1>6, <2>1, <2>3 DEF ReadReport, ReportInv, ReportNotOlder
  <2>5. CountInv' /\ BufferInv' /\ ReaderInv' /\ NoLostWakeup'
    BY <1>6 DEF ReadReport, CountInv, BufferInv, ReaderInv, InTime, NoLostWakeup
  <2>6. QED
    BY <2>2, <2>4, <2>5
<1>7. CASE FinishReport
  <2>1. TypeOK'
    BY <1>7, ConstantFrames DEF FinishReport, TypeOK, CountInv
  <2>2. CountInv' /\ BufferInv'
    BY <1>7, ConstantFrames DEF FinishReport, TypeOK, CountInv, BufferInv
  <2>3. ReaderInv'
    BY <1>7, ConstantFrames DEF FinishReport, TypeOK, CountInv, BufferInv, ReaderInv, InTime
  <2>4. ReportInv' /\ ReportNotOlder' /\ NoLostWakeup'
    BY <1>7, ConstantFrames DEF FinishReport, TypeOK, CountInv, ReportInv, ReportNotOlder, NoLostWakeup
  <2>5. QED
    BY <2>1, <2>2, <2>3, <2>4
<1>8. QED
  BY <1>1, <1>2, <1>3, <1>4, <1>5, <1>6, <1>7

(* Every step keeps the inductive invariant.                               *)
LEMMA NextKeepsIInv == IInv /\ [Next]_vars => IInv'
<1> SUFFICES ASSUME IInv, [Next]_vars PROVE IInv'
  OBVIOUS
<1>1. CASE Next
  BY <1>1, WorkerKeepsIInv, MainLoopKeepsIInv, ReaderKeepsIInv,
     WaiterKeepsIInv DEF Next
<1>2. CASE UNCHANGED vars
  BY <1>2 DEF vars, feedback, report, switches, worker, fbReader,
     reportReader, IInv, Inv, TypeOK, CountInv, BufferInv, ReaderInv, InTime,
     ReportInv, ReportNotOlder, NoLostWakeup
<1>3. QED
  BY <1>1, <1>2

-----------------------------------------------------------------------------
(* The two buffers, the report and their readers keep to the inductive     *)
(* invariant.                                                              *)
THEOREM FeedbackInvariant == Spec => []IInv
  BY InitIInv, NextKeepsIInv, PTL DEF Spec

(* Every variable keeps to its type, and a reader asleep in the futex has  *)
(* missed no report or is about to be woken.                               *)
THEOREM FeedbackInv == Spec => []Inv
<1>1. IInv => Inv
  BY DEF IInv
<1>2. QED
  BY <1>1, FeedbackInvariant, PTL

(* A reader that is in time copies one whole frame.                        *)
THEOREM InTimeIsWholeHolds == Spec => []InTimeIsWhole
<1>1. IInv => InTimeIsWhole
  BY DEF IInv, ReaderInv, InTimeIsWhole
<1>2. QED
  BY <1>1, FeedbackInvariant, PTL

(* A call never starts on an older frame than an earlier call returned.    *)
THEOREM NeverBackHolds == Spec => []NeverBack
<1>1. IInv => NeverBack
  BY FrameValues DEF IInv, Inv, ReaderInv, NeverBack
<1>2. QED
  BY <1>1, FeedbackInvariant, PTL

(* What is read of a report is not older than its version.                 *)
THEOREM ReportNotOlderHolds == Spec => []ReportNotOlder
<1>1. IInv => ReportNotOlder
  BY DEF IInv
<1>2. QED
  BY <1>1, FeedbackInvariant, PTL
=============================================================================
