------------------------------ MODULE Feedback -------------------------------
(***************************************************************************)
(* What the RT thread publishes once a period (PublishFeedback) and how    *)
(* the algorithm process reads it, both without a lock: the feedback in    *)
(* two buffers, one of them active (stark_fb, stark_imu, ...), and the     *)
(* periodic report in one buffer with a version that readers poll          *)
(* (stark_report_try_read) or sleep on in a futex (stark_report_wait).     *)
(*                                                                         *)
(* A frame or report has several Parts, copied one after the other in any  *)
(* order, as memcpy and struct assignments may; each is the number of the  *)
(* cycle it was taken in, 0 when zeroed.  The releases and acquires of the *)
(* code make an interleaving of these steps all a run can show.            *)
(*                                                                         *)
(* One thread of the algorithm reads feedback, one waits for reports, and  *)
(* the main loop switches both publications on and off at any time.  How   *)
(* many cycles lie between two frames (report_divider) or two reports      *)
(* (report_period_ms) is left open.                                        *)
(*                                                                         *)
(* Left out: the values, the trace rings, a reboot of the node, the wrap   *)
(* of the 32-bit version.                                                  *)
(***************************************************************************)
EXTENDS Integers

CONSTANTS
  Parts,       \* the fields of a frame or report
  MaxCycles    \* bound on cycles of the RT thread

ASSUME BoundAssumption == MaxCycles \in Nat

VARIABLES
  activeIdx, fb,                 \* active_idx and fb_buffer
  version, data, enabledShm,     \* periodic_version, _data and _enabled
  enabled, active,               \* m_report_enabled, m_active
  switching,                     \* the main loop is within SetReportEnabled
  cycle, wpc, widx, wleft,       \* the RT thread
  fpc, fidx, fgot, fflips,       \* who reads feedback; flips since it started
  rpc, last, rgot,               \* who waits for reports
  published, fseen, fprev, rneed \* history: see the properties

feedback == <<activeIdx, fb>>
report == <<version, data, published>>
switches == <<enabled, enabledShm, active, switching>>
worker == <<cycle, wpc, widx, wleft>>
fbReader == <<fpc, fidx, fgot, fflips, fseen, fprev>>
reportReader == <<rpc, last, rgot, rneed>>
vars == <<feedback, report, switches, worker, fbReader, reportReader>>

Nothing == [p \in {} |-> 0]
Zeroed == [p \in Parts |-> 0]
(* got, with part p of the source read.                                    *)
With(got, p, source) ==
  [q \in DOMAIN got \cup {p} |-> IF q = p THEN source[p] ELSE got[q]]

Init ==
  /\ activeIdx = 0 /\ fb = [i \in {0, 1} |-> Zeroed]
  /\ version = 0 /\ data = Zeroed /\ published = 0
  /\ enabled = FALSE /\ enabledShm = FALSE /\ active = FALSE
  /\ switching = FALSE
  /\ cycle = 0 /\ wpc = "idle" /\ widx = 0 /\ wleft = {}
  /\ fpc = "idle" /\ fidx = 0 /\ fgot = Nothing /\ fflips = 0
  /\ rpc = "idle" /\ last = 0 /\ rgot = Nothing
  /\ fseen = Zeroed /\ fprev = Zeroed /\ rneed = 0

-----------------------------------------------------------------------------
(* The RT thread: PublishFeedback.                                         *)

(* Mutant: the version moves before the report is there.                   *)
BumpFirst(reportDue) ==
  /\ wpc = "idle" /\ cycle < MaxCycles
  /\ cycle' = cycle + 1
  /\ IF enabled /\ reportDue
     THEN wpc' = "report" /\ wleft' = Parts
          /\ version' = version + 1 /\ published' = cycle'
     ELSE wpc' = "frame" /\ UNCHANGED <<wleft, version, published>>
  /\ UNCHANGED <<feedback, data, switches, widx, fbReader, reportReader>>

StartCycle(reportDue) ==
  /\ wpc = "idle" /\ cycle < MaxCycles
  /\ cycle' = cycle + 1
  /\ IF enabled /\ reportDue
     THEN wpc' = "report" /\ wleft' = Parts
     ELSE wpc' = "frame" /\ UNCHANGED wleft
  /\ UNCHANGED <<feedback, report, switches, widx, fbReader, reportReader>>

CopyReport(p) ==
  /\ wpc = "report" /\ p \in wleft
  /\ data' = [data EXCEPT ![p] = cycle]
  /\ wleft' = wleft \ {p}
  /\ UNCHANGED <<feedback, version, published, switches, cycle, wpc, widx,
                 fbReader, reportReader>>

BumpVersion ==
  /\ wpc = "report" /\ wleft = {}
  /\ version' = version + 1 /\ published' = cycle
  /\ wpc' = "wake"
  /\ UNCHANGED <<feedback, data, switches, cycle, widx, wleft, fbReader,
                 reportReader>>

(* Mutant: the waiting reader is not woken.                                *)
WakeNobody ==
  /\ wpc = "wake"
  /\ wpc' = "frame"
  /\ UNCHANGED <<feedback, report, switches, cycle, widx, wleft, fbReader,
                 reportReader>>

Wake ==
  /\ wpc = "wake"
  /\ rpc' = IF rpc = "asleep" THEN "load" ELSE rpc
  /\ wpc' = "frame"
  /\ UNCHANGED <<feedback, report, switches, cycle, widx, wleft, fbReader,
                 last, rgot, rneed>>

(* No frame this time: the divider has not run down, or the node is idle.  *)
SkipFrame ==
  /\ wpc = "frame"
  /\ wpc' = "idle"
  /\ UNCHANGED <<feedback, report, switches, cycle, widx, wleft, fbReader,
                 reportReader>>

(* Mutant: the buffer becomes active before it is filled.                  *)
FlipFirst ==
  /\ wpc = "frame" /\ active
  /\ widx' = 1 - activeIdx
  /\ fb' = [fb EXCEPT ![widx'] = Zeroed] /\ activeIdx' = widx'
  /\ wleft' = Parts /\ wpc' = "fill"
  /\ UNCHANGED <<report, switches, cycle, fbReader, reportReader>>

(* Mutant: the frame goes to the buffer that is being read.                *)
BeginInPlace ==
  /\ wpc = "frame" /\ active
  /\ widx' = activeIdx
  /\ fb' = [fb EXCEPT ![widx'] = Zeroed]
  /\ wleft' = Parts /\ wpc' = "fill"
  /\ UNCHANGED <<activeIdx, report, switches, cycle, fbReader, reportReader>>

(* The buffer that is not active is zeroed, ...                            *)
BeginFrame ==
  /\ wpc = "frame" /\ active
  /\ widx' = 1 - activeIdx
  /\ fb' = [fb EXCEPT ![widx'] = Zeroed]
  /\ wleft' = Parts /\ wpc' = "fill"
  /\ UNCHANGED <<activeIdx, report, switches, cycle, fbReader, reportReader>>

(* ... filled, ...                                                         *)
FillFrame(p) ==
  /\ wpc = "fill" /\ p \in wleft
  /\ fb' = [fb EXCEPT ![widx][p] = cycle]
  /\ wleft' = wleft \ {p}
  /\ UNCHANGED <<activeIdx, report, switches, cycle, wpc, widx, fbReader,
                 reportReader>>

(* ... and made the active one.                                            *)
Flip ==
  /\ wpc = "fill" /\ wleft = {}
  /\ activeIdx' = widx
  /\ fflips' = IF fpc = "copy" THEN fflips + 1 ELSE 0
  /\ wpc' = "idle"
  /\ UNCHANGED <<fb, report, switches, cycle, widx, wleft, fpc, fidx, fgot,
                 fseen, fprev, reportReader>>

RtStep ==
  \/ \E p \in Parts : CopyReport(p) \/ FillFrame(p)
  \/ BumpVersion \/ Wake \/ SkipFrame \/ BeginFrame \/ Flip

-----------------------------------------------------------------------------
(* The main loop.                                                          *)

SetActive(b) ==
  /\ active # b
  /\ active' = b
  /\ UNCHANGED <<feedback, report, enabled, enabledShm, switching, worker,
                 fbReader, reportReader>>

(* SetReportEnabled: the RT thread's flag, then the one in shared memory.  *)
SetEnabled(b) ==
  /\ ~switching /\ enabled # b
  /\ enabled' = b /\ switching' = TRUE
  /\ UNCHANGED <<feedback, report, enabledShm, active, worker, fbReader,
                 reportReader>>

SetEnabledShm ==
  /\ switching
  /\ enabledShm' = enabled /\ switching' = FALSE
  /\ UNCHANGED <<feedback, report, enabled, active, worker, fbReader,
                 reportReader>>

-----------------------------------------------------------------------------
(* stark_fb, stark_imu, ...: load the index, copy, return.                 *)

LoadIndex ==
  /\ fpc = "idle"
  /\ fidx' = activeIdx /\ fflips' = 0 /\ fpc' = "copy"
  /\ fseen' = fb[activeIdx]
  /\ UNCHANGED <<feedback, report, switches, worker, fgot, fprev,
                 reportReader>>

CopyFrame(p) ==
  /\ fpc = "copy" /\ p \notin DOMAIN fgot
  /\ fgot' = With(fgot, p, fb[fidx])
  /\ UNCHANGED <<feedback, report, switches, worker, fpc, fidx, fflips, fseen,
                 fprev, reportReader>>

(* The reader is in time as long as the RT thread has not come back to the *)
(* buffer: not flipped, or flipped once and not begun the next frame.      *)
InTime == fflips = 0 \/ (fflips = 1 /\ wpc # "fill")

ReturnFrame ==
  /\ fpc = "copy" /\ DOMAIN fgot = Parts
  /\ fprev' = IF InTime THEN fgot ELSE fprev
  /\ fpc' = "idle" /\ fgot' = Nothing
  /\ fidx' = 0 /\ fflips' = 0 /\ fseen' = Zeroed
  /\ UNCHANGED <<feedback, report, switches, worker, reportReader>>

-----------------------------------------------------------------------------
(* stark_report_wait and stark_report_try_read.                            *)

TakeReport ==
  /\ last' = version /\ rneed' = published
  /\ rpc' = "read"

CallWait ==
  /\ rpc = "idle" /\ enabledShm
  /\ rpc' = "load"
  /\ UNCHANGED <<feedback, report, switches, worker, fbReader, last, rgot,
                 rneed>>

CallTryRead ==
  /\ rpc = "idle" /\ enabledShm /\ version # last
  /\ TakeReport
  /\ UNCHANGED <<feedback, report, switches, worker, fbReader, rgot>>

LoadVersion ==
  /\ rpc = "load"
  /\ IF version # last
     THEN TakeReport
     ELSE rpc' = "futex" /\ UNCHANGED <<last, rneed>>
  /\ UNCHANGED <<feedback, report, switches, worker, fbReader, rgot>>

(* Mutant: the reader sleeps without the kernel comparing the version.     *)
SleepAnyway ==
  /\ rpc = "futex"
  /\ rpc' = "asleep"
  /\ UNCHANGED <<feedback, report, switches, worker, fbReader, last, rgot,
                 rneed>>

(* FUTEX_WAIT: the kernel compares and puts to sleep in one step.          *)
FutexWait ==
  /\ rpc = "futex"
  /\ rpc' = IF version = last THEN "asleep" ELSE "load"
  /\ UNCHANGED <<feedback, report, switches, worker, fbReader, last, rgot,
                 rneed>>

TimeOut ==
  /\ rpc = "asleep"
  /\ rpc' = "idle"
  /\ UNCHANGED <<feedback, report, switches, worker, fbReader, last, rgot,
                 rneed>>

(* The caller reads through the pointer it got.                            *)
ReadReport(p) ==
  /\ rpc = "read" /\ p \notin DOMAIN rgot
  /\ rgot' = With(rgot, p, data)
  /\ UNCHANGED <<feedback, report, switches, worker, fbReader, rpc, last,
                 rneed>>

FinishReport ==
  /\ rpc = "read" /\ DOMAIN rgot = Parts
  /\ rpc' = "idle" /\ rgot' = Nothing /\ rneed' = 0
  /\ UNCHANGED <<feedback, report, switches, worker, fbReader, last>>

Next ==
  \/ \E due \in BOOLEAN : StartCycle(due)
  \/ \E p \in Parts :
       CopyReport(p) \/ FillFrame(p) \/ CopyFrame(p) \/ ReadReport(p)
  \/ BumpVersion \/ Wake \/ SkipFrame \/ BeginFrame \/ Flip
  \/ \E b \in BOOLEAN : SetActive(b) \/ SetEnabled(b)
  \/ SetEnabledShm
  \/ LoadIndex \/ ReturnFrame
  \/ CallWait \/ CallTryRead \/ LoadVersion \/ FutexWait \/ TimeOut
  \/ FinishReport

Spec == Init /\ [][Next]_vars

(* A period of the RT thread that has begun ends, and the thread that      *)
(* waits for reports runs unless it sleeps.                                *)
FairSpec == Spec /\ WF_vars(RtStep) /\ WF_vars(LoadVersion \/ FutexWait)

-----------------------------------------------------------------------------
Frames == [Parts -> 0 .. MaxCycles]
Partial == UNION {[S -> 0 .. MaxCycles] : S \in SUBSET Parts}

TypeOK ==
  /\ activeIdx \in {0, 1} /\ fb \in [{0, 1} -> Frames]
  /\ version \in 0 .. MaxCycles /\ data \in Frames
  /\ published \in 0 .. MaxCycles
  /\ {enabled, enabledShm, active, switching} \subseteq BOOLEAN
  /\ ~switching => enabledShm = enabled
  /\ cycle \in 0 .. MaxCycles /\ widx \in {0, 1} /\ wleft \subseteq Parts
  /\ wpc \in {"idle", "report", "wake", "frame", "fill"}
  /\ fpc \in {"idle", "copy"} /\ fidx \in {0, 1}
  /\ fgot \in Partial /\ fflips \in 0 .. MaxCycles
  /\ fseen \in Frames /\ fprev \in Frames
  /\ rpc \in {"idle", "load", "futex", "asleep", "read"}
  /\ last \in 0 .. version /\ rgot \in Partial /\ rneed \in 0 .. MaxCycles

(* A reader that is in time has copied nothing but the frame that was      *)
(* active when it loaded active_idx, and that frame is of one cycle.       *)
InTimeIsWhole ==
  (fpc = "copy" /\ InTime) =>
    /\ \A p \in DOMAIN fgot : fgot[p] = fseen[p]
    /\ \A p, q \in Parts : fseen[p] = fseen[q]

(* A call (stark_fb, stark_imu, ...) never starts on an older frame than   *)
(* the one an earlier call returned: the index is loaded again by each.    *)
NeverBack ==
  fpc = "copy" => \A p \in Parts : fseen[p] >= fprev[p]

(* A report may be overwritten while it is read, but is never older than   *)
(* the version the reader was given for it (memcpy before the release of   *)
(* periodic_version, acquire before the read).                             *)
ReportNotOlder == \A p \in DOMAIN rgot : rgot[p] >= rneed

(* A reader asleep in the futex has missed no report, or is about to be    *)
(* woken.                                                                  *)
NoLostWakeup == rpc = "asleep" => (version = last \/ wpc = "wake")

(* Well typed, and no report is slept through.                             *)
Inv == TypeOK /\ NoLostWakeup

(* A reader that waits while a new report is there gets it, or its timeout *)
(* has passed.                                                             *)
NewReportIsSeen ==
  (rpc \in {"load", "futex", "asleep"} /\ version # last)
    ~> rpc \in {"read", "idle"}
=============================================================================
