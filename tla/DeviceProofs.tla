----------------------------- MODULE DeviceProofs ------------------------------
(***************************************************************************)
(* The two devices that have a thread of their own.                        *)
(*                                                                         *)
(* The calibration button asks for a calibration after clicks of its own,  *)
(* and acts on a press once, for every debounce time, click window, number *)
(* of clicks and long-press time, and for as long as the clock runs.       *)
(*                                                                         *)
(* The reader of the foot pressure sensor delivers the frames that are in  *)
(* the bytes of the line, however read() cuts them up, and on a clean line *)
(* all that were sent: for every size of byte, buffer and read, any number *)
(* of frames and any number of faults.                                     *)
(***************************************************************************)
EXTENDS Button, FootPressure, SequenceTheorems, WellFoundedInduction, TLAPS

-----------------------------------------------------------------------------
(* The calibration button.                                                 *)

Stamps == 0 .. MaxTime

(* TypeOK, variable by variable: the stamps of the two threads, the counts *)
(* and the places, the flags.                                              *)
StampsTyped ==
  /\ now \in Stamps /\ lastEdge \in Stamps /\ pressUs \in Stamps
  /\ first \in Stamps /\ gNow \in Stamps /\ pNow \in Stamps
  /\ downSince \in Stamps
  /\ clicks \in [1 .. ClickCount -> Stamps]

PlacesTyped ==
  /\ cnt \in 0 .. ClickCount - 1 /\ gCnt \in 0 .. ClickCount - 1
  /\ gpc \in {"wait", "load", "count", "stamp"}
  /\ ppc \in {"sleep", "trig", "press", "fire", "forget", "forgetFirst", "take"}

FlagsTyped ==
  /\ down \in BOOLEAN /\ dropped \in BOOLEAN /\ trig \in BOOLEAN
  /\ calibReq \in BOOLEAN /\ armed \in BOOLEAN /\ mixed \in BOOLEAN

(* A press time that is noted has not been acted upon; without a bounce it *)
(* is the time since which the button is down.                             *)
PressInv ==
  /\ pressUs # 0 => armed
  /\ (pressUs # 0 /\ ~dropped) => down /\ downSince = pressUs

(* No stamp lies in the future.                                            *)
TimeInv ==
  /\ 0 < now /\ first <= now
  /\ gpc # "wait" => /\ gNow = clicks[ClickCount]
                     /\ gNow # 0 /\ first <= gNow /\ gNow <= now

(* Unless poll() ever forgot a press that was being counted: the first of  *)
(* the cnt presses counted is the cnt-th last accepted, one more back while*)
(* the latest is not counted yet, and poll() forgets with no count running.*)
GroupInv ==
  ~mixed =>
    /\ (gpc = "wait" /\ cnt > 0) =>
         first # 0 /\ first = clicks[ClickCount - cnt + 1]
    /\ (gpc \in {"load", "count"} /\ cnt > 0) =>
         first # 0 /\ first = clicks[ClickCount - cnt]
    /\ gpc = "count" => gCnt = cnt
    /\ gpc = "stamp" => cnt = 1
    /\ ppc = "forgetFirst" => cnt = 0 /\ gpc = "wait"

IInv ==
  /\ StampsTyped /\ PlacesTyped /\ FlagsTyped
  /\ OneShot /\ PressInv /\ TimeInv /\ GroupInv

-----------------------------------------------------------------------------
(* The difference of a later and an earlier stamp does not wrap.           *)
LEMMA MinusIsDifference ==
  ASSUME NEW a \in Stamps, NEW b \in Stamps, a <= b
  PROVE  Minus(b, a) = b - a
<1>1. b - a \in 0 .. Wrap - 1
  BY TimeAssumption DEF Stamps
<1>2. QED
  BY <1>1, TimeAssumption DEF Minus

(* An accepted press moves the times of the clicks up by one.              *)
LEMMA ClicksAfterPress ==
  ASSUME StampsTyped,
         clicks' = [i \in 1 .. ClickCount |->
                      IF i = ClickCount THEN now ELSE clicks[i + 1]]
  PROVE  /\ clicks' \in [1 .. ClickCount -> Stamps]
         /\ clicks'[ClickCount] = now
         /\ \A i \in 1 .. ClickCount - 1 : clicks'[i] = clicks[i + 1]
<1> USE CountAssumption DEF StampsTyped
<1>1. ASSUME NEW i \in 1 .. ClickCount, i # ClickCount
      PROVE  clicks[i + 1] \in Stamps
  <2>1. i + 1 \in 1 .. ClickCount
    BY <1>1
  <2>2. QED
    BY <2>1
<1>2. clicks' \in [1 .. ClickCount -> Stamps]
  BY <1>1
<1>3. clicks'[ClickCount] = now
  OBVIOUS
<1>4. \A i \in 1 .. ClickCount - 1 : clicks'[i] = clicks[i + 1]
  OBVIOUS
<1>5. QED
  BY <1>2, <1>3, <1>4

(* The variables, one by one in their ranges, are in their ranges.         *)
LEMMA TypedIsTypeOK ==
  ASSUME StampsTyped, PlacesTyped, FlagsTyped
  PROVE  TypeOK
<1>1. {now, lastEdge, pressUs, first, gNow, pNow, downSince} \subseteq Stamps
  BY DEF StampsTyped
<1>2. {down, dropped, trig, calibReq, armed, mixed} \subseteq BOOLEAN
  BY ZenonT(60) DEF FlagsTyped
<1>3. {cnt, gCnt} \subseteq 0 .. ClickCount - 1
  BY DEF PlacesTyped
<1>4. QED
  BY <1>1, <1>2, <1>3 DEF TypeOK, Stamps, StampsTyped, PlacesTyped

(* The inductive invariant holds initially.                                *)
LEMMA InitIInv == Init => IInv
<1> SUFFICES ASSUME Init PROVE IInv
  OBVIOUS
<1> USE TimeAssumption, CountAssumption
<1>0. 0 \in Stamps /\ 1 \in Stamps
  BY DEF Stamps
<1>1. clicks \in [1 .. ClickCount -> Stamps]
  BY <1>0 DEF Init, NoClicks
<1>2. StampsTyped /\ PlacesTyped
  BY <1>0, <1>1 DEF Init, StampsTyped, PlacesTyped
<1>3. FlagsTyped
  BY DEF Init, FlagsTyped
<1>4. OneShot /\ PressInv /\ TimeInv /\ GroupInv
  BY DEF Init, OneShot, PressInv, TimeInv, GroupInv
<1>5. QED
  BY <1>2, <1>3, <1>4 DEF IInv

(* The clock, the finger and onCalibEdge keep the inductive invariant.     *)
LEMMA GpioKeepsIInv ==
  ASSUME IInv,
         \/ Tick
         \/ Press
         \/ Release
         \/ LoadCount
         \/ CountFirst
         \/ Stamp
         \/ CountNext
  PROVE  IInv'
<1> USE TimeAssumption, CountAssumption
<1> USE DEF IInv, button, gpio, poll, history
<1>1. CASE Tick
  <2>1. StampsTyped'
    <3>1. now' \in Stamps
      BY <1>1 DEF Tick, StampsTyped, Stamps
    <3>2. QED
      BY <1>1, <3>1 DEF Tick, StampsTyped
  <2>2. PlacesTyped'
    BY <1>1 DEF Tick, PlacesTyped
  <2>3. FlagsTyped'
    BY <1>1 DEF Tick, FlagsTyped
  <2>4. OneShot' /\ PressInv'
    BY <1>1 DEF Tick, OneShot, PressInv
  <2>5. TimeInv'
    BY <1>1 DEF Tick, StampsTyped, Stamps, PlacesTyped, TimeInv
  <2>6. GroupInv'
    BY <1>1 DEF Tick, PlacesTyped, FlagsTyped, GroupInv
  <2>7. QED
    BY <2>1, <2>2, <2>3, <2>4, <2>5, <2>6
<1>2. CASE Press
  <2>1. StampsTyped'
    BY <1>2, ClicksAfterPress DEF Press, StampsTyped
  <2>2. PlacesTyped'
    BY <1>2, ClicksAfterPress DEF Press, PlacesTyped
  <2>3. FlagsTyped'
    BY <1>2, ClicksAfterPress DEF Press, FlagsTyped, TooSoon
  <2>4. OneShot' /\ PressInv'
    BY <1>2, ClicksAfterPress DEF Press, OneShot, PressInv, TooSoon
  <2>5. TimeInv'
    <3>1. CASE TooSoon
      BY <1>2, <3>1 DEF Press, TimeInv
    <3>2. CASE ~TooSoon
      <4>1. clicks'[ClickCount] = now
        BY <1>2, <3>2, ClicksAfterPress DEF Press
      <4>2. gNow' = now /\ UNCHANGED <<now, first>>
        BY <1>2, <3>2 DEF Press
      <4>3. QED
        BY <4>1, <4>2 DEF StampsTyped, Stamps, TimeInv
    <3>3. QED
      BY <3>1, <3>2
  <2>6. GroupInv'
    <3>1. CASE TooSoon
      BY <1>2, <3>1 DEF Press, GroupInv
    <3>2. CASE ~TooSoon
      <4>1. gpc = "wait" /\ gpc' = "load" /\ (mixed' = (mixed \/ Forgetting))
            /\ UNCHANGED <<cnt, first, ppc>>
        BY <1>2, <3>2 DEF Press
      <4>2. \A i \in 1 .. ClickCount - 1 : clicks'[i] = clicks[i + 1]
        BY <1>2, <3>2, ClicksAfterPress DEF Press
      <4>3. ASSUME ~mixed'
            PROVE  ~mixed /\ ppc' # "forgetFirst"
        BY <4>1, <4>3 DEF Forgetting
      <4>4. ASSUME ~mixed', cnt > 0
            PROVE  first # 0 /\ first = clicks'[ClickCount - cnt]
        <5>1. first # 0 /\ first = clicks[ClickCount - cnt + 1]
          BY <4>1, <4>3, <4>4 DEF GroupInv
        <5>2. ClickCount - cnt \in 1 .. ClickCount - 1
          BY <4>4 DEF PlacesTyped
        <5>3. clicks'[ClickCount - cnt] = clicks[ClickCount - cnt + 1]
          BY <4>2, <5>2
        <5>4. QED
          BY <5>1, <5>3
      <4>5. QED
        BY <4>1, <4>3, <4>4 DEF GroupInv
    <3>3. QED
      BY <3>1, <3>2
  <2>7. QED
    BY <2>1, <2>2, <2>3, <2>4, <2>5, <2>6
<1>3. CASE Release
  <2>1. StampsTyped'
    <3>1. lastEdge' \in {lastEdge, now} /\ pressUs' \in {pressUs, 0} /\ downSince' = 0
      BY <1>3 DEF Release
    <3>2. lastEdge \in Stamps /\ now \in Stamps /\ pressUs \in Stamps /\ 0 \in Stamps
      BY DEF StampsTyped, Stamps
    <3>3. lastEdge' \in Stamps /\ pressUs' \in Stamps /\ downSince' \in Stamps
      BY <3>1, <3>2
    <3>4. QED
      BY <1>3, <3>3 DEF Release, StampsTyped
  <2>2. PlacesTyped'
    BY <1>3 DEF Release, PlacesTyped, TooSoon
  <2>3. FlagsTyped'
    BY <1>3 DEF Release, FlagsTyped, TooSoon
  <2>4. OneShot' /\ PressInv'
    BY <1>3 DEF Release, OneShot, PressInv, TooSoon
  <2>5. TimeInv'
    BY <1>3 DEF Release, PlacesTyped, TimeInv
  <2>6. GroupInv'
    BY <1>3 DEF Release, GroupInv
  <2>7. QED
    BY <2>1, <2>2, <2>3, <2>4, <2>5, <2>6
<1>4. CASE LoadCount
  <2>1. StampsTyped'
    BY <1>4 DEF LoadCount, StampsTyped
  <2>2. PlacesTyped'
    BY <1>4 DEF LoadCount, PlacesTyped
  <2>3. FlagsTyped'
    BY <1>4 DEF LoadCount, FlagsTyped
  <2>4. OneShot' /\ PressInv'
    BY <1>4 DEF LoadCount, OneShot, PressInv
  <2>5. TimeInv'
    BY <1>4 DEF LoadCount, PlacesTyped, TimeInv
  <2>6. GroupInv'
    BY <1>4 DEF LoadCount, GroupInv
  <2>7. QED
    BY <2>1, <2>2, <2>3, <2>4, <2>5, <2>6
<1>5. CASE CountFirst
  <2>1. StampsTyped'
    BY <1>5 DEF CountFirst, StampsTyped
  <2>2. PlacesTyped'
    BY <1>5 DEF CountFirst, PlacesTyped
  <2>3. FlagsTyped'
    BY <1>5 DEF CountFirst, FlagsTyped
  <2>4. OneShot' /\ PressInv'
    BY <1>5 DEF CountFirst, OneShot, PressInv
  <2>5. TimeInv'
    BY <1>5 DEF CountFirst, PlacesTyped, TimeInv
  <2>6. GroupInv'
    BY <1>5 DEF CountFirst, GroupInv
  <2>7. QED
    BY <2>1, <2>2, <2>3, <2>4, <2>5, <2>6
<1>6. CASE Stamp
  <2>1. StampsTyped'
    BY <1>6 DEF Stamp, StampsTyped
  <2>2. PlacesTyped'
    BY <1>6 DEF Stamp, PlacesTyped
  <2>3. FlagsTyped'
    BY <1>6 DEF Stamp, FlagsTyped
  <2>4. OneShot' /\ PressInv'
    BY <1>6 DEF Stamp, OneShot, PressInv
  <2>5. TimeInv'
    BY <1>6 DEF Stamp, PlacesTyped, TimeInv
  <2>6. GroupInv'
    BY <1>6 DEF Stamp, TimeInv, GroupInv
  <2>7. QED
    BY <2>1, <2>2, <2>3, <2>4, <2>5, <2>6
<1>7. CASE CountNext
  <2>1. StampsTyped'
    <3>1. 0 \in Stamps
      BY DEF Stamps
    <3>2. NoClicks \in [1 .. ClickCount -> Stamps]
      BY <3>1 DEF NoClicks
    <3>3. QED
      BY <1>7, <3>1, <3>2 DEF CountNext, StampsTyped
  <2>2. PlacesTyped'
    BY <1>7 DEF CountNext, PlacesTyped, NewGroup, NoClicks
  <2>3. FlagsTyped'
    BY <1>7 DEF CountNext, FlagsTyped, NewGroup
  <2>4. OneShot' /\ PressInv'
    BY <1>7 DEF CountNext, OneShot, PressInv
  <2>5. TimeInv'
    BY <1>7 DEF CountNext, StampsTyped, Stamps, PlacesTyped, TimeInv, NewGroup, NoClicks
  <2>6. GroupInv'
    <3>1. gpc = "count" /\ gpc' = "wait" /\ UNCHANGED <<ppc, mixed>>
      BY <1>7 DEF CountNext
    <3>2. CASE gCnt + 1 >= ClickCount
      <4>1. cnt' = 0
        BY <1>7, <3>2 DEF CountNext
      <4>2. QED
        BY <3>1, <4>1 DEF GroupInv
    <3>3. CASE ~(gCnt + 1 >= ClickCount)
      <4>1. cnt' = gCnt + 1 /\ gCnt # 0 /\ UNCHANGED <<first, clicks>>
        BY <1>7, <3>3 DEF CountNext, NewGroup
      <4>2. ASSUME ~mixed
            PROVE  /\ ppc # "forgetFirst"
                   /\ gCnt = cnt /\ first # 0 /\ first = clicks[ClickCount - cnt]
        BY <3>1, <4>1, <4>2 DEF GroupInv, PlacesTyped
      <4>3. ClickCount - (gCnt + 1) + 1 = ClickCount - gCnt
        BY DEF PlacesTyped
      <4>4. QED
        BY <3>1, <4>1, <4>2, <4>3 DEF GroupInv
    <3>4. QED
      BY <3>2, <3>3
  <2>7. QED
    BY <2>1, <2>2, <2>3, <2>4, <2>5, <2>6
<1>8. QED
  BY <1>1, <1>2, <1>3, <1>4, <1>5, <1>6, <1>7

(* poll() and the main loop keep it.                                       *)
LEMMA PollKeepsIInv ==
  ASSUME IInv,
         \/ Poll
         \/ PassOn
         \/ NotLong
         \/ Long
         \/ Fire
         \/ ForgetCount
         \/ ForgetFirst
         \/ Take
  PROVE  IInv'
<1> USE TimeAssumption, CountAssumption
<1> USE DEF IInv, button, gpio, poll, history
<1>1. CASE Poll
  <2>1. StampsTyped'
    BY <1>1 DEF Poll, StampsTyped
  <2>2. PlacesTyped'
    BY <1>1 DEF Poll, PlacesTyped
  <2>3. FlagsTyped'
    BY <1>1 DEF Poll, FlagsTyped
  <2>4. OneShot' /\ PressInv'
    BY <1>1 DEF Poll, OneShot, PressInv
  <2>5. TimeInv'
    BY <1>1 DEF Poll, PlacesTyped, TimeInv
  <2>6. GroupInv'
    BY <1>1 DEF Poll, GroupInv
  <2>7. QED
    BY <2>1, <2>2, <2>3, <2>4, <2>5, <2>6
<1>2. CASE PassOn
  <2>1. StampsTyped'
    BY <1>2 DEF PassOn, StampsTyped
  <2>2. PlacesTyped'
    BY <1>2 DEF PassOn, PlacesTyped
  <2>3. FlagsTyped'
    BY <1>2 DEF PassOn, FlagsTyped
  <2>4. OneShot' /\ PressInv'
    BY <1>2 DEF PassOn, OneShot, PressInv
  <2>5. TimeInv'
    BY <1>2 DEF PassOn, PlacesTyped, TimeInv
  <2>6. GroupInv'
    BY <1>2 DEF PassOn, GroupInv
  <2>7. QED
    BY <2>1, <2>2, <2>3, <2>4, <2>5, <2>6
<1>3. CASE NotLong
  <2>1. StampsTyped'
    BY <1>3 DEF NotLong, StampsTyped
  <2>2. PlacesTyped'
    BY <1>3 DEF NotLong, PlacesTyped
  <2>3. FlagsTyped'
    BY <1>3 DEF NotLong, FlagsTyped
  <2>4. OneShot' /\ PressInv'
    BY <1>3 DEF NotLong, OneShot, PressInv
  <2>5. TimeInv'
    BY <1>3 DEF NotLong, PlacesTyped, TimeInv
  <2>6. GroupInv'
    BY <1>3 DEF NotLong, GroupInv
  <2>7. QED
    BY <2>1, <2>2, <2>3, <2>4, <2>5, <2>6
<1>4. CASE Long
  <2>1. StampsTyped'
    BY <1>4 DEF Long, StampsTyped
  <2>2. PlacesTyped'
    BY <1>4 DEF Long, PlacesTyped
  <2>3. FlagsTyped'
    BY <1>4 DEF Long, FlagsTyped
  <2>4. OneShot' /\ PressInv'
    BY <1>4 DEF Long, OneShot, PressInv, LongEnough
  <2>5. TimeInv'
    BY <1>4 DEF Long, PlacesTyped, TimeInv, LongEnough
  <2>6. GroupInv'
    BY <1>4 DEF Long, GroupInv
  <2>7. QED
    BY <2>1, <2>2, <2>3, <2>4, <2>5, <2>6
<1>5. CASE Fire
  <2>1. StampsTyped'
    BY <1>5 DEF Fire, StampsTyped, Stamps
  <2>2. PlacesTyped'
    BY <1>5 DEF Fire, PlacesTyped
  <2>3. FlagsTyped'
    BY <1>5 DEF Fire, FlagsTyped
  <2>4. OneShot' /\ PressInv'
    BY <1>5 DEF Fire, OneShot, PressInv
  <2>5. TimeInv'
    BY <1>5 DEF Fire, PlacesTyped, TimeInv
  <2>6. GroupInv'
    BY <1>5 DEF Fire, GroupInv
  <2>7. QED
    BY <2>1, <2>2, <2>3, <2>4, <2>5, <2>6
<1>6. CASE ForgetCount
  <2>1. StampsTyped'
    BY <1>6 DEF ForgetCount, StampsTyped
  <2>2. PlacesTyped'
    BY <1>6 DEF ForgetCount, PlacesTyped
  <2>3. FlagsTyped'
    BY <1>6 DEF ForgetCount, FlagsTyped
  <2>4. OneShot' /\ PressInv'
    BY <1>6 DEF ForgetCount, OneShot, PressInv
  <2>5. TimeInv'
    BY <1>6 DEF ForgetCount, PlacesTyped, TimeInv
  <2>6. GroupInv'
    <3>1. cnt' = 0 /\ (mixed' = (mixed \/ gpc # "wait"))
          /\ UNCHANGED <<gpc, first, clicks>>
      BY <1>6 DEF ForgetCount
    <3>2. ASSUME ~mixed'
          PROVE  gpc' = "wait"
      BY <3>1, <3>2
    <3>3. QED
      BY <3>1, <3>2 DEF GroupInv
  <2>7. QED
    BY <2>1, <2>2, <2>3, <2>4, <2>5, <2>6
<1>7. CASE ForgetFirst
  <2>1. StampsTyped'
    BY <1>7 DEF ForgetFirst, StampsTyped, Stamps
  <2>2. PlacesTyped'
    BY <1>7 DEF ForgetFirst, PlacesTyped
  <2>3. FlagsTyped'
    BY <1>7 DEF ForgetFirst, FlagsTyped
  <2>4. OneShot' /\ PressInv'
    BY <1>7 DEF ForgetFirst, OneShot, PressInv
  <2>5. TimeInv'
    BY <1>7 DEF ForgetFirst, StampsTyped, Stamps, PlacesTyped, TimeInv
  <2>6. GroupInv'
    BY <1>7 DEF ForgetFirst, PlacesTyped, FlagsTyped, TimeInv, GroupInv
  <2>7. QED
    BY <2>1, <2>2, <2>3, <2>4, <2>5, <2>6
<1>8. CASE Take
  <2>1. StampsTyped'
    BY <1>8 DEF Take, StampsTyped
  <2>2. PlacesTyped'
    BY <1>8 DEF Take, PlacesTyped
  <2>3. FlagsTyped'
    BY <1>8 DEF Take, FlagsTyped
  <2>4. OneShot' /\ PressInv'
    BY <1>8 DEF Take, OneShot, PressInv
  <2>5. TimeInv'
    BY <1>8 DEF Take, PlacesTyped, TimeInv
  <2>6. GroupInv'
    BY <1>8 DEF Take, GroupInv
  <2>7. QED
    BY <2>1, <2>2, <2>3, <2>4, <2>5, <2>6
<1>9. QED
  BY <1>1, <1>2, <1>3, <1>4, <1>5, <1>6, <1>7, <1>8

(* Every step keeps the inductive invariant.                               *)
LEMMA NextKeepsIInv == IInv /\ [Next]_vars => IInv'
<1> SUFFICES ASSUME IInv, [Next]_vars PROVE IInv'
  OBVIOUS
<1>1. CASE Tick \/ Edge \/ Count
  BY <1>1, GpioKeepsIInv DEF Edge, Count
<1>2. CASE Polling
  BY <1>2, PollKeepsIInv DEF Polling
<1>3. CASE UNCHANGED vars
  BY <1>3 DEF vars, button, gpio, poll, history, IInv, StampsTyped,
    PlacesTyped, FlagsTyped, OneShot, PressInv, TimeInv, GroupInv
<1>4. QED
  BY <1>1, <1>2, <1>3 DEF Next

(* Every reachable state satisfies the inductive invariant.                *)
THEOREM ButtonInvariant == Spec => []IInv
  BY InitIInv, NextKeepsIInv, PTL DEF Spec

(* The fields stay in range, and poll() acts on a long press once: between *)
(* two of them the GPIO thread has accepted a press.                       *)
THEOREM ButtonInv == Spec => []Inv
<1>1. IInv => Inv
  BY TypedIsTypeOK DEF IInv, Inv
<1>2. QED
  BY <1>1, ButtonInvariant, PTL

-----------------------------------------------------------------------------
(* A trigger of the calibration stands for ClickCount accepted presses of  *)
(* its own, no further apart than the window, unless a press was counted   *)
(* while poll() was forgetting one (onCalibEdge).                          *)
THEOREM ThreeClicksHolds == Spec => ThreeClicks
<1> USE TimeAssumption, CountAssumption DEF IInv
<1>1. ASSUME IInv, Next, ~trig, trig', ~mixed
      PROVE  clicks[1] # 0 /\ clicks[ClickCount] - clicks[1] <= ClickWindow
  <2>1. CountNext /\ gCnt + 1 >= ClickCount
    BY <1>1 DEF Next, Tick, Edge, Press, Release, Count, LoadCount, CountFirst,
      Stamp, CountNext, Polling, Poll, PassOn, NotLong, Long, Fire, ForgetCount,
      ForgetFirst, Take, FlagsTyped
  <2>2. gpc = "count" /\ gCnt = cnt /\ ClickCount - cnt = 1 /\ cnt > 0
    BY <1>1, <2>1 DEF CountNext, GroupInv, PlacesTyped
  <2>3. first # 0 /\ first = clicks[1]
    BY <1>1, <2>2 DEF GroupInv
  <2>4. first <= gNow /\ gNow = clicks[ClickCount]
    BY <1>1, <2>2 DEF TimeInv
  <2>5. ~(Minus(gNow, first) > ClickWindow)
    BY <2>1, <2>3 DEF CountNext, NewGroup
  <2>6. Minus(gNow, first) = gNow - first
    BY <1>1, <2>4, MinusIsDifference DEF StampsTyped
  <2>7. gNow \in Int /\ first \in Int /\ ClickWindow \in Int
    BY <1>1 DEF StampsTyped, Stamps
  <2>8. gNow - first <= ClickWindow
    BY <2>5, <2>6, <2>7
  <2>9. QED
    BY <2>3, <2>4, <2>8
<1>2. IInv /\ [Next]_vars =>
        [~trig /\ trig' =>
           mixed \/ (clicks[1] # 0 /\ clicks[ClickCount] - clicks[1] <= ClickWindow)]_vars
  BY <1>1
<1>3. QED
  BY <1>2, ButtonInvariant, PTL DEF Spec, ThreeClicks

(* A long press is acted upon when the button has been down that long,     *)
(* unless the last edge was dropped as a bounce or the press came after    *)
(* poll() had read the clock.                                              *)
THEOREM HeldUnlessDroppedHolds == Spec => HeldUnlessDropped
<1> USE TimeAssumption DEF IInv
<1>1. ASSUME IInv, Next, ppc = "press", ppc' = "fire"
      PROVE  \/ down /\ pNow - downSince >= LongPress
             \/ dropped \/ pressUs > pNow
  <2>1. LongEnough
    BY <1>1 DEF Next, Tick, Edge, Press, Release, Count, LoadCount, CountFirst,
      Stamp, CountNext, Polling, Poll, PassOn, NotLong, Long, Fire, ForgetCount,
      ForgetFirst, Take, gpio, poll, button
  <2>2. CASE dropped \/ pressUs > pNow
    BY <2>2
  <2>3. CASE ~dropped /\ ~(pressUs > pNow)
    <3>1. pressUs <= pNow
      BY <1>1, <2>3 DEF StampsTyped, Stamps
    <3>2. Minus(pNow, pressUs) = pNow - pressUs
      BY <1>1, <3>1, MinusIsDifference DEF StampsTyped
    <3>3. down /\ downSince = pressUs
      BY <1>1, <2>1, <2>3 DEF PressInv, LongEnough
    <3>4. QED
      BY <2>1, <3>2, <3>3 DEF LongEnough
  <2>4. QED
    BY <2>2, <2>3
<1>2. IInv /\ [Next]_vars =>
        [ppc = "press" /\ ppc' = "fire" =>
           \/ down /\ pNow - downSince >= LongPress
           \/ dropped \/ pressUs > pNow]_vars
  BY <1>1
<1>3. QED
  BY <1>2, ButtonInvariant, PTL DEF Spec, HeldUnlessDropped

-----------------------------------------------------------------------------
(* The foot pressure sensor.                                               *)

(* How many of the bytes read are parsed.                                  *)
Parsed == Len(stream) - Len(buf)

(* FootTypeOK, variable by variable.                                       *)
FootTyped ==
  /\ line \in Seq(Bytes) /\ buf \in Seq(Bytes) /\ stream \in Seq(Bytes)
  /\ delivered \in Seq(Bytes) /\ sent \in Seq(Bytes)
  /\ parsing \in BOOLEAN /\ faults \in Nat
  /\ Len(buf) < RingSize /\ (~parsing => Len(buf) < FrameLen)

(* The buffer holds the bytes read and not parsed.                         *)
BufferInv ==
  /\ Parsed \in Nat
  /\ \A i \in 1 .. Len(buf) : buf[i] = stream[Parsed + i]

(* What was delivered is what the reference scanner finds before it comes  *)
(* to the first byte that is not parsed, whatever is still to be read.     *)
ScanInv ==
  \A t \in Seq(Bytes) :
    Scan(stream \o t) = delivered \o ScanFrom(stream \o t)[Parsed + 1]

(* On a clean line the bytes are those of the frames sent, and the frames  *)
(* parsed are the frames delivered.                                        *)
CleanInv ==
  faults = 0 =>
    /\ Len(stream) + Len(line) = FrameLen * Len(sent)
    /\ \A i \in 1 .. Len(sent), j \in 1 .. FrameLen :
         (stream \o line)[FrameLen * (i - 1) + j] = Frame(sent[i])[j]
    /\ Parsed = FrameLen * Len(delivered)
    /\ \A i \in 1 .. Len(delivered) : delivered[i] = sent[i]

FootIInv == FootTyped /\ BufferInv /\ ScanInv /\ CleanInv

-----------------------------------------------------------------------------
(* Bytes, frames and sequences.                                            *)

(* A set of indices that is not empty has a least one.                     *)
LEMMA HasLeast ==
  ASSUME NEW S, S \subseteq Nat, S # {}
  PROVE  \E i \in S : \A j \in S : i <= j
<1> DEFINE R == OpToRel(<, Nat)
<1>1. IsWellFoundedOn(R, Nat)
  BY NatLessThanWellFounded
<1>2. \A i, j \in Nat : j < i => <<j, i>> \in R
  BY DEF OpToRel
<1> HIDE DEF R
<1>3. PICK i \in S : \A j \in S : ~(<<j, i>> \in R)
  BY <1>1, WFMin
<1>4. ASSUME NEW j \in S PROVE i <= j
  <2>1. i \in Nat /\ j \in Nat
    OBVIOUS
  <2>2. ~(j < i)
    BY <1>2, <1>3, <2>1
  <2>3. QED
    BY <2>1, <2>2
<1>5. QED
  BY <1>4

(* The bytes the parser looks for are bytes.                               *)
LEMMA MarksAreBytes ==
  /\ HeadByte \in Bytes /\ SrcByte \in Bytes /\ TailByte \in Bytes
  /\ \A a, b \in Bytes : (a + b) % Byte \in Bytes
<1>1. Byte \in Nat /\ Byte > 0
  BY ByteAssumption
<1>2. ASSUME NEW a \in Bytes, NEW b \in Bytes
      PROVE  (a + b) % Byte \in 0 .. Byte - 1
  <2>1. a + b \in Int
    BY <1>1 DEF Bytes
  <2>2. QED
    BY <1>1, <2>1
<1>3. QED
  BY <1>2, ByteAssumption DEF Bytes

(* A frame is five bytes, and good.                                        *)
LEMMA FrameFacts ==
  ASSUME NEW d \in Bytes
  PROVE  /\ Frame(d) \in Seq(Bytes) /\ Len(Frame(d)) = FrameLen
         /\ Frame(d)[1] = HeadByte /\ Frame(d)[2] = SrcByte /\ Frame(d)[3] = d
         /\ Frame(d)[4] = (SrcByte + d) % Byte /\ Frame(d)[5] = TailByte
  BY MarksAreBytes DEF Frame, FrameLen

(* The elements of a sequence of bytes.                                    *)
LEMMA BytesOf ==
  ASSUME NEW s \in Seq(Bytes)
  PROVE  Len(s) \in Nat /\ \A i \in 1 .. Len(s) : s[i] \in Bytes
  OBVIOUS

(* What follows the first n bytes of a sequence, and those bytes.          *)
LEMMA CutFacts ==
  ASSUME NEW s \in Seq(Bytes), NEW n \in 0 .. Len(s)
  PROVE  LET a == SubSeq(s, 1, n)
             b == SubSeq(s, n + 1, Len(s))
         IN  /\ a \in Seq(Bytes) /\ Len(a) = n
             /\ \A i \in 1 .. n : a[i] = s[i]
             /\ b \in Seq(Bytes) /\ Len(b) = Len(s) - n
             /\ \A i \in 1 .. Len(s) - n : b[i] = s[n + i]
<1> DEFINE a == SubSeq(s, 1, n)
           b == SubSeq(s, n + 1, Len(s))
<1>1. Len(s) \in Nat /\ n \in Nat /\ n <= Len(s)
      /\ \A i \in 1 .. Len(s) : s[i] \in Bytes
  BY BytesOf
<1>2. a \in Seq(Bytes) /\ Len(a) = n /\ \A i \in 1 .. n : a[i] = s[i]
  <2>1. 1 \in Int /\ n \in Int /\ \A i \in 1 .. n : s[i] \in Bytes
    BY <1>1
  <2>2. /\ a \in Seq(Bytes) /\ Len(a) = IF 1 <= n THEN n - 1 + 1 ELSE 0
        /\ \A i \in 1 .. n - 1 + 1 : a[i] = s[1 + i - 1]
    BY <2>1, SubSeqProperties
  <2> HIDE DEF a
  <2>3. QED
    BY <1>1, <2>2
<1>3. /\ b \in Seq(Bytes) /\ Len(b) = Len(s) - n
      /\ \A i \in 1 .. Len(s) - n : b[i] = s[n + i]
  <2>1. /\ n + 1 \in Int /\ Len(s) \in Int
        /\ \A i \in n + 1 .. Len(s) : s[i] \in Bytes
    BY <1>1
  <2>2. /\ b \in Seq(Bytes)
        /\ Len(b) = IF n + 1 <= Len(s) THEN Len(s) - (n + 1) + 1 ELSE 0
        /\ \A i \in 1 .. Len(s) - (n + 1) + 1 : b[i] = s[(n + 1) + i - 1]
    BY <2>1, SubSeqProperties
  <2> HIDE DEF b
  <2>3. \A i \in 1 .. Len(s) - n : (n + 1) + i - 1 = n + i
    BY <1>1
  <2>4. QED
    BY <1>1, <2>2, <2>3
<1>4. QED
  BY <1>2, <1>3

(* The five bytes of a sequence from a position on.                        *)
LEMMA WindowFacts ==
  ASSUME NEW s \in Seq(Bytes), NEW p \in Nat \ {0}, p + FrameLen - 1 <= Len(s)
  PROVE  \A i \in 1 .. FrameLen : SubSeq(s, p, p + FrameLen - 1)[i] = s[p + i - 1]
<1>1. /\ p \in Int /\ p + FrameLen - 1 \in Int
      /\ \A i \in p .. p + FrameLen - 1 : s[i] \in Bytes
  BY BytesOf DEF FrameLen
<1>2. \A i \in 1 .. (p + FrameLen - 1) - p + 1 :
        SubSeq(s, p, p + FrameLen - 1)[i] = s[p + i - 1]
  BY <1>1, SubSeqProperties
<1>3. (p + FrameLen - 1) - p + 1 = FrameLen
  BY DEF FrameLen
<1>4. QED
  BY <1>2, <1>3

-----------------------------------------------------------------------------
(* The reference scanner.                                                  *)

(* At position p of s there is a good frame; a frame with a good tail but  *)
(* another source.                                                         *)
GoodAt(s, p) == Ok(SubSeq(s, p, p + FrameLen - 1))
ForeignAt(s, p) ==
  s[p] = HeadByte /\ s[p + FrameLen - 1] = TailByte /\ s[p + 1] # SrcByte

(* One step of the scanner, with g for what it finds further on.           *)
ScanStep(s, g, p) ==
  IF p + FrameLen - 1 > Len(s) THEN <<>>
  ELSE IF GoodAt(s, p) THEN <<s[p + 2]>> \o g[p + FrameLen]
  ELSE IF ForeignAt(s, p) THEN g[p + FrameLen]
  ELSE g[p + 1]

(* A step of the scanner looks only at what it finds further on, and finds *)
(* bytes if bytes are found there.                                         *)
LEMMA ScanStepFacts ==
  ASSUME NEW s \in Seq(Bytes), NEW p \in 1 .. Len(s) + FrameLen, NEW g, NEW h,
         \A i \in p + 1 .. Len(s) + FrameLen : g[i] = h[i] /\ g[i] \in Seq(Bytes)
  PROVE  ScanStep(s, g, p) = ScanStep(s, h, p) /\ ScanStep(s, g, p) \in Seq(Bytes)
<1>1. CASE p + FrameLen - 1 > Len(s)
  BY <1>1 DEF ScanStep
<1>2. CASE ~(p + FrameLen - 1 > Len(s))
  <2>1. /\ p + 1 \in p + 1 .. Len(s) + FrameLen
        /\ p + FrameLen \in p + 1 .. Len(s) + FrameLen
        /\ p + 2 \in 1 .. Len(s)
    BY <1>2, BytesOf DEF FrameLen
  <2>2. /\ g[p + 1] = h[p + 1] /\ g[p + 1] \in Seq(Bytes)
        /\ g[p + FrameLen] = h[p + FrameLen] /\ g[p + FrameLen] \in Seq(Bytes)
    BY <2>1
  <2>3. <<s[p + 2]>> \in Seq(Bytes)
    BY <2>1, BytesOf
  <2>4. <<s[p + 2]>> \o g[p + FrameLen] \in Seq(Bytes)
    BY <2>2, <2>3, ConcatProperties
  <2>5. QED
    BY <1>2, <2>2, <2>4 DEF ScanStep
<1>3. QED
  BY <1>1, <1>2

(* There is a function that takes that step at every position: the         *)
(* definition of the scanner is sound.                                     *)
LEMMA ScanExists ==
  ASSUME NEW s \in Seq(Bytes)
  PROVE  \E g : g = [p \in 1 .. Len(s) + FrameLen |-> ScanStep(s, g, p)]
<1> DEFINE N == Len(s) + FrameLen
           Last(k) == N + 1 - k .. N
           Fits(g, k) == /\ g \in [Last(k) -> Seq(Bytes)]
                         /\ \A p \in Last(k) : g[p] = ScanStep(s, g, p)
           Bad == {k \in 0 .. N : ~ \E g : Fits(g, k)}
<1>1. N \in Nat /\ Len(s) \in Nat
  BY BytesOf DEF FrameLen
<1>2. \E g : Fits(g, 0)
  <2> DEFINE e == [p \in {} |-> <<>>]
  <2>1. Last(0) = {}
    BY <1>1
  <2>2. e \in [{} -> Seq(Bytes)]
    OBVIOUS
  <2>3. Fits(e, 0)
    BY <2>1, <2>2
  <2>4. QED
    BY <2>3
<1>3. ASSUME NEW k \in 1 .. N, NEW g, Fits(g, k - 1)
      PROVE  \E h : Fits(h, k)
  <2> DEFINE q == N + 1 - k
             h == [p \in Last(k) |-> IF p = q THEN ScanStep(s, g, q) ELSE g[p]]
  <2>1. /\ q \in 1 .. N /\ q \in Last(k)
        /\ \A p \in Last(k) : p \in 1 .. N /\ (p # q => p \in Last(k - 1))
        /\ \A p \in Last(k) : \A i \in p + 1 .. N : i \in Last(k - 1) /\ i \in Last(k) /\ i # q
    BY <1>1
  <2> HIDE DEF q, Last
  <2>2. \A p \in Last(k) : \A i \in p + 1 .. N : g[i] = h[i] /\ g[i] \in Seq(Bytes)
    BY <1>3, <2>1
  <2>3. \A p \in Last(k) :
          ScanStep(s, g, p) = ScanStep(s, h, p) /\ ScanStep(s, g, p) \in Seq(Bytes)
    <3> TAKE p \in Last(k)
    <3>1. p \in 1 .. Len(s) + FrameLen
      BY <2>1
    <3>2. \A i \in p + 1 .. Len(s) + FrameLen : g[i] = h[i] /\ g[i] \in Seq(Bytes)
      BY <2>2
    <3> HIDE DEF h, N
    <3>3. QED
      BY <3>1, <3>2, ScanStepFacts
  <2>4. \A p \in Last(k) : h[p] = ScanStep(s, g, p)
    BY <1>3, <2>1
  <2>5. h \in [Last(k) -> Seq(Bytes)]
    BY <2>3, <2>4
  <2>6. Fits(h, k)
    BY <2>3, <2>4, <2>5
  <2>7. QED
    BY <2>6
<1> HIDE DEF Fits, Last
<1>4. Bad = {}
  <2>1. SUFFICES ASSUME Bad # {} PROVE FALSE
    OBVIOUS
  <2>2. PICK k \in Bad : \A j \in Bad : k <= j
    <3>1. Bad \subseteq Nat
      BY <1>1
    <3> HIDE DEF Bad
    <3>2. QED
      BY <2>1, <3>1, HasLeast
  <2>3. k \in 0 .. N /\ k # 0
    BY <1>2
  <2>4. k \in 1 .. N /\ k - 1 \in 0 .. N /\ ~(k <= k - 1)
    BY <1>1, <2>3
  <2>5. PICK g : Fits(g, k - 1)
    BY <2>2, <2>4
  <2>6. \E h : Fits(h, k)
    BY <1>3, <2>4, <2>5
  <2>7. QED
    BY <2>6
<1>5. PICK g : Fits(g, N)
  BY <1>1, <1>4
<1>6. Last(N) = 1 .. N
  BY <1>1 DEF Last
<1>7. g = [p \in 1 .. N |-> ScanStep(s, g, p)]
  BY <1>5, <1>6 DEF Fits
<1>8. QED
  BY <1>7

(* The scanner takes that step.                                            *)
LEMMA ScanFromStep ==
  ASSUME NEW s \in Seq(Bytes)
  PROVE  \A p \in 1 .. Len(s) + FrameLen :
           ScanFrom(s)[p] = ScanStep(s, ScanFrom(s), p)
<1> DEFINE g == ScanFrom(s)
<1>1. g = [p \in 1 .. Len(s) + FrameLen |-> ScanStep(s, g, p)]
  <2>1. \E h : h = [p \in 1 .. Len(s) + FrameLen |-> ScanStep(s, h, p)]
    BY ScanExists
  <2>2. QED
    BY <2>1 DEF ScanFrom, ScanStep, GoodAt, ForeignAt
<1> HIDE DEF g
<1>2. QED
  BY <1>1 DEF g

(* What the scanner finds are bytes.                                       *)
LEMMA ScanFromType ==
  ASSUME NEW s \in Seq(Bytes)
  PROVE  \A p \in 1 .. Len(s) + FrameLen : ScanFrom(s)[p] \in Seq(Bytes)
<1> DEFINE N == Len(s) + FrameLen
           g == ScanFrom(s)
           Bad == {k \in 0 .. N - 1 : g[N - k] \notin Seq(Bytes)}
<1>1. N \in Nat
  BY BytesOf DEF FrameLen
<1>2. SUFFICES ASSUME Bad # {} PROVE FALSE
  <2>1. ASSUME NEW p \in 1 .. N PROVE N - p \in 0 .. N - 1 /\ N - (N - p) = p
    BY <1>1
  <2>2. QED
    BY <2>1
<1>3. PICK k \in Bad : \A j \in Bad : k <= j
  <2>1. Bad \subseteq Nat
    BY <1>1
  <2> HIDE DEF Bad
  <2>2. QED
    BY <1>2, <2>1, HasLeast
<1>4. N - k \in 1 .. N
  BY <1>1
<1>5. ASSUME NEW i \in N - k + 1 .. N PROVE g[i] \in Seq(Bytes)
  <2>1. N - i \in 0 .. N - 1 /\ ~(k <= N - i) /\ N - (N - i) = i
    BY <1>1
  <2>2. N - i \notin Bad
    BY <1>3, <2>1
  <2> HIDE DEF g
  <2>3. QED
    BY <2>1, <2>2
<1>6. g[N - k] = ScanStep(s, g, N - k)
  BY <1>4, ScanFromStep
<1>7. ScanStep(s, g, N - k) \in Seq(Bytes)
  <2> DEFINE p == N - k
  <2>1. p \in 1 .. Len(s) + FrameLen
    BY <1>4
  <2>2. \A i \in p + 1 .. Len(s) + FrameLen : g[i] = g[i] /\ g[i] \in Seq(Bytes)
    BY <1>5
  <2> HIDE DEF p, g, N
  <2>3. ScanStep(s, g, p) \in Seq(Bytes)
    BY <2>1, <2>2, ScanStepFacts
  <2>4. QED
    BY <2>3 DEF p
<1>8. QED
  BY <1>6, <1>7

(* Bytes that are no head are passed over one by one.                      *)
LEMMA ScanPassesOver ==
  ASSUME NEW s \in Seq(Bytes), NEW p \in Nat \ {0}, NEW n \in Nat,
         p + n <= Len(s) + 1,
         \A i \in 0 .. n - 1 : s[p + i] # HeadByte
  PROVE  ScanFrom(s)[p] = ScanFrom(s)[p + n]
<1> DEFINE g == ScanFrom(s)
           Bad == {k \in 0 .. n : g[p + k] # g[p]}
<1>1. Len(s) \in Nat
  BY BytesOf
<1>2. SUFFICES ASSUME Bad # {} PROVE FALSE
  <2>1. ASSUME Bad = {} PROVE g[p] = g[p + n]
    <3>1. n \in 0 .. n
      OBVIOUS
    <3>2. n \notin Bad
      BY <2>1
    <3> HIDE DEF g
    <3>3. g[p + n] = g[p]
      BY <3>1, <3>2
    <3>4. QED
      BY <3>3
  <2>2. QED
    BY <2>1
<1>3. PICK k \in Bad : \A j \in Bad : k <= j
  <2>1. Bad \subseteq Nat
    BY <1>1
  <2> HIDE DEF Bad
  <2>2. QED
    BY <1>2, <2>1, HasLeast
<1>4. k \in 0 .. n /\ k # 0
  <2>1. p + 0 = p
    OBVIOUS
  <2>2. QED
    BY <2>1
<1> DEFINE q == p + (k - 1)
<1>5. /\ k - 1 \in 0 .. n - 1 /\ k - 1 \in 0 .. n /\ ~(k <= k - 1)
      /\ q \in Nat \ {0} /\ q <= Len(s) /\ q + 1 = p + k
      /\ q \in 1 .. Len(s) + FrameLen /\ q + 1 \in 1 .. Len(s) + FrameLen
  BY <1>1, <1>4 DEF FrameLen
<1>6. g[q] = g[p]
  BY <1>3, <1>5
<1>7. s[q] # HeadByte
  BY <1>5
<1> HIDE DEF q, g, Bad
<1>8. g[q] = ScanStep(s, g, q) /\ g[q + 1] = ScanStep(s, g, q + 1)
  BY <1>5, ScanFromStep DEF g
<1>9. CASE q + FrameLen - 1 > Len(s)
  <2>1. (q + 1) + FrameLen - 1 > Len(s)
    BY <1>1, <1>5, <1>9 DEF FrameLen
  <2>2. g[q] = <<>> /\ g[q + 1] = <<>>
    BY <1>8, <1>9, <2>1 DEF ScanStep
  <2>3. QED
    BY <1>3, <1>5, <1>6, <2>2 DEF Bad
<1>10. CASE ~(q + FrameLen - 1 > Len(s))
  <2>1. ~GoodAt(s, q)
    <3>1. q + FrameLen - 1 <= Len(s)
      BY <1>1, <1>5, <1>10 DEF FrameLen
    <3>2. 1 \in 1 .. FrameLen /\ q + 1 - 1 = q
      BY <1>5 DEF FrameLen
    <3>3. SubSeq(s, q, q + FrameLen - 1)[1] = s[q]
      <4> DEFINE w == SubSeq(s, q, q + FrameLen - 1)
      <4>1. \A i \in 1 .. FrameLen : w[i] = s[q + i - 1]
        BY <1>5, <3>1, WindowFacts
      <4> HIDE DEF w
      <4>2. QED
        BY <3>2, <4>1 DEF w
    <3>4. QED
      BY <1>7, <3>3 DEF GoodAt, Ok
  <2>2. ~ForeignAt(s, q)
    BY <1>7 DEF ForeignAt
  <2>3. g[q] = g[q + 1]
    BY <1>8, <1>10, <2>1, <2>2 DEF ScanStep
  <2>4. QED
    BY <1>3, <1>5, <1>6, <2>3 DEF Bad
<1>11. QED
  BY <1>9, <1>10

-----------------------------------------------------------------------------
(* Steps of the sensor, the line and the reader.                           *)

(* The first byte of a line, and the others.                               *)
LEMMA TailFacts ==
  ASSUME NEW s \in Seq(Bytes), s # <<>>
  PROVE  Tail(s) \in Seq(Bytes)
  BY HeadTailProperties

(* Concatenations of bytes.                                                *)
LEMMA ConcatFacts ==
  ASSUME NEW a \in Seq(Bytes), NEW b \in Seq(Bytes)
  PROVE  /\ a \o b \in Seq(Bytes) /\ Len(a \o b) = Len(a) + Len(b)
         /\ \A i \in 1 .. Len(a) : (a \o b)[i] = a[i]
         /\ \A i \in 1 .. Len(b) : (a \o b)[Len(a) + i] = b[i]
<1>1. Len(a) \in Nat /\ Len(b) \in Nat
  BY BytesOf
<1>2. /\ a \o b \in Seq(Bytes) /\ Len(a \o b) = Len(a) + Len(b)
      /\ \A i \in 1 .. Len(a) + Len(b) :
           (a \o b)[i] = IF i <= Len(a) THEN a[i] ELSE b[i - Len(a)]
  BY ConcatProperties
<1>3. \A i \in 1 .. Len(a) : i \in 1 .. Len(a) + Len(b) /\ i <= Len(a)
  BY <1>1
<1>4. \A i \in 1 .. Len(b) :
        /\ Len(a) + i \in 1 .. Len(a) + Len(b) /\ ~(Len(a) + i <= Len(a))
        /\ (Len(a) + i) - Len(a) = i
  BY <1>1
<1>5. QED
  BY <1>2, <1>3, <1>4

(* Concatenation of bytes is associative.                                  *)
LEMMA BytesAssociate ==
  ASSUME NEW a \in Seq(Bytes), NEW b \in Seq(Bytes), NEW c \in Seq(Bytes)
  PROVE  (a \o b) \o c = a \o (b \o c)
  BY ConcatAssociative

(* A sequence is what is before a cut and what is after it.                *)
LEMMA CutConcat ==
  ASSUME NEW a \in Seq(Bytes), NEW s \in Seq(Bytes), NEW n \in 0 .. Len(s)
  PROVE  (a \o SubSeq(s, 1, n)) \o SubSeq(s, n + 1, Len(s)) = a \o s
<1> DEFINE b == SubSeq(s, 1, n)
           c == SubSeq(s, n + 1, Len(s))
<1>1. /\ b \in Seq(Bytes) /\ Len(b) = n /\ \A i \in 1 .. n : b[i] = s[i]
      /\ c \in Seq(Bytes) /\ Len(c) = Len(s) - n
      /\ \A i \in 1 .. Len(s) - n : c[i] = s[n + i]
  BY CutFacts
<1> HIDE DEF b, c
<1>2. Len(s) \in Nat /\ n \in Nat /\ n <= Len(s)
  BY BytesOf
<1>3. /\ b \o c \in Seq(Bytes) /\ Len(b \o c) = Len(s)
      /\ \A i \in 1 .. Len(s) : (b \o c)[i] = IF i <= n THEN b[i] ELSE c[i - n]
  <2>1. /\ b \o c \in Seq(Bytes) /\ Len(b \o c) = Len(b) + Len(c)
        /\ \A i \in 1 .. Len(b) + Len(c) :
             (b \o c)[i] = IF i <= Len(b) THEN b[i] ELSE c[i - Len(b)]
    BY <1>1, ConcatProperties
  <2>2. Len(b) + Len(c) = Len(s)
    BY <1>1, <1>2
  <2>3. QED
    BY <1>1, <2>1, <2>2
<1>4. ASSUME NEW i \in 1 .. Len(s) PROVE (b \o c)[i] = s[i]
  <2>1. CASE i <= n
    BY <1>1, <1>2, <1>3, <2>1
  <2>2. CASE ~(i <= n)
    <3>1. i - n \in 1 .. Len(s) - n /\ n + (i - n) = i
      BY <1>2, <2>2
    <3>2. QED
      BY <1>1, <1>3, <2>2, <3>1
  <2>3. QED
    BY <2>1, <2>2
<1>5. b \o c = s
  BY <1>3, <1>4, SeqEqual
<1>6. (a \o b) \o c = a \o (b \o c)
  BY <1>1, BytesAssociate
<1>7. QED
  BY <1>5, <1>6 DEF b, c

(* The sensor sends a frame: it comes behind what is on the line.          *)
LEMMA SendKeepsFootIInv ==
  ASSUME FootIInv, NEW d \in Bytes, Send(d)
  PROVE  FootIInv'
<1> USE DEF FootIInv
<1>1. /\ line' = line \o Frame(d) /\ sent' = Append(sent, d)
      /\ UNCHANGED <<buf, parsing, delivered, stream, faults>>
  BY DEF Send, reader
<1>2. /\ line \in Seq(Bytes) /\ stream \in Seq(Bytes) /\ sent \in Seq(Bytes)
      /\ delivered \in Seq(Bytes)
  BY DEF FootTyped
<1>3. Frame(d) \in Seq(Bytes) /\ Len(Frame(d)) = FrameLen
  BY FrameFacts
<1>4. line' \in Seq(Bytes) /\ Len(line') = Len(line) + FrameLen
  BY <1>1, <1>2, <1>3, ConcatFacts
<1>5. /\ sent' \in Seq(Bytes) /\ Len(sent') = Len(sent) + 1
      /\ \A i \in 1 .. Len(sent) : sent'[i] = sent[i]
      /\ sent'[Len(sent) + 1] = d
  BY <1>1, <1>2, AppendProperties
<1>6. FootTyped'
  BY <1>1, <1>4, <1>5 DEF FootTyped
<1>7. BufferInv' /\ ScanInv'
  BY <1>1 DEF BufferInv, ScanInv, Parsed
<1>8. CleanInv'
  <2> SUFFICES ASSUME faults = 0 PROVE CleanInv'
    BY <1>1 DEF CleanInv
  <2> DEFINE all == stream \o line
  <2>1. /\ Len(stream) + Len(line) = FrameLen * Len(sent)
        /\ \A i \in 1 .. Len(sent), j \in 1 .. FrameLen :
             all[FrameLen * (i - 1) + j] = Frame(sent[i])[j]
        /\ Parsed = FrameLen * Len(delivered)
        /\ \A i \in 1 .. Len(delivered) : delivered[i] = sent[i]
    BY DEF CleanInv
  <2>2. /\ Len(stream) \in Nat /\ Len(line) \in Nat /\ Len(sent) \in Nat
        /\ Len(delivered) \in Nat /\ Len(buf) \in Nat
    BY <1>2, BytesOf DEF FootTyped
  <2>3. Len(delivered) <= Len(sent)
    <3>1. FrameLen * Len(delivered) <= FrameLen * Len(sent)
      BY <2>1, <2>2 DEF Parsed
    <3>2. QED
      BY <2>2, <3>1 DEF FrameLen
  <2>4. /\ all \in Seq(Bytes) /\ Len(all) = FrameLen * Len(sent)
        /\ (stream \o line)' = all \o Frame(d)
    <3>1. all \in Seq(Bytes) /\ Len(all) = Len(stream) + Len(line)
      BY <1>2, ConcatFacts
    <3>2. stream \o (line \o Frame(d)) = (stream \o line) \o Frame(d)
      <4> DEFINE s == stream
                 l == line
                 f == Frame(d)
      <4>1. s \in Seq(Bytes) /\ l \in Seq(Bytes) /\ f \in Seq(Bytes)
        BY <1>2, <1>3
      <4> HIDE DEF s, l, f
      <4>2. (s \o l) \o f = s \o (l \o f)
        BY <4>1, BytesAssociate
      <4>3. QED
        BY <4>2 DEF s, l, f
    <3>3. QED
      BY <1>1, <2>1, <3>1, <3>2
  <2> HIDE DEF all
  <2>5. /\ \A i \in 1 .. Len(all) : (all \o Frame(d))[i] = all[i]
        /\ \A i \in 1 .. FrameLen : (all \o Frame(d))[Len(all) + i] = Frame(d)[i]
    BY <1>3, <2>4, ConcatFacts
  <2>6. ASSUME NEW i \in 1 .. Len(sent) + 1, NEW j \in 1 .. FrameLen
        PROVE  (all \o Frame(d))[FrameLen * (i - 1) + j] = Frame(sent'[i])[j]
    <3>1. CASE i \in 1 .. Len(sent)
      <4>1. FrameLen * (i - 1) + j \in 1 .. Len(all)
        BY <2>2, <2>4, <3>1 DEF FrameLen
      <4>2. QED
        BY <1>5, <2>1, <2>5, <3>1, <4>1
    <3>2. CASE i = Len(sent) + 1
      <4>1. FrameLen * (i - 1) + j = Len(all) + j
        BY <2>2, <2>4, <3>2 DEF FrameLen
      <4>2. QED
        BY <1>5, <2>5, <3>2, <4>1
    <3>3. i \in 1 .. Len(sent) \/ i = Len(sent) + 1
      BY <2>2
    <3>4. QED
      BY <3>1, <3>2, <3>3
  <2>7. Len(stream) + Len(line') = FrameLen * (Len(sent) + 1)
    <3>1. Len(stream) + (Len(line) + FrameLen) = FrameLen * Len(sent) + FrameLen
      <4>1. Len(stream) + Len(line) = FrameLen * Len(sent)
        BY <2>1
      <4>2. QED
        BY <4>1, <2>2 DEF FrameLen
    <3>2. FrameLen * Len(sent) + FrameLen = FrameLen * (Len(sent) + 1)
      BY <2>2 DEF FrameLen
    <3>3. QED
      BY <1>4, <3>1, <3>2
  <2>8. \A i \in 1 .. Len(delivered) : delivered[i] = sent'[i]
    BY <1>5, <2>1, <2>2, <2>3
  <2>9. Parsed' = Parsed
    BY <1>1 DEF Parsed
  <2>10. (Len(stream) + Len(line) = FrameLen * Len(sent))'
    BY <1>1, <1>5, <2>7
  <2>11. (\A i \in 1 .. Len(sent), j \in 1 .. FrameLen :
            (stream \o line)[FrameLen * (i - 1) + j] = Frame(sent[i])[j])'
    <3>1. Len(sent') = Len(sent) + 1 /\ (stream \o line)' = all \o Frame(d)
      BY <1>5, <2>4
    <3>2. QED
      BY <2>6, <3>1
  <2>12. (/\ Parsed = FrameLen * Len(delivered)
          /\ \A i \in 1 .. Len(delivered) : delivered[i] = sent[i])'
    BY <1>1, <2>1, <2>8, <2>9
  <2>13. QED
    BY <2>10, <2>11, <2>12 DEF CleanInv
<1>9. QED
  BY <1>6, <1>7, <1>8

(* A byte on the line is lost or changed: the line is no longer clean.     *)
LEMMA FaultKeepsFootIInv ==
  ASSUME FootIInv, Lose \/ \E b \in Bytes : Change(b)
  PROVE  FootIInv'
<1> USE DEF FootIInv
<1>1. /\ UNCHANGED <<buf, parsing, delivered, stream, sent>>
      /\ faults' = faults + 1
  BY DEF Lose, Change, reader
<1>2. line' \in Seq(Bytes)
  <2>1. line \in Seq(Bytes)
    BY DEF FootTyped
  <2>2. line # <<>> /\ Tail(line) \in Seq(Bytes)
    BY <2>1, TailFacts DEF Lose, Change
  <2>3. ASSUME NEW b \in Bytes
        PROVE  <<b>> \o Tail(line) \in Seq(Bytes)
    <3>1. <<b>> \in Seq(Bytes)
      OBVIOUS
    <3>2. QED
      BY <2>2, <3>1, ConcatProperties
  <2>4. QED
    BY <2>2, <2>3 DEF Lose, Change
<1>3. FootTyped' /\ faults' # 0
  BY <1>1, <1>2 DEF FootTyped
<1>4. BufferInv' /\ ScanInv' /\ CleanInv'
  BY <1>1, <1>3 DEF BufferInv, ScanInv, CleanInv, Parsed
<1>5. QED
  BY <1>3, <1>4

(* read() takes bytes from the line and _ReaderThread appends them: the    *)
(* buffer has room for them.                                               *)
LEMMA ReadKeepsFootIInv ==
  ASSUME FootIInv, NEW n \in 1 .. ReadMax, ReadBytes(n)
  PROVE  FootIInv'
<1> USE DEF FootIInv
<1> DEFINE x == SubSeq(line, 1, n)
           y == SubSeq(line, n + 1, Len(line))
<1>1. /\ ~parsing /\ n <= Len(line)
      /\ buf' = Ring(buf \o x) /\ stream' = stream \o x /\ line' = y
      /\ parsing' = TRUE /\ UNCHANGED <<delivered, sent, faults>>
  BY DEF ReadBytes
<1>2. /\ line \in Seq(Bytes) /\ stream \in Seq(Bytes) /\ buf \in Seq(Bytes)
      /\ delivered \in Seq(Bytes)
      /\ Len(line) \in Nat /\ Len(stream) \in Nat /\ Len(buf) \in Nat
      /\ n \in 0 .. Len(line)
  BY <1>1, BytesOf, RingAssumption DEF FootTyped
<1>3. /\ x \in Seq(Bytes) /\ Len(x) = n
      /\ y \in Seq(Bytes) /\ Len(y) = Len(line) - n
  BY <1>2, CutFacts
<1>4. stream' \o line' = stream \o line
  BY <1>1, <1>2, CutConcat
<1> HIDE DEF x, y
<1>5. /\ buf \o x \in Seq(Bytes) /\ Len(buf \o x) = Len(buf) + n
      /\ \A i \in 1 .. Len(buf) : (buf \o x)[i] = buf[i]
      /\ \A i \in 1 .. n : (buf \o x)[Len(buf) + i] = x[i]
  BY <1>2, <1>3, ConcatFacts
<1>6. /\ stream \o x \in Seq(Bytes) /\ Len(stream \o x) = Len(stream) + n
      /\ \A i \in 1 .. Len(stream) : (stream \o x)[i] = stream[i]
      /\ \A i \in 1 .. n : (stream \o x)[Len(stream) + i] = x[i]
  BY <1>2, <1>3, ConcatFacts
<1>7. Len(buf) + n < RingSize
  <2>1. Len(buf) < FrameLen
    BY <1>1 DEF FootTyped
  <2>2. /\ ReadMax \in Nat /\ RingSize \in Nat
        /\ FrameLen - 1 + ReadMax < RingSize
    BY RingAssumption
  <2>3. Len(buf) <= FrameLen - 1 /\ n <= ReadMax
    BY <1>2, <2>1, <2>2 DEF FrameLen
  <2>4. QED
    BY <1>2, <2>2, <2>3 DEF FrameLen
<1>8. buf' = buf \o x
  BY <1>1, <1>2, <1>5, <1>7, RingAssumption DEF Ring
<1>9. FootTyped'
  BY <1>1, <1>3, <1>5, <1>6, <1>7, <1>8 DEF FootTyped
<1>10. Parsed' = Parsed /\ Parsed \in Nat /\ Parsed = Len(stream) - Len(buf)
  <2>1. Len(stream') = Len(stream) + n /\ Len(buf') = Len(buf) + n
    BY <1>1, <1>5, <1>6, <1>8
  <2>2. (Len(stream) + n) - (Len(buf) + n) = Len(stream) - Len(buf)
    BY <1>2
  <2>3. Parsed \in Nat
    BY DEF BufferInv
  <2>4. QED
    BY <2>1, <2>2, <2>3 DEF Parsed
<1>11. BufferInv'
  <2>1. ASSUME NEW i \in 1 .. Len(buf) + n
        PROVE  (buf \o x)[i] = (stream \o x)[Parsed + i]
    <3>1. CASE i <= Len(buf)
      <4>1. i \in 1 .. Len(buf) /\ Parsed + i \in 1 .. Len(stream)
        BY <1>2, <1>10, <3>1
      <4>2. QED
        BY <1>5, <1>6, <4>1 DEF BufferInv
    <3>2. CASE ~(i <= Len(buf))
      <4>1. /\ i - Len(buf) \in 1 .. n /\ Len(buf) + (i - Len(buf)) = i
            /\ Len(stream) + (i - Len(buf)) = Parsed + i
        BY <1>2, <1>10, <3>2
      <4>2. QED
        BY <1>5, <1>6, <4>1
    <3>3. QED
      BY <3>1, <3>2
  <2>2. QED
    BY <1>1, <1>5, <1>8, <1>10, <2>1 DEF BufferInv
<1>12. ScanInv'
  <2>1. ASSUME NEW t \in Seq(Bytes)
        PROVE  Scan((stream \o x) \o t)
                 = delivered \o ScanFrom((stream \o x) \o t)[Parsed + 1]
    <3>1. x \o t \in Seq(Bytes)
      BY <1>3, ConcatProperties
    <3>2. (stream \o x) \o t = stream \o (x \o t)
      <4> DEFINE s == stream
      <4>1. s \in Seq(Bytes) /\ x \in Seq(Bytes) /\ t \in Seq(Bytes)
        BY <1>2, <1>3
      <4> HIDE DEF s
      <4>2. (s \o x) \o t = s \o (x \o t)
        BY <4>1, BytesAssociate
      <4>3. QED
        BY <4>2 DEF s
    <3>3. QED
      BY <3>1, <3>2 DEF ScanInv
  <2>2. QED
    BY <1>1, <1>10, <2>1 DEF ScanInv
<1>13. CleanInv'
  <2> SUFFICES ASSUME faults = 0 PROVE CleanInv'
    BY <1>1 DEF CleanInv
  <2>1. Len(stream') + Len(line') = Len(stream) + Len(line)
    BY <1>1, <1>2, <1>3, <1>6
  <2>2. UNCHANGED <<delivered, sent, faults>> /\ Parsed' = Parsed
    BY <1>1, <1>10
  <2>3. (Len(stream) + Len(line) = FrameLen * Len(sent))'
    BY <2>1, <2>2 DEF CleanInv
  <2>4. (\A i \in 1 .. Len(sent), j \in 1 .. FrameLen :
           (stream \o line)[FrameLen * (i - 1) + j] = Frame(sent[i])[j])'
    <3> DEFINE all == stream \o line
    <3>1. \A i \in 1 .. Len(sent), j \in 1 .. FrameLen :
            all[FrameLen * (i - 1) + j] = Frame(sent[i])[j]
      BY DEF CleanInv
    <3>2. all' = all
      BY <1>4
    <3> HIDE DEF all
    <3>3. (\A i \in 1 .. Len(sent), j \in 1 .. FrameLen :
             all[FrameLen * (i - 1) + j] = Frame(sent[i])[j])'
      BY <2>2, <3>1, <3>2
    <3>4. QED
      BY <3>3 DEF all
  <2>5. (/\ Parsed = FrameLen * Len(delivered)
         /\ \A i \in 1 .. Len(delivered) : delivered[i] = sent[i])'
    BY <2>2 DEF CleanInv
  <2>6. QED
    BY <2>3, <2>4, <2>5 DEF CleanInv
<1>14. QED
  BY <1>9, <1>11, <1>12, <1>13

(* What _ParseFrame may be done with: a good frame, a frame of another     *)
(* source, a head that starts no frame, or bytes before the first head.    *)
LEMMA ConsumedCases ==
  ASSUME NEW b \in Seq(Bytes), Len(b) >= FrameLen
  PROVE  /\ Consumed(b) \in 1 .. Len(b)
         /\ \/ Ok(b) /\ Consumed(b) = FrameLen
            \/ /\ ~Ok(b) /\ b[1] = HeadByte /\ b[FrameLen] = TailByte
               /\ b[2] # SrcByte /\ Consumed(b) = FrameLen
            \/ /\ ~Ok(b) /\ b[1] = HeadByte
               /\ ~(b[FrameLen] = TailByte /\ b[2] # SrcByte)
               /\ Consumed(b) = 1
            \/ /\ ~Ok(b) /\ \A i \in 1 .. Consumed(b) : b[i] # HeadByte
<1>1. Len(b) \in Nat /\ DOMAIN b = 1 .. Len(b) /\ FrameLen = 5
  BY BytesOf DEF FrameLen
<1>2. CASE Heads(b) = {}
  <2>1. \A i \in 1 .. Len(b) : b[i] # HeadByte
    BY <1>1, <1>2 DEF Heads
  <2>2. Consumed(b) = Len(b)
    BY <1>2, <1>1, <2>1 DEF Consumed
  <2>3. b[1] # HeadByte
    BY <1>1, <2>1
  <2>4. QED
    BY <1>1, <2>1, <2>2, <2>3 DEF Ok
<1>3. CASE Heads(b) # {} /\ b[1] # HeadByte
  <2>1. Consumed(b) = FirstHead(b) - 1
    BY <1>3 DEF Consumed
  <2>2. /\ FirstHead(b) \in Heads(b)
        /\ \A j \in Heads(b) : FirstHead(b) <= j
    <3>1. Heads(b) \subseteq Nat
      BY <1>1 DEF Heads
    <3>2. \E i \in Heads(b) : \A j \in Heads(b) : i <= j
      BY <1>3, <3>1, HasLeast
    <3>3. QED
      BY <3>2 DEF FirstHead
  <2>3. FirstHead(b) \in 1 .. Len(b) /\ b[FirstHead(b)] = HeadByte
    BY <1>1, <2>2 DEF Heads
  <2>4. FirstHead(b) # 1
    BY <1>3, <2>3
  <2>5. FirstHead(b) - 1 \in 1 .. Len(b)
    BY <1>1, <2>3, <2>4
  <2>6. ASSUME NEW i \in 1 .. FirstHead(b) - 1 PROVE b[i] # HeadByte
    <3>1. i \in 1 .. Len(b) /\ ~(FirstHead(b) <= i)
      BY <1>1, <2>3
    <3>2. QED
      BY <1>1, <2>2, <3>1 DEF Heads
  <2>7. QED
    BY <1>3, <2>1, <2>5, <2>6 DEF Ok
<1>4. CASE b[1] = HeadByte
  <2>1. 1 \in Heads(b)
    BY <1>1, <1>4 DEF Heads
  <2>2. Consumed(b) =
          IF Ok(b) \/ (b[FrameLen] = TailByte /\ b[2] # SrcByte) THEN FrameLen ELSE 1
    BY <1>4, <2>1 DEF Consumed
  <2>3. FrameLen \in 1 .. Len(b) /\ 1 \in 1 .. Len(b)
    BY <1>1
  <2>4. QED
    BY <1>4, <2>2, <2>3
<1>5. QED
  BY <1>2, <1>3, <1>4

(* One parse delivers what the reference scanner finds over the bytes that *)
(* are then done with, whatever follows the buffer.                        *)
LEMMA ParseFollowsScan ==
  ASSUME NEW u \in Seq(Bytes), NEW b \in Seq(Bytes), NEW q \in Nat,
         Len(b) >= FrameLen, q + Len(b) <= Len(u),
         \A i \in 1 .. Len(b) : b[i] = u[q + i]
  PROVE  ScanFrom(u)[q + 1] =
           IF Ok(b) THEN <<b[3]>> \o ScanFrom(u)[q + Consumed(b) + 1]
           ELSE ScanFrom(u)[q + Consumed(b) + 1]
<1> DEFINE g == ScanFrom(u)
           p == q + 1
<1>1. /\ Len(b) \in Nat /\ Len(u) \in Nat /\ FrameLen = 5
      /\ p \in Nat \ {0} /\ p \in 1 .. Len(u) + FrameLen
      /\ p + FrameLen - 1 <= Len(u) /\ ~(p + FrameLen - 1 > Len(u))
  BY BytesOf DEF FrameLen
<1>2. /\ b[1] = u[p] /\ b[2] = u[p + 1] /\ b[3] = u[p + 2] /\ b[4] = u[p + 3]
      /\ b[5] = u[p + 4] /\ p + FrameLen - 1 = p + 4
  <2>1. /\ 1 \in 1 .. Len(b) /\ 2 \in 1 .. Len(b) /\ 3 \in 1 .. Len(b)
        /\ 4 \in 1 .. Len(b) /\ 5 \in 1 .. Len(b)
        /\ q + 2 = p + 1 /\ q + 3 = p + 2 /\ q + 4 = p + 3 /\ q + 5 = p + 4
        /\ p + FrameLen - 1 = p + 4
    BY <1>1
  <2> HIDE DEF p
  <2>2. QED
    BY <2>1 DEF p
<1>3. GoodAt(u, p) <=> Ok(b)
  <2> DEFINE w == SubSeq(u, p, p + FrameLen - 1)
  <2>1. \A i \in 1 .. FrameLen : w[i] = u[p + i - 1]
    BY <1>1, WindowFacts
  <2>2. /\ 1 \in 1 .. FrameLen /\ 2 \in 1 .. FrameLen /\ 3 \in 1 .. FrameLen
        /\ 4 \in 1 .. FrameLen /\ 5 \in 1 .. FrameLen
        /\ p + 1 - 1 = p /\ p + 2 - 1 = p + 1 /\ p + 3 - 1 = p + 2
        /\ p + 4 - 1 = p + 3 /\ p + 5 - 1 = p + 4
    BY <1>1
  <2> HIDE DEF w
  <2>3. /\ w[1] = b[1] /\ w[2] = b[2] /\ w[3] = b[3] /\ w[4] = b[4] /\ w[5] = b[5]
    BY <1>2, <2>1, <2>2
  <2>4. Ok(w) <=> Ok(b)
    BY <1>1, <2>3 DEF Ok, CheckSum
  <2>5. QED
    BY <2>4 DEF GoodAt, w
<1>4. ForeignAt(u, p) <=> b[1] = HeadByte /\ b[FrameLen] = TailByte /\ b[2] # SrcByte
  BY <1>1, <1>2 DEF ForeignAt
<1>5. g[p] = IF GoodAt(u, p) THEN <<u[p + 2]>> \o g[p + FrameLen]
             ELSE IF ForeignAt(u, p) THEN g[p + FrameLen] ELSE g[p + 1]
  BY <1>1, ScanFromStep DEF ScanStep
<1>6. /\ Consumed(b) \in 1 .. Len(b)
      /\ \/ Ok(b) /\ Consumed(b) = FrameLen
         \/ /\ ~Ok(b) /\ b[1] = HeadByte /\ b[FrameLen] = TailByte
            /\ b[2] # SrcByte /\ Consumed(b) = FrameLen
         \/ /\ ~Ok(b) /\ b[1] = HeadByte
            /\ ~(b[FrameLen] = TailByte /\ b[2] # SrcByte)
            /\ Consumed(b) = 1
         \/ /\ ~Ok(b) /\ \A i \in 1 .. Consumed(b) : b[i] # HeadByte
  BY ConsumedCases
<1>7. q + Consumed(b) + 1 = p + Consumed(b)
  BY <1>1, <1>6
<1>8. ASSUME ~Ok(b), \A i \in 1 .. Consumed(b) : b[i] # HeadByte
      PROVE  g[p] = g[p + Consumed(b)]
  <2> DEFINE n == Consumed(b)
  <2>1. n \in Nat /\ n \in 1 .. Len(b) /\ p + n <= Len(u) + 1
    BY <1>1, <1>6
  <2>2. ASSUME NEW i \in 0 .. n - 1 PROVE u[p + i] # HeadByte
    <3>1. i + 1 \in 1 .. n /\ i + 1 \in 1 .. Len(b) /\ q + (i + 1) = p + i
      BY <1>1, <2>1
    <3>2. b[i + 1] = u[p + i]
      BY <3>1
    <3>3. QED
      BY <1>8, <3>1, <3>2
  <2> HIDE DEF n, p
  <2>3. g[p] = g[p + n]
    BY <1>1, <2>1, <2>2, ScanPassesOver
  <2>4. QED
    BY <2>3 DEF n
<1> HIDE DEF g, p
<1>9. g[p] = IF Ok(b) THEN <<b[3]>> \o g[p + Consumed(b)] ELSE g[p + Consumed(b)]
  BY <1>2, <1>3, <1>4, <1>5, <1>6, <1>8
<1>10. QED
  BY <1>7, <1>9 DEF g, p

(* _ParseFrame: the bytes it is done with leave the buffer, and what it    *)
(* delivers is what the reference scanner finds over them.                 *)
LEMMA ParseKeepsFootIInv ==
  ASSUME FootIInv, Parse
  PROVE  FootIInv'
<1> USE DEF FootIInv
<1> DEFINE c == Consumed(buf)
           y == SubSeq(buf, c + 1, Len(buf))
<1>1. /\ parsing /\ Len(buf) >= FrameLen /\ buf' = y
      /\ delivered' = IF Ok(buf) THEN Append(delivered, buf[3]) ELSE delivered
      /\ UNCHANGED <<line, parsing, stream, sent, faults>>
  BY DEF Parse
<1>2. /\ line \in Seq(Bytes) /\ stream \in Seq(Bytes) /\ buf \in Seq(Bytes)
      /\ delivered \in Seq(Bytes) /\ sent \in Seq(Bytes)
      /\ Len(line) \in Nat /\ Len(stream) \in Nat /\ Len(buf) \in Nat
      /\ Len(delivered) \in Nat /\ Len(sent) \in Nat /\ RingSize \in Nat
      /\ parsing \in BOOLEAN /\ Len(buf) < RingSize /\ faults \in Nat
  BY BytesOf, RingAssumption DEF FootTyped
<1>3. c \in 1 .. Len(buf) /\ c \in Nat /\ c \in 0 .. Len(buf)
  BY <1>1, <1>2, ConsumedCases
<1>4. /\ y \in Seq(Bytes) /\ Len(y) = Len(buf) - c
      /\ \A i \in 1 .. Len(buf) - c : y[i] = buf[c + i]
  BY <1>2, <1>3, CutFacts
<1>5. Parsed = Len(stream) - Len(buf) /\ Parsed \in Nat
  BY DEF BufferInv, Parsed
<1>6. buf[3] \in Bytes /\ <<buf[3]>> \in Seq(Bytes)
  <2>1. 3 \in 1 .. Len(buf)
    BY <1>1, <1>2 DEF FrameLen
  <2>2. buf[3] \in Bytes
    BY <1>2, <2>1, BytesOf
  <2>3. QED
    BY <2>2
<1>7. /\ Append(delivered, buf[3]) \in Seq(Bytes)
      /\ Append(delivered, buf[3]) = delivered \o <<buf[3]>>
      /\ Len(Append(delivered, buf[3])) = Len(delivered) + 1
      /\ \A i \in 1 .. Len(delivered) : Append(delivered, buf[3])[i] = delivered[i]
      /\ Append(delivered, buf[3])[Len(delivered) + 1] = buf[3]
  BY <1>2, <1>6, AppendProperties, AppendIsConcat
<1> HIDE DEF y, c
<1>8. FootTyped'
  <2>1. Len(y) < RingSize
    BY <1>2, <1>3, <1>4
  <2>2. delivered' \in Seq(Bytes)
    BY <1>1, <1>2, <1>7
  <2>3. QED
    BY <1>1, <1>2, <1>4, <2>1, <2>2 DEF FootTyped
<1>9. Parsed' = Parsed + c
  <2>1. Parsed' = Len(stream) - Len(y)
    BY <1>1 DEF Parsed
  <2>2. QED
    BY <1>2, <1>3, <1>4, <1>5, <2>1
<1>10. BufferInv'
  <2>1. Parsed + c \in Nat
    BY <1>3, <1>5
  <2>2. ASSUME NEW i \in 1 .. Len(y)
        PROVE  y[i] = stream[(Parsed + c) + i]
    <3>1. /\ i \in 1 .. Len(buf) - c /\ c + i \in 1 .. Len(buf)
          /\ Parsed + (c + i) = (Parsed + c) + i
      BY <1>2, <1>3, <1>4, <1>5
    <3>2. y[i] = buf[c + i]
      BY <1>4, <3>1
    <3>3. buf[c + i] = stream[Parsed + (c + i)]
      BY <3>1 DEF BufferInv
    <3>4. QED
      BY <3>1, <3>2, <3>3
  <2>3. QED
    BY <1>1, <1>9, <2>1, <2>2 DEF BufferInv
<1>11. ScanInv'
  <2>1. ASSUME NEW t \in Seq(Bytes)
        PROVE  Scan(stream \o t)
                 = delivered' \o ScanFrom(stream \o t)[(Parsed + c) + 1]
    <3> DEFINE u == stream \o t
               g == ScanFrom(u)
               r == g[Parsed + c + 1]
    <3>1. /\ u \in Seq(Bytes) /\ Len(u) = Len(stream) + Len(t) /\ Len(t) \in Nat
          /\ \A i \in 1 .. Len(stream) : u[i] = stream[i]
      BY <1>2, ConcatFacts, BytesOf
    <3>2. Scan(u) = delivered \o g[Parsed + 1]
      BY DEF ScanInv
    <3> HIDE DEF u
    <3>3. Parsed + Len(buf) <= Len(u)
      BY <1>2, <1>5, <3>1
    <3>4. ASSUME NEW i \in 1 .. Len(buf) PROVE buf[i] = u[Parsed + i]
      <4>1. Parsed + i \in 1 .. Len(stream)
        BY <1>2, <1>5
      <4>2. QED
        BY <3>1, <4>1 DEF BufferInv
    <3>5. g[Parsed + 1] = IF Ok(buf) THEN <<buf[3]>> \o r ELSE r
      <4>1. g[Parsed + 1] = IF Ok(buf) THEN <<buf[3]>> \o g[Parsed + Consumed(buf) + 1]
                            ELSE g[Parsed + Consumed(buf) + 1]
        <5> DEFINE q == Parsed
        <5>1. q \in Nat /\ q + Len(buf) <= Len(u) /\ Len(buf) >= FrameLen
              /\ u \in Seq(Bytes) /\ buf \in Seq(Bytes)
          BY <1>1, <1>2, <1>5, <3>1, <3>3
        <5>2. \A i \in 1 .. Len(buf) : buf[i] = u[q + i]
          BY <3>4
        <5> HIDE DEF q
        <5>3. ScanFrom(u)[q + 1] =
                IF Ok(buf) THEN <<buf[3]>> \o ScanFrom(u)[q + Consumed(buf) + 1]
                ELSE ScanFrom(u)[q + Consumed(buf) + 1]
          BY <5>1, <5>2, ParseFollowsScan
        <5>4. QED
          BY <5>3 DEF q
      <4>2. QED
        BY <4>1 DEF c
    <3>6. r \in Seq(Bytes)
      <4>1. Parsed + c + 1 \in 1 .. Len(u) + FrameLen
        BY <1>2, <1>3, <1>5, <3>1, <3>3 DEF FrameLen
      <4>2. QED
        BY <3>1, <4>1, ScanFromType
    <3> HIDE DEF g, r
    <3>7. CASE Ok(buf)
      <4>1. (delivered \o <<buf[3]>>) \o r = delivered \o (<<buf[3]>> \o r)
        <5> DEFINE e == <<buf[3]>>
                   m == delivered
        <5>1. e \in Seq(Bytes) /\ m \in Seq(Bytes) /\ r \in Seq(Bytes)
          BY <1>2, <1>6, <3>6
        <5> HIDE DEF e, m
        <5>2. (m \o e) \o r = m \o (e \o r)
          BY <5>1, BytesAssociate
        <5>3. QED
          BY <5>2 DEF e, m
      <4>2. Scan(u) = delivered' \o r
        BY <1>1, <1>7, <3>2, <3>5, <3>7, <4>1
      <4>3. QED
        BY <4>2 DEF u, g, r
    <3>8. CASE ~Ok(buf)
      <4>1. Scan(u) = delivered' \o r
        BY <1>1, <3>2, <3>5, <3>8
      <4>2. QED
        BY <4>1 DEF u, g, r
    <3>9. QED
      BY <3>7, <3>8
  <2>2. stream' = stream
    BY <1>1
  <2>3. QED
    BY <1>9, <2>1, <2>2 DEF ScanInv
<1>12. CleanInv'
  <2> SUFFICES ASSUME faults = 0 PROVE CleanInv'
    BY <1>1 DEF CleanInv
  <2> DEFINE all == stream \o line
             k == Len(delivered) + 1
  <2>1. /\ Len(stream) + Len(line) = FrameLen * Len(sent)
        /\ \A i \in 1 .. Len(sent), j \in 1 .. FrameLen :
             all[FrameLen * (i - 1) + j] = Frame(sent[i])[j]
        /\ Parsed = FrameLen * Len(delivered)
        /\ \A i \in 1 .. Len(delivered) : delivered[i] = sent[i]
    BY DEF CleanInv
  <2>2. FrameLen * (k - 1) = Parsed /\ k \in Nat \ {0}
    BY <1>2, <2>1
  <2>3. k \in 1 .. Len(sent)
    <3>1. FrameLen * Len(delivered) + FrameLen <= FrameLen * Len(sent)
      <4>1. Parsed = FrameLen * Len(delivered)
            /\ Len(stream) + Len(line) = FrameLen * Len(sent)
        BY <2>1
      <4>2. QED
        BY <4>1, <1>1, <1>2, <1>5 DEF FrameLen
    <3>2. QED
      BY <1>2, <3>1 DEF FrameLen
  <2>4. \A i \in 1 .. Len(stream) : all[i] = stream[i]
    BY <1>2, ConcatFacts
  <2> HIDE DEF all, k
  <2>5. ASSUME NEW j \in 1 .. FrameLen PROVE buf[j] = Frame(sent[k])[j]
    <3>1. j \in 1 .. Len(buf) /\ Parsed + j \in 1 .. Len(stream)
      BY <1>1, <1>2, <1>5 DEF FrameLen
    <3>2. buf[j] = stream[Parsed + j]
      BY <3>1 DEF BufferInv
    <3>3. all[FrameLen * (k - 1) + j] = Frame(sent[k])[j]
      BY <2>1, <2>3
    <3>4. QED
      BY <2>2, <2>4, <3>1, <3>2, <3>3
  <2>6. sent[k] \in Bytes
    BY <1>2, <2>3, BytesOf
  <2>7. /\ buf[1] = HeadByte /\ buf[2] = SrcByte /\ buf[3] = sent[k]
        /\ buf[4] = (SrcByte + sent[k]) % Byte /\ buf[5] = TailByte
    <3>1. /\ 1 \in 1 .. FrameLen /\ 2 \in 1 .. FrameLen /\ 3 \in 1 .. FrameLen
          /\ 4 \in 1 .. FrameLen /\ 5 \in 1 .. FrameLen
      BY DEF FrameLen
    <3>2. QED
      BY <2>5, <2>6, <3>1, FrameFacts
  <2>8. Ok(buf)
    BY <2>7 DEF Ok, CheckSum, FrameLen
  <2>9. c = FrameLen
    BY <1>1, <1>2, <2>8, ConsumedCases DEF c
  <2>10. /\ Len(delivered') = Len(delivered) + 1
         /\ \A i \in 1 .. Len(delivered) : delivered'[i] = delivered[i]
         /\ delivered'[k] = sent[k]
    BY <1>1, <1>7, <2>7, <2>8 DEF k
  <2>11. Parsed' = FrameLen * (Len(delivered) + 1)
    <3>1. Parsed' = FrameLen * Len(delivered) + FrameLen
      BY <1>9, <2>1, <2>9
    <3>2. QED
      BY <1>2, <3>1 DEF FrameLen
  <2>12. \A i \in 1 .. Len(delivered) + 1 : delivered'[i] = sent[i]
    <3> TAKE i \in 1 .. Len(delivered) + 1
    <3>1. i \in 1 .. Len(delivered) \/ i = k
      BY <1>2 DEF k
    <3>2. QED
      BY <2>1, <2>10, <3>1
  <2>13. (/\ Parsed = FrameLen * Len(delivered)
          /\ \A i \in 1 .. Len(delivered) : delivered[i] = sent[i])'
    BY <1>1, <2>10, <2>11, <2>12
  <2>14. (/\ Len(stream) + Len(line) = FrameLen * Len(sent)
          /\ \A i \in 1 .. Len(sent), j \in 1 .. FrameLen :
               (stream \o line)[FrameLen * (i - 1) + j] = Frame(sent[i])[j])'
    BY <1>1, <2>1 DEF all
  <2>15. QED
    BY <2>13, <2>14 DEF CleanInv
<1>13. QED
  BY <1>8, <1>10, <1>11, <1>12

(* _ReaderThread goes back to read(): fewer bytes than a frame are left.   *)
LEMMA WaitKeepsFootIInv ==
  ASSUME FootIInv, Wait
  PROVE  FootIInv'
<1> USE DEF FootIInv
<1>1. /\ Len(buf) < FrameLen /\ parsing' = FALSE
      /\ UNCHANGED <<line, buf, delivered, stream, sent, faults>>
  BY DEF Wait
<1>2. FootTyped'
  BY <1>1 DEF FootTyped
<1>3. BufferInv' /\ ScanInv' /\ CleanInv'
  BY <1>1 DEF BufferInv, ScanInv, CleanInv, Parsed
<1>4. QED
  BY <1>2, <1>3

-----------------------------------------------------------------------------
(* The invariant, and what follows from it.                                *)

(* It holds when the reader starts, be the sensor in a frame or not.       *)
LEMMA FootInitIInv ==
  ASSUME FootInit
  PROVE  FootIInv
<1>1. /\ buf = <<>> /\ parsing = FALSE /\ delivered = <<>> /\ stream = <<>>
      /\ sent = <<>>
  BY DEF FootInit
<1>2. /\ <<>> \in Seq(Bytes) /\ Len(<<>>) = 0 /\ RingSize \in Nat /\ RingSize > 0
  BY RingAssumption
<1>3. line \in Seq(Bytes) /\ faults \in Nat /\ (faults = 0 => line = <<>>)
  <2>1. CASE line = <<>> /\ faults = 0
    BY <2>1
  <2>2. CASE /\ \E d \in Bytes, k \in 2 .. FrameLen :
                  line = SubSeq(Frame(d), k, FrameLen)
             /\ faults = 1
    <3>1. PICK d \in Bytes, k \in 2 .. FrameLen : line = SubSeq(Frame(d), k, FrameLen)
      BY <2>2
    <3>2. /\ k \in Int /\ FrameLen \in Int
          /\ \A i \in k .. FrameLen : i \in 1 .. FrameLen
      BY DEF FrameLen
    <3>3. \A i \in k .. FrameLen : Frame(d)[i] \in Bytes
      BY <3>2, FrameFacts, BytesOf
    <3>4. SubSeq(Frame(d), k, FrameLen) \in Seq(Bytes)
      BY <3>2, <3>3, SubSeqProperties
    <3>5. QED
      BY <2>2, <3>1, <3>4
  <2>3. QED
    BY <2>1, <2>2 DEF FootInit
<1>4. FootTyped
  <2>1. Len(buf) = 0
    BY <1>1, <1>2
  <2>2. Len(buf) < RingSize /\ Len(buf) < FrameLen
    BY <1>2, <2>1 DEF FrameLen
  <2>3. QED
    BY <1>1, <1>2, <1>3, <2>2 DEF FootTyped
<1>5. Parsed = 0
  BY <1>1, <1>2 DEF Parsed
<1>6. BufferInv
  BY <1>1, <1>2, <1>5 DEF BufferInv
<1>7. ScanInv
  <2>1. ASSUME NEW t \in Seq(Bytes)
        PROVE  Scan(stream \o t) = delivered \o ScanFrom(stream \o t)[Parsed + 1]
    <3> DEFINE g == ScanFrom(stream \o t)
    <3>1. stream \o t = t
      BY <1>1, ConcatEmptySeq
    <3>2. 1 \in 1 .. Len(t) + FrameLen
      BY BytesOf DEF FrameLen
    <3>3. g[1] \in Seq(Bytes)
      BY <3>1, <3>2, ScanFromType
    <3> HIDE DEF g
    <3>4. delivered \o g[1] = g[1]
      BY <1>1, <3>3, ConcatEmptySeq
    <3>5. Parsed + 1 = 1
      BY <1>5
    <3>6. QED
      BY <3>4, <3>5 DEF Scan, g
  <2>2. QED
    BY <2>1 DEF ScanInv
<1>8. CleanInv
  BY <1>1, <1>2, <1>3, <1>5 DEF CleanInv, FrameLen
<1>9. QED
  BY <1>4, <1>6, <1>7, <1>8 DEF FootIInv

(* Every step of sensor, line and reader keeps it.                         *)
LEMMA FootNextKeepsIInv ==
  ASSUME FootIInv, [FootNext]_footVars
  PROVE  FootIInv'
<1>1. ASSUME NEW d \in Bytes, Send(d) PROVE FootIInv'
  BY <1>1, SendKeepsFootIInv
<1>2. CASE Lose \/ \E b \in Bytes : Change(b)
  BY <1>2, FaultKeepsFootIInv
<1>3. ASSUME NEW n \in 1 .. ReadMax, ReadBytes(n) PROVE FootIInv'
  BY <1>3, ReadKeepsFootIInv
<1>4. CASE Parse
  BY <1>4, ParseKeepsFootIInv
<1>5. CASE Wait
  BY <1>5, WaitKeepsFootIInv
<1>6. CASE UNCHANGED footVars
  BY <1>6 DEF footVars, reader, FootIInv, FootTyped, BufferInv, ScanInv, CleanInv, Parsed
<1>7. QED
  BY <1>1, <1>2, <1>3, <1>4, <1>5, <1>6 DEF FootNext

(* The reader of the foot pressure sensor (_ReaderThread, _ParseFrame)     *)
(* keeps the bytes it has not parsed and has delivered what the reference  *)
(* scanner finds in the others; on a clean line these are whole frames.    *)
THEOREM FootPressureInvariant == FootSpec => []FootIInv
<1>1. FootInit => FootIInv
  BY FootInitIInv
<1>2. FootIInv /\ [FootNext]_footVars => FootIInv'
  BY FootNextKeepsIInv
<1>3. QED
  BY <1>1, <1>2, PTL DEF FootSpec

(* The ring never fills up, and on an undisturbed line every frame sent is *)
(* delivered, once and in order, whatever its data (_ReaderThread).        *)
THEOREM FootInvHolds == FootSpec => []FootInv
<1>1. FootIInv => FootTypeOK
  BY DEF FootIInv, FootTyped, FootTypeOK
<1>2. ASSUME FootIInv, ~parsing, faults = 0
      PROVE  delivered = SubSeq(sent, 1, Len(stream) \div FrameLen)
  <2> DEFINE k == Len(delivered)
             cut == SubSeq(sent, 1, k)
  <2>1. /\ delivered \in Seq(Bytes) /\ sent \in Seq(Bytes)
        /\ Len(stream) \in Nat /\ Len(line) \in Nat /\ Len(buf) \in Nat
        /\ k \in Nat /\ Len(sent) \in Nat /\ Len(buf) < FrameLen
    BY <1>2, BytesOf DEF FootIInv, FootTyped
  <2>2. /\ Len(stream) + Len(line) = FrameLen * Len(sent)
        /\ Len(stream) - Len(buf) = FrameLen * k
        /\ \A i \in 1 .. k : delivered[i] = sent[i]
    BY <1>2 DEF FootIInv, CleanInv, Parsed
  <2> HIDE DEF k
  <2>3. k \in 0 .. Len(sent)
    <3>1. FrameLen * k <= FrameLen * Len(sent)
      BY <2>1, <2>2 DEF FrameLen
    <3>2. QED
      BY <2>1, <3>1 DEF FrameLen
  <2>4. Len(stream) \div FrameLen = k
    <3>1. Len(stream) = FrameLen * k + Len(buf)
      BY <2>1, <2>2 DEF FrameLen
    <3>2. QED
      BY <2>1, <3>1 DEF FrameLen
  <2>5. /\ cut \in Seq(Bytes) /\ Len(cut) = k
        /\ \A i \in 1 .. k : cut[i] = sent[i]
    BY <2>1, <2>3, CutFacts
  <2> HIDE DEF cut
  <2>6. delivered = cut
    <3>1. Len(delivered) = Len(cut)
      BY <2>5 DEF k
    <3>2. \A i \in 1 .. Len(delivered) : delivered[i] = cut[i]
      BY <2>2, <2>5 DEF k
    <3>3. QED
      BY <2>1, <2>5, <3>1, <3>2, SeqEqual
  <2>7. QED
    BY <2>4, <2>6 DEF cut
<1>3. FootIInv => FootInv
  BY <1>1, <1>2 DEF FootInv, CleanLineIsLossless
<1>4. QED
  BY <1>3, FootPressureInvariant, PTL

(* Between two calls of read() (_ReaderThread), what was delivered is what *)
(* the reference scanner finds in all the bytes read, however read() cut   *)
(* them up, on a line of any quality.                                      *)
THEOREM ChunkingIrrelevantHolds == FootSpec => []ChunkingIrrelevant
<1>1. ASSUME FootIInv, ~parsing PROVE delivered = Scan(stream)
  <2> DEFINE g == ScanFrom(stream)
             p == Parsed + 1
  <2>1. /\ stream \in Seq(Bytes) /\ delivered \in Seq(Bytes)
        /\ <<>> \in Seq(Bytes) /\ stream \o <<>> = stream
        /\ Len(stream) \in Nat /\ Len(buf) \in Nat /\ Len(buf) < FrameLen
    BY <1>1, BytesOf, ConcatEmptySeq DEF FootIInv, FootTyped
  <2>2. Parsed \in Nat /\ Parsed = Len(stream) - Len(buf)
    BY <1>1 DEF FootIInv, BufferInv, Parsed
  <2>3. Scan(stream) = delivered \o g[p]
    <3>1. Scan(stream \o <<>>) = delivered \o ScanFrom(stream \o <<>>)[Parsed + 1]
      BY <1>1, <2>1 DEF FootIInv, ScanInv
    <3>2. QED
      BY <2>1, <3>1
  <2>4. /\ p \in 1 .. Len(stream) + FrameLen
        /\ p + FrameLen - 1 > Len(stream)
    BY <2>1, <2>2 DEF FrameLen
  <2> HIDE DEF p
  <2>5. g[p] = <<>>
    BY <2>1, <2>4, ScanFromStep DEF ScanStep
  <2>6. QED
    BY <2>1, <2>3, <2>5, ConcatEmptySeq
<1>2. FootIInv => ChunkingIrrelevant
  BY <1>1 DEF ChunkingIrrelevant
<1>3. QED
  BY <1>2, FootPressureInvariant, PTL
===============================================================================
