-------------------------------- MODULE Button --------------------------------
(***************************************************************************)
(* The calibration button (ButtonHandler): three presses in a row ask for a*)
(* calibration, a long press shuts the robot down.  Two threads share its  *)
(* fields without a lock, each field an atomic read or written relaxed:    *)
(*                                                                         *)
(*   the GPIO thread runs onCalibEdge for every edge of the line: it drops *)
(*   an edge that follows the last accepted one too soon, notes when the   *)
(*   button went down and counts presses;                                  *)
(*   the main loop runs poll() once a round: it passes a triple click on to*)
(*   shm->calib_requested and looks how long the button has been down.     *)
(*                                                                         *)
(* Times are stamps of one monotonic clock; 0 stands for "no time".  The   *)
(* clock moves between any two steps.  Steps of a thread that write one    *)
(* field and commute with the other thread are one step here.              *)
(*                                                                         *)
(* External: the finger, which makes edges of any spacing (bounces, short  *)
(* clicks), and GPIOMonitor's thread, which reports every edge in order.   *)
(* Left out: m_calib_pressed, which nobody reads; the report button.       *)
(***************************************************************************)
EXTENDS Integers

CONSTANTS
  Debounce,      \* DEBOUNCE_US
  ClickWindow,   \* CLICK_WIN_US
  ClickCount,    \* CLICK_COUNT
  LongPress,     \* long_press_ms
  Wrap,          \* 2^64: differences of times are unsigned
  MaxTime        \* bound: the clock stops here

ASSUME TimeAssumption ==
  /\ {Debounce, ClickWindow, LongPress, MaxTime, Wrap} \subseteq Nat
  /\ Debounce > 0 /\ MaxTime > 0
  /\ Wrap > MaxTime + LongPress
ASSUME CountAssumption == ClickCount \in Nat /\ ClickCount > 1

VARIABLES
  now,                            \* nowUs()
  down,                           \* is the button down
  lastEdge, pressUs, cnt, first,  \* m_calib_last_edge_us, _press_us, _cnt, _first_us
  trig,                           \* m_calib_trig
  gpc, gCnt, gNow,                \* GPIO thread: place, cnt it loaded, its clock
  ppc, pNow,                      \* poll(): place, its clock
  calibReq,                       \* shm->calib_requested
  downSince, dropped,             \* history: pressed since, was the last edge dropped
  clicks, armed, mixed            \* history, see ThreeClicks and OneShot

button == <<down, downSince, dropped>>
gpio == <<gpc, gCnt, gNow>>
poll == <<ppc, pNow>>
history == <<clicks, armed, mixed>>
vars == <<now, button, lastEdge, pressUs, cnt, first, trig, gpio, poll,
          calibReq, history>>

NoClicks == [i \in 1 .. ClickCount |-> 0]

Init ==
  /\ now = 1
  /\ down = FALSE /\ downSince = 0 /\ dropped = FALSE
  /\ lastEdge = 0 /\ pressUs = 0 /\ cnt = 0 /\ first = 0 /\ trig = FALSE
  /\ gpc = "wait" /\ gCnt = 0 /\ gNow = 0
  /\ ppc = "sleep" /\ pNow = 0
  /\ calibReq = FALSE
  /\ clicks = NoClicks /\ armed = FALSE /\ mixed = FALSE

(* b - a as uint64_t.                                                      *)
Minus(b, a) == (b - a) % Wrap

(* poll() is between its three stores that forget the press.               *)
Forgetting == ppc \in {"forget", "forgetFirst"}

Tick ==
  /\ now < MaxTime
  /\ now' = now + 1
  /\ UNCHANGED <<button, lastEdge, pressUs, cnt, first, trig, gpio, poll,
                 calibReq, history>>

-----------------------------------------------------------------------------
(* onCalibEdge.                                                            *)

TooSoon == lastEdge # 0 /\ Minus(now, lastEdge) < Debounce

Press ==
  /\ gpc = "wait" /\ ~down
  /\ down' = TRUE /\ downSince' = now
  /\ dropped' = TooSoon
  /\ IF TooSoon
     THEN UNCHANGED <<lastEdge, pressUs, gpio, clicks, armed, mixed>>
     ELSE /\ lastEdge' = now /\ pressUs' = now
          /\ gpc' = "load" /\ gNow' = now /\ UNCHANGED gCnt
          /\ clicks' = [i \in 1 .. ClickCount |->
                          IF i = ClickCount THEN now ELSE clicks[i + 1]]
          /\ armed' = TRUE /\ mixed' = (mixed \/ Forgetting)
  /\ UNCHANGED <<now, cnt, first, trig, poll, calibReq>>

(* Mutant: the release leaves the press time.                              *)
ReleaseKeepsPress ==
  /\ gpc = "wait" /\ down
  /\ down' = FALSE /\ downSince' = 0
  /\ dropped' = TooSoon
  /\ lastEdge' = IF TooSoon THEN lastEdge ELSE now
  /\ UNCHANGED <<now, pressUs, cnt, first, trig, gpio, poll, calibReq, history>>

Release ==
  /\ gpc = "wait" /\ down
  /\ down' = FALSE /\ downSince' = 0
  /\ dropped' = TooSoon
  /\ IF TooSoon
     THEN UNCHANGED <<lastEdge, pressUs>>
     ELSE lastEdge' = now /\ pressUs' = 0
  /\ UNCHANGED <<now, cnt, first, trig, gpio, poll, calibReq, history>>

LoadCount ==
  /\ gpc = "load"
  /\ gCnt' = cnt /\ gpc' = "count"
  /\ UNCHANGED <<now, button, lastEdge, pressUs, cnt, first, trig, gNow, poll,
                 calibReq, history>>

(* Mutant: the window is not looked at.                                    *)
NewGroupAnyTime == gCnt = 0

(* A press that begins a group: none counted, or the group is too old.     *)
NewGroup == gCnt = 0 \/ (first # 0 /\ Minus(gNow, first) > ClickWindow)

CountFirst ==
  /\ gpc = "count" /\ NewGroup
  /\ cnt' = 1 /\ gpc' = "stamp"
  /\ UNCHANGED <<now, button, lastEdge, pressUs, first, trig, gCnt, gNow, poll,
                 calibReq, history>>

Stamp ==
  /\ gpc = "stamp"
  /\ first' = gNow /\ gpc' = "wait"
  /\ UNCHANGED <<now, button, lastEdge, pressUs, cnt, trig, gCnt, gNow, poll,
                 calibReq, history>>

CountNext ==
  /\ gpc = "count" /\ ~NewGroup
  /\ IF gCnt + 1 >= ClickCount
     THEN /\ trig' = TRUE /\ cnt' = 0 /\ first' = 0
          /\ clicks' = NoClicks
     ELSE cnt' = gCnt + 1 /\ UNCHANGED <<trig, first, clicks>>
  /\ gpc' = "wait"
  /\ UNCHANGED <<now, button, lastEdge, pressUs, gCnt, gNow, poll, calibReq,
                 armed, mixed>>

-----------------------------------------------------------------------------
(* poll.                                                                   *)

Poll ==
  /\ ppc = "sleep"
  /\ pNow' = now /\ ppc' = "trig"
  /\ UNCHANGED <<now, button, lastEdge, pressUs, cnt, first, trig, gpio,
                 calibReq, history>>

PassOn ==
  /\ ppc = "trig"
  /\ trig' = FALSE /\ calibReq' = (calibReq \/ trig)
  /\ ppc' = "press"
  /\ UNCHANGED <<now, button, lastEdge, pressUs, cnt, first, gpio, pNow,
                 history>>

(* Mutant: the difference the wrong way round.                             *)
LongEnoughSwapped ==
  pressUs # 0 /\ pressUs <= pNow /\ (pressUs - pNow) >= LongPress

LongEnough == pressUs # 0 /\ Minus(pNow, pressUs) >= LongPress

NotLong ==
  /\ ppc = "press" /\ ~LongEnough
  /\ ppc' = "take"
  /\ UNCHANGED <<now, button, lastEdge, pressUs, cnt, first, trig, gpio, pNow,
                 calibReq, history>>

Long ==
  /\ ppc = "press" /\ LongEnough
  /\ ppc' = "fire"
  /\ UNCHANGED <<now, button, lastEdge, pressUs, cnt, first, trig, gpio, pNow,
                 calibReq, history>>

(* Mutant: the press time is kept.                                         *)
FireKeepsPress ==
  /\ ppc = "fire"
  /\ ppc' = "forget"
  /\ armed' = FALSE
  /\ UNCHANGED <<now, button, lastEdge, pressUs, cnt, first, trig, gpio, pNow,
                 calibReq, clicks, mixed>>

(* m_calib_press_us = 0: a press is acted upon once.  The callback, called *)
(* after the two stores below, publishes CTRL_SHUTDOWN.                    *)
Fire ==
  /\ ppc = "fire"
  /\ pressUs' = 0
  /\ ppc' = "forget"
  /\ armed' = FALSE
  /\ UNCHANGED <<now, button, lastEdge, cnt, first, trig, gpio, pNow, calibReq,
                 clicks, mixed>>

ForgetCount ==
  /\ ppc = "forget"
  /\ cnt' = 0 /\ ppc' = "forgetFirst"
  /\ mixed' = (mixed \/ gpc # "wait")
  /\ UNCHANGED <<now, button, lastEdge, pressUs, first, trig, gpio, pNow,
                 calibReq, clicks, armed>>

ForgetFirst ==
  /\ ppc = "forgetFirst"
  /\ first' = 0 /\ ppc' = "take"
  /\ mixed' = (mixed \/ gpc # "wait")
  /\ UNCHANGED <<now, button, lastEdge, pressUs, cnt, trig, gpio, pNow,
                 calibReq, clicks, armed>>

(* The main loop takes the request (and flips the toggle: NodeControl).    *)
Take ==
  /\ ppc = "take"
  /\ calibReq' = FALSE /\ ppc' = "sleep"
  /\ UNCHANGED <<now, button, lastEdge, pressUs, cnt, first, trig, gpio, pNow,
                 history>>

-----------------------------------------------------------------------------
Edge == Press \/ Release
Count == LoadCount \/ CountFirst \/ Stamp \/ CountNext
Polling ==
  \/ Poll \/ PassOn \/ NotLong \/ Long
  \/ Fire \/ ForgetCount \/ ForgetFirst \/ Take

Next == Tick \/ Edge \/ Count \/ Polling

(* The main loop goes round and a callback that has begun ends.            *)
Spec == Init /\ [][Next]_vars /\ WF_vars(Polling) /\ WF_vars(Count)

-----------------------------------------------------------------------------
TypeOK ==
  /\ {now, lastEdge, pressUs, first, gNow, pNow, downSince} \subseteq 0 .. MaxTime
  /\ {down, dropped, trig, calibReq, armed, mixed} \subseteq BOOLEAN
  /\ {cnt, gCnt} \subseteq 0 .. ClickCount - 1
  /\ gpc \in {"wait", "load", "count", "stamp"}
  /\ ppc \in {"sleep", "trig", "press", "fire", "forget", "forgetFirst", "take"}
  /\ clicks \in [1 .. ClickCount -> 0 .. MaxTime]

(* A trigger of the calibration stands for ClickCount accepted presses of  *)
(* its own within the window (onCalibEdge), unless a press was ever counted*)
(* while poll() was forgetting one: then first may be 0 with presses       *)
(* counted, and the next ones are not held against the window.             *)
ThreeClicks ==
  [][~trig /\ trig' =>
       mixed \/ (clicks[1] # 0 /\ clicks[ClickCount] - clicks[1] <= ClickWindow)]_vars

(* poll() acts once on a press ("once, against repetition"): between two   *)
(* long presses the GPIO thread has accepted a press.                      *)
OneShot == ppc = "fire" => armed

(* The fields stay in range and a long press is acted upon once.           *)
Inv == TypeOK /\ OneShot

(* A long press is acted upon when the button has been down that long,     *)
(* unless the last edge was dropped as a bounce (a click shorter than      *)
(* Debounce leaves its press time behind) or the press came after poll()   *)
(* had read the clock (the unsigned difference is then huge).              *)
HeldUnlessDropped ==
  [][ppc = "press" /\ ppc' = "fire" =>
       \/ down /\ pNow - downSince >= LongPress
       \/ dropped \/ pressUs > pNow]_vars

(* A press noted LongPress ago is acted upon or released.                  *)
Overdue == pressUs # 0 /\ now - pressUs >= LongPress
LongPressIsServed == Overdue ~> ~Overdue

(* "long press: held down for long_press_ms" (poll).                       *)
LongPressIsHeld ==
  [][ppc = "press" /\ ppc' = "fire" =>
       down /\ pNow - downSince >= LongPress]_vars
=============================================================================
