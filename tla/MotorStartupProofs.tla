-------------------------- MODULE MotorStartupProofs ---------------------------
(***************************************************************************)
(* The lock of motor_hal is held by the calls that say so, and m->enabled  *)
(* agrees with the drive of every motor the node can know of: proved for   *)
(* every set of motors, any of them with auto_enable, and for any number   *)
(* of commands, calibrations, steps of the RT thread, lost frames, faults  *)
(* and power failures.                                                     *)
(***************************************************************************)
EXTENDS MotorStartup, TLAPS

States == {"notReady", "switchOnDisabled", "readyToSwitchOn", "opEnabled"}

(* The calls in progress.                                                  *)
Jobs == [op : Operations, motor : Motors, left : 0 .. 4]

(* The call takes the drive to Operation Enabled.                          *)
Enables(o, m) == o = "enable" \/ (o = "auto" /\ m \in AutoEnable)

(* The operations that leave the flag and the drive at odds.               *)
Unnoted == Raw \cup {"reset"}

(* The flag and the drive of m are the business of the node's calls alone. *)
Known(m) == m \notin suspect /\ m \notin touched

(* The writes the drive has not acted upon yet.                            *)
Left == IF sdo = "answered" THEN job.left - 1 ELSE job.left

(* The state d in which a call has left the drive, n writes before its end.*)
Fits(d, o, m, n) ==
  /\ Enables(o, m) => /\ n = 0 => d = "op"
                      /\ n = 1 => d = "on"
                      /\ n = 2 => d = "ready"
  /\ (o = "disable" /\ n = 0) => d = "ready"
  /\ (o = "auto" /\ m \notin AutoEnable) => d # "op"

Typed ==
  /\ drive \in [Motors -> DriveStates]
  /\ state \in [Motors -> States]
  /\ booting \subseteq Motors /\ enabled \subseteq Motors
  /\ pending \subseteq Motors
  /\ suspect \subseteq Motors /\ touched \subseteq Motors
  /\ lock \in {"free", "main"}
  /\ job \in Jobs \cup {Idle}
  /\ sdo \in {"none", "answered", "silence"}

LockInv == lock = "main" <=> job.op \in Locked

(* A call has at most its own writes to make, and a write in progress is   *)
(* one of them.                                                            *)
WriteInv ==
  /\ job \in Jobs => job.left <= Writes(job.op, job.motor)
  /\ sdo # "none" => job \in Jobs /\ job.left > 0

(* The motor of a calibration, a CANCEL or a fault reset is touched, and   *)
(* one in a fault is suspect.                                              *)
RawInv == job \in Jobs /\ job.op \in Unnoted => job.motor \in touched
FaultInv == \A m \in Motors : drive[m] = "fault" => m \in suspect

(* A motor that was never started is enabled by the RT thread only.        *)
NewInv ==
  \A m \in Motors :
    state[m] = "notReady" /\ m \in enabled
      => ~Known(m) \/ (Busy(m) /\ Notes(job.op, m))

(* What a call wrote has taken the drive where it should be.               *)
DriveInv ==
  job \in Jobs /\ job.op \notin Unnoted /\ Known(job.motor) /\ sdo # "silence"
    => Fits(drive[job.motor], job.op, job.motor, Left)

IInv ==
  /\ Typed /\ LockInv /\ WriteInv /\ RawInv /\ FaultInv /\ NewInv /\ DriveInv
  /\ FlagMatchesDrive

-----------------------------------------------------------------------------
(* The main loop is in a call or idle.                                     *)
LEMMA JobFacts ==
  ASSUME NEW j \in Jobs \cup {Idle}
  PROVE  /\ j \in Jobs <=> j # Idle
         /\ j \in Jobs => /\ j.op \in Operations /\ j.motor \in Motors
                          /\ j.left \in 0 .. 4
         /\ j \notin Jobs => j.op = "none"
<1>1. Idle.op = "none"
  BY DEF Idle
<1>2. ASSUME j \in Jobs
      PROVE  /\ j.op \in Operations /\ j.motor \in Motors
             /\ j.left \in 0 .. 4
  BY <1>2 DEF Jobs
<1>3. "none" \notin Operations
  BY DEF Operations, Locked, Raw
<1>4. QED
  BY <1>1, <1>2, <1>3

(* The kinds of calls.                                                     *)
LEMMA OperationFacts ==
  ASSUME NEW o \in Operations, NEW m \in Motors
  PROVE  /\ o \in Unnoted <=> o \in Raw \/ o = "reset"
         /\ o \in Raw => o \notin Locked
         /\ o \notin Unnoted <=> o \in {"enable", "disable", "auto"}
         /\ o \notin Unnoted /\ ~Notes(o, m)
              <=> o = "auto" /\ m \notin AutoEnable
         /\ Notes(o, m) <=> o = "disable" \/ Enables(o, m)
         /\ Enables(o, m) => o # "disable" /\ o \notin Unnoted
  BY DEF Operations, Locked, Raw, Enables, Notes, Unnoted

(* How many writes a call makes.                                           *)
LEMMA WritesFacts ==
  ASSUME NEW o \in Operations, NEW m \in Motors
  PROVE  /\ Writes(o, m) \in 1 .. 4
         /\ Enables(o, m) => Writes(o, m) \in {3, 4}
         /\ o = "disable" => Writes(o, m) = 1
         /\ (o = "auto" /\ m \notin AutoEnable) => Writes(o, m) = 1
<1>1. CASE o \in {"disable", "rawOff", "reset"}
  BY <1>1 DEF Writes, Enables
<1>2. CASE o \in {"enable", "rawOn"}
  BY <1>2 DEF Writes, Enables
<1>3. CASE o = "auto"
  BY <1>3 DEF Writes, Enables
<1>4. QED
  BY <1>1, <1>2, <1>3 DEF Operations, Locked, Raw

(* A call that begins has all its writes left.                             *)
LEMMA NewJob ==
  ASSUME NEW o \in Operations, NEW m \in Motors
  PROVE  /\ Job(o, m) \in Jobs
         /\ Job(o, m).op = o /\ Job(o, m).motor = m
         /\ Job(o, m).left = Writes(o, m)
  BY WritesFacts DEF Job, Jobs

(* What a call has left when a write is over.                              *)
LEMMA NextJob ==
  ASSUME NEW j \in Jobs, j.left > 0,
         NEW k, k = [j EXCEPT !.left = @ - 1]
  PROVE  /\ k \in Jobs
         /\ k.op = j.op /\ k.motor = j.motor /\ k.left = j.left - 1
<1>1. j.left \in 0 .. 4
  BY DEF Jobs
<1>2. j.left - 1 \in 0 .. 4
  BY <1>1
<1>3. QED
  BY <1>2 DEF Jobs

(* A drive stays a drive, and one without power takes nothing.             *)
LEMMA TakesType ==
  ASSUME NEW d \in DriveStates, NEW w
  PROVE  Takes(d, w) \in DriveStates
  BY DEF Takes, DriveStates

(* The drive answers the next write of a call that it fits with the state  *)
(* the call goes on from.                                                  *)
LEMMA DriveTakes ==
  ASSUME NEW o \in Operations, NEW m \in Motors, o \notin Unnoted,
         NEW n \in 1 .. 4, n <= Writes(o, m),
         NEW d \in DriveStates, d # "off", d # "fault", Fits(d, o, m, n)
  PROVE  Fits(Takes(d, Word(o, m, n)), o, m, n - 1)
<1>1. CASE o = "disable"
  <2>1. Takes(d, Word(o, m, n)) = "ready"
    BY <1>1 DEF Takes, Word
  <2>2. ~Enables(o, m)
    BY <1>1 DEF Enables
  <2>3. QED
    BY <1>1, <2>1, <2>2 DEF Fits
<1>2. CASE o = "auto" /\ m \notin AutoEnable
  <2>1. Takes(d, Word(o, m, n)) = d
    BY <1>2 DEF Takes, Word
  <2>2. ~Enables(o, m)
    BY <1>2 DEF Enables
  <2>3. QED
    BY <1>2, <2>1, <2>2 DEF Fits
<1>3. CASE Enables(o, m)
  <2>1. /\ o \notin {"disable", "rawOff", "reset"}
        /\ ~(o = "auto" /\ m \notin AutoEnable)
    BY <1>3 DEF Enables
  <2>2. ASSUME n = 4
        PROVE  Fits(Takes(d, Word(o, m, n)), o, m, n - 1)
    BY <2>1, <2>2 DEF Fits
  <2>3. ASSUME n = 3
        PROVE  Fits(Takes(d, Word(o, m, n)), o, m, n - 1)
    <3>1. Takes(d, Word(o, m, n)) = "ready"
      BY <2>1, <2>3 DEF Takes, Word
    <3>2. QED
      BY <2>1, <2>3, <3>1 DEF Fits
  <2>4. ASSUME n = 2
        PROVE  Fits(Takes(d, Word(o, m, n)), o, m, n - 1)
    <3>1. d = "ready"
      BY <1>3, <2>4 DEF Fits
    <3>2. Takes(d, Word(o, m, n)) = "on"
      BY <2>1, <2>4, <3>1 DEF Takes, Word
    <3>3. QED
      BY <2>1, <2>4, <3>2 DEF Fits
  <2>5. ASSUME n = 1
        PROVE  Fits(Takes(d, Word(o, m, n)), o, m, n - 1)
    <3>1. d = "on"
      BY <1>3, <2>5 DEF Fits
    <3>2. Takes(d, Word(o, m, n)) = "op"
      BY <2>1, <2>5, <3>1 DEF Takes, Word
    <3>3. QED
      BY <2>1, <2>5, <3>2 DEF Fits
  <2>6. QED
    BY <2>2, <2>3, <2>4, <2>5
<1>4. QED
  BY <1>1, <1>2, <1>3, OperationFacts DEF Enables

-----------------------------------------------------------------------------
(* Nothing is in progress at first.                                        *)
LEMMA Initially == Init => IInv
<1> SUFFICES ASSUME Init PROVE IInv
  OBVIOUS
<1>1. job = Idle /\ job.op = "none" /\ job \notin Jobs
  <2>1. job \in Jobs \cup {Idle} /\ job = Idle /\ Idle.op = "none"
    BY DEF Init, Idle
  <2>2. QED
    BY <2>1, JobFacts
<1>2. Typed
  BY DEF Init, Typed, DriveStates, States
<1>3. LockInv /\ WriteInv /\ RawInv /\ FaultInv /\ DriveInv
  BY <1>1 DEF Init, LockInv, WriteInv, RawInv, FaultInv, DriveInv, Locked
<1>4. NewInv
  BY DEF Init, NewInv
<1>5. FlagMatchesDrive
  BY DEF Init, FlagMatchesDrive
<1>6. QED
  BY <1>2, <1>3, <1>4, <1>5 DEF IInv

(* The parts of IInv that speak of the lock and of the call in progress are*)
(* kept where both are left alone.                                         *)
LEMMA CallUnchanged ==
  ASSUME LockInv, WriteInv, RawInv, lock' = lock, job' = job, sdo' = sdo,
         touched \subseteq touched'
  PROVE  LockInv' /\ WriteInv' /\ RawInv'
  BY DEF LockInv, WriteInv, RawInv

(* Drives lose their power and come back; a bootup message is noted.       *)
LEMMA DrivesKeep ==
  ASSUME IInv, NEW m \in Motors,
         PowerOff(m) \/ Fault(m) \/ PowerOn(m) \/ Bootup(m)
  PROVE  IInv'
<1>1. CASE PowerOff(m) \/ Fault(m)
  <2> DEFINE x == IF PowerOff(m) THEN "off" ELSE "fault"
  <2>1. /\ drive' = [drive EXCEPT ![m] = x]
        /\ drive \in [Motors -> DriveStates] /\ x \in DriveStates
        /\ booting' \subseteq booting /\ suspect' = suspect \cup {m}
        /\ state' = state /\ enabled' = enabled /\ pending' = pending
        /\ lock' = lock /\ job' = job /\ sdo' = sdo /\ touched' = touched
    BY <1>1 DEF IInv, Typed, PowerOff, Fault, node, DriveStates
  <2> HIDE DEF x
  <2>2. Typed'
    BY <2>1 DEF IInv, Typed
  <2>3. LockInv' /\ WriteInv' /\ RawInv'
    BY <2>1, CallUnchanged DEF IInv
  <2>4. NewInv' /\ FaultInv'
    BY <2>1 DEF IInv, NewInv, FaultInv, Known, Busy
  <2>5. DriveInv'
    <3>1. job \in Jobs => job.motor \in Motors
      BY JobFacts DEF IInv, Typed
    <3>2. QED
      BY <2>1, <3>1 DEF IInv, DriveInv, Known, Left
  <2>6. FlagMatchesDrive'
    BY <2>1 DEF IInv, FlagMatchesDrive, Busy
  <2>7. QED
    BY <2>2, <2>3, <2>4, <2>5, <2>6 DEF IInv
<1>2. CASE PowerOn(m)
  <2>1. Typed'
    BY <1>2 DEF IInv, Typed, PowerOn, node, DriveStates
  <2>2. LockInv' /\ WriteInv' /\ RawInv'
    BY <1>2, CallUnchanged DEF IInv, PowerOn
  <2>3. /\ drive' = [drive EXCEPT ![m] = "disabled"] /\ drive[m] = "off"
        /\ drive \in [Motors -> DriveStates]
    BY <1>2 DEF IInv, Typed, PowerOn
  <2>4. NewInv' /\ FaultInv'
    BY <1>2, <2>3 DEF IInv, NewInv, FaultInv, PowerOn, node, Known, Busy
  <2>5. DriveInv'
    <3>1. job \in Jobs => job.motor \in Motors /\ job # Idle
      BY JobFacts DEF IInv, Typed
    <3>2. job \in Jobs /\ Known(job.motor)' => Known(job.motor)
      BY <1>2, <3>1 DEF PowerOn, Known, Busy
    <3>3. Left' = Left /\ job' = job /\ sdo' = sdo
      BY <1>2 DEF PowerOn, Left
    <3>4. \A o, n : Fits("off", o, m, n) => Fits("disabled", o, m, n)
      BY DEF Fits
    <3>5. job \in Jobs => drive'[job.motor]
                            = IF job.motor = m THEN "disabled"
                              ELSE drive[job.motor]
      BY <2>3, <3>1
    <3>6. QED
      BY <2>3, <3>2, <3>3, <3>4, <3>5 DEF IInv, DriveInv
  <2>6. FlagMatchesDrive'
    BY <1>2, <2>3 DEF IInv, FlagMatchesDrive, PowerOn, node, Busy
  <2>7. QED
    BY <2>1, <2>2, <2>4, <2>5, <2>6 DEF IInv
<1>3. CASE Bootup(m)
  <2>1. Typed'
    BY <1>3 DEF IInv, Typed, Bootup, node, history
  <2>2. LockInv' /\ WriteInv' /\ RawInv'
    BY <1>3, CallUnchanged DEF IInv, Bootup, history
  <2>3. NewInv' /\ FaultInv' /\ FlagMatchesDrive'
    BY <1>3 DEF IInv, NewInv, FaultInv, FlagMatchesDrive, Bootup, node,
                history, Known, Busy
  <2>4. DriveInv'
    BY <1>3 DEF IInv, DriveInv, Bootup, history, Known, Left
  <2>5. QED
    BY <2>1, <2>2, <2>3, <2>4 DEF IInv
<1>4. QED
  BY <1>1, <1>2, <1>3

(* A write is over: answered or given up.                                  *)
LEMMA AnswerKeeps == IInv /\ Answer => IInv'
<1> SUFFICES ASSUME IInv, Answer PROVE IInv'
  OBVIOUS
<1>1. /\ job \in Jobs /\ job.left > 0 /\ job # Idle
      /\ job.left <= Writes(job.op, job.motor)
  BY JobFacts DEF IInv, Typed, WriteInv, Answer
<1>2. /\ job' \in Jobs /\ job' # Idle
      /\ job'.op = job.op /\ job'.motor = job.motor
      /\ job'.left = job.left - 1
  BY <1>1, NextJob, JobFacts DEF Answer
<1>3. job.left \in 0 .. 4 /\ job.op \in Operations /\ job.motor \in Motors
  BY <1>1, JobFacts
<1>4. Writes(job.op, job.motor) \in 1 .. 4
  BY <1>3, WritesFacts
<1>5. Typed'
  BY <1>2 DEF IInv, Typed, Answer, node, history
<1>6. LockInv' /\ RawInv'
  BY <1>1, <1>2 DEF IInv, LockInv, RawInv, Answer, history
<1>7. WriteInv'
  BY <1>1, <1>2, <1>3, <1>4 DEF WriteInv, Answer
<1>8. NewInv' /\ FaultInv' /\ FlagMatchesDrive'
  BY <1>1, <1>2 DEF IInv, NewInv, FaultInv, FlagMatchesDrive, Answer, node,
                    history, Known, Busy
<1>9. DriveInv'
  <2>1. Left' = Left
    BY <1>2 DEF Left, Answer
  <2>2. QED
    BY <1>1, <1>2, <2>1 DEF IInv, DriveInv, Answer, history, Known
<1>10. QED
  BY <1>5, <1>6, <1>7, <1>8, <1>9 DEF IInv

LEMMA GiveUpKeeps == IInv /\ GiveUp => IInv'
<1> SUFFICES ASSUME IInv, GiveUp PROVE IInv'
  OBVIOUS
<1>1. /\ job \in Jobs /\ job.left > 0 /\ job # Idle
      /\ job.left <= Writes(job.op, job.motor)
      /\ job.left \in 0 .. 4 /\ job.op \in Operations
      /\ job.motor \in Motors
  BY JobFacts DEF IInv, Typed, WriteInv, GiveUp
<1>2. Writes(job.op, job.motor) \in 1 .. 4
  BY <1>1, WritesFacts
<1>3. CASE job.op \in Raw
  <2>1. /\ job' \in Jobs /\ job' # Idle
        /\ job'.op = job.op /\ job'.motor = job.motor
        /\ job'.left = job.left - 1
    BY <1>1, <1>3, NextJob, JobFacts DEF GiveUp
  <2>2. job.op \notin Locked /\ job.op \in Unnoted
    BY <1>1, <1>3, OperationFacts
  <2>3. Typed'
    BY <1>1, <2>1 DEF IInv, Typed, GiveUp, node
  <2>4. LockInv' /\ RawInv'
    BY <1>1, <2>1, <2>2 DEF IInv, LockInv, RawInv, GiveUp
  <2>5. WriteInv'
    BY <1>1, <1>2, <2>1 DEF WriteInv, GiveUp
  <2>6. NewInv' /\ FaultInv' /\ FlagMatchesDrive'
    BY <1>1, <2>1 DEF IInv, NewInv, FaultInv, FlagMatchesDrive, GiveUp, node,
                      Known, Busy
  <2>7. DriveInv'
    BY <2>1, <2>2 DEF DriveInv
  <2>8. QED
    BY <2>3, <2>4, <2>5, <2>6, <2>7 DEF IInv
<1>4. CASE job.op \notin Raw
  <2>1. job' = Idle /\ job' \notin Jobs /\ job'.op = "none" /\ sdo' = "none"
    <3>1. job' = Idle /\ sdo' = "none" /\ Idle.op = "none"
      BY <1>4 DEF GiveUp, Idle
    <3>2. Idle \in Jobs \cup {Idle}
      OBVIOUS
    <3>3. QED
      BY <3>1, <3>2, JobFacts
  <2>2. Typed'
    BY <1>1, <2>1 DEF IInv, Typed, GiveUp, node
  <2>3. LockInv' /\ WriteInv' /\ RawInv' /\ DriveInv'
    BY <2>1 DEF LockInv, WriteInv, RawInv, DriveInv, GiveUp, Locked
  <2>4. NewInv' /\ FaultInv' /\ FlagMatchesDrive'
    BY <1>1, <2>1 DEF IInv, NewInv, FaultInv, FlagMatchesDrive, GiveUp, node,
                      Known, Busy
  <2>5. QED
    BY <2>2, <2>3, <2>4 DEF IInv
<1>5. QED
  BY <1>3, <1>4

(* A write is made: the drive goes one step further.                       *)
LEMMA RequestKeeps ==
  ASSUME IInv, NEW fate \in Fates, Request(fate)
  PROVE  IInv'
<1> DEFINE m == job.motor
           w == Word(job.op, m, job.left)
<1>1. /\ job \in Jobs /\ job # Idle /\ job.left > 0 /\ sdo = "none"
      /\ job.left \in 0 .. 4 /\ job.op \in Operations /\ m \in Motors
      /\ job.left <= Writes(job.op, m)
  BY JobFacts DEF IInv, Typed, WriteInv, Request
<1>2. drive \in [Motors -> DriveStates] /\ drive[m] \in DriveStates
  BY <1>1 DEF IInv, Typed
<1> HIDE DEF m
<1>3. /\ drive' \in [Motors -> DriveStates]
      /\ \A k \in Motors : k # m => drive'[k] = drive[k]
      /\ fate = "arrives" => drive'[m] = Takes(drive[m], w)
  <2>1. Takes(drive[m], w) \in DriveStates
    BY <1>2, TakesType
  <2>2. drive' = drive \/ drive' = [drive EXCEPT ![m] = Takes(drive[m], w)]
    BY DEF Request, m
  <2>3. fate = "arrives" => drive' = [drive EXCEPT ![m] = Takes(drive[m], w)]
    BY DEF Request, m
  <2> HIDE DEF w
  <2>4. QED
    BY <1>1, <1>2, <2>1, <2>2, <2>3
<1> HIDE DEF w
<1>4. /\ sdo' = IF fate = "arrives" /\ drive[m] # "off"
                THEN "answered" ELSE "silence"
      /\ suspect' = IF fate = "arrives" THEN suspect ELSE suspect \cup {m}
      /\ job' = job /\ lock' = lock /\ touched' = touched
      /\ state' = state /\ enabled' = enabled
  BY DEF Request, node, m
<1>5. Typed'
  BY <1>1, <1>3, <1>4 DEF IInv, Typed, Request, m
<1>6. LockInv' /\ WriteInv' /\ RawInv'
  BY <1>1, <1>4 DEF IInv, LockInv, WriteInv, RawInv, m
<1>7. NewInv' /\ FaultInv'
  <2>1. ASSUME drive'[m] = "fault" PROVE drive[m] = "fault" \/ m \in suspect'
    BY <1>3, <1>4, <2>1 DEF Takes
  <2>2. FaultInv'
    BY <1>1, <1>3, <1>4, <2>1 DEF IInv, FaultInv
  <2>3. QED
    BY <1>4, <2>2 DEF IInv, NewInv, Known, Busy
<1>8. FlagMatchesDrive'
  BY <1>1, <1>3, <1>4 DEF IInv, FlagMatchesDrive, Busy, m
<1>9. DriveInv'
  <2> SUFFICES ASSUME job.op \notin Unnoted, Known(m)', sdo' # "silence"
               PROVE  Fits(drive'[m], job.op, m, Left')
    BY <1>4 DEF DriveInv, m
  <2>1. fate = "arrives" /\ drive[m] # "off" /\ sdo' = "answered"
    BY <1>4
  <2>2. Known(m) /\ drive[m] # "fault"
    BY <1>1, <1>4, <2>1 DEF IInv, FaultInv, Known, m
  <2>3. Left = job.left /\ Left' = job.left - 1
    BY <1>1, <1>4, <2>1 DEF Left
  <2>4. Fits(drive[m], job.op, m, job.left)
    BY <1>1, <2>2, <2>3 DEF IInv, DriveInv, m
  <2>5. Fits(Takes(drive[m], w), job.op, m, job.left - 1)
    BY <1>1, <1>2, <2>1, <2>2, <2>4, DriveTakes DEF w
  <2>6. QED
    BY <1>3, <2>1, <2>3, <2>5
<1>10. QED
  BY <1>5, <1>6, <1>7, <1>8, <1>9 DEF IInv

-----------------------------------------------------------------------------
(* The main loop is idle.                                                  *)
LEMMA IdleFacts ==
  ASSUME job = Idle
  PROVE  /\ job \notin Jobs /\ job.op = "none" /\ job.op \notin Locked
         /\ \A m \in Motors : ~Busy(m)
<1>1. Idle \in Jobs \cup {Idle}
  OBVIOUS
<1>2. QED
  BY <1>1, JobFacts DEF Busy, Locked

(* A call ends with all its writes made: the flag is what they have made of*)
(* the drive.                                                              *)
LEMMA EndsKeep == IInv /\ (Done \/ Started \/ RawDone) => IInv'
<1> SUFFICES ASSUME IInv, Done \/ Started \/ RawDone PROVE IInv'
  OBVIOUS
<1> DEFINE m == job.motor
           o == job.op
<1>1. o \in Operations /\ job.left = 0
  <2>1. o # "none"
    BY DEF Done, Started, RawDone, Locked, Raw
  <2>2. job \in Jobs
    BY <2>1, JobFacts DEF IInv, Typed
  <2>3. QED
    BY <2>2, JobFacts DEF Done, Started, RawDone
<1>2. /\ job \in Jobs /\ job # Idle /\ m \in Motors /\ sdo = "none"
      /\ Left = 0
  <2>1. o # "none"
    BY DEF Done, Started, RawDone, Locked, Raw
  <2>2. job \in Jobs
    BY <2>1, JobFacts DEF IInv, Typed
  <2>3. sdo = "none"
    BY <1>1 DEF IInv, Typed, WriteInv
  <2>4. QED
    BY <1>1, <2>2, <2>3, JobFacts DEF Left
<1>3. /\ job' = Idle /\ job' \notin Jobs /\ job'.op = "none"
      /\ sdo' = sdo /\ drive' = drive /\ suspect' = suspect
      /\ touched' = touched /\ booting' = booting /\ pending' = pending
      /\ lock' = IF o \in Locked THEN "free" ELSE lock
  <2>1. Idle \in Jobs \cup {Idle} /\ Idle \notin Jobs /\ Idle.op = "none"
    <3>1. Idle \in Jobs \cup {Idle}
      OBVIOUS
    <3>2. QED
      BY <3>1, JobFacts
  <2>2. "auto" \notin Locked /\ \A x \in Raw : x \notin Locked
    BY DEF Locked, Raw
  <2>3. QED
    BY <2>1, <2>2 DEF Done, Started, RawDone, history
<1>4. \/ o \in Raw /\ enabled' = enabled /\ state' = state
      \/ /\ o = "reset" /\ enabled' = enabled
         /\ state' = [state EXCEPT ![m] = "switchOnDisabled"]
      \/ /\ Enables(o, m) /\ enabled' = enabled \cup {m}
         /\ state' = [state EXCEPT ![m] = "opEnabled"]
      \/ /\ o = "disable" /\ enabled' = enabled \ {m}
         /\ state' = [state EXCEPT ![m] = "readyToSwitchOn"]
      \/ /\ o = "auto" /\ m \notin AutoEnable /\ enabled' = enabled \ {m}
         /\ state' = [state EXCEPT ![m] = "switchOnDisabled"]
  BY DEF Done, Started, RawDone, node, Enables, Locked
<1>5. o \notin Unnoted /\ Known(m) => Fits(drive[m], o, m, 0)
  BY <1>2 DEF IInv, DriveInv
<1>6. o \in Unnoted => ~Known(m)
  BY <1>2 DEF IInv, RawInv, Known
<1> HIDE DEF m, o
<1>7. Typed'
  <2>1. state' \in [Motors -> States]
    BY <1>2, <1>4 DEF IInv, Typed, States
  <2>2. enabled' \subseteq Motors
    BY <1>2, <1>4 DEF IInv, Typed
  <2>3. QED
    BY <1>3, <2>1, <2>2 DEF IInv, Typed
<1>8. LockInv'
  BY <1>3 DEF IInv, LockInv, Locked, o
<1>9. WriteInv' /\ RawInv' /\ DriveInv'
  BY <1>2, <1>3 DEF WriteInv, RawInv, DriveInv
<1>10. NewInv' /\ FaultInv'
  <2> SUFFICES ASSUME NEW k \in Motors, state'[k] = "notReady",
                      k \in enabled'
               PROVE  ~Known(k)'
    BY <1>3 DEF IInv, NewInv, FaultInv
  <2>1. state[k] = "notReady" /\ k \in enabled /\ (k = m => o \in Raw)
    BY <1>2, <1>4 DEF IInv, Typed
  <2>2. CASE k = m
    BY <1>1, <1>2, <1>3, <1>6, <2>1, <2>2, OperationFacts DEF Known
  <2>3. CASE k # m
    <3>1. ~Busy(k)
      BY <2>3 DEF Busy, m
    <3>2. QED
      BY <1>3, <2>1, <3>1 DEF IInv, NewInv, Known
  <2>4. QED
    BY <2>2, <2>3
<1>11. FlagMatchesDrive'
  <2> SUFFICES ASSUME NEW k \in Motors, Known(k)
               PROVE  k \in enabled' <=> drive[k] = "op"
    BY <1>3 DEF FlagMatchesDrive, Known
  <2>1. CASE k = m
    <3>1. o \notin Unnoted /\ Fits(drive[m], o, m, 0)
      BY <1>5, <1>6, <2>1
    <3>2. (m \in enabled') <=> Enables(o, m)
      BY <1>1, <1>2, <1>4, <3>1, OperationFacts DEF Enables
    <3>3. Enables(o, m) <=> drive[m] = "op"
      BY <1>4, <3>1 DEF Fits, Unnoted
    <3>4. QED
      BY <2>1, <3>2, <3>3
  <2>2. CASE k # m
    <3>1. ~Busy(k)
      BY <2>2 DEF Busy, m
    <3>2. k \in enabled' <=> k \in enabled
      BY <1>4, <2>2
    <3>3. QED
      BY <3>1, <3>2 DEF IInv, FlagMatchesDrive, Known
  <2>3. QED
    BY <2>1, <2>2
<1>12. QED
  BY <1>7, <1>8, <1>9, <1>10, <1>11 DEF IInv

(* A call begins, or a startup, which is for a motor that is not enabled.  *)
LEMMA BeginsKeep ==
  ASSUME IInv, NEW m \in Motors, NEW o \in Operations, job = Idle,
         Begin(o, m), sdo' = sdo, lock' = IF o \in Locked THEN "main"
                                              ELSE lock,
         drive' = drive, booting' = booting, state' = state,
         enabled' = enabled, pending' \subseteq pending,
         o = "auto" => state[m] = "notReady"
  PROVE  IInv'
<1>1. /\ job' \in Jobs /\ job' # Idle
      /\ job'.op = o /\ job'.motor = m /\ job'.left = Writes(o, m)
  BY NewJob, JobFacts DEF Begin
<1>2. Writes(o, m) \in 1 .. 4
  BY WritesFacts
<1>3. /\ \A k \in Motors : ~Busy(k)
      /\ job \notin Jobs /\ job.op \notin Locked
      /\ \A k \in Motors : Busy(k)' <=> k = m
  BY <1>1, IdleFacts DEF Busy
<1>4. /\ lock = "free" /\ sdo = "none" /\ sdo' = "none"
  BY <1>3 DEF IInv, Typed, LockInv, WriteInv
<1>5. /\ \A k \in Motors : k # m => (Known(k)' <=> Known(k))
      /\ suspect' \subseteq Motors /\ touched' \subseteq Motors
  BY DEF IInv, Typed, Begin, Known
<1>6. Typed'
  BY <1>1, <1>4, <1>5 DEF IInv, Typed
<1>7. LockInv' /\ RawInv' /\ WriteInv'
  BY <1>1, <1>2, <1>4, OperationFacts DEF LockInv, RawInv, WriteInv, Begin
<1>8. o = "auto" /\ m \notin AutoEnable => (Known(m)' <=> Known(m))
  BY DEF Begin, Notes, Known
<1>9. o \in Unnoted => ~Known(m)'
  BY OperationFacts DEF Begin, Known
<1>10. NewInv' /\ FaultInv'
  <2>1. ASSUME NEW k \in Motors, state[k] = "notReady", k \in enabled
        PROVE  ~Known(k)' \/ (k = m /\ Notes(o, m))
    <3>1. ~Known(k)
      BY <1>3, <2>1 DEF IInv, NewInv
    <3>2. k = m => Notes(o, m) \/ o \in Unnoted \/ ~Known(k)'
      BY <1>8, <3>1, OperationFacts
    <3>3. QED
      BY <1>5, <1>9, <3>1, <3>2
  <2>2. NewInv'
    BY <1>1, <1>3, <2>1 DEF NewInv
  <2>3. FaultInv'
    BY DEF IInv, FaultInv, Begin
  <2>4. QED
    BY <2>2, <2>3
<1>11. FlagMatchesDrive'
  <2> SUFFICES ASSUME NEW k \in Motors, Known(k)', k # m
               PROVE  k \in enabled <=> drive[k] = "op"
    BY <1>3 DEF FlagMatchesDrive, Known
  <2>1. QED
    BY <1>3, <1>5 DEF IInv, FlagMatchesDrive, Known
<1>12. DriveInv'
  <2> SUFFICES ASSUME o \notin Unnoted, Known(m)'
               PROVE  Fits(drive[m], o, m, Writes(o, m))
    BY <1>1, <1>4 DEF DriveInv, Left, Known
  <2>1. CASE Enables(o, m)
    BY <1>2, <2>1, WritesFacts, OperationFacts DEF Fits, Enables
  <2>2. CASE o = "disable"
    BY <2>2, WritesFacts DEF Fits, Enables
  <2>3. CASE o = "auto" /\ m \notin AutoEnable
    <3>1. ~Enables(o, m) /\ o # "disable"
      BY <2>3 DEF Enables
    <3>2. Known(m)
      BY <1>8, <2>3
    <3>3. m \notin enabled
      BY <1>3, <2>3, <3>2 DEF IInv, NewInv
    <3>4. drive[m] # "op"
      BY <1>3, <3>2, <3>3 DEF IInv, FlagMatchesDrive, Known
    <3>5. QED
      BY <3>1, <3>4 DEF Fits
  <2>4. QED
    BY <2>1, <2>2, <2>3, OperationFacts DEF Enables
<1>13. QED
  BY <1>6, <1>7, <1>10, <1>11, <1>12 DEF IInv

(* ... which are the main loop's rounds and commands.                      *)
LEMMA CallsKeep ==
  ASSUME IInv, NEW m \in Motors,
         \/ StartPending(m)
         \/ \E o \in Locked : Command(o, m)
         \/ \E o \in Raw : RawWords(o, m)
  PROVE  IInv'
<1>1. CASE StartPending(m)
  <2>1. "auto" \in Operations /\ "auto" \notin Locked /\ "auto" \notin Raw
    BY DEF Operations, Locked, Raw
  <2>2. QED
    BY <1>1, <2>1, BeginsKeep DEF StartPending, node
<1>2. ASSUME NEW o \in Locked, Command(o, m)
      PROVE  IInv'
  <2>1. o \in Operations /\ o \notin Raw /\ o # "auto"
    BY DEF Operations, Locked, Raw
  <2>2. QED
    BY <1>2, <2>1, BeginsKeep DEF Command, node
<1>3. ASSUME NEW o \in Raw, RawWords(o, m)
      PROVE  IInv'
  <2>1. o \in Operations /\ o \notin Locked /\ o # "auto"
    BY DEF Operations, Locked, Raw
  <2>2. QED
    BY <1>3, <2>1, BeginsKeep DEF RawWords, node
<1>4. QED
  BY <1>1, <1>2, <1>3

(* The RT thread touches a motor.                                          *)
LEMMA RtKeeps ==
  ASSUME IInv, NEW m \in Motors,
         \/ \E on \in BOOLEAN : RtCall(m, on)
         \/ \E d \in {"ready", "op"} : RtFrame(m, d)
  PROVE  IInv'
<1>1. /\ lock' = lock /\ job' = job /\ sdo' = sdo /\ booting' = booting
      /\ pending' = pending /\ suspect' = suspect
      /\ touched' = touched \cup {m}
  BY DEF RtCall, RtFrame
<1>2. /\ \A k \in Motors : Known(k)' => Known(k) /\ k # m
      /\ \A k \in Motors : Busy(k)' <=> Busy(k)
  BY <1>1 DEF Known, Busy
<1>3. /\ drive' \in [Motors -> DriveStates]
      /\ state' \in [Motors -> States]
      /\ \A k \in Motors : k # m => /\ drive'[k] = drive[k]
                                    /\ state'[k] = state[k]
                                    /\ k \in enabled' <=> k \in enabled
      /\ enabled' \subseteq Motors
  BY DEF IInv, Typed, RtCall, RtFrame, node, DriveStates, States
<1>4. Typed'
  BY <1>1, <1>3 DEF IInv, Typed
<1>5. LockInv' /\ WriteInv' /\ RawInv'
  BY <1>1, CallUnchanged DEF IInv
<1>6. NewInv' /\ FaultInv'
  <2> SUFFICES ASSUME NEW k \in Motors, state'[k] = "notReady",
                      k \in enabled', Known(k)'
               PROVE  Busy(k) /\ Notes(job.op, k)
    BY <1>1, <1>2, <1>3 DEF IInv, NewInv, FaultInv, RtCall, RtFrame
  <2>1. QED
    BY <1>2, <1>3 DEF IInv, NewInv
<1>7. DriveInv'
  <2> SUFFICES ASSUME job \in Jobs, job.op \notin Unnoted, Known(job.motor)',
                      sdo # "silence"
               PROVE  Fits(drive'[job.motor], job.op, job.motor, Left)
    BY <1>1 DEF DriveInv, Left
  <2>1. job.motor \in Motors
    BY JobFacts DEF IInv, Typed
  <2>2. Known(job.motor) /\ job.motor # m
    BY <1>1, <2>1 DEF Known
  <2>3. drive'[job.motor] = drive[job.motor]
    BY <1>3, <2>1, <2>2
  <2>4. QED
    BY <2>2, <2>3 DEF IInv, DriveInv
<1>8. FlagMatchesDrive'
  BY <1>2, <1>3 DEF IInv, FlagMatchesDrive, Known
<1>9. QED
  BY <1>4, <1>5, <1>6, <1>7, <1>8 DEF IInv

-----------------------------------------------------------------------------
(* Between the steps nothing changes.                                      *)
LEMMA StutterKeeps == IInv /\ UNCHANGED vars => IInv'
  BY DEF IInv, vars, node, history, bounds, Typed, LockInv, WriteInv, RawInv,
         FaultInv, NewInv, DriveInv, FlagMatchesDrive, Known, Busy, Left

(* The inductive invariant: the call the main loop is in, how far it has   *)
(* brought the drive, and the lock that it holds.                          *)
THEOREM MotorStartupInvariant == Spec => []IInv
<1>1. IInv /\ [Next]_vars => IInv'
  <2> SUFFICES ASSUME IInv, [Next]_vars PROVE IInv'
    OBVIOUS
  <2>1. CASE Environment
    BY <2>1, DrivesKeep DEF Environment
  <2>2. CASE Receive
    BY <2>2, DrivesKeep, AnswerKeeps DEF Receive
  <2>3. CASE Caller
    BY <2>3, RequestKeeps, GiveUpKeeps, EndsKeep DEF Caller
  <2>4. CASE Poll
    BY <2>4, CallsKeep, EndsKeep DEF Poll
  <2>5. CASE Commands
    BY <2>5, CallsKeep DEF Commands
  <2>6. CASE RtThread
    BY <2>6, RtKeeps DEF RtThread
  <2>7. CASE UNCHANGED vars
    BY <2>7, StutterKeeps
  <2>8. QED
    BY <2>1, <2>2, <2>3, <2>4, <2>5, <2>6, <2>7 DEF Next
<1>2. QED
  BY Initially, <1>1, PTL DEF Spec

(* Every variable keeps its type, and hal->lock is held exactly in         *)
(* motor_hal_enable and motor_hal_disable.                                 *)
THEOREM MotorStartupTypeOK == Spec => []TypeOK
<1>1. IInv => TypeOK
  <2> SUFFICES ASSUME IInv PROVE TypeOK
    OBVIOUS
  <2>1. job # Idle => /\ job.op \in Operations /\ job.motor \in Motors
                      /\ job.left \in 0 .. 4
    BY JobFacts DEF IInv, Typed
  <2>2. QED
    BY <2>1 DEF IInv, Typed, LockInv, TypeOK, States
<1>2. QED
  BY <1>1, MotorStartupInvariant, PTL

(* m->enabled says what the drive does after every completed               *)
(* motor_hal_enable, motor_hal_disable and startup with auto_enable, until *)
(* a frame to the motor is lost, its power fails, or the calibration,      *)
(* CANCEL or the RT thread changes one of the two without the other.       *)
THEOREM FlagMatchesDriveHolds == Spec => []FlagMatchesDrive
  BY MotorStartupInvariant, PTL DEF IInv
=============================================================================
