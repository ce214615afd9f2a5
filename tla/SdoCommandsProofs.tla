--------------------------- MODULE SdoCommandsProofs ---------------------------
(***************************************************************************)
(* The SDO commands of the algorithm reach the drive whole, the last one   *)
(* last, and in the mode they need, for every width of the sequence        *)
(* number, set of values, and number of commands and outside changes.      *)
(***************************************************************************)
EXTENDS SdoCommands, TLAPS

(* The command a poll has read, from the check of its value to the end of  *)
(* its SDO calls.                                                          *)
Running == pc \in {"state", "enable", "mode", "target", "start"}
Driven == {"cur", "pos", "vel"}

(* The main loop finds no empty slot, and the commands it drives have a    *)
(* mode; what it announced lately is bounded by what was forwarded.        *)
CommandInv ==
  /\ slot \notin Command =>
        sdoSeq = sdoAck /\ pc = "idle" /\ rtpc # "announce"
  /\ rtpc # "idle" => command \in Command /\ slot.kind = command.kind
  /\ rtpc = "announce" => slot.value = command.value
  /\ rtpc = "idle" => /\ slot.kind = lastForwarded.kind
                      /\ slot.value = lastForwarded.value
  /\ pc = "value" => kind \in Kinds
  /\ Running => kind \in Driven /\ value \in Values
  /\ unseen + (IF rtpc = "idle" THEN 0 ELSE 1) <= forwards

(* The cache is right as long as nothing happened behind its back, and is  *)
(* consulted before a current or position target.                          *)
CacheInv ==
  /\ (~stale /\ cache # "none") => drive.mode = cache
  /\ (pc = "target" /\ kind # "vel") => cache = ModeOf[kind]

(* Sequence number n steps after b, for n less than a whole turn.          *)
After(b, n) == IF b + n < SeqMod THEN b + n ELSE b + n - SeqMod
SeqInv ==
  unseen < SeqMod =>
    sdoSeq = After(IF pc = "idle" THEN sdoAck ELSE seq, unseen)

(* With every announced command looked at, the poll has read the slot as it*)
(* stands: whatever was torn has been announced again.                     *)
ReadInv ==
  (unseen = 0 /\ rtpc = "idle") =>
    /\ (pc = "value" \/ Running) => kind = slot.kind
    /\ Running => value = slot.value
    /\ pc \in {"idle", "ack"} => /\ lastRun.cmd.kind = slot.kind
                                 /\ lastRun.cmd.value = slot.value

(* A command that went well has left its target in the drive.              *)
DoneInv ==
  /\ pc = "start" => drive.target = [kind |-> kind, value |-> value]
  /\ (pc \in {"idle", "ack"} /\ lastRun.result = "done") =>
       drive.target = lastRun.cmd

IInv == TypeOK /\ CommandInv /\ CacheInv /\ SeqInv /\ ReadInv /\ DoneInv

-----------------------------------------------------------------------------
(* The next sequence number, without the modulus.                          *)
LEMMA NextSeq ==
  ASSUME NEW n \in 0 .. SeqMod - 1
  PROVE  (n + 1) % SeqMod = IF n + 1 = SeqMod THEN 0 ELSE n + 1
<1>1. CASE n + 1 = SeqMod
  BY <1>1, SeqModAssumption
<1>2. CASE n + 1 # SeqMod
  BY <1>2, SeqModAssumption
<1>3. QED
  BY <1>1, <1>2

Drive == [enabled : BOOLEAN, mode : Modes, target : Command \cup {NoCommand}]

(* Whatever is written to the drive leaves it well typed.                  *)
LEMMA DriveType ==
  ASSUME NEW d \in Drive, NEW power \in BOOLEAN, NEW mode \in Modes,
         NEW target \in Command
  PROVE  /\ [d EXCEPT !.enabled = power] \in Drive
         /\ [d EXCEPT !.mode = mode] \in Drive
         /\ [d EXCEPT !.target = target] \in Drive
         /\ [d EXCEPT !.enabled = power, !.mode = mode] \in Drive
  BY DEF Drive

(* The inductive invariant holds initially.                                *)
LEMMA InitIInv == Init => IInv
<1> SUFFICES ASSUME Init PROVE IInv
  OBVIOUS
<1>1. drive \in [enabled : BOOLEAN, mode : Modes,
                 target : Command \cup {NoCommand}]
  BY DEF Init, Modes
<1>2. TypeOK
  <2>1. slot \in [kind : Kinds \cup {"none"}, value : Values \cup {"none"}]
    BY DEF Init, NoCommand
  <2>2. lastRun.cmd = NoCommand /\ lastRun.result = "none"
    BY DEF Init
  <2>3. command = NoCommand /\ lastForwarded = NoCommand
    BY DEF Init
  <2>4. sdoSeq \in 0 .. SeqMod - 1 /\ sdoAck \in 0 .. SeqMod - 1
        /\ seq \in 0 .. SeqMod - 1 /\ forwards \in 0 .. MaxForwards
        /\ others \in 0 .. MaxOthers /\ unseen \in 0 .. MaxForwards
    BY SeqModAssumption, BoundAssumption DEF Init
  <2>5. rtpc = "idle" /\ pc = "idle" /\ kind = "none" /\ value = "none"
        /\ cache = "none" /\ stale = FALSE
    BY DEF Init
  <2>6. QED
    BY <1>1, <2>1, <2>2, <2>3, <2>4, <2>5 DEF TypeOK
<1>3. CommandInv /\ CacheInv
  BY BoundAssumption DEF Init, CommandInv, CacheInv, Running, NoCommand
<1>4. SeqInv /\ ReadInv /\ DoneInv
  BY SeqModAssumption
     DEF Init, SeqInv, ReadInv, DoneInv, After, Running, NoCommand
<1>5. QED
  BY <1>2, <1>3, <1>4 DEF IInv

(* The RT thread, forwarding a command, keeps the inductive invariant.     *)
LEMMA WorkerKeepsIInv ==
  ASSUME IInv,
         \/ (\E c \in Command : ForwardKind(c))
         \/ ForwardValue
         \/ Announce
  PROVE  IInv'
<1> USE SeqModAssumption, BoundAssumption
<1> USE DEF IInv, shm, worker, loop, history
<1>1. ASSUME NEW c \in Command, ForwardKind(c)
      PROVE  IInv'
  <2>1. TypeOK'
    BY <1>1 DEF ForwardKind, TypeOK, CommandInv, Running, Command, NoCommand, Kinds, Driven, Modes, ModeOf
  <2>2. CommandInv'
    BY <1>1 DEF ForwardKind, TypeOK, CommandInv, Running, Command, NoCommand, Kinds, Driven
  <2>3. CacheInv'
    BY <1>1 DEF ForwardKind, TypeOK, CacheInv, CommandInv, Running, Driven, ModeOf
  <2>4. SeqInv' /\ ReadInv'
    BY <1>1 DEF ForwardKind, TypeOK, CommandInv, SeqInv, After, ReadInv, Running
  <2>5. DoneInv'
    BY <1>1 DEF ForwardKind, TypeOK, DoneInv
  <2>6. QED
    BY <2>1, <2>2, <2>3, <2>4, <2>5
<1>2. CASE ForwardValue
  <2>1. TypeOK'
    BY <1>2 DEF ForwardValue, TypeOK, CommandInv, Running, Command, NoCommand, Kinds, Driven, Modes, ModeOf
  <2>2. CommandInv'
    BY <1>2 DEF ForwardValue, TypeOK, CommandInv, Running, Command, NoCommand, Kinds, Driven
  <2>3. CacheInv'
    BY <1>2 DEF ForwardValue, TypeOK, CacheInv, CommandInv, Running, Driven, ModeOf
  <2>4. SeqInv' /\ ReadInv'
    BY <1>2 DEF ForwardValue, TypeOK, CommandInv, SeqInv, After, ReadInv, Running
  <2>5. DoneInv'
    BY <1>2 DEF ForwardValue, TypeOK, DoneInv
  <2>6. QED
    BY <2>1, <2>2, <2>3, <2>4, <2>5
<1>3. CASE Announce
  <2>1. TypeOK'
    BY <1>3, NextSeq DEF Announce, TypeOK, CommandInv, Running, Command, NoCommand, Kinds, Driven, Modes, ModeOf
  <2>2. CommandInv'
    BY <1>3, NextSeq DEF Announce, TypeOK, CommandInv, Running, Command, NoCommand, Kinds, Driven
  <2>3. CacheInv'
    BY <1>3, NextSeq DEF Announce, TypeOK, CacheInv, CommandInv, Running, Driven, ModeOf
  <2>4. SeqInv' /\ ReadInv'
    BY <1>3, NextSeq DEF Announce, TypeOK, CommandInv, SeqInv, After, ReadInv, Running
  <2>5. DoneInv'
    BY <1>3, NextSeq DEF Announce, TypeOK, DoneInv
  <2>6. QED
    BY <2>1, <2>2, <2>3, <2>4, <2>5
<1>4. QED
  BY <1>1, <1>2, <1>3

(* The poll, from the sequence to the command and its acknowledgement,     *)
(* keeps it.                                                               *)
LEMMA PollKeepsIInv ==
  ASSUME IInv,
         \/ LoadSeq
         \/ ReadKind
         \/ ReadValue
         \/ Ack
  PROVE  IInv'
<1> USE SeqModAssumption, BoundAssumption
<1> USE DEF IInv, shm, worker, loop, history
<1>1. CASE LoadSeq
  <2>1. TypeOK'
    BY <1>1 DEF LoadSeq, TypeOK, CommandInv, Running, Command, NoCommand, Kinds, Driven, Modes, ModeOf
  <2>2. CommandInv'
    BY <1>1 DEF LoadSeq, TypeOK, CommandInv, Running, Command, NoCommand, Kinds, Driven
  <2>3. CacheInv'
    BY <1>1 DEF LoadSeq, TypeOK, CacheInv, CommandInv, Running, Driven, ModeOf
  <2>4. SeqInv' /\ ReadInv'
    BY <1>1 DEF LoadSeq, TypeOK, CommandInv, SeqInv, After, ReadInv, Running
  <2>5. DoneInv'
    BY <1>1 DEF LoadSeq, TypeOK, DoneInv
  <2>6. QED
    BY <2>1, <2>2, <2>3, <2>4, <2>5
<1>2. CASE ReadKind
  <2>1. TypeOK'
    BY <1>2 DEF ReadKind, TypeOK, CommandInv, Running, Command, NoCommand, Kinds, Driven, Modes, ModeOf, OnlyTheDrive
  <2>2. CommandInv'
    BY <1>2 DEF ReadKind, TypeOK, CommandInv, Running, Command, NoCommand, Kinds, Driven, OnlyTheDrive
  <2>3. CacheInv'
    BY <1>2 DEF ReadKind, TypeOK, CacheInv, CommandInv, Running, Driven, ModeOf, OnlyTheDrive
  <2>4. SeqInv' /\ ReadInv'
    BY <1>2 DEF ReadKind, TypeOK, CommandInv, SeqInv, After, ReadInv, Running, OnlyTheDrive
  <2>5. DoneInv'
    BY <1>2 DEF ReadKind, TypeOK, DoneInv, OnlyTheDrive
  <2>6. QED
    BY <2>1, <2>2, <2>3, <2>4, <2>5
<1>3. CASE ReadValue
  <2>1. TypeOK'
    BY <1>3 DEF ReadValue, TypeOK, CommandInv, Running, Command, NoCommand, Kinds, Driven, Modes, ModeOf, Finish, OnlyTheDrive
  <2>2. CommandInv'
    BY <1>3 DEF ReadValue, TypeOK, CommandInv, Running, Command, NoCommand, Kinds, Driven, Finish, OnlyTheDrive
  <2>3. CacheInv'
    BY <1>3 DEF ReadValue, TypeOK, CacheInv, CommandInv, Running, Driven, ModeOf, Finish, OnlyTheDrive
  <2>4. SeqInv' /\ ReadInv'
    BY <1>3 DEF ReadValue, TypeOK, CommandInv, SeqInv, After, ReadInv, Running, Finish, OnlyTheDrive
  <2>5. DoneInv'
    BY <1>3 DEF ReadValue, TypeOK, DoneInv, Finish, OnlyTheDrive
  <2>6. QED
    BY <2>1, <2>2, <2>3, <2>4, <2>5
<1>4. CASE Ack
  <2>1. TypeOK'
    BY <1>4 DEF Ack, TypeOK, CommandInv, Running, Command, NoCommand, Kinds, Driven, Modes, ModeOf
  <2>2. CommandInv'
    BY <1>4 DEF Ack, TypeOK, CommandInv, Running, Command, NoCommand, Kinds, Driven
  <2>3. CacheInv'
    BY <1>4 DEF Ack, TypeOK, CacheInv, CommandInv, Running, Driven, ModeOf
  <2>4. SeqInv' /\ ReadInv'
    BY <1>4 DEF Ack, TypeOK, CommandInv, SeqInv, After, ReadInv, Running
  <2>5. DoneInv'
    BY <1>4 DEF Ack, TypeOK, DoneInv
  <2>6. QED
    BY <2>1, <2>2, <2>3, <2>4, <2>5
<1>5. QED
  BY <1>1, <1>2, <1>3, <1>4

(* The SDO calls of a command, and others who change the drive, keep it.   *)
LEMMA DriveKeepsIInv ==
  ASSUME IInv,
         \/ (\E ok \in BOOLEAN : ReadState(ok))
         \/ (\E ok \in BOOLEAN, effect \in BOOLEAN : Enable(ok, effect))
         \/ (\E ok \in BOOLEAN, effect \in BOOLEAN : SetMode(ok, effect))
         \/ SkipMode
         \/ (\E ok \in BOOLEAN, effect \in BOOLEAN : WriteTarget(ok, effect))
         \/ (\E ok \in BOOLEAN : StartMotion(ok))
         \/ (\E power \in BOOLEAN, mode \in Modes : OthersChange(power, mode))
  PROVE  IInv'
<1> USE SeqModAssumption, BoundAssumption
<1> USE DEF IInv, shm, worker, loop, history
<1>1. ASSUME NEW ok \in BOOLEAN, ReadState(ok)
      PROVE  IInv'
  <2>1. TypeOK'
    BY <1>1 DEF ReadState, TypeOK, CommandInv, Running, Command, NoCommand, Kinds, Driven, Modes, ModeOf, Continue, Goto, OnlyTheDrive
  <2>2. CommandInv'
    BY <1>1 DEF ReadState, TypeOK, CommandInv, Running, Command, NoCommand, Kinds, Driven, Continue, Goto, OnlyTheDrive
  <2>3. CacheInv'
    BY <1>1 DEF ReadState, TypeOK, CacheInv, CommandInv, Running, Driven, ModeOf, Continue, Goto, OnlyTheDrive
  <2>4. SeqInv' /\ ReadInv'
    BY <1>1 DEF ReadState, TypeOK, CommandInv, SeqInv, After, ReadInv, Running, Continue, Goto, OnlyTheDrive
  <2>5. DoneInv'
    BY <1>1 DEF ReadState, TypeOK, DoneInv, Continue, Goto, OnlyTheDrive
  <2>6. QED
    BY <2>1, <2>2, <2>3, <2>4, <2>5
<1>2. ASSUME NEW ok \in BOOLEAN, NEW effect \in BOOLEAN, Enable(ok, effect)
      PROVE  IInv'
  <2>1. TypeOK'
    <3>1. drive' \in Drive
      BY <1>2, DriveType DEF Enable, TypeOK, Drive
    <3>2. lastRun'.cmd \in Command \cup {NoCommand}
          /\ lastRun'.result \in {"none", "skipped", "failed", "done"}
      BY <1>2 DEF Enable, Continue, Fail, Finish, Goto, TypeOK, CommandInv,
         Running, Driven, Command, Kinds
    <3>3. QED
      BY <1>2, <3>1, <3>2
         DEF Enable, Continue, Goto, Fail, Finish, OnlyTheDrive, TypeOK, Drive
  <2>2. CommandInv'
    BY <1>2 DEF Enable, TypeOK, CommandInv, Running, Command, NoCommand, Kinds, Driven, Continue, Goto, Fail, Finish, OnlyTheDrive
  <2>3. CacheInv'
    BY <1>2 DEF Enable, TypeOK, CacheInv, CommandInv, Running, Driven, ModeOf, Continue, Goto, Fail, Finish, OnlyTheDrive
  <2>4. SeqInv' /\ ReadInv'
    BY <1>2 DEF Enable, TypeOK, CommandInv, SeqInv, After, ReadInv, Running, Continue, Goto, Fail, Finish, OnlyTheDrive
  <2>5. DoneInv'
    BY <1>2 DEF Enable, TypeOK, DoneInv, Continue, Goto, Fail, Finish, OnlyTheDrive
  <2>6. QED
    BY <2>1, <2>2, <2>3, <2>4, <2>5
<1>3. ASSUME NEW ok \in BOOLEAN, NEW effect \in BOOLEAN, SetMode(ok, effect)
      PROVE  IInv'
  <2>1. TypeOK'
    <3>1. kind \in Driven /\ ModeOf[kind] \in Modes
      BY <1>3 DEF SetMode, CommandInv, Running, Driven, ModeOf, Modes
    <3>2. drive' \in Drive
      <4>1. drive' = [drive EXCEPT !.mode = IF effect THEN ModeOf[kind] ELSE drive.mode]
        BY <1>3 DEF SetMode
      <4>2. drive \in Drive /\ drive.mode \in Modes
        BY DEF TypeOK, Drive
      <4>3. QED
        BY <3>1, <4>1, <4>2, DriveType DEF Drive
    <3>3. lastRun'.cmd \in Command \cup {NoCommand}
          /\ lastRun'.result \in {"none", "skipped", "failed", "done"}
      BY <1>3 DEF SetMode, Continue, Fail, Finish, Goto, TypeOK, CommandInv,
         Running, Driven, Command, Kinds
    <3>4. QED
      BY <1>3, <3>1, <3>2, <3>3
         DEF SetMode, Continue, Goto, Fail, Finish, OnlyTheDrive, TypeOK, Drive
  <2>2. CommandInv'
    BY <1>3 DEF SetMode, TypeOK, CommandInv, Running, Command, NoCommand, Kinds, Driven, Continue, Goto, Fail, Finish, OnlyTheDrive
  <2>3. CacheInv'
    BY <1>3 DEF SetMode, TypeOK, CacheInv, CommandInv, Running, Driven, ModeOf, Continue, Goto, Fail, Finish, OnlyTheDrive
  <2>4. SeqInv' /\ ReadInv'
    BY <1>3 DEF SetMode, TypeOK, CommandInv, SeqInv, After, ReadInv, Running, Continue, Goto, Fail, Finish, OnlyTheDrive
  <2>5. DoneInv'
    BY <1>3 DEF SetMode, TypeOK, DoneInv, Continue, Goto, Fail, Finish, OnlyTheDrive
  <2>6. QED
    BY <2>1, <2>2, <2>3, <2>4, <2>5
<1>4. CASE SkipMode
  <2>1. TypeOK'
    BY <1>4 DEF SkipMode, TypeOK, CommandInv, Running, Command, NoCommand, Kinds, Driven, Modes, ModeOf, Continue, Goto, OnlyTheDrive
  <2>2. CommandInv'
    BY <1>4 DEF SkipMode, TypeOK, CommandInv, Running, Command, NoCommand, Kinds, Driven, Continue, Goto, OnlyTheDrive
  <2>3. CacheInv'
    BY <1>4 DEF SkipMode, TypeOK, CacheInv, CommandInv, Running, Driven, ModeOf, Continue, Goto, OnlyTheDrive
  <2>4. SeqInv' /\ ReadInv'
    BY <1>4 DEF SkipMode, TypeOK, CommandInv, SeqInv, After, ReadInv, Running, Continue, Goto, OnlyTheDrive
  <2>5. DoneInv'
    BY <1>4 DEF SkipMode, TypeOK, DoneInv, Continue, Goto, OnlyTheDrive
  <2>6. QED
    BY <2>1, <2>2, <2>3, <2>4, <2>5
<1>5. ASSUME NEW ok \in BOOLEAN, NEW effect \in BOOLEAN, WriteTarget(ok, effect)
      PROVE  IInv'
  <2>1. TypeOK'
    BY <1>5 DEF WriteTarget, TypeOK, CommandInv, Running, Command, NoCommand, Kinds, Driven, Modes, ModeOf, Continue, Goto, Fail, Finish, OnlyTheDrive
  <2>2. CommandInv'
    BY <1>5 DEF WriteTarget, TypeOK, CommandInv, Running, Command, NoCommand, Kinds, Driven, Continue, Goto, Fail, Finish, OnlyTheDrive
  <2>3. CacheInv'
    BY <1>5 DEF WriteTarget, TypeOK, CacheInv, CommandInv, Running, Driven, ModeOf, Continue, Goto, Fail, Finish, OnlyTheDrive
  <2>4. SeqInv' /\ ReadInv'
    BY <1>5 DEF WriteTarget, TypeOK, CommandInv, SeqInv, After, ReadInv, Running, Continue, Goto, Fail, Finish, OnlyTheDrive
  <2>5. DoneInv'
    BY <1>5 DEF WriteTarget, TypeOK, DoneInv, Continue, Goto, Fail, Finish, OnlyTheDrive
  <2>6. QED
    BY <2>1, <2>2, <2>3, <2>4, <2>5
<1>6. ASSUME NEW ok \in BOOLEAN, StartMotion(ok)
      PROVE  IInv'
  <2>1. TypeOK'
    BY <1>6 DEF StartMotion, TypeOK, CommandInv, Running, Command, NoCommand, Kinds, Driven, Modes, ModeOf, Finish, OnlyTheDrive
  <2>2. CommandInv'
    BY <1>6 DEF StartMotion, TypeOK, CommandInv, Running, Command, NoCommand, Kinds, Driven, Finish, OnlyTheDrive
  <2>3. CacheInv'
    BY <1>6 DEF StartMotion, TypeOK, CacheInv, CommandInv, Running, Driven, ModeOf, Finish, OnlyTheDrive
  <2>4. SeqInv' /\ ReadInv'
    BY <1>6 DEF StartMotion, TypeOK, CommandInv, SeqInv, After, ReadInv, Running, Finish, OnlyTheDrive
  <2>5. DoneInv'
    BY <1>6 DEF StartMotion, TypeOK, DoneInv, Finish, OnlyTheDrive
  <2>6. QED
    BY <2>1, <2>2, <2>3, <2>4, <2>5
<1>7. ASSUME NEW power \in BOOLEAN, NEW mode \in Modes, OthersChange(power, mode)
      PROVE  IInv'
  <2>1. TypeOK'
    <3>1. drive' \in Drive
      BY <1>7, DriveType DEF OthersChange, TypeOK, Drive
    <3>2. others < MaxOthers /\ others' = others + 1
      BY <1>7, Zenon DEF OthersChange
    <3>3. others' \in 0 .. MaxOthers
      BY <3>2 DEF TypeOK
    <3>4. stale' \in BOOLEAN
      BY <1>7, Zenon DEF OthersChange
    <3>5. UNCHANGED <<shm, worker, loop, cache, lastForwarded, unseen, lastRun>>
      BY <1>7 DEF OthersChange
    <3>6. QED
      BY <3>1, <3>3, <3>4, <3>5 DEF TypeOK, Drive
  <2>2. CommandInv'
    BY <1>7 DEF OthersChange, TypeOK, CommandInv, Running, Command, NoCommand, Kinds, Driven
  <2>3. CacheInv'
    BY <1>7 DEF OthersChange, TypeOK, CacheInv, CommandInv, Running, Driven, ModeOf
  <2>4. SeqInv' /\ ReadInv'
    BY <1>7 DEF OthersChange, TypeOK, CommandInv, SeqInv, After, ReadInv, Running
  <2>5. DoneInv'
    BY <1>7 DEF OthersChange, TypeOK, DoneInv
  <2>6. QED
    BY <2>1, <2>2, <2>3, <2>4, <2>5
<1>8. QED
  BY <1>1, <1>2, <1>3, <1>4, <1>5, <1>6, <1>7

(* Every step keeps the inductive invariant.                               *)
LEMMA NextKeepsIInv == IInv /\ [Next]_vars => IInv'
<1> SUFFICES ASSUME IInv, [Next]_vars PROVE IInv'
  OBVIOUS
<1>1. CASE Next
  BY <1>1, WorkerKeepsIInv, PollKeepsIInv, DriveKeepsIInv DEF Next
<1>2. CASE UNCHANGED vars
  BY <1>2 DEF vars, shm, worker, loop, history, IInv, TypeOK, CommandInv,
     CacheInv, SeqInv, ReadInv, DoneInv, Running
<1>3. QED
  BY <1>1, <1>2

-----------------------------------------------------------------------------
(* The slot, the poll, the cache and the drive keep to the inductive       *)
(* invariant.                                                              *)
THEOREM SdoCommandsInvariant == Spec => []IInv
  BY InitIInv, NextKeepsIInv, PTL DEF Spec

(* Every variable keeps to its type: no empty command is ever run.         *)
THEOREM SdoCommandsTypeOK == Spec => []TypeOK
<1>1. IInv => TypeOK
  BY DEF IInv
<1>2. QED
  BY <1>1, SdoCommandsInvariant, PTL

(* The last command forwarded is the last one run, and its target is the   *)
(* one in the drive.                                                       *)
THEOREM LastForwardedRunsHolds == Spec => []LastForwardedRuns
<1>1. IInv => LastForwardedRuns
  <2>1. SUFFICES ASSUME IInv, sdoSeq = sdoAck, pc = "idle", rtpc = "idle",
                        unseen < SeqMod
                 PROVE  /\ lastRun.cmd = lastForwarded
                        /\ lastRun.result = "done" => drive.target = lastForwarded
    BY DEF LastForwardedRuns
  <2>2. unseen = 0
    BY <2>1, SeqModAssumption DEF IInv, TypeOK, SeqInv, After
  <2>3. /\ lastRun.cmd.kind = lastForwarded.kind
        /\ lastRun.cmd.value = lastForwarded.value
    BY <2>1, <2>2 DEF IInv, CommandInv, ReadInv
  <2>4. /\ lastRun.cmd \in Command \cup {NoCommand}
        /\ lastForwarded \in Command \cup {NoCommand}
    BY <2>1 DEF IInv, TypeOK
  <2>5. lastRun.cmd = lastForwarded
    BY <2>3, <2>4 DEF Command, NoCommand
  <2>6. QED
    BY <2>1, <2>5 DEF IInv, DoneInv
<1>2. QED
  BY <1>1, SdoCommandsInvariant, PTL

(* A current or position target goes to a drive in its mode, unless the    *)
(* mode was changed behind the cache.                                      *)
THEOREM TargetInModeHolds == Spec => []TargetInMode
<1>1. ASSUME IInv, pc = "target", kind # "vel", ~stale
      PROVE  drive.mode = ModeOf[kind]
  <2>1. cache = ModeOf[kind] /\ kind \in Driven
    BY <1>1 DEF IInv, CacheInv, CommandInv, Running
  <2>2. cache # "none"
    BY <1>1, <2>1 DEF Driven, ModeOf
  <2>3. QED
    BY <1>1, <2>1, <2>2 DEF IInv, CacheInv
<1>2. IInv => TargetInMode
  BY <1>1 DEF TargetInMode
<1>3. QED
  BY <1>2, SdoCommandsInvariant, PTL
=============================================================================
