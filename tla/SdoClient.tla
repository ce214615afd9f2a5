------------------------------ MODULE SdoClient ------------------------------
(***************************************************************************)
(* The SDO client of motor_hal: threads that read and write objects of the *)
(* motors over the CAN bus (the main loop, the telemetry thread), the      *)
(* receiving thread that queues what the motors answer, and the ring of    *)
(* QueueSize frames between them, under one mutex and one condition        *)
(* variable.  A critical section is one step; the wait on the condition    *)
(* variable releases the mutex, and a thread that has run into its         *)
(* deadline must take the mutex again before it can give up.               *)
(*                                                                         *)
(* An object is what _sdo_wait_response compares: motor and index, not the *)
(* sub-index.  A request is tagged with a number that the frames of the    *)
(* code do not carry; only properties look at it.                          *)
(*                                                                         *)
(* External: the motors and the bus.  A request or its answer may be lost, *)
(* and an answer may come at any time, after the deadline too.             *)
(*                                                                         *)
(* Left out: values and abort codes; a send that fails at once.            *)
(***************************************************************************)
EXTENDS Integers, Sequences, FiniteSets

CONSTANTS
  Clients,       \* the threads that make requests
  Objects,       \* motor and index
  NoFrame,       \* a slot of the ring that was never written
  QueueSize,     \* SDO_QUEUE_SIZE, 32 in the code
  MaxRequests    \* bound on requests

ASSUME QueueAssumption == QueueSize \in Nat \ {0}
ASSUME BoundAssumption == MaxRequests \in Nat

VARIABLES
  frames, head, tail, count,   \* sdo_queue_t
  pc, want, tag,               \* of each client: control point, its request
  bus,                         \* requests sent and not answered yet
  outcome,                     \* of each client: what its last request returned
  clean,                       \* of each client: see OwnAnswer
  requests                     \* number of requests made

queue == <<frames, head, tail, count>>
client == <<pc, want, tag, outcome, clean>>
vars == <<queue, client, bus, requests>>

Slot == 0 .. QueueSize - 1
Frame == [obj : Objects, tag : 1 .. MaxRequests]

ASSUME FrameAssumption == NoFrame \notin Frame

Init ==
  /\ frames = [i \in Slot |-> NoFrame] /\ head = 0 /\ tail = 0 /\ count = 0
  /\ pc = [c \in Clients |-> "idle"] /\ tag = [c \in Clients |-> 0]
  /\ want \in [Clients -> Objects]
  /\ bus = {} /\ requests = 0
  /\ outcome = [c \in Clients |-> "none"]
  /\ clean = [c \in Clients |-> TRUE]

-----------------------------------------------------------------------------
(* The ring.                                                               *)

(* The i-th frame of the queue, counting from 0.                           *)
At(i) == (tail + i) % QueueSize
Queued == {frames[At(i)] : i \in 0 .. count - 1}
Matches(o) == {i \in 0 .. count - 1 : frames[At(i)].obj = o}
Oldest(S) == CHOOSE i \in S : \A j \in S : i <= j

(* sdo_push_response: a full queue drops its oldest frame.                 *)
Enqueue(f) ==
  /\ frames' = [frames EXCEPT ![head] = f]
  /\ head' = (head + 1) % QueueSize
  /\ IF count = QueueSize
     THEN tail' = (tail + 1) % QueueSize /\ UNCHANGED count
     ELSE count' = count + 1 /\ UNCHANGED tail

(* Mutant: the frames in front of the match go with it.                    *)
RemoveThrough(n) ==
  /\ tail' = (tail + n + 1) % QueueSize
  /\ count' = count - (n + 1)
  /\ UNCHANGED <<frames, head>>

(* Mutant: the last frame goes, whichever was taken.                       *)
RemoveLast(n) ==
  /\ head' = (head + QueueSize - 1) % QueueSize
  /\ count' = count - 1
  /\ UNCHANGED <<frames, tail>>

(* _sdo_wait_response: the frames behind the n-th move up.                 *)
Remove(n) ==
  /\ frames' = [s \in Slot |->
       IF \E j \in n .. count - 2 : s = At(j)
       THEN frames[(s + 1) % QueueSize]
       ELSE frames[s]]
  /\ head' = (head + QueueSize - 1) % QueueSize
  /\ count' = count - 1
  /\ UNCHANGED tail

-----------------------------------------------------------------------------
(* The clients.                                                            *)

Open(c) == pc[c] # "idle"

(* sdo_write or sdo_read: the request goes out once, whatever retry_count. *)
Send(c, o) ==
  /\ ~Open(c) /\ requests < MaxRequests
  /\ requests' = requests + 1
  /\ bus' = bus \cup {[obj |-> o, tag |-> requests']}
  /\ pc' = [pc EXCEPT ![c] = "scan"]
  /\ want' = [want EXCEPT ![c] = o]
  /\ tag' = [tag EXCEPT ![c] = requests']
  /\ outcome' = [outcome EXCEPT ![c] = "none"]
  /\ clean' = [d \in Clients |->
       IF d = c
       THEN /\ \A f \in Queued \cup bus : f.obj # o
            /\ \A e \in Clients : Open(e) => want[e] # o
       ELSE clean[d] /\ ~(Open(d) /\ want[d] = o)]
  /\ UNCHANGED queue

(* Whose answer the n-th frame of the queue is.                            *)
Verdict(c, n) == IF frames[At(n)].tag = tag[c] THEN "own" ELSE "other"

(* Mutant: the first frame of the queue is taken for the answer.           *)
ScanFirst(c) ==
  /\ pc[c] = "scan"
  /\ IF count = 0
     THEN /\ pc' = [pc EXCEPT ![c] = "asleep"]
          /\ UNCHANGED <<queue, outcome>>
     ELSE /\ Remove(0)
          /\ outcome' = [outcome EXCEPT ![c] = Verdict(c, 0)]
          /\ pc' = [pc EXCEPT ![c] = "idle"]
  /\ UNCHANGED <<want, tag, bus, clean, requests>>

(* The mutex is held: take the oldest match, or wait for a broadcast.      *)
Scan(c) ==
  /\ pc[c] = "scan"
  /\ LET found == Matches(want[c])
     IN  IF found = {}
         THEN /\ pc' = [pc EXCEPT ![c] = "asleep"]
              /\ UNCHANGED <<queue, outcome>>
         ELSE /\ Remove(Oldest(found))
              /\ outcome' = [outcome EXCEPT ![c] = Verdict(c, Oldest(found))]
              /\ pc' = [pc EXCEPT ![c] = "idle"]
  /\ UNCHANGED <<want, tag, bus, clean, requests>>

(* Mutant: the wait has no deadline.                                       *)
ExpireNever(c) == FALSE /\ pc[c] = "asleep" /\ UNCHANGED vars

(* The deadline passes while the client waits; ...                         *)
Expire(c) ==
  /\ pc[c] = "asleep"
  /\ pc' = [pc EXCEPT ![c] = "expired"]
  /\ UNCHANGED <<queue, want, tag, bus, outcome, clean, requests>>

(* ... it returns -ETIMEDOUT, with no look at what came in meanwhile.      *)
GiveUp(c) ==
  /\ pc[c] = "expired"
  /\ outcome' = [outcome EXCEPT ![c] = "timeout"]
  /\ pc' = [pc EXCEPT ![c] = "idle"]
  /\ UNCHANGED <<queue, want, tag, bus, clean, requests>>

-----------------------------------------------------------------------------
(* The receiving thread and the bus.                                       *)

(* Mutant: a signal wakes one of the waiting clients, not all.             *)
ReceiveSignals(f) ==
  /\ f \in bus
  /\ bus' = bus \ {f}
  /\ Enqueue(f)
  /\ LET asleep == {c \in Clients : pc[c] = "asleep"}
     IN  IF asleep = {} THEN UNCHANGED pc
         ELSE \E c \in asleep : pc' = [pc EXCEPT ![c] = "scan"]
  /\ UNCHANGED <<want, tag, outcome, clean, requests>>

(* A motor answers: the frame is queued and every waiting client woken.    *)
Receive(f) ==
  /\ f \in bus
  /\ bus' = bus \ {f}
  /\ Enqueue(f)
  /\ pc' = [c \in Clients |-> IF pc[c] = "asleep" THEN "scan" ELSE pc[c]]
  /\ UNCHANGED <<want, tag, outcome, clean, requests>>

Lose(f) ==
  /\ f \in bus
  /\ bus' = bus \ {f}
  /\ UNCHANGED <<queue, client, requests>>

Next ==
  \/ \E c \in Clients :
       \/ \E o \in Objects : Send(c, o)
       \/ Scan(c) \/ Expire(c) \/ GiveUp(c)
  \/ \E f \in bus : Receive(f) \/ Lose(f)

Spec == Init /\ [][Next]_vars

(* Time passes and every client gets the mutex; the motors owe no answer.  *)
FairSpec ==
  /\ Spec
  /\ \A c \in Clients : WF_vars(Scan(c) \/ Expire(c) \/ GiveUp(c))

-----------------------------------------------------------------------------
TypeOK ==
  /\ frames \in [Slot -> Frame \cup {NoFrame}]
  /\ head \in Slot /\ tail \in Slot /\ count \in 0 .. QueueSize
  /\ head = (tail + count) % QueueSize
  /\ \A i \in 0 .. count - 1 : frames[At(i)] # NoFrame
  /\ pc \in [Clients -> {"idle", "scan", "asleep", "expired"}]
  /\ want \in [Clients -> Objects]
  /\ tag \in [Clients -> 0 .. MaxRequests]
  /\ bus \subseteq Frame /\ requests \in 0 .. MaxRequests
  /\ clean \in [Clients -> BOOLEAN]
  /\ outcome \in [Clients -> {"none", "timeout", "own", "other"}]

(* An answer is there once: not twice in the queue, not queued and on the  *)
(* bus, not queued when its request has taken it (the compaction of        *)
(* _sdo_wait_response and the overflow of sdo_push_response bring nothing  *)
(* back).                                                                  *)
NoDuplicate ==
  /\ \A i, j \in 0 .. count - 1 : frames[At(i)] = frames[At(j)] => i = j
  /\ Queued \cap bus = {}
  /\ \A c \in Clients, f \in Queued : outcome[c] = "own" => f.tag # tag[c]

(* The queue is well formed and holds nothing twice.                       *)
Inv == TypeOK /\ NoDuplicate

(* A client does not sleep while an answer for it waits in the queue.      *)
NoLostWakeup ==
  \A c \in Clients : pc[c] = "asleep" => Matches(want[c]) = {}

(* A request that succeeds has its own answer, not that of an earlier      *)
(* request or of another thread, if it was clean: when it was sent no      *)
(* answer to its object was queued or still to come, and no other thread   *)
(* asked for its object before it was done.                                *)
OwnAnswer == \A c \in Clients : clean[c] => outcome[c] # "other"

(* The ring implements the ordered box of responses.                       *)
Box == INSTANCE ResponseBox WITH
  Responses <- Frame, Capacity <- QueueSize,
  box <- [i \in 1 .. count |-> frames[At(i - 1)]]

ImplementsBox == Box!Spec

(* A request returns, whatever the motors do.                              *)
RequestReturns == \A c \in Clients : Open(c) ~> ~Open(c)
=============================================================================
