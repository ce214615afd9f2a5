---------------------------- MODULE SdoClientProofs ----------------------------
(***************************************************************************)
(* The SDO client for every number of clients, objects and requests and    *)
(* every size of the ring: an answer is in the system once, no client      *)
(* sleeps over its answer, a request nothing interfered with gets its own  *)
(* answer, and the ring implements the ordered box of responses.           *)
(***************************************************************************)
EXTENDS SdoClient, SequenceTheorems, WellFoundedInduction,
        TLAPS

(* The i-th frame that waits, counting from 0.                             *)
Item(i) == frames[At(i)]

QueueInv ==
  /\ frames \in [Slot -> Frame \cup {NoFrame}]
  /\ head \in Slot /\ tail \in Slot /\ count \in 0 .. QueueSize
  /\ head = (tail + count) % QueueSize
  /\ \A i \in 0 .. count - 1 : Item(i) \in Frame

ClientTyped ==
  /\ pc \in [Clients -> {"idle", "scan", "asleep", "expired"}]
  /\ want \in [Clients -> Objects]
  /\ tag \in [Clients -> 0 .. MaxRequests]
  /\ bus \subseteq Frame /\ requests \in 0 .. MaxRequests
  /\ clean \in [Clients -> BOOLEAN]
  /\ outcome \in [Clients -> {"none", "timeout", "own", "other"}]

(* No tag was given out that is not counted, ...                           *)
TagInv ==
  /\ \A c \in Clients : tag[c] <= requests
  /\ \A f \in bus : f.tag <= requests
  /\ \A i \in 0 .. count - 1 : Item(i).tag <= requests

(* ... every tag is in the system once, and not at all when its request    *)
(* has had the answer.                                                     *)
OnceInv ==
  /\ \A i, j \in 0 .. count - 1 : Item(i).tag = Item(j).tag => i = j
  /\ \A f, g \in bus : f.tag = g.tag => f = g
  /\ \A i \in 0 .. count - 1, f \in bus : Item(i).tag # f.tag
  /\ \A c \in Clients : outcome[c] = "own" =>
       /\ \A i \in 0 .. count - 1 : Item(i).tag # tag[c]
       /\ \A f \in bus : f.tag # tag[c]

SleepInv ==
  \A c \in Clients : pc[c] = "asleep" =>
    \A i \in 0 .. count - 1 : Item(i).obj # want[c]

(* While a clean request waits, every answer to its object is its own.     *)
CleanInv ==
  \A c \in Clients : clean[c] /\ Open(c) =>
    /\ \A i \in 0 .. count - 1 : Item(i).obj = want[c] => Item(i).tag = tag[c]
    /\ \A f \in bus : f.obj = want[c] => f.tag = tag[c]

IInv ==
  /\ QueueInv /\ ClientTyped /\ TagInv /\ OnceInv /\ SleepInv /\ CleanInv
  /\ OwnAnswer

-----------------------------------------------------------------------------
(* The ring.                                                               *)

(* A set of indices that is not empty has a least one.                     *)
LEMMA HasLeast ==
  ASSUME NEW S, S \subseteq Nat, S # {}
  PROVE  \E i \in S : \A j \in S : i <= j
<1> DEFINE R == OpToRel(<, Nat)
<1>1. IsWellFoundedOn(R, Nat)
  BY NatLessThanWellFounded
<1>2. \A i, j \in Nat : j < i => <<j, i>> \in R
  BY DEF OpToRel
<1> HIDE DEF R
<1>3. PICK i \in S : \A j \in S : ~(<<j, i>> \in R)
  BY <1>1, WFMin
<1>4. ASSUME NEW j \in S PROVE i <= j
  <2>1. i \in Nat /\ j \in Nat
    OBVIOUS
  <2>2. ~(j < i)
    BY <1>2, <1>3, <2>1
  <2>3. QED
    BY <2>1, <2>2
<1>5. QED
  BY <1>4

(* The oldest frame of a set of frames is in it and none is before it.     *)
LEMMA OldestIsLeast ==
  ASSUME NEW S, S \subseteq Nat, S # {}
  PROVE  Oldest(S) \in S /\ \A j \in S : Oldest(S) <= j
  BY HasLeast DEF Oldest

(* Positions in the ring, without the modulus.                             *)
LEMMA Around ==
  ASSUME NEW a \in Slot, NEW i \in 0 .. QueueSize
  PROVE  /\ (a + i) % QueueSize
              = IF a + i < QueueSize THEN a + i ELSE a + i - QueueSize
         /\ (a + i) % QueueSize \in Slot
<1> USE QueueAssumption DEF Slot
<1>1. CASE a + i < QueueSize
  BY <1>1
<1>2. CASE ~(a + i < QueueSize)
  BY <1>2
<1>3. QED
  BY <1>1, <1>2

(* sdo_push_response puts the frame last; a full queue loses its first.    *)
LEMMA EnqueueFacts ==
  ASSUME QueueInv, NEW f \in Frame, Enqueue(f)
  PROVE  /\ QueueInv'
         /\ count' = IF count = QueueSize THEN count ELSE count + 1
         /\ \A i \in 0 .. count' - 1 : Item(i)' =
              IF i = count' - 1 THEN f
              ELSE IF count = QueueSize THEN Item(i + 1) ELSE Item(i)
<1> USE QueueAssumption DEF QueueInv
<1>1. /\ frames' = [frames EXCEPT ![head] = f]
      /\ head' = (head + 1) % QueueSize
      /\ count = QueueSize => /\ tail' = (tail + 1) % QueueSize
                              /\ count' = count
      /\ count # QueueSize => count' = count + 1 /\ tail' = tail
  BY DEF Enqueue
<1>2. /\ frames' \in [Slot -> Frame \cup {NoFrame}]
      /\ \A s \in Slot : frames'[s] = IF s = head THEN f ELSE frames[s]
  BY <1>1
<1>3. /\ head' = IF head + 1 < QueueSize THEN head + 1 ELSE 0
      /\ head' \in Slot
  <2>1. 1 \in 0 .. QueueSize
    OBVIOUS
  <2>2. /\ (head + 1) % QueueSize = IF head + 1 < QueueSize THEN head + 1
                                   ELSE head + 1 - QueueSize
        /\ (head + 1) % QueueSize \in Slot
    BY <2>1, Around
  <2>3. QED
    BY <1>1, <2>2 DEF Slot
<1>4. \A i \in 0 .. QueueSize :
        /\ At(i) = IF tail + i < QueueSize THEN tail + i ELSE tail + i - QueueSize
        /\ At(i) \in Slot
  BY Around DEF At
<1>5. head = At(count)
  BY DEF At
<1>6. CASE count = QueueSize
  <2>1. /\ tail' = IF tail + 1 < QueueSize THEN tail + 1 ELSE 0
        /\ tail' \in Slot /\ count' = count
    <3>1. 1 \in 0 .. QueueSize
      OBVIOUS
    <3>2. /\ (tail + 1) % QueueSize = IF tail + 1 < QueueSize THEN tail + 1
                                     ELSE tail + 1 - QueueSize
          /\ (tail + 1) % QueueSize \in Slot
      BY <3>1, Around
    <3>3. QED
      BY <1>1, <1>6, <3>2 DEF Slot
  <2>2. head = tail
    BY <1>4, <1>5, <1>6 DEF Slot
  <2>3. \A i \in 0 .. QueueSize - 1 : At(i)' = At(i + 1)
    <3> TAKE i \in 0 .. QueueSize - 1
    <3>1. At(i)' = IF tail' + i < QueueSize THEN tail' + i
                   ELSE tail' + i - QueueSize
      <4>1. i \in 0 .. QueueSize
        OBVIOUS
      <4>2. (tail' + i) % QueueSize
              = IF tail' + i < QueueSize THEN tail' + i ELSE tail' + i - QueueSize
        BY <2>1, <4>1, Around
      <4>3. QED
        BY <4>2 DEF At
    <3>2. At(i + 1) = IF tail + (i + 1) < QueueSize THEN tail + (i + 1)
                      ELSE tail + (i + 1) - QueueSize
      BY <1>4
    <3>3. QED
      BY <2>1, <3>1, <3>2 DEF Slot
  <2>4. \A i \in 0 .. QueueSize - 1 :
          /\ At(i + 1) \in Slot
          /\ At(i + 1) = head <=> i = QueueSize - 1
    <3> TAKE i \in 0 .. QueueSize - 1
    <3>1. /\ At(i + 1) = IF tail + (i + 1) < QueueSize THEN tail + (i + 1)
                         ELSE tail + (i + 1) - QueueSize
          /\ At(i + 1) \in Slot
      BY <1>4
    <3>2. QED
      BY <2>2, <3>1 DEF Slot
  <2>5. \A i \in 0 .. count' - 1 : Item(i)' =
          IF i = count' - 1 THEN f ELSE Item(i + 1)
    BY <1>2, <1>6, <2>1, <2>3, <2>4 DEF Item
  <2>6. head' = (tail' + count') % QueueSize
    <3>1. (tail' + QueueSize) % QueueSize = tail'
      <4>1. QueueSize \in 0 .. QueueSize
        OBVIOUS
      <4>2. (tail' + QueueSize) % QueueSize
              = IF tail' + QueueSize < QueueSize THEN tail' + QueueSize
                ELSE tail' + QueueSize - QueueSize
        BY <2>1, <4>1, Around
      <4>3. QED
        BY <2>1, <4>2 DEF Slot
    <3>2. head' = tail'
      BY <1>3, <2>1, <2>2
    <3>3. QED
      BY <1>6, <2>1, <3>1, <3>2
  <2>7. \A i \in 0 .. count' - 1 : Item(i)' \in Frame
    BY <1>6, <2>1, <2>5
  <2>8. QED
    BY <1>2, <1>3, <1>6, <2>1, <2>5, <2>6, <2>7
<1>7. CASE count # QueueSize
  <2>1. tail' = tail /\ count' = count + 1 /\ count < QueueSize
    BY <1>1, <1>7
  <2>2. \A i \in 0 .. count : At(i)' = At(i)
    BY <2>1 DEF At
  <2>3. \A i \in 0 .. count : At(i) = head <=> i = count
    <3> TAKE i \in 0 .. count
    <3>1. At(i) = IF tail + i < QueueSize THEN tail + i
                  ELSE tail + i - QueueSize
      BY <1>4
    <3>2. head = IF tail + count < QueueSize THEN tail + count
                 ELSE tail + count - QueueSize
      BY <1>4, <1>5
    <3>3. QED
      BY <2>1, <3>1, <3>2 DEF Slot
  <2>4. \A i \in 0 .. count' - 1 : Item(i)' =
          IF i = count' - 1 THEN f ELSE Item(i)
    BY <1>2, <1>4, <2>1, <2>2, <2>3 DEF Item
  <2>5. head' = (tail' + count') % QueueSize
    <3>1. (tail + (count + 1)) % QueueSize
            = IF tail + (count + 1) < QueueSize THEN tail + (count + 1)
              ELSE tail + (count + 1) - QueueSize
      <4>1. count + 1 \in 0 .. QueueSize
        BY <2>1
      <4>2. QED
        BY <4>1, Around
    <3>2. head = IF tail + count < QueueSize THEN tail + count
                 ELSE tail + count - QueueSize
      BY <1>4, <1>5
    <3>3. QED
      BY <1>3, <2>1, <3>1, <3>2 DEF Slot
  <2>6. \A i \in 0 .. count' - 1 : Item(i)' \in Frame
    BY <2>1, <2>4
  <2>7. QED
    BY <1>2, <1>3, <1>7, <2>1, <2>4, <2>5, <2>6
<1>8. QED
  BY <1>6, <1>7

(* _sdo_wait_response takes the n-th frame out and keeps the order of the  *)
(* others.                                                                 *)
LEMMA RemoveFacts ==
  ASSUME QueueInv, NEW n \in 0 .. count - 1, Remove(n)
  PROVE  /\ QueueInv'
         /\ count' = count - 1
         /\ \A i \in 0 .. count' - 1 : Item(i)' =
              IF i < n THEN Item(i) ELSE Item(i + 1)
<1> USE QueueAssumption DEF QueueInv
<1>1. /\ frames' = [s \in Slot |->
           IF \E j \in n .. count - 2 : s = At(j)
           THEN frames[(s + 1) % QueueSize] ELSE frames[s]]
      /\ head' = (head + QueueSize - 1) % QueueSize
      /\ count' = count - 1 /\ tail' = tail
  BY DEF Remove
<1>2. \A i \in 0 .. QueueSize :
        /\ At(i) = IF tail + i < QueueSize THEN tail + i ELSE tail + i - QueueSize
        /\ At(i) \in Slot
  BY Around DEF At
<1>3. \A i \in 0 .. QueueSize - 1 : (At(i) + 1) % QueueSize = At(i + 1)
  <2> TAKE i \in 0 .. QueueSize - 1
  <2>1. At(i) \in Slot
    BY <1>2
  <2>2. (At(i) + 1) % QueueSize
          = IF At(i) + 1 < QueueSize THEN At(i) + 1 ELSE At(i) + 1 - QueueSize
    <3>1. 1 \in 0 .. QueueSize
      OBVIOUS
    <3>2. QED
      BY <2>1, <3>1, Around
  <2>3. At(i + 1) = IF tail + (i + 1) < QueueSize THEN tail + (i + 1)
                    ELSE tail + (i + 1) - QueueSize
    BY <1>2
  <2>4. At(i) = IF tail + i < QueueSize THEN tail + i ELSE tail + i - QueueSize
    BY <1>2
  <2>5. QED
    BY <2>1, <2>2, <2>3, <2>4 DEF Slot
<1>4. \A i, j \in 0 .. count - 1 : At(i) = At(j) => i = j
  <2> TAKE i, j \in 0 .. count - 1
  <2>1. /\ At(i) = IF tail + i < QueueSize THEN tail + i
                   ELSE tail + i - QueueSize
        /\ At(j) = IF tail + j < QueueSize THEN tail + j
                   ELSE tail + j - QueueSize
    BY <1>2
  <2>2. QED
    BY <2>1 DEF Slot
<1>5. frames' \in [Slot -> Frame \cup {NoFrame}]
  <2>1. ASSUME NEW s \in Slot
        PROVE  (s + 1) % QueueSize \in Slot
    BY Around
  <2>2. QED
    BY <1>1, <2>1
<1>6. \A i \in 0 .. count - 2 : At(i)' = At(i)
  BY <1>1 DEF At
<1>7. \A i \in 0 .. count' - 1 : Item(i)' =
        IF i < n THEN Item(i) ELSE Item(i + 1)
  <2> TAKE i \in 0 .. count' - 1
  <2>1. i \in 0 .. count - 2 /\ At(i) \in Slot
    BY <1>1, <1>2
  <2>2. Item(i)' = frames'[At(i)]
    BY <1>6, <2>1 DEF Item
  <2>3. CASE i < n
    <3>1. ~ \E j \in n .. count - 2 : At(i) = At(j)
      BY <1>4, <2>1, <2>3
    <3>2. QED
      BY <1>1, <2>1, <2>2, <2>3, <3>1 DEF Item
  <2>4. CASE ~(i < n)
    <3>1. \E j \in n .. count - 2 : At(i) = At(j)
      BY <2>1, <2>4
    <3>2. frames'[At(i)] = frames[(At(i) + 1) % QueueSize]
      BY <1>1, <2>1, <3>1
    <3>3. QED
      BY <1>3, <2>1, <2>2, <2>4, <3>2 DEF Item
  <2>5. QED
    BY <2>3, <2>4
<1>8. head' \in Slot /\ head' = (tail' + count') % QueueSize
  <2>1. head' = IF head = 0 THEN QueueSize - 1 ELSE head - 1
    <3>1. QueueSize - 1 \in 0 .. QueueSize
          /\ head + QueueSize - 1 = head + (QueueSize - 1)
      BY DEF Slot
    <3>2. (head + (QueueSize - 1)) % QueueSize
            = IF head + (QueueSize - 1) < QueueSize THEN head + (QueueSize - 1)
              ELSE head + (QueueSize - 1) - QueueSize
      BY <3>1, Around
    <3>3. QED
      BY <1>1, <3>1, <3>2 DEF Slot
  <2>2. At(count - 1) = (tail' + count') % QueueSize
    BY <1>1 DEF At
  <2>3. head = At(count)
    BY DEF At
  <2>4. /\ At(count) = IF tail + count < QueueSize THEN tail + count
                       ELSE tail + count - QueueSize
        /\ At(count - 1) = IF tail + (count - 1) < QueueSize
                           THEN tail + (count - 1)
                           ELSE tail + (count - 1) - QueueSize
        /\ At(count - 1) \in Slot
    BY <1>2
  <2>5. head' = At(count - 1)
    BY <2>1, <2>3, <2>4 DEF Slot
  <2>6. QED
    BY <2>2, <2>4, <2>5
<1>9. \A i \in 0 .. count' - 1 : Item(i)' \in Frame
  BY <1>1, <1>7
<1>10. QED
  BY <1>1, <1>5, <1>7, <1>8, <1>9

-----------------------------------------------------------------------------
(* sdo_write and sdo_read send a request with a tag of its own.            *)
LEMMA SendKeepsIInv ==
  ASSUME IInv, NEW c \in Clients, NEW o \in Objects, Send(c, o)
  PROVE  IInv'
<1> USE DEF IInv
<1>1. /\ requests' = requests + 1 /\ requests' \in 1 .. MaxRequests
      /\ bus' = bus \cup {[obj |-> o, tag |-> requests']}
      /\ ~Open(c)
      /\ UNCHANGED queue
  BY BoundAssumption DEF Send, ClientTyped
<1>2. /\ pc' = [pc EXCEPT ![c] = "scan"]
      /\ want' = [want EXCEPT ![c] = o]
      /\ tag' = [tag EXCEPT ![c] = requests']
      /\ outcome' = [outcome EXCEPT ![c] = "none"]
  BY DEF Send
<1>3. /\ clean' \in [Clients -> BOOLEAN]
      /\ clean'[c] => \A f \in Queued \cup bus : f.obj # o
      /\ \A d \in Clients : d # c =>
           (clean'[d] => clean[d] /\ ~(Open(d) /\ want[d] = o))
  <2>1. clean' = [d \in Clients |->
           IF d = c
           THEN /\ \A f \in Queued \cup bus : f.obj # o
                /\ \A e \in Clients : Open(e) => want[e] # o
           ELSE clean[d] /\ ~(Open(d) /\ want[d] = o)]
    BY DEF Send
  <2>2. clean'[c] <=> /\ \A f \in Queued \cup bus : f.obj # o
                      /\ \A e \in Clients : Open(e) => want[e] # o
    BY <2>1
  <2>3. \A d \in Clients : d # c =>
          (clean'[d] <=> clean[d] /\ ~(Open(d) /\ want[d] = o))
    BY <2>1
  <2>4. clean' \in [Clients -> BOOLEAN]
    <3> DEFINE A == \A f \in Queued \cup bus : f.obj # o
               B == \A e \in Clients : Open(e) => want[e] # o
               C(d) == clean[d] /\ ~(Open(d) /\ want[d] = o)
    <3>1. (A /\ B) \in BOOLEAN /\ \A d \in Clients : C(d) \in BOOLEAN
      OBVIOUS
    <3>2. clean' = [d \in Clients |-> IF d = c THEN A /\ B ELSE C(d)]
      BY <2>1
    <3> HIDE DEF A, B, C
    <3>3. QED
      BY <3>1, <3>2
  <2>5. QED
    BY <2>2, <2>3, <2>4
<1>4. [obj |-> o, tag |-> requests'] \in Frame
  BY <1>1 DEF Frame
<1>5. \A i : Item(i)' = Item(i)
  BY <1>1 DEF queue, Item, At
<1>6. /\ \A d \in Clients : d # c =>
           /\ pc'[d] = pc[d] /\ want'[d] = want[d] /\ tag'[d] = tag[d]
           /\ outcome'[d] = outcome[d]
      /\ pc'[c] = "scan" /\ want'[c] = o /\ tag'[c] = requests'
      /\ outcome'[c] = "none"
  BY <1>2 DEF ClientTyped
<1>7. QueueInv'
  BY <1>1, <1>5 DEF QueueInv, queue
<1>8. ClientTyped'
  <2> DEFINE r == [obj |-> o, tag |-> requests']
  <2>1. bus' \subseteq Frame
    <3>1. r \in Frame /\ bus' = bus \cup {r}
      BY <1>1, <1>4
    <3> HIDE DEF r
    <3>2. QED
      BY <3>1 DEF ClientTyped
  <2> HIDE DEF r
  <2>2. requests' \in 0 .. MaxRequests
    BY <1>1, BoundAssumption
  <2>3. tag' \in [Clients -> 0 .. MaxRequests]
    BY <1>2, <2>2 DEF ClientTyped
  <2>4. want' \in [Clients -> Objects]
    BY <1>2 DEF ClientTyped
  <2>5. pc' \in [Clients -> {"idle", "scan", "asleep", "expired"}]
    BY <1>2 DEF ClientTyped
  <2>6. outcome' \in [Clients -> {"none", "timeout", "own", "other"}]
    BY <1>2 DEF ClientTyped
  <2>7. clean' \in [Clients -> BOOLEAN]
    BY <1>3
  <2>8. QED
    BY <2>1, <2>2, <2>3, <2>4, <2>5, <2>6, <2>7 DEF ClientTyped
<1>9. TagInv'
  <2>1. \A d \in Clients : tag'[d] <= requests'
    BY <1>1, <1>2, <1>6 DEF TagInv, ClientTyped
  <2>2. \A f \in bus' : f.tag <= requests'
    <3>1. \A f \in bus : f.tag \in 1 .. MaxRequests
      BY DEF ClientTyped, Frame
    <3>2. [obj |-> o, tag |-> requests'].tag <= requests'
      BY <1>1
    <3>3. QED
      BY <1>1, <3>1, <3>2 DEF TagInv, ClientTyped
  <2>3. \A i \in 0 .. count' - 1 : Item(i)'.tag <= requests'
    <3>1. \A i \in 0 .. count - 1 : Item(i).tag \in 1 .. MaxRequests
      BY DEF QueueInv, Frame
    <3>2. QED
      BY <1>1, <1>5, <3>1 DEF TagInv, ClientTyped, queue
  <2>4. QED
    BY <2>1, <2>2, <2>3 DEF TagInv
<1>10. OnceInv'
  <2> DEFINE r == [obj |-> o, tag |-> requests']
  <2>1. \A i \in 0 .. count - 1 : Item(i).tag # requests'
    <3>1. \A i \in 0 .. count - 1 : Item(i).tag \in 1 .. MaxRequests
      BY DEF QueueInv, Frame
    <3>2. QED
      BY <1>1, <3>1 DEF TagInv, ClientTyped
  <2>2. \A f \in bus : f.tag # requests'
    <3>1. \A f \in bus : f.tag \in 1 .. MaxRequests
      BY DEF ClientTyped, Frame
    <3>2. QED
      BY <1>1, <3>1 DEF TagInv, ClientTyped
  <2>3. r.tag = requests' /\ bus' = bus \cup {r} /\ count' = count
    BY <1>1 DEF queue
  <2> HIDE DEF r
  <2>4. \A i, j \in 0 .. count' - 1 : Item(i)'.tag = Item(j)'.tag => i = j
    BY <1>5, <2>3 DEF OnceInv
  <2>5. \A f, g \in bus' : f.tag = g.tag => f = g
    BY <2>2, <2>3 DEF OnceInv
  <2>6. \A i \in 0 .. count' - 1, f \in bus' : Item(i)'.tag # f.tag
    BY <1>5, <2>1, <2>3 DEF OnceInv
  <2>7. ASSUME NEW d \in Clients, outcome'[d] = "own"
        PROVE  /\ \A i \in 0 .. count' - 1 : Item(i)'.tag # tag'[d]
               /\ \A f \in bus' : f.tag # tag'[d]
    <3>1. d # c /\ outcome[d] = "own" /\ tag'[d] = tag[d]
      BY <1>6, <2>7
    <3>2. tag[d] # requests'
      BY <1>1 DEF TagInv, ClientTyped
    <3>3. QED
      BY <1>5, <2>3, <3>1, <3>2 DEF OnceInv
  <2>8. QED
    BY <2>4, <2>5, <2>6, <2>7 DEF OnceInv
<1>11. SleepInv'
  BY <1>1, <1>5, <1>6 DEF SleepInv, queue
<1>12. CleanInv'
  <2> DEFINE r == [obj |-> o, tag |-> requests']
  <2>1. r.obj = o /\ r.tag = requests' /\ bus' = bus \cup {r} /\ count' = count
    BY <1>1 DEF queue
  <2> HIDE DEF r
  <2> SUFFICES ASSUME NEW d \in Clients, clean'[d], Open(d)'
               PROVE  /\ \A i \in 0 .. count' - 1 :
                           Item(i)'.obj = want'[d] => Item(i)'.tag = tag'[d]
                      /\ \A f \in bus' : f.obj = want'[d] => f.tag = tag'[d]
    BY DEF CleanInv
  <2>2. CASE d = c
    <3>1. \A f \in Queued \cup bus : f.obj # o
      BY <1>3, <2>2
    <3>2. \A i \in 0 .. count - 1 : Item(i).obj # o
      BY <3>1 DEF Queued, Item
    <3>3. QED
      BY <1>5, <1>6, <2>1, <2>2, <3>1, <3>2
  <2>3. CASE d # c
    <3>1. clean[d] /\ Open(d) /\ want[d] # o
      BY <1>3, <1>6, <2>3 DEF Open
    <3>2. QED
      BY <1>5, <1>6, <2>1, <2>3, <3>1 DEF CleanInv
  <2>4. QED
    BY <2>2, <2>3
<1>13. OwnAnswer'
  BY <1>3, <1>6 DEF OwnAnswer
<1>14. QED
  BY <1>7, <1>8, <1>9, <1>10, <1>11, <1>12, <1>13

(* _sdo_wait_response finds no answer to its object: it waits.             *)
LEMMA WaitKeepsIInv ==
  ASSUME IInv, NEW c \in Clients, Scan(c), Matches(want[c]) = {}
  PROVE  IInv'
<1> USE DEF IInv
<1>1. /\ pc' = [pc EXCEPT ![c] = "asleep"]
      /\ UNCHANGED <<queue, outcome, want, tag, bus, clean, requests>>
      /\ pc[c] = "scan"
  BY DEF Scan
<1>2. count' = count /\ \A i : Item(i)' = Item(i)
  BY <1>1 DEF queue, Item, At
<1>3. \A d \in Clients : pc'[d] = IF d = c THEN "asleep" ELSE pc[d]
  BY <1>1 DEF ClientTyped
<1>4. \A i \in 0 .. count - 1 : Item(i).obj # want[c]
  BY DEF Matches, Item
<1>5. QueueInv'
  BY <1>1, <1>2 DEF QueueInv, queue
<1>6. ClientTyped'
  BY <1>1 DEF ClientTyped
<1>7. TagInv' /\ OnceInv'
  BY <1>1, <1>2 DEF TagInv, OnceInv
<1>8. SleepInv'
  BY <1>1, <1>2, <1>3, <1>4 DEF SleepInv
<1>9. CleanInv'
  BY <1>1, <1>2, <1>3 DEF CleanInv, Open
<1>10. OwnAnswer'
  BY <1>1 DEF OwnAnswer
<1>11. QED
  BY <1>5, <1>6, <1>7, <1>8, <1>9, <1>10

(* The frame that _sdo_wait_response takes, when there is one.             *)
LEMMA OldestMatches ==
  ASSUME IInv, NEW c \in Clients, Matches(want[c]) # {}
  PROVE  /\ Oldest(Matches(want[c])) \in 0 .. count - 1
         /\ Item(Oldest(Matches(want[c]))).obj = want[c]
         /\ \A j \in 0 .. count - 1 :
              Item(j).obj = want[c] => Oldest(Matches(want[c])) <= j
<1>1. Matches(want[c]) \subseteq Nat
  BY DEF Matches, IInv, QueueInv
<1>2. /\ Oldest(Matches(want[c])) \in Matches(want[c])
      /\ \A j \in Matches(want[c]) : Oldest(Matches(want[c])) <= j
  BY <1>1, OldestIsLeast
<1>3. \A j : j \in Matches(want[c])
               <=> j \in 0 .. count - 1 /\ Item(j).obj = want[c]
  BY DEF Matches, Item
<1>4. QED
  BY <1>2, <1>3

(* _sdo_wait_response takes the oldest answer to its object.               *)
LEMMA TakeKeepsIInv ==
  ASSUME IInv, NEW c \in Clients, Scan(c), Matches(want[c]) # {}
  PROVE  IInv'
<1> USE DEF IInv
<1> DEFINE n == Oldest(Matches(want[c]))
<1>1. n \in 0 .. count - 1 /\ Item(n).obj = want[c]
  BY OldestMatches
<1>2. /\ Remove(n)
      /\ outcome' = [outcome EXCEPT ![c] = Verdict(c, n)]
      /\ pc' = [pc EXCEPT ![c] = "idle"]
      /\ UNCHANGED <<want, tag, bus, clean, requests>>
      /\ pc[c] = "scan"
  BY DEF Scan
<1> HIDE DEF n
<1>3. /\ QueueInv' /\ count' = count - 1
      /\ \A i \in 0 .. count' - 1 : Item(i)' =
           IF i < n THEN Item(i) ELSE Item(i + 1)
  BY <1>1, <1>2, RemoveFacts
<1> DEFINE k(i) == IF i < n THEN i ELSE i + 1
<1>4. \A i \in 0 .. count' - 1 :
        k(i) \in 0 .. count - 1 /\ k(i) # n /\ Item(i)' = Item(k(i))
  BY <1>1, <1>3 DEF QueueInv
<1>5. \A i, j \in 0 .. count' - 1 : k(i) = k(j) => i = j
  BY <1>1, <1>3 DEF QueueInv
<1> HIDE DEF k
<1>6. /\ \A d \in Clients : pc'[d] = IF d = c THEN "idle" ELSE pc[d]
      /\ \A d \in Clients : outcome'[d] =
           IF d = c THEN Verdict(c, n) ELSE outcome[d]
  BY <1>2 DEF ClientTyped
<1>7. Verdict(c, n) = IF Item(n).tag = tag[c] THEN "own" ELSE "other"
  BY DEF Verdict, Item
<1>8. ClientTyped'
  BY <1>2, <1>7 DEF ClientTyped
<1>9. TagInv'
  BY <1>2, <1>4 DEF TagInv
<1>10. OnceInv'
  <2>1. \A i, j \in 0 .. count' - 1 : Item(i)'.tag = Item(j)'.tag => i = j
    BY <1>4, <1>5 DEF OnceInv
  <2>2. \A i \in 0 .. count' - 1, f \in bus' : Item(i)'.tag # f.tag
    BY <1>2, <1>4 DEF OnceInv
  <2>3. ASSUME NEW d \in Clients, outcome'[d] = "own"
        PROVE  /\ \A i \in 0 .. count' - 1 : Item(i)'.tag # tag'[d]
               /\ \A f \in bus' : f.tag # tag'[d]
    <3>1. CASE d = c
      <4>1. Item(n).tag = tag[c]
        BY <1>6, <1>7, <2>3, <3>1
      <4>2. QED
        BY <1>1, <1>2, <1>4, <3>1, <4>1 DEF OnceInv
    <3>2. CASE d # c
      BY <1>2, <1>4, <1>6, <2>3, <3>2 DEF OnceInv
    <3>3. QED
      BY <3>1, <3>2
  <2>4. \A f, g \in bus' : f.tag = g.tag => f = g
    BY <1>2 DEF OnceInv
  <2>5. QED
    BY <2>1, <2>2, <2>3, <2>4 DEF OnceInv
<1>11. SleepInv'
  BY <1>2, <1>4, <1>6 DEF SleepInv
<1>12. CleanInv'
  BY <1>2, <1>4, <1>6 DEF CleanInv, Open
<1>13. OwnAnswer'
  <2>1. ASSUME clean[c]
        PROVE  Item(n).tag = tag[c]
    BY <1>1, <1>2, <2>1 DEF CleanInv, Open
  <2>2. QED
    BY <1>2, <1>6, <1>7, <2>1 DEF OwnAnswer
<1>14. QED
  BY <1>3, <1>8, <1>9, <1>10, <1>11, <1>12, <1>13

(* A deadline passes and a client gives up.                                *)
LEMMA TimeoutKeepsIInv ==
  ASSUME IInv, NEW c \in Clients, Expire(c) \/ GiveUp(c)
  PROVE  IInv'
<1> USE DEF IInv
<1>1. /\ UNCHANGED <<queue, want, tag, bus, clean, requests>>
      /\ \E s \in {"idle", "expired"} : pc' = [pc EXCEPT ![c] = s]
      /\ outcome' = outcome \/ outcome' = [outcome EXCEPT ![c] = "timeout"]
      /\ Open(c)
  BY DEF Expire, GiveUp, Open
<1>2. count' = count /\ \A i : Item(i)' = Item(i)
  BY <1>1 DEF queue, Item, At
<1>3. /\ \A d \in Clients : Open(d)' => Open(d)
      /\ \A d \in Clients : pc'[d] = "asleep" => pc[d] = "asleep"
  BY <1>1 DEF ClientTyped, Open
<1>4. \A d \in Clients : outcome'[d] = outcome[d] \/ outcome'[d] = "timeout"
  BY <1>1 DEF ClientTyped
<1>5. QueueInv'
  BY <1>1, <1>2 DEF QueueInv, queue
<1>6. ClientTyped'
  BY <1>1 DEF ClientTyped
<1>7. TagInv'
  BY <1>1, <1>2 DEF TagInv
<1>8. OnceInv'
  BY <1>1, <1>2, <1>4 DEF OnceInv
<1>9. SleepInv'
  BY <1>1, <1>2, <1>3 DEF SleepInv
<1>10. CleanInv'
  BY <1>1, <1>2, <1>3 DEF CleanInv
<1>11. OwnAnswer'
  BY <1>1, <1>4 DEF OwnAnswer
<1>12. QED
  BY <1>5, <1>6, <1>7, <1>8, <1>9, <1>10, <1>11

(* An answer comes in: every waiting client is woken.                      *)
LEMMA ReceiveKeepsIInv ==
  ASSUME IInv, NEW f \in bus, Receive(f)
  PROVE  IInv'
<1> USE DEF IInv
<1>1. /\ bus' = bus \ {f} /\ Enqueue(f)
      /\ pc' = [c \in Clients |-> IF pc[c] = "asleep" THEN "scan" ELSE pc[c]]
      /\ UNCHANGED <<want, tag, outcome, clean, requests>>
      /\ f \in Frame
  BY DEF Receive, ClientTyped
<1>2. /\ QueueInv'
      /\ count' = IF count = QueueSize THEN count ELSE count + 1
      /\ \A i \in 0 .. count' - 1 : Item(i)' =
           IF i = count' - 1 THEN f
           ELSE IF count = QueueSize THEN Item(i + 1) ELSE Item(i)
  BY <1>1, EnqueueFacts
<1> DEFINE k(i) == IF count = QueueSize THEN i + 1 ELSE i
           last == count' - 1
<1>3. \A i \in 0 .. count' - 1 :
        /\ i = last => Item(i)' = f
        /\ i # last => k(i) \in 0 .. count - 1 /\ Item(i)' = Item(k(i))
  BY <1>2 DEF QueueInv
<1>4. \A i, j \in 0 .. count' - 1 : k(i) = k(j) => i = j
  BY <1>2 DEF QueueInv
<1> HIDE DEF k, last
<1>5. \A d \in Clients : pc'[d] # "asleep" /\ (Open(d)' <=> Open(d))
  BY <1>1 DEF ClientTyped, Open
<1>6. ClientTyped'
  BY <1>1 DEF ClientTyped
<1>7. TagInv'
  BY <1>1, <1>3 DEF TagInv
<1>8. OnceInv'
  <2>1. ASSUME NEW i \in 0 .. count' - 1, NEW j \in 0 .. count' - 1,
               Item(i)'.tag = Item(j)'.tag
        PROVE  i = j
    BY <1>3, <1>4, <2>1 DEF OnceInv
  <2>2. \A i \in 0 .. count' - 1, g \in bus' : Item(i)'.tag # g.tag
    BY <1>1, <1>3 DEF OnceInv
  <2>3. ASSUME NEW d \in Clients, outcome'[d] = "own"
        PROVE  /\ \A i \in 0 .. count' - 1 : Item(i)'.tag # tag'[d]
               /\ \A g \in bus' : g.tag # tag'[d]
    BY <1>1, <1>3, <2>3 DEF OnceInv
  <2>4. \A g, h \in bus' : g.tag = h.tag => g = h
    BY <1>1 DEF OnceInv
  <2>5. QED
    BY <2>1, <2>2, <2>3, <2>4 DEF OnceInv
<1>9. SleepInv'
  BY <1>5 DEF SleepInv
<1>10. CleanInv'
  BY <1>1, <1>3, <1>5 DEF CleanInv
<1>11. OwnAnswer'
  BY <1>1 DEF OwnAnswer
<1>12. QED
  BY <1>2, <1>6, <1>7, <1>8, <1>9, <1>10, <1>11

(* An answer or a request is lost.                                         *)
LEMMA LoseKeepsIInv ==
  ASSUME IInv, NEW f \in bus, Lose(f)
  PROVE  IInv'
<1> USE DEF IInv
<1>1. bus' = bus \ {f} /\ UNCHANGED <<queue, client, requests>>
  BY DEF Lose
<1>2. count' = count /\ \A i : Item(i)' = Item(i)
  BY <1>1 DEF queue, Item, At
<1>3. QueueInv' /\ ClientTyped'
  BY <1>1, <1>2 DEF QueueInv, ClientTyped, queue, client
<1>4. TagInv' /\ OnceInv'
  BY <1>1, <1>2 DEF TagInv, OnceInv, client
<1>5. SleepInv' /\ CleanInv' /\ OwnAnswer'
  BY <1>1, <1>2 DEF SleepInv, CleanInv, Open, OwnAnswer, client
<1>6. QED
  BY <1>3, <1>4, <1>5

-----------------------------------------------------------------------------
(* The inductive invariant holds initially.                                *)
LEMMA InitIInv == Init => IInv
<1> SUFFICES ASSUME Init PROVE IInv
  OBVIOUS
<1> USE QueueAssumption, BoundAssumption
<1>1. 0 \in Slot /\ 0 \in 0 .. QueueSize
  BY DEF Slot
<1>2. (0 + 0) % QueueSize = 0
  BY <1>1, Around
<1>3. QueueInv
  BY <1>1, <1>2 DEF Init, QueueInv
<1>4. ClientTyped
  BY DEF Init, ClientTyped
<1>5. TagInv /\ OnceInv /\ SleepInv /\ CleanInv /\ OwnAnswer
  BY DEF Init, TagInv, OnceInv, SleepInv, CleanInv, Open, OwnAnswer
<1>6. QED
  BY <1>3, <1>4, <1>5 DEF IInv

(* Every step keeps the inductive invariant.                               *)
LEMMA NextKeepsIInv == IInv /\ [Next]_vars => IInv'
<1> SUFFICES ASSUME IInv, [Next]_vars PROVE IInv'
  OBVIOUS
<1>1. ASSUME NEW c \in Clients, NEW o \in Objects, Send(c, o)
      PROVE  IInv'
  BY <1>1, SendKeepsIInv
<1>2. ASSUME NEW c \in Clients, Scan(c)
      PROVE  IInv'
  BY <1>2, WaitKeepsIInv, TakeKeepsIInv
<1>3. ASSUME NEW c \in Clients, Expire(c) \/ GiveUp(c)
      PROVE  IInv'
  BY <1>3, TimeoutKeepsIInv
<1>4. ASSUME NEW f \in bus, Receive(f) \/ Lose(f)
      PROVE  IInv'
  BY <1>4, ReceiveKeepsIInv, LoseKeepsIInv
<1>5. CASE UNCHANGED vars
  <2>1. count' = count /\ \A i : Item(i)' = Item(i)
    BY <1>5 DEF vars, queue, Item, At
  <2>2. QED
    BY <1>5, <2>1 DEF vars, queue, client, IInv, QueueInv, ClientTyped, TagInv,
      OnceInv, SleepInv, CleanInv, Open, OwnAnswer
<1>6. QED
  BY <1>1, <1>2, <1>3, <1>4, <1>5 DEF Next

(* Every reachable state satisfies the inductive invariant.                *)
THEOREM SdoClientInvariant == Spec => []IInv
  BY InitIInv, NextKeepsIInv, PTL DEF Spec

(* The queue is well formed, and an answer is there once: not twice in the *)
(* queue, not queued and on the bus, not queued when its request has taken *)
(* it (sdo_push_response, the compaction of _sdo_wait_response).           *)
THEOREM SdoClientInv == Spec => []Inv
<1>1. ASSUME IInv PROVE Inv
  <2> USE <1>1 DEF IInv
  <2>1. TypeOK
    BY FrameAssumption DEF TypeOK, QueueInv, ClientTyped, Item
  <2>2. \A i, j \in 0 .. count - 1 : frames[At(i)] = frames[At(j)] => i = j
    BY DEF OnceInv, Item
  <2>3. \A f \in Queued : \E i \in 0 .. count - 1 : f = Item(i)
    BY DEF Queued, Item
  <2>4. Queued \cap bus = {}
    BY <2>3 DEF OnceInv
  <2>5. \A c \in Clients, f \in Queued : outcome[c] = "own" => f.tag # tag[c]
    BY <2>3 DEF OnceInv
  <2>6. QED
    BY <2>1, <2>2, <2>4, <2>5 DEF Inv, NoDuplicate
<1>2. QED
  BY <1>1, SdoClientInvariant, PTL

(* A client does not sleep while an answer for it waits in the queue.      *)
THEOREM NoLostWakeupHolds == Spec => []NoLostWakeup
<1>1. IInv => NoLostWakeup
  BY DEF IInv, SleepInv, NoLostWakeup, Matches, Item
<1>2. QED
  BY <1>1, SdoClientInvariant, PTL

(* A request that succeeds has its own answer, if it was clean when it was *)
(* sent and no other thread asked for its object before it was done.       *)
THEOREM OwnAnswerHolds == Spec => []OwnAnswer
<1>1. IInv => OwnAnswer
  BY DEF IInv
<1>2. QED
  BY <1>1, SdoClientInvariant, PTL


-----------------------------------------------------------------------------
(* The refinement: the ring is the box of responses.                       *)

(* The frames that wait, oldest first.                                     *)
Waiting == [i \in 1 .. count |-> frames[At(i - 1)]]

(* A function on 1 .. n is a sequence of length n.                         *)
LEMMA FunctionIsSequence ==
  ASSUME NEW S, NEW n \in Nat, NEW w \in [1 .. n -> S]
  PROVE  w \in Seq(S) /\ Len(w) = n
  OBVIOUS

(* The frames of a well-formed ring are a sequence of frames.              *)
LEMMA WaitingIsSequence ==
  ASSUME QueueInv
  PROVE  /\ Waiting \in Seq(Frame) /\ Len(Waiting) = count
         /\ \A i \in 1 .. count : Waiting[i] = Item(i - 1)
<1>1. count \in Nat /\ Waiting \in [1 .. count -> Frame]
  BY DEF QueueInv, Waiting, Item
<1>2. \A i \in 1 .. count : Waiting[i] = Item(i - 1)
  BY DEF Waiting, Item
<1>3. QED
  BY <1>1, <1>2, FunctionIsSequence

(* The same of the state after a step.                                     *)
LEMMA WaitingIsSequenceNext ==
  ASSUME QueueInv'
  PROVE  /\ Waiting' \in Seq(Frame) /\ Len(Waiting') = count'
         /\ \A i \in 1 .. count' : Waiting'[i] = Item(i - 1)'
<1>1. count' \in Nat /\ Waiting' \in [1 .. count' -> Frame]
  <2> DEFINE m == count'
  <2>1. /\ m \in 0 .. QueueSize /\ \A i \in 0 .. m - 1 : Item(i)' \in Frame
        /\ Waiting' = [i \in 1 .. m |-> Item(i - 1)']
    BY DEF QueueInv, Waiting, Item
  <2> HIDE DEF m
  <2>2. m \in Nat /\ \A i \in 1 .. m : i - 1 \in 0 .. m - 1
    BY <2>1, QueueAssumption
  <2>3. Waiting' \in [1 .. m -> Frame]
    BY <2>1, <2>2
  <2>4. QED
    BY <2>2, <2>3 DEF m
<1>2. \A i \in 1 .. count' : Waiting'[i] = Item(i - 1)'
  BY DEF Waiting, Item
<1>3. QED
  BY <1>1, <1>2, FunctionIsSequence

(* What RemoveAt leaves of a sequence.                                     *)
LEMMA RemoveAtFacts ==
  ASSUME NEW S, NEW w \in Seq(S), NEW i \in 1 .. Len(w)
  PROVE  LET v == SubSeq(w, 1, i - 1) \o SubSeq(w, i + 1, Len(w))
         IN  /\ v \in Seq(S) /\ Len(v) = Len(w) - 1
             /\ \A j \in 1 .. Len(w) - 1 : v[j] = IF j < i THEN w[j] ELSE w[j + 1]
<1> DEFINE a == SubSeq(w, 1, i - 1)
           b == SubSeq(w, i + 1, Len(w))
<1>1. Len(w) \in Nat /\ \A j \in 1 .. Len(w) : w[j] \in S
  OBVIOUS
<1>2. /\ a \in Seq(S) /\ Len(a) = i - 1
      /\ \A j \in 1 .. i - 1 : a[j] = w[j]
  <2>1. /\ 1 \in Int /\ i - 1 \in Int
        /\ \A j \in 1 .. i - 1 : w[j] \in S
    BY <1>1
  <2>2. /\ a \in Seq(S)
        /\ Len(a) = IF 1 <= i - 1 THEN (i - 1) - 1 + 1 ELSE 0
        /\ \A j \in 1 .. (i - 1) - 1 + 1 : a[j] = w[1 + j - 1]
    BY <2>1, SubSeqProperties
  <2> HIDE DEF a
  <2>3. QED
    BY <1>1, <2>2
<1>3. /\ b \in Seq(S) /\ Len(b) = Len(w) - i
      /\ \A j \in 1 .. Len(w) - i : b[j] = w[j + i]
  <2>1. /\ i + 1 \in Int /\ Len(w) \in Int
        /\ \A j \in i + 1 .. Len(w) : w[j] \in S
    BY <1>1
  <2>2. /\ b \in Seq(S)
        /\ Len(b) = IF i + 1 <= Len(w) THEN Len(w) - (i + 1) + 1 ELSE 0
        /\ \A j \in 1 .. Len(w) - (i + 1) + 1 : b[j] = w[(i + 1) + j - 1]
    BY <2>1, SubSeqProperties
  <2> HIDE DEF b
  <2>3. \A j \in 1 .. Len(w) - i : (i + 1) + j - 1 = j + i
    BY <1>1
  <2>4. QED
    BY <1>1, <2>2, <2>3
<1> HIDE DEF a, b
<1>4. /\ a \o b \in Seq(S) /\ Len(a \o b) = Len(a) + Len(b)
      /\ \A j \in 1 .. Len(a) + Len(b) : (a \o b)[j] =
           IF j <= Len(a) THEN a[j] ELSE b[j - Len(a)]
  BY <1>2, <1>3, ConcatProperties
<1>5. Len(a) + Len(b) = Len(w) - 1
  BY <1>1, <1>2, <1>3
<1>6. ASSUME NEW j \in 1 .. Len(w) - 1
      PROVE  (a \o b)[j] = IF j < i THEN w[j] ELSE w[j + 1]
  <2>1. (a \o b)[j] = IF j <= i - 1 THEN a[j] ELSE b[j - (i - 1)]
    BY <1>2, <1>4, <1>5
  <2>2. CASE j < i
    <3>1. j <= i - 1 /\ j \in 1 .. i - 1
      BY <1>1, <2>2
    <3>2. QED
      BY <1>2, <2>1, <2>2, <3>1
  <2>3. CASE ~(j < i)
    <3>1. ~(j <= i - 1) /\ j - (i - 1) \in 1 .. Len(w) - i
      BY <1>1, <2>3
    <3>2. j - (i - 1) + i = j + 1
      BY <1>1
    <3>3. QED
      BY <1>3, <2>1, <2>3, <3>1, <3>2
  <2>4. QED
    BY <2>2, <2>3
<1>7. QED
  BY <1>4, <1>5, <1>6 DEF a, b

(* A frame that comes in is put into the box.                              *)
LEMMA ReceivePuts ==
  ASSUME IInv, NEW f \in bus, Receive(f)
  PROVE  Box!Put(f)
<1>1. QueueInv /\ f \in Frame /\ Enqueue(f)
  BY DEF IInv, ClientTyped, Receive
<1>2. /\ QueueInv'
      /\ count' = IF count = QueueSize THEN count ELSE count + 1
      /\ \A i \in 0 .. count' - 1 : Item(i)' =
           IF i = count' - 1 THEN f
           ELSE IF count = QueueSize THEN Item(i + 1) ELSE Item(i)
  BY <1>1, EnqueueFacts
<1>3. /\ Waiting \in Seq(Frame) /\ Len(Waiting) = count
      /\ \A i \in 1 .. count : Waiting[i] = Item(i - 1)
  BY <1>1, WaitingIsSequence
<1>4. /\ Waiting' \in Seq(Frame) /\ Len(Waiting') = count'
      /\ \A i \in 1 .. count' : Waiting'[i] = Item(i - 1)'
  BY <1>2, WaitingIsSequenceNext
<1>5. count \in 0 .. QueueSize /\ QueueSize \in Nat \ {0}
  BY <1>1, QueueAssumption DEF QueueInv
<1> DEFINE kept == IF Len(Waiting) = QueueSize THEN Tail(Waiting) ELSE Waiting
<1>6. /\ kept \in Seq(Frame) /\ Len(kept) = count' - 1
      /\ \A i \in 1 .. count' - 1 : kept[i] =
           IF count = QueueSize THEN Item(i) ELSE Item(i - 1)
  <2>1. CASE count = QueueSize
    <3>1. Waiting # <<>>
      BY <1>3, <1>5, <2>1
    <3>2. /\ Tail(Waiting) \in Seq(Frame)
          /\ Len(Tail(Waiting)) = Len(Waiting) - 1
          /\ \A i \in 1 .. Len(Tail(Waiting)) :
               Tail(Waiting)[i] = Waiting[i + 1]
      BY <1>3, <3>1, HeadTailProperties
    <3>3. \A i \in 1 .. count - 1 : Waiting[i + 1] = Item(i)
      <4> TAKE i \in 1 .. count - 1
      <4>1. i + 1 \in 1 .. count /\ (i + 1) - 1 = i
        BY <1>5
      <4>2. QED
        BY <1>3, <4>1
    <3>4. kept = Tail(Waiting) /\ count' = count
      BY <1>2, <1>3, <2>1
    <3>5. QED
      BY <1>3, <2>1, <3>2, <3>3, <3>4
  <2>2. CASE count # QueueSize
    <3>1. kept = Waiting /\ count' = count + 1 /\ count' - 1 = count
      BY <1>2, <1>3, <1>5, <2>2
    <3>2. QED
      BY <1>3, <2>2, <3>1
  <2>3. QED
    BY <2>1, <2>2
<1> HIDE DEF kept
<1>7. /\ Append(kept, f) \in Seq(Frame)
      /\ Len(Append(kept, f)) = Len(kept) + 1
      /\ \A i \in 1 .. Len(kept) : Append(kept, f)[i] = kept[i]
      /\ Append(kept, f)[Len(kept) + 1] = f
  BY <1>1, <1>6, AppendProperties
<1> DEFINE m == count'
<1>8. /\ m \in Nat /\ m >= 1 /\ Len(kept) = m - 1
      /\ Waiting' \in Seq(Frame) /\ Len(Waiting') = m
  BY <1>2, <1>4, <1>5, <1>6
<1>9. /\ \A i \in 1 .. m : Waiting'[i] = Item(i - 1)'
      /\ \A i \in 0 .. m - 1 : Item(i)' =
           IF i = m - 1 THEN f
           ELSE IF count = QueueSize THEN Item(i + 1) ELSE Item(i)
      /\ \A i \in 1 .. m - 1 : kept[i] =
           IF count = QueueSize THEN Item(i) ELSE Item(i - 1)
  BY <1>2, <1>4, <1>6
<1> HIDE DEF m
<1>10. ASSUME NEW i \in 1 .. m
       PROVE  Waiting'[i] = Append(kept, f)[i]
  <2>1. i - 1 \in 0 .. m - 1 /\ (i - 1) + 1 = i
    BY <1>8
  <2>2. CASE i = m
    <3>1. Waiting'[i] = f
      BY <1>9, <2>1, <2>2
    <3>2. Len(kept) + 1 = i
      BY <1>8, <2>2
    <3>3. QED
      BY <1>7, <3>1, <3>2
  <2>3. CASE i # m
    <3>1. i \in 1 .. m - 1 /\ i - 1 # m - 1
      BY <1>8, <2>3
    <3>2. Waiting'[i] = IF count = QueueSize THEN Item(i) ELSE Item(i - 1)
      BY <1>9, <2>1, <3>1
    <3>3. Append(kept, f)[i] = kept[i]
      BY <1>7, <1>8, <3>1
    <3>4. QED
      BY <1>9, <3>1, <3>2, <3>3
  <2>4. QED
    BY <2>2, <2>3
<1>11. Len(Append(kept, f)) = m
  BY <1>7, <1>8
<1>12. Waiting' = Append(kept, f)
  BY <1>7, <1>8, <1>10, <1>11, SeqEqual
<1>13. QED
  BY <1>12 DEF Box!Put, Waiting, kept

(* A client that finds an answer takes it from the box.                    *)
LEMMA ScanTakes ==
  ASSUME IInv, NEW c \in Clients, Scan(c), Matches(want[c]) # {}
  PROVE  \E i \in DOMAIN Waiting : Box!Take(i)
<1> DEFINE n == Oldest(Matches(want[c]))
<1>1. /\ n \in 0 .. count - 1 /\ Item(n).obj = want[c]
      /\ \A j \in 0 .. count - 1 : Item(j).obj = want[c] => n <= j
  BY OldestMatches
<1>2. QueueInv /\ Remove(n)
  BY DEF IInv, Scan
<1> HIDE DEF n
<1>3. /\ QueueInv' /\ count' = count - 1
      /\ \A i \in 0 .. count' - 1 : Item(i)' =
           IF i < n THEN Item(i) ELSE Item(i + 1)
  BY <1>1, <1>2, RemoveFacts
<1>4. /\ Waiting \in Seq(Frame) /\ Len(Waiting) = count
      /\ \A i \in 1 .. count : Waiting[i] = Item(i - 1)
  BY <1>2, WaitingIsSequence
<1>5. /\ Waiting' \in Seq(Frame) /\ Len(Waiting') = count'
      /\ \A i \in 1 .. count' : Waiting'[i] = Item(i - 1)'
  BY <1>3, WaitingIsSequenceNext
<1>6. count \in Nat
  BY <1>2 DEF QueueInv
<1>7. n + 1 \in 1 .. count /\ (n + 1) - 1 = n /\ n \in Nat
  BY <1>1, <1>6
<1> DEFINE v == SubSeq(Waiting, 1, (n + 1) - 1)
                  \o SubSeq(Waiting, (n + 1) + 1, Len(Waiting))
<1>8. /\ v \in Seq(Frame) /\ Len(v) = count - 1
      /\ \A j \in 1 .. count - 1 :
           v[j] = IF j < n + 1 THEN Waiting[j] ELSE Waiting[j + 1]
  <2>1. n + 1 \in 1 .. Len(Waiting)
    BY <1>4, <1>7
  <2>2. /\ v \in Seq(Frame) /\ Len(v) = Len(Waiting) - 1
        /\ \A j \in 1 .. Len(Waiting) - 1 :
             v[j] = IF j < n + 1 THEN Waiting[j] ELSE Waiting[j + 1]
    BY <1>4, <2>1, RemoveAtFacts
  <2> HIDE DEF v
  <2>3. QED
    BY <1>4, <2>2
<1> HIDE DEF v
<1>9. ASSUME NEW j \in 1 .. count - 1
      PROVE  Waiting'[j] = v[j]
  <2>1. j - 1 \in 0 .. count' - 1 /\ j \in 1 .. count'
    BY <1>3, <1>6
  <2>2. Waiting'[j] = IF j - 1 < n THEN Item(j - 1) ELSE Item((j - 1) + 1)
    BY <1>3, <1>5, <2>1
  <2>3. j \in 1 .. count /\ j + 1 \in 1 .. count
        /\ (j - 1) + 1 = j /\ (j + 1) - 1 = j
    BY <1>6
  <2>4. j < n + 1 <=> j - 1 < n
    BY <1>6, <1>7
  <2>5. Waiting[j] = Item(j - 1) /\ Waiting[j + 1] = Item(j)
    BY <1>4, <2>3
  <2>6. QED
    BY <1>8, <2>2, <2>3, <2>4, <2>5
<1>10. Waiting' = v
  BY <1>3, <1>5, <1>8, <1>9, SeqEqual
<1>11. ASSUME NEW j \in 1 .. (n + 1) - 1
       PROVE  Waiting[j].obj # Waiting[n + 1].obj
  <2>1. j \in 1 .. count /\ j - 1 \in 0 .. count - 1 /\ ~(n <= j - 1)
    BY <1>1, <1>6, <1>7
  <2>2. Waiting[j] = Item(j - 1) /\ Waiting[n + 1] = Item(n)
    BY <1>4, <1>7, <2>1
  <2>3. QED
    BY <1>1, <2>1, <2>2
<1>12. n + 1 \in DOMAIN Waiting
  BY <1>7 DEF Waiting
<1>13. Box!Take(n + 1)
  BY <1>10, <1>11 DEF Box!Take, Box!RemoveAt, Waiting, v
<1>14. QED
  BY <1>12, <1>13

(* The ring of the SDO client implements the ordered box of responses: an  *)
(* answer that comes in is put behind the others and a full ring loses its *)
(* oldest one (sdo_push_response); a client takes the oldest answer to its *)
(* object and leaves the others in their order (_sdo_wait_response).       *)
THEOREM SdoClientImplementsBox == Spec => ImplementsBox
<1>1. Init => Box!Init
  BY DEF Init, Box!Init
<1>2. ASSUME IInv, [Next]_vars
      PROVE  [Box!Next]_Waiting
  <2>1. ASSUME NEW f \in bus, Receive(f)
        PROVE  Box!Next
    <3>1. Box!Put(f) /\ f \in Frame
      BY <1>2, <2>1, ReceivePuts DEF IInv, ClientTyped
    <3>2. QED
      BY <3>1 DEF Box!Next
  <2>2. ASSUME NEW c \in Clients, Scan(c), Matches(want[c]) # {}
        PROVE  Box!Next
    BY <1>2, <2>2, ScanTakes DEF Box!Next, Waiting
  <2>3. ASSUME UNCHANGED queue
        PROVE  Waiting' = Waiting
    BY <2>3 DEF queue, Waiting, At
  <2>4. ASSUME NEW c \in Clients, Scan(c), Matches(want[c]) = {}
        PROVE  UNCHANGED queue
    BY <2>4 DEF Scan, queue
  <2>5. ASSUME NEW c \in Clients, NEW o \in Objects,
               Send(c, o) \/ Expire(c) \/ GiveUp(c)
        PROVE  UNCHANGED queue
    BY <2>5 DEF Send, Expire, GiveUp
  <2>6. ASSUME NEW c \in Clients, Expire(c) \/ GiveUp(c)
        PROVE  UNCHANGED queue
    BY <2>6 DEF Expire, GiveUp
  <2>7. ASSUME NEW f \in bus, Lose(f)
        PROVE  UNCHANGED queue
    BY <2>7 DEF Lose
  <2>8. CASE UNCHANGED vars
    BY <2>3, <2>8 DEF vars
  <2>9. QED
    BY <1>2, <2>1, <2>2, <2>3, <2>4, <2>5, <2>6, <2>7, <2>8 DEF Next
<1>3. QED
  BY <1>1, <1>2, SdoClientInvariant, PTL
    DEF Spec, ImplementsBox, Box!Spec, Waiting
=============================================================================
