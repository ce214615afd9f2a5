---------------------------- MODULE ResponseBox -----------------------------
(***************************************************************************)
(* What the queue of SDO responses promises: the responses wait in the     *)
(* order they came, a reader takes the oldest one for the object it asked  *)
(* for and leaves the others, in their order, to the other readers; when   *)
(* Capacity of them wait, one more drops the oldest.                       *)
(***************************************************************************)
EXTENDS Integers, Sequences, SequencesExt

CONSTANTS
  Responses,   \* records with a field obj
  Capacity

VARIABLE box

Init == box = <<>>

Put(r) ==
  box' = Append(IF Len(box) = Capacity THEN Tail(box) ELSE box, r)

Take(i) ==
  /\ \A j \in 1 .. i - 1 : box[j].obj # box[i].obj
  /\ box' = RemoveAt(box, i)

Next == (\E r \in Responses : Put(r)) \/ \E i \in DOMAIN box : Take(i)

Spec == Init /\ [][Next]_box
=============================================================================
