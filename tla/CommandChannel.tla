--------------------------- MODULE CommandChannel ---------------------------
(***************************************************************************)
(* What the command mailbox promises to the algorithm process: a bounded,  *)
(* lossless, first-in first-out channel.  Commands put into it are taken   *)
(* out in the order they went in, each exactly once, and never more than   *)
(* Capacity of them wait.  A restart of the node empties it.               *)
(*                                                                         *)
(* "in" and "out" are the commands put and taken since the node booted.    *)
(***************************************************************************)
EXTENDS Integers, Sequences

CONSTANTS
  Commands,   \* what can be put into the channel
  Capacity    \* how many commands may wait in it

VARIABLES in, out

vars == <<in, out>>

Init == in = <<>> /\ out = <<>>

Put(c) ==
  /\ Len(in) - Len(out) < Capacity
  /\ in' = Append(in, c)
  /\ UNCHANGED out

Take ==
  /\ Len(out) < Len(in)
  /\ out' = Append(out, in[Len(out) + 1])
  /\ UNCHANGED in

Reset == in' = <<>> /\ out' = <<>>

Next == (\E c \in Commands : Put(c)) \/ Take \/ Reset

Spec == Init /\ [][Next]_vars
=============================================================================
