---------------------------- MODULE MCNodeControl ----------------------------
(* NodeControl for TLC; the constants are given in the configurations.     *)
EXTENDS NodeControl
=============================================================================
