------------------------------- MODULE MCButton -------------------------------
(* The button for TLC: the constants have their values in the cfg files.   *)
EXTENDS Button
=============================================================================
