---------------------------- MODULE MCFootPressure ----------------------------
(* The foot pressure reader for TLC; the constants are given in the cfg.   *)
EXTENDS FootPressure
=============================================================================
