---------------------------- MODULE MCMotorStartup ----------------------------
(* The startup of two motors for TLC; the constants are given in the cfg.  *)
EXTENDS MotorStartup
=============================================================================
