--------------------------- MODULE MCMotorControl ---------------------------
(* MotorControl with every kind of frame and a command of every handler.   *)
EXTENDS MotorControl
=============================================================================
