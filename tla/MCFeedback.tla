----------------------------- MODULE MCFeedback ------------------------------
(* Feedback for TLC; the constants are given in the configuration.         *)
EXTENDS Feedback
=============================================================================
