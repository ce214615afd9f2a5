---------------------------- MODULE MCSdoClient ------------------------------
(* SdoClient for TLC; the constants are given in the configurations.       *)
EXTENDS SdoClient
=============================================================================
