---------------------------- MODULE MCSdoCommands ----------------------------
(* SdoCommands with two values, one of them out of range.                  *)
EXTENDS SdoCommands
=============================================================================
