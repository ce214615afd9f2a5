----------------------------- MODULE MCMailbox ------------------------------
(* Mailbox on a small ring: two kinds of command, a ring of two slots that *)
(* wraps twice, one reboot.                                                *)
EXTENDS Mailbox
=============================================================================
