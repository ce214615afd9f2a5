---------------------------- MODULE MCWebMailbox ----------------------------
(* The mailbox with the web page as second writer: two motors, one command *)
(* for each of them from the algorithm, one from the page.                 *)
EXTENDS WebMailbox

NoFrame == [m \in Motors |-> Nothing]
AlgorithmFrames == {[NoFrame EXCEPT ![m] = c] : m \in Motors, c \in Commands}
=============================================================================
