------------------------------ MODULE WebMailbox ------------------------------
(***************************************************************************)
(* The command mailbox with its second writer: the web page of the node    *)
(* (WebServer, mode "pdo") puts a frame into the ring next to the          *)
(* algorithm's, without the steps that make the ring safe for one writer.  *)
(*                                                                         *)
(* Mailbox is the algorithm and the RT thread; a frame is here what it     *)
(* holds for each motor.  The page writes one frame per motor it was asked *)
(* to move: it clears and fills that motor's part only, and it stores      *)
(* w + 1 where the client increments.                                      *)
(***************************************************************************)
EXTENDS Mailbox

CONSTANTS
  Motors,     \* the motors a frame has a part for
  Commands,   \* what the page has a motor do
  Nothing,    \* the zeroed part of a frame
  MaxPages    \* bound on the frames of the page

(* The frames of the mailbox are here functions of Motors into commands or *)
(* Nothing, and Empty is Nothing for every motor.                          *)

VARIABLES
  ppc, pw, pmotor, pcommand,  \* the page: control point, w, id, cmd and value
  pages,
  given       \* history: the frames of the calls, in the order they went in

page == <<ppc, pw, pmotor, pcommand, pages>>
webVars == <<vars, page, given>>

WebInit ==
  /\ Init
  /\ ppc = "idle" /\ pw = 0 /\ pages = 0
  /\ pmotor \in Motors /\ pcommand \in Commands
  /\ given = <<>>

-----------------------------------------------------------------------------
(* The page.                                                               *)

PageSend(m, c) ==
  /\ ppc = "idle" /\ pages < MaxPages
  /\ ppc' = "loadWrite" /\ pmotor' = m /\ pcommand' = c
  /\ pages' = pages + 1
  /\ UNCHANGED <<vars, pw, given>>

PageLoadWrite ==
  /\ ppc = "loadWrite"
  /\ pw' = seqWrite /\ ppc' = "loadRead"
  /\ UNCHANGED <<vars, pmotor, pcommand, pages, given>>

(* A full ring: the page gives up.                                         *)
PageLoadRead ==
  /\ ppc = "loadRead"
  /\ ppc' = IF Full(pw, seqRead) THEN "idle" ELSE "clear"
  /\ UNCHANGED <<vars, pw, pmotor, pcommand, pages, given>>

Put(c) ==
  /\ slots' = [slots EXCEPT ![At(pw)][pmotor] = c]
  /\ UNCHANGED <<seqWrite, seqRead, client, worker, active, history>>

PageClear ==
  /\ ppc = "clear"
  /\ Put(Nothing) /\ ppc' = "fill"
  /\ UNCHANGED <<pw, pmotor, pcommand, pages, given>>

PageFill ==
  /\ ppc = "fill"
  /\ Put(pcommand) /\ ppc' = "store"
  /\ UNCHANGED <<pw, pmotor, pcommand, pages, given>>

PageStore ==
  /\ ppc = "store"
  /\ seqWrite' = pw + 1 /\ ppc' = "idle"
  /\ given' = Append(given, [Empty EXCEPT ![pmotor] = pcommand])
  /\ UNCHANGED <<seqRead, slots, client, worker, active, history, pw, pmotor,
                 pcommand, pages>>

Page ==
  \/ \E m \in Motors, c \in Commands : PageSend(m, c)
  \/ PageLoadWrite \/ PageLoadRead \/ PageClear \/ PageFill \/ PageStore

-----------------------------------------------------------------------------
(* The node does not restart here: MaxBoots is 0.                          *)
WebNext ==
  \/ /\ Next /\ UNCHANGED page
     /\ given' = IF cpc = "commit" /\ cpc' = "idle"
                 THEN Append(given, cframe) ELSE given
  \/ Page

WebSpec == WebInit /\ [][WebNext]_webVars

-----------------------------------------------------------------------------
(* "ring mailbox, no frame is lost" (stark_client.h): what the RT thread   *)
(* executes are the frames of the calls, each once, in the order they went *)
(* in.  With the algorithm alone ImplementsChannel says so.                *)
ExecutedAsGiven ==
  /\ Len(executed) <= Len(given)
  /\ \A i \in DOMAIN executed : executed[i] = given[i]
=============================================================================
