------------------------- MODULE StandInProperties -------------------------
(***************************************************************************)
(* What the tests of the client rely on in the stand-in for the robot.     *)
(***************************************************************************)
EXTENDS StandIn

(* ClientGoodServerTest and ServerTest rely on a good stand-in confirming  *)
(* every command, ClientBadServerTest on a bad one confirming none; beyond *)
(* the greeting, and beyond the lines at which the stand-in stops and the  *)
(* client finds the connection closed instead of an answer.                *)
TypesTellApart ==
    sent \in ClientMessages /\ told \notin {NoLine, "CONN_OK", EmptyLine} =>
        /\ ~StopsItself(sent)
        /\ (told = messageConfirmation[sent]) <=> (serverType = "good")

(* The next stand-in of a test, or of Starter, needs the two ports: once   *)
(* stop() has come to its end, in whichever thread and however early it    *)
(* was called, no thread listens, nor opens a socket after that, although  *)
(* start and stop() share no lock.                                         *)
StopFreesPorts ==
    \A who \in {"caller", "server"} :
        stop[who] = "done" =>
            serverSocket # "open" /\ picServerSocket # "open" /\ ~running

(* Server.java: "The server will close soon after this function is         *)
(* called".  Once stop() has come to its end, run by whichever thread and  *)
(* at whatever moment, both threads end: one that waits in accept, one     *)
(* that waits for a line, and one that accepts a client in the middle of   *)
(* stop(), as soon as that client leaves.  (stop() need not come to its    *)
(* end: see the README for the null fields it may meet.)                   *)
StopEnds ==
    (\E who \in {"caller", "server"} : stop[who] = "done")
        ~> (server = "ended" /\ picture = "ended")

----------------------------------------------------------------------------
(* Why: the inductive invariant.                                           *)

(* An answer is the greeting, or the one to the line that was sent; a line *)
(* at which the stand-in stops has none.                                   *)
AnswerInv ==
    \/ told \in {NoLine, "CONN_OK"}
    \/ ~StopsItself(sent) /\ told = AnswerTo(sent)

(* A socket that is there was opened by a thread that does not come back   *)
(* to where it opened it; what stop() has passed is closed.                *)
SocketInv ==
    /\ server \in {"start", "startPicture"} => picture = "none"
    /\ serverSocket # "null" => server # "start"
    /\ picServerSocket # "null" => picture \notin {"none", "start"}
    /\ \A who \in {"caller", "server"} :
         /\ stop[who] \in {"picClient", "picIn", "picOut", "picSocket", "flag",
                           "done"} =>
                serverSocket = "closed"
         /\ stop[who] \in {"flag", "done"} => picServerSocket = "closed"
         /\ stop[who] = "done" => ~running

IInv == AnswerInv /\ SocketInv
=============================================================================
