----------------------- MODULE RobotServerProperties -----------------------
(***************************************************************************)
(* What must hold of the server, and one sentence of the repository that   *)
(* does not.                                                               *)
(***************************************************************************)
EXTENDS RobotServer

----------------------------------------------------------------------------
(* Safety.                                                                 *)

(* A picture is taken and sent only to a client that asked for one on the  *)
(* connection it goes to.  img_task acts on a cmd buffer that outlives a   *)
(* request and ignores the result of read_msg, so this rests on where the  *)
(* buffer is cleared and on the flag never rising again in the loop.       *)
PictureOnlyOnRequest ==
    Running /\ imgPc \in {"snap", "send"} => imgRequest = "PICTURE"

(* Every way out of the image thread.  Its loop ends only once the flag is *)
(* down and the session is ending, never under a live session.  What takes *)
(* the camera from a live session is a port that cannot be had, an accept  *)
(* that fails, which closes the port, and a handshake that fails, which    *)
(* leaves the port open with no thread behind it.  Such a port is there to *)
(* stay: no session of this process has an image loop again.               *)
PictureLoopTracksSession ==
    [][/\ imgPc # "exited" /\ imgPc' = "exited" =>
              \/ client_connected = 0 /\ should_quit
              \/ imgPc = "create" /\ listener' # "live"
              \/ imgPc = "accept" /\ listener' = "none"
              \/ imgPc = "handshake" /\ listener' = "orphan"
       /\ Running /\ listener = "orphan" /\ Running' =>
              listener' = "orphan" /\ imgPc' \in {"none", "create", "exited"}
      ]_vars

(* A client that was answered CONN_OK and has not asked for the connection *)
(* to be changed since is still connected in the server's eyes: nothing    *)
(* another thread, an earlier session or a picture does revokes it.        *)
ConfirmedMeansConnected ==
    Running /\ peer = "open" /\ confirmed /\ sent \notin {"CONN", "DISCONN"} =>
        client_connected = 1 /\ sessPc \in {"read", "send"}

(* Every message the Java client can send after its CONN was confirmed     *)
(* gets the confirmation ProtocolCommands expects: the two tables and the  *)
(* two views of the connection agree.                                      *)
ConfirmedCommandsAccepted ==
    Running /\ peer = "open" /\ confirmed /\ reply # NoLine
        /\ sent \in ClientMessages \ {"CONN"} =>
        reply = messageConfirmation[sent]

(* The server implements the abstract link: driven and photographed only   *)
(* while connected, and not connected anew during a picture, although the  *)
(* two threads share the flag without a lock.                              *)
Link == INSTANCE RobotLink WITH
    Motions <- MotorCalls,
    up <- Running,
    conn <- (client_connected = 1),
    motion <- motion,
    pic <- (Running /\ imgPc \in {"reply", "snap", "send"})

ImplementsLink == Link!Spec

----------------------------------------------------------------------------
(* Why the safety properties hold: the inductive invariant.                *)

(* The accept loop and its two threads: they exist together, and the loop  *)
(* waits for the session first.                                            *)
ThreadsInv ==
    /\ mainPc \in {"start", "accept", "handshake"} =>
           sessPc = "none" /\ imgPc = "none"
    /\ mainPc = "joinSession" => sessPc # "none" /\ imgPc # "none"
    /\ mainPc = "joinImg" => sessPc = "exited" /\ imgPc # "none"
    /\ mainPc = "closing" => sessPc = "exited" /\ imgPc = "exited"

(* img_task is past its busy wait.                                         *)
PastSpin == imgPc \in {"check", "accept", "handshake", "read", "dispatch",
                       "reject", "reply", "snap", "send", "leave"}

(* Once the image thread has seen the flag up, the flag is down only in a  *)
(* session that is ending, so nobody raises it again under the loop.       *)
FlagInv ==
    /\ sessPc = "read" => ~should_quit
    /\ sessPc = "quit" => should_quit
    /\ PastSpin /\ client_connected = 0 =>
           should_quit /\ sessPc \in {"send", "quit", "exited"}
    /\ imgPc = "leave" => client_connected = 0

(* Port 2026 has a thread behind it exactly while img_task runs its loops. *)
PortInv == listener = "live" <=> imgPc = "spin" \/ PastSpin

(* A PICTURE that the cmd buffer keeps from an earlier request is harmless: *)
(* the flag is down by then, and stays so until the thread is gone.        *)
CmdInv ==
    /\ imgPc \in {"create", "spin"} => imgCmd = NoLine
    /\ imgPc \in {"check", "accept", "handshake", "read", "dispatch", "reject"}
         /\ imgCmd = "PICTURE" /\ client_connected = 1 =>
           imgPc = "dispatch" /\ imgRequest = "PICTURE"
    /\ imgPc \in {"reply", "snap", "send"} => imgRequest = "PICTURE"

(* The lock-step of the command connection.                                *)
LineInv ==
    /\ mainPc \in {"start", "accept", "handshake"} =>
           ~confirmed /\ sent = NoLine /\ reply = NoLine
    /\ sessPc = "send" => sent # NoLine /\ reply = NoLine
    /\ reply # NoLine => sent # NoLine

(* What the client believes and what the server knows.                     *)
Believes == confirmed /\ peer = "open"
Serving == sessPc \in {"read", "send"} /\ ~should_quit

ConfirmInv ==
    /\ Believes /\ Serving => client_connected = 1
    /\ Believes /\ sent \notin {"CONN", "DISCONN"} => Serving
    /\ peer = "open" /\ sent = "CONN"
         /\ (reply = "CONN_OK" \/ (sessPc = "send" /\ response = "CONN_OK")) =>
           Serving /\ client_connected = 1
    /\ Believes /\ sent \in ClientMessages \ {"CONN"} =>
           /\ reply # NoLine => reply = messageConfirmation[sent]
           /\ sessPc = "send" => response = messageConfirmation[sent]

(* The invariant from which the safety properties of the server follow.    *)
IInv == ThreadsInv /\ FlagInv /\ PortInv /\ CmdInv /\ LineInv /\ ConfirmInv

----------------------------------------------------------------------------
(* Liveness, of FairSpec.                                                  *)

(* A session that has a line to handle answers it, unless the client hangs *)
(* up or the process ends first.                                           *)
RequestAnswered ==
    (Running /\ sessPc = "read" /\ peer = "open" /\ Pending)
        ~> (~Running \/ peer # "open" \/ reply # NoLine)

(* When the session ends while a picture is being served, or just before   *)
(* the image loop looks at the flag, both threads end and the server goes  *)
(* back to accept.                                                         *)
DisconnDuringPictureRecovers ==
    (/\ Running /\ sessPc = "exited" /\ client_connected = 0
     /\ imgPc \in {"check", "dispatch", "reject", "reply", "snap", "send",
                   "leave", "exited"})
        ~> (~Running \/ mainPc = "accept")

----------------------------------------------------------------------------
(* What the repository says and the code does not do.                      *)

(* server.c: "We don't accept commands if there is no application-level    *)
(* connection".  So a wheel is driven only for a client that was answered  *)
(* CONN_OK in its session.                                                 *)
OnlyGreetedSessionsMove ==
    [][Running /\ motion' # motion => confirmed]_vars
=============================================================================
