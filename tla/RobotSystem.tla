---------------------------- MODULE RobotSystem ----------------------------
(***************************************************************************)
(* The window and the robot together: RobotClient whose device is          *)
(* RobotServer, and RobotServer whose client is the window, joined by the  *)
(* command connection; and the window's PictureWorker on the other port.   *)
(*                                                                         *)
(* The window is the only client of the command port.  A step of this      *)
(* module is a step of one of the two programs, or one that both take part *)
(* in: a line or an answer on its way, a connection opened or ended.  What *)
(* one end has sent has arrived at the other; the delay is in when it is   *)
(* read.                                                                   *)
(***************************************************************************)
EXTENDS RobotProtocol

CONSTANTS
    Keys,                   \* the arrow keys the user has
    Users,                  \* bound: what users there are, see May
    MaxFaults               \* bound: failures of the robot and of the links

ASSUME KeysAssumption == Keys \subseteq {"up", "down", "left", "right"}
ASSUME UsersAssumption ==
    Users \subseteq {"drives", "photographs", "leaves", "all"}
ASSUME FaultsAssumption == MaxFaults \in Nat

VARIABLES
    (* RobotClient *)
    fx, pressed, newInstruction, lastCommand, justDisconnected, label,
    wk, connected, running, mutex, isConnected, isMoving, tries,
    conn, lines, replies, accepted, robotMotion,
    (* RobotServer *)
    status, mainPc, backlog, sessPc, client_connected, response, should_quit,
    peer, sent, reply, confirmed, imgPc, listener, imgBacklog, imgCmd, picFile,
    imgPeer, imgRequest, motion,
    (* the run *)
    user,                   \* one of Users
    faults                  \* failures so far

windowVars == <<fx, pressed, newInstruction, lastCommand, justDisconnected,
                label, wk, connected, running, mutex, isConnected, isMoving,
                tries, conn, lines, replies, accepted, robotMotion>>
serverVars == <<status, mainPc, backlog, sessPc, client_connected, response,
                should_quit, peer, sent, reply, confirmed, imgPc, listener,
                imgBacklog, imgCmd, picFile, imgPeer, imgRequest, motion>>
runVars == <<user, faults>>
vars == <<windowVars, serverVars, runVars>>

C == INSTANCE RobotClient
S == INSTANCE RobotServer WITH
         ClientLines <- ClientMessages, ImgLines <- {"PICTURE"},
         MaxBacklog <- 1, MaxImgBacklog <- 1

Init ==
    /\ C!Init /\ S!Init
    /\ user \in Users /\ faults = 0

(* Bounds: a user of one kind only presses keys, takes pictures or closes  *)
(* the window, and meets the failures that concern it; "all" has no bounds *)
(* and is what the proofs are for.                                         *)
May(what) == user \in {what, "all"}

(* The command connection stands, from accept to the end of either side.   *)
Established == S!Running /\ peer = "open"

(* The window's new connection is in the hands of the kernel or of the     *)
(* accept loop.  (ConnectRequests waits for the old one to be gone.)       *)
Awaited == S!Running /\ (backlog > 0 \/ peer = "open")

----------------------------------------------------------------------------
(* Steps of one program alone.                                             *)

UserActs ==
    /\ C!UserStep
    /\ running' # running => May("leaves")
    /\ pressed' # pressed \/ newInstruction' # newInstruction => May("drives")

WindowAlone ==
    /\ \/ UserActs
       \/ C!FrameConnected \/ C!FrameDisconnected \/ C!FramePasses
       \/ C!ConnectNotifies \/ C!DisconnectDone \/ C!CloseStep
       \/ C!WorkerLoops \/ C!WorkerChecks \/ C!WorkerEnters
       \/ C!WorkerWakes \/ C!WorkerTests \/ C!WorkerSlept
    /\ UNCHANGED <<serverVars, runVars>>

Server(A) == A /\ UNCHANGED <<windowVars, runVars>>

AcceptLoop ==
    \/ S!MainStart \/ S!MainAccept \/ S!MainHandshake
    \/ S!MainJoinSession \/ S!MainJoinImg

Session ==
    \/ S!SessionDisconnErr \/ S!SessionRejected \/ S!SessionConn
    \/ S!SessionConnErr \/ S!SessionDisconn \/ S!SessionCommand
    \/ S!SessionLost \/ S!SessionQuits
    \/ ~Established /\ S!SessionSends

ImageThread ==
    \/ S!ImgCreate \/ (listener # "none" /\ S!ImgCreateFails)
    \/ S!ImgSpin \/ S!ImgCheck
    \/ S!ImgHandshake \/ S!ImgRead \/ S!ImgReadFails \/ S!ImgDispatch
    \/ S!ImgReject \/ S!ImgReply \/ S!ImgSnaps \/ S!ImgSend \/ S!ImgLeave

(* The camera button starts a PictureWorker while the window is connected; *)
(* one at a time (mutexPicture) calls takePicture, which tests the         *)
(* client's flag, connects, asks and waits.                                *)
TakesPicture ==
    \/ /\ May("photographs") /\ connected /\ isConnected
       /\ imgBacklog = 0 /\ imgPeer # "open"
       /\ S!ImgClientConnects
    \/ S!ImgClientSends("PICTURE")

ServerAlone ==
    \/ Server(AcceptLoop)
    \/ Server(Session)
    \/ Server(ImageThread)
    \/ Server(S!ImgAccept)
    \/ Server(S!Restart)
    \/ Server(TakesPicture)

----------------------------------------------------------------------------
(* Lines and answers.                                                      *)

(* A call of Client writes its line, to nobody if the connection is gone.  *)
Writes(line) ==
    /\ IF conn = "open" THEN S!ClientSends(line) ELSE UNCHANGED serverVars
    /\ UNCHANGED runVars

WindowWrites ==
    \/ C!FrameSends /\ Writes(C!Wanted)
    \/ C!DisconnectSends /\ Writes("DISCONN")
    \/ C!WorkerPings /\ Writes("PING")

(* A call of Client reads its answer, or finds that none will come.        *)
WindowTakes ==
    /\ \/ C!CommandConfirmed \/ C!CommandFails
       \/ C!ConnectConfirmed \/ C!ConnectRefused
       \/ C!DisconnectConfirmed \/ C!DisconnectGivesUp
       \/ C!DisconnectFails \/ C!DisconnectThrows
       \/ C!WorkerReads
    /\ IF conn = "open" THEN S!ClientReceives ELSE UNCHANGED serverVars
    /\ UNCHANGED runVars

(* The session's answer is the answer of the window's device.              *)
ServerAnswers ==
    /\ Established
    /\ S!SessionSends /\ C!DeviceAnswers(response)
    /\ UNCHANGED runVars

----------------------------------------------------------------------------
(* Connections.                                                            *)

(* createSocket: the kernel of a listening robot completes it, whether or  *)
(* not the program accepts.                                                *)
ConnectRequests ==
    /\ C!ConnectStarts /\ ~Established
    /\ IF S!Running /\ mainPc # "start"
         THEN S!ClientConnects
         ELSE UNCHANGED serverVars
    /\ UNCHANGED runVars

(* startHandshake returns once the accept loop has done its half, and      *)
(* connect sends CONN.                                                     *)
ConnectGoesThrough ==
    /\ Established
    /\ C!ConnectSends /\ S!ClientSends("CONN")
    /\ UNCHANGED runVars

(* It throws when the robot does not listen, or has gone meanwhile.        *)
ConnectGivesUp == ~Awaited /\ C!ConnectFails /\ UNCHANGED <<serverVars, runVars>>

(* The window closed its end of the connection.                            *)
CloseArrives == conn = "shut" /\ fx # "connecting" /\ Server(S!ClientCloses)

(* The robot's end goes, and the window can see it.                        *)
DeviceLeaves == IF conn = "open" THEN C!DeviceGoes ELSE UNCHANGED windowVars

(* The accept loop has joined both threads.                                *)
ServerCloses == S!MainClose /\ DeviceLeaves /\ UNCHANGED runVars

----------------------------------------------------------------------------
(* Failures.                                                               *)

Fault == faults < MaxFaults /\ faults' = faults + 1 /\ UNCHANGED user

ServerEnds ==
    /\ Fault
    /\ \/ /\ May("drives")
          /\ \/ S!MainStartFails \/ S!MainAcceptError \/ S!MainHandshakeFails
             \/ S!Killed
       \/ /\ May("photographs")
          /\ S!ImgTlsSetupFails \/ S!ImgSnapFaults
    /\ DeviceLeaves

(* The image thread fails alone, or loses its client, and the rest of the  *)
(* robot goes on.                                                          *)
PictureFails ==
    /\ Fault /\ May("photographs")
    /\ \/ S!ImgCreateFails \/ S!ImgAcceptError \/ S!ImgHandshakeFails
       \/ S!ImgSnapFails \/ S!ImgClientCloses
    /\ UNCHANGED windowVars

(* The process writes to a connection that has gone, and dies of it.       *)
ServerBreaks == S!BrokenPipe /\ DeviceLeaves /\ UNCHANGED runVars

(* The radio link fails, and both ends hear of it.                         *)
LinkBreaks ==
    /\ Fault /\ May("drives")
    /\ S!ClientCloses /\ conn # "shut" /\ DeviceLeaves

----------------------------------------------------------------------------
Next ==
    \/ WindowAlone \/ ServerAlone
    \/ WindowWrites \/ WindowTakes \/ ServerAnswers
    \/ ConnectRequests \/ ConnectGoesThrough \/ ConnectGivesUp
    \/ CloseArrives \/ ServerCloses
    \/ ServerEnds \/ ServerBreaks \/ PictureFails \/ LinkBreaks

Spec == Init /\ [][Next]_vars

(* The robot's threads are scheduled, as in RobotServer, and a connect of  *)
(* the window ends once the robot has done its part.  Here the accept      *)
(* loop's handshake has a partner that does its own.                       *)
Fairness ==
    /\ WF_vars(Server(AcceptLoop) \/ ServerCloses)
    /\ WF_vars(Server(Session) \/ ServerAnswers)
    /\ WF_vars(Server(ImageThread))
    /\ WF_vars(Server(S!ImgAccept))
    /\ WF_vars(ConnectGoesThrough \/ ConnectGivesUp)

FairSpec == Spec /\ Fairness
=============================================================================
