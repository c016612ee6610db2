------------------------------ MODULE StandIn ------------------------------
(***************************************************************************)
(* The stand-in for the robot that the Java tests and Starter run: the     *)
(* thread of Server, which serves one client after another on the command  *)
(* port, the thread of its PictureServer, and stop(), which any thread may *)
(* run and which closes what the two of them use, without a lock.          *)
(*                                                                         *)
(* A stand-in is "good" or "bad", and in a test run or not.  Clients are   *)
(* lock-step, one at a time on each port; they may stay silent, close the  *)
(* connection, or break it off, which readLine reports by an exception.    *)
(***************************************************************************)
EXTENDS RobotProtocol

CONSTANTS
    ClientLines,    \* lines clients send on the command port
    ImgLines        \* and on the port of the pictures

ASSUME StandInLinesAssumption == ClientLines \cup ImgLines \subseteq Lines

VARIABLES
    serverType, testRun,
    (* the threads and who runs stop() *)
    server,         \* where the thread of Server is
    picture,        \* where the thread of PictureServer is; "none": no object
    stop,           \* where the caller of stopExecution, and where the thread
                    \*   of Server, is in stop()
    stopRequested, running,
    (* fields the threads and stop() share: "null", "open", "closed" *)
    serverSocket, clientSocket, picServerSocket, picClientSocket,
    in, out,        \* the reader and the writer: "null", or of the "current"
    picIn, picOut,  \*   connection, or of an "old" one
    (* the clients of the two ports *)
    peer, sent, told, picPeer, picSent, picTold

kindVars == <<serverType, testRun>>
flagVars == <<stopRequested, running>>
mainVars == <<server, serverSocket, clientSocket, in, out>>
picVars == <<picture, picServerSocket, picClientSocket, picIn, picOut>>
clientVars == <<peer, sent, told>>
picClientVars == <<picPeer, picSent, picTold>>
vars == <<kindVars, stop, flagVars, mainVars, picVars, clientVars, picClientVars>>

(* What the stand-in puts on the wire.                                     *)
badAnswer ==
    [PING |-> "PINGG", FWD |-> "FWD_KO", BKWD |-> "BKWD_KO",
     ROTATE_LEFT |-> "ROTATE_LEFT_KO", ROTATE_RIGHT |-> "ROTATE_RIGHT_KO",
     FRONT_L |-> "FRONT_L_KO", FRONT_R |-> "FRONT_R_KO",
     BCK_R |-> "BCK_R_KO", BCK_L |-> "BCK_L_KO", STOP |-> "STOPP"]
EmptyLine == "(empty)"

(* Mutant: a command is answered as by a good stand-in whatever its type.  *)
MutAnswerTo(line) ==
    IF line \notin ClientMessages THEN "CMD_ERR"
    ELSE IF line = "CONN" THEN EmptyLine
    ELSE messageConfirmation[line]

(* Mutant: a line that is no command is sent back.                         *)
MutAnswerToEchoes(line) ==
    IF line \notin ClientMessages THEN line
    ELSE IF line = "CONN" THEN EmptyLine
    ELSE IF serverType = "good" \/ line = "DISCONN" THEN messageConfirmation[line]
    ELSE badAnswer[line]

(* serveClients' switch, which has no case for conn.                       *)
AnswerTo(line) ==
    IF line \notin ClientMessages THEN "CMD_ERR"
    ELSE IF line = "CONN" THEN EmptyLine
    ELSE IF serverType = "good" \/ line = "DISCONN" THEN messageConfirmation[line]
    ELSE badAnswer[line]

PictureAnswerTo(line) ==
    IF line # "PICTURE" THEN "CMD_ERR"
    ELSE IF serverType = "good" THEN "PICTURE_OK" ELSE "PICTURE_KO"

TypeOK ==
    /\ serverType \in {"good", "bad"} /\ testRun \in BOOLEAN
    /\ server \in {"start", "startPicture", "loop", "accept", "accepted",
                   "opening", "hello", "read", "stopping", "ended"}
    /\ picture \in {"none", "start", "accept", "accepted", "opening", "read",
                    "sending", "ended"}
    /\ stop \in [{"caller", "server"} ->
           {"no", "client", "in", "out", "socket", "picClient", "picIn", "picOut",
            "picSocket", "flag", "done", "threw"}]
    /\ stopRequested \in BOOLEAN /\ running \in BOOLEAN
    /\ {serverSocket, clientSocket, picServerSocket, picClientSocket}
           \subseteq {"null", "open", "closed"}
    /\ {in, out, picIn, picOut} \subseteq {"null", "current", "old"}
    /\ {peer, picPeer} \subseteq {"none", "waiting", "open", "closed", "reset"}
    /\ sent \in ClientLines \cup {NoLine}
    /\ told \in Responses \cup {badAnswer[m] : m \in DOMAIN badAnswer}
                \cup {EmptyLine, NoLine}
    /\ picSent \in ImgLines \cup {NoLine}
    /\ picTold \in {"CMD_ERR", "PICTURE_OK", "PICTURE_KO", NoLine}

(* Starter makes a good stand-in, the tests make one of each type.         *)
Init ==
    /\ serverType \in {"good", "bad"} /\ testRun \in BOOLEAN
    /\ serverType = "bad" => testRun
    /\ server = "start" /\ picture = "none"
    /\ stop = [who \in {"caller", "server"} |-> "no"]
    /\ stopRequested = FALSE /\ running = TRUE
    /\ serverSocket = "null" /\ clientSocket = "null"
    /\ in = "null" /\ out = "null"
    /\ picServerSocket = "null" /\ picClientSocket = "null"
    /\ picIn = "null" /\ picOut = "null"
    /\ peer = "none" /\ sent = NoLine /\ told = NoLine
    /\ picPeer = "none" /\ picSent = NoLine /\ picTold = NoLine

----------------------------------------------------------------------------
(* The thread of Server: start, then serveClients.                         *)

ServerFrame == UNCHANGED <<kindVars, flagVars, picClientVars>>

(* What a step leaves alone of its own fields, unless it says otherwise.   *)
SocketsKept == UNCHANGED <<serverSocket, clientSocket, in, out>>

StartsServer ==
    /\ server = "start" /\ serverSocket' = "open" /\ server' = "startPicture"
    /\ UNCHANGED <<stop, clientSocket, in, out, picVars, clientVars>> /\ ServerFrame

(* The port is taken: start goes on, and accept is called on null.         *)
StartFails ==
    /\ server = "start" /\ server' = "ended"
    /\ UNCHANGED <<stop, picVars, clientVars>> /\ SocketsKept /\ ServerFrame

StartsPicture ==
    /\ server = "startPicture" /\ picture' = "start" /\ server' = "loop"
    /\ UNCHANGED <<stop, picServerSocket, picClientSocket, picIn, picOut,
                   clientVars>>
    /\ SocketsKept /\ ServerFrame

Loops ==
    /\ server = "loop"
    /\ server' = IF stopRequested THEN "ended" ELSE "accept"
    /\ UNCHANGED <<stop, picVars, clientVars>> /\ SocketsKept /\ ServerFrame

(* The streams stay those of the connection before, if there was one.      *)
Older(stream) == IF stream = "current" THEN "old" ELSE stream

Accepts ==
    /\ server = "accept" /\ serverSocket = "open" /\ peer = "waiting"
    /\ clientSocket' = "open" /\ peer' = "open" /\ server' = "accepted"
    /\ in' = Older(in) /\ out' = Older(out)
    /\ UNCHANGED <<stop, serverSocket, picVars, sent, told>> /\ ServerFrame

AcceptThrows ==
    /\ server = "accept" /\ serverSocket = "closed" /\ server' = "ended"
    /\ UNCHANGED <<stop, picVars, clientVars>> /\ SocketsKept /\ ServerFrame

OpensIn ==
    /\ server = "accepted" /\ clientSocket = "open"
    /\ in' = "current" /\ server' = "opening"
    /\ UNCHANGED <<stop, serverSocket, clientSocket, out, picVars, clientVars>>
    /\ ServerFrame

OpensOut ==
    /\ server = "opening" /\ clientSocket = "open"
    /\ out' = "current" /\ server' = "hello"
    /\ UNCHANGED <<stop, serverSocket, clientSocket, in, picVars, clientVars>>
    /\ ServerFrame

(* An IOException leaves serveClients and ends the thread; the sockets and *)
(* the picture thread are left to whoever calls stopExecution.             *)
ServerThrows ==
    /\ \/ server \in {"accepted", "opening", "hello", "read"}
            /\ clientSocket = "closed"
       \/ server \in {"hello", "read"} /\ peer = "reset"
    /\ server' = "ended"
    /\ UNCHANGED <<stop, picVars, clientVars>> /\ SocketsKept /\ ServerFrame

(* The line a client sent before it closed the connection is still read.   *)
Asked == sent # NoLine /\ told = NoLine
Reads == clientSocket = "open" /\ peer \in {"open", "closed"}

(* The answer, to a client that may have gone: the writer drops what it    *)
(* cannot send, and the next read may find the connection reset.           *)
Tells(text) ==
    IF peer = "open"
      THEN told' = text /\ UNCHANGED <<peer, sent>>
      ELSE told' = NoLine /\ sent' = NoLine /\ peer' \in {"closed", "reset"}

(* The first line is only logged: whatever it is, or if there is none      *)
(* because the client left, the answer is CONN_OK.                         *)
Greets ==
    /\ server = "hello" /\ Reads /\ (Asked \/ peer = "closed")
    /\ Tells("CONN_OK")
    /\ server' = "read"
    /\ UNCHANGED <<stop, picVars>> /\ SocketsKept /\ ServerFrame

(* A good stand-in in a test run stops at STOP, a bad one at DISCONN: the  *)
(* connection is closed before the answer is flushed.                      *)
StopsItself(line) ==
    \/ line = "STOP" /\ serverType = "good" /\ testRun
    \/ line = "DISCONN" /\ serverType = "bad"

Serves ==
    /\ server = "read" /\ Reads /\ Asked
    /\ IF StopsItself(sent)
         THEN /\ server' = "stopping" /\ stop' = [stop EXCEPT !["server"] = "client"]
              /\ UNCHANGED clientVars
         ELSE /\ server' = IF sent = "DISCONN" THEN "loop" ELSE "read"
              /\ Tells(AnswerTo(sent))
              /\ UNCHANGED stop
    /\ UNCHANGED picVars /\ SocketsKept /\ ServerFrame

(* The client closed the connection: readLine returns null.                *)
ClientLeft ==
    /\ server = "read" /\ Reads /\ peer = "closed" /\ ~Asked
    /\ server' = "loop"
    /\ UNCHANGED <<stop, picVars, clientVars>> /\ SocketsKept /\ ServerFrame

(* After STOP serveClients returns; after DISCONN it goes on with its      *)
(* loop; what stop() throws besides an IOException ends the thread.        *)
AfterStop ==
    /\ server = "stopping" /\ stop["server"] \in {"done", "threw"}
    /\ server' = IF stop["server"] = "done" /\ serverType = "bad"
                   THEN "loop" ELSE "ended"
    /\ UNCHANGED <<stop, picVars, clientVars>> /\ SocketsKept /\ ServerFrame

ServerStep ==
    \/ StartsServer \/ StartFails \/ StartsPicture \/ Loops
    \/ Accepts \/ AcceptThrows \/ OpensIn \/ OpensOut \/ ServerThrows
    \/ Greets \/ Serves \/ ClientLeft \/ AfterStop

----------------------------------------------------------------------------
(* The thread of PictureServer.                                            *)

PictureFrame == UNCHANGED <<kindVars, flagVars, stop, mainVars, clientVars>>

PictureStarts ==
    /\ picture = "start"
    /\ \/ picServerSocket' = "open" /\ picture' = "accept"
       \/ UNCHANGED picServerSocket /\ picture' = "ended"
    /\ UNCHANGED <<picClientSocket, picIn, picOut, picClientVars>> /\ PictureFrame

PictureAccepts ==
    /\ picture = "accept" /\ picServerSocket = "open" /\ picPeer = "waiting"
    /\ picClientSocket' = "open" /\ picPeer' = "open"
    /\ picIn' = Older(picIn) /\ picOut' = Older(picOut)
    /\ picture' = IF running THEN "accepted" ELSE "ended"
    /\ UNCHANGED <<picServerSocket, picSent, picTold>> /\ PictureFrame

PictureOpensIn ==
    /\ picture = "accepted" /\ picClientSocket = "open"
    /\ picIn' = "current" /\ picture' = "opening"
    /\ UNCHANGED <<picServerSocket, picClientSocket, picOut, picClientVars>>
    /\ PictureFrame

PictureOpensOut ==
    /\ picture = "opening" /\ picClientSocket = "open"
    /\ picOut' = "current" /\ picture' = "read"
    /\ UNCHANGED <<picServerSocket, picClientSocket, picIn, picClientVars>>
    /\ PictureFrame

(* The accept that the close of its socket interrupts is swallowed; what   *)
(* comes next ends the thread, by break or by the exception that the last  *)
(* client's socket, closed or null, throws.  So does any exception, and a  *)
(* client that closes the connection without a line (message is null).     *)
PictureEnds ==
    /\ \/ picture = "accept" /\ picServerSocket = "closed"
       \/ picture \in {"accepted", "opening", "read", "sending"}
            /\ picClientSocket = "closed"
       \/ picture = "read" /\ picPeer = "closed" /\ picSent = NoLine
       \/ picture = "read" /\ picPeer = "reset"
       \/ picture = "sending" /\ picPeer \in {"closed", "reset"}
    /\ picture' = "ended"
    /\ UNCHANGED <<picServerSocket, picClientSocket, picIn, picOut,
                   picClientVars>>
    /\ PictureFrame

(* The line may be one whose client has left; its answer then goes nowhere. *)
(* Only a good stand-in that was asked for a picture has one to send.      *)
PictureServes ==
    /\ picture = "read" /\ picClientSocket = "open"
    /\ picPeer \in {"open", "closed"} /\ picSent # NoLine
    /\ picTold' = IF picPeer = "open" THEN PictureAnswerTo(picSent) ELSE NoLine
    /\ IF picSent = "PICTURE" /\ serverType = "good"
         THEN picture' = "sending" /\ UNCHANGED picClientSocket
         ELSE picture' = "accept" /\ picClientSocket' = "closed"
    /\ UNCHANGED <<picServerSocket, picIn, picOut, picPeer, picSent>>
    /\ PictureFrame

(* The picture is written, or as much as fits before a client that left is *)
(* noticed.                                                                *)
PictureSends ==
    /\ picture = "sending" /\ picClientSocket = "open"
    /\ picPeer \in {"open", "closed"}
    /\ picClientSocket' = "closed" /\ picture' = "accept"
    /\ UNCHANGED <<picServerSocket, picIn, picOut, picClientVars>>
    /\ PictureFrame

PictureStep ==
    \/ PictureStarts \/ PictureAccepts \/ PictureOpensIn \/ PictureOpensOut
    \/ PictureEnds \/ PictureServes \/ PictureSends

----------------------------------------------------------------------------
(* stop(): each step looks at one field, and a null one ends it.           *)

AtStop(who, pc) == stop[who] = pc
GoesTo(who, pc) == stop' = [stop EXCEPT ![who] = pc]
Closed(socket) == IF socket = "null" THEN "null" ELSE "closed"
StopFrame ==
    UNCHANGED <<kindVars, server, in, out, picture, picIn, picOut, clientVars,
                picClientVars>>

(* Starter, when the user enters "stop", or a test that is over.           *)
StopExecution ==
    /\ AtStop("caller", "no") /\ GoesTo("caller", "client")
    /\ stopRequested' = TRUE
    /\ UNCHANGED <<running, serverSocket, clientSocket, picServerSocket,
                   picClientSocket>>
    /\ StopFrame

ClosesClient(who) ==
    /\ AtStop(who, "client")
    /\ clientSocket' = Closed(clientSocket)
    /\ GoesTo(who, IF clientSocket = "null" THEN "socket" ELSE "in")
    /\ UNCHANGED <<flagVars, serverSocket, picServerSocket, picClientSocket>>
    /\ StopFrame

(* A stream that is closed closes the socket it belongs to: that of the    *)
(* connection there is by now, which need not be the one ClosesClient      *)
(* closed, or of one that is over.  The close of a reader waits for a      *)
(* readLine that holds its lock: at "hello" and "read" the step is one     *)
(* taken before readLine is entered, and else it comes after the line.     *)
ClosedBy(stream, socket) == IF stream = "current" THEN Closed(socket) ELSE socket

ClosesIn(who) ==
    /\ AtStop(who, "in") /\ GoesTo(who, IF in = "null" THEN "threw" ELSE "out")
    /\ clientSocket' = ClosedBy(in, clientSocket)
    /\ UNCHANGED <<flagVars, serverSocket, picServerSocket, picClientSocket>>
    /\ StopFrame

ClosesOut(who) ==
    /\ AtStop(who, "out") /\ GoesTo(who, IF out = "null" THEN "threw" ELSE "socket")
    /\ clientSocket' = ClosedBy(out, clientSocket)
    /\ UNCHANGED <<flagVars, serverSocket, picServerSocket, picClientSocket>>
    /\ StopFrame

(* Mutant: the socket that is not there yet is passed over, as the client's *)
(* is.                                                                     *)
MutClosesServer(who) ==
    /\ AtStop(who, "socket")
    /\ serverSocket' = Closed(serverSocket)
    /\ GoesTo(who, "picClient")
    /\ UNCHANGED <<flagVars, clientSocket, picServerSocket, picClientSocket>>
    /\ StopFrame

ClosesServer(who) ==
    /\ AtStop(who, "socket")
    /\ serverSocket' = Closed(serverSocket)
    /\ GoesTo(who, IF serverSocket = "null" THEN "threw" ELSE "picClient")
    /\ UNCHANGED <<flagVars, clientSocket, picServerSocket, picClientSocket>>
    /\ StopFrame

(* PictureServer.stop.                                                     *)
ClosesPicClient(who) ==
    /\ AtStop(who, "picClient")
    /\ picClientSocket' = Closed(picClientSocket)
    /\ GoesTo(who, IF picture = "none" THEN "threw"
                   ELSE IF picClientSocket = "null" THEN "picSocket" ELSE "picIn")
    /\ UNCHANGED <<flagVars, serverSocket, clientSocket, picServerSocket>>
    /\ StopFrame

ClosesPicIn(who) ==
    /\ AtStop(who, "picIn")
    /\ GoesTo(who, IF picIn = "null" THEN "threw" ELSE "picOut")
    /\ picClientSocket' = ClosedBy(picIn, picClientSocket)
    /\ UNCHANGED <<flagVars, serverSocket, clientSocket, picServerSocket>>
    /\ StopFrame

ClosesPicOut(who) ==
    /\ AtStop(who, "picOut")
    /\ GoesTo(who, IF picOut = "null" THEN "threw" ELSE "picSocket")
    /\ picClientSocket' = ClosedBy(picOut, picClientSocket)
    /\ UNCHANGED <<flagVars, serverSocket, clientSocket, picServerSocket>>
    /\ StopFrame

(* Mutant: the flag is cleared, and the socket accept waits on left open.  *)
MutClosesPicServer(who) ==
    /\ AtStop(who, "picSocket")
    /\ GoesTo(who, IF picServerSocket = "null" THEN "threw" ELSE "flag")
    /\ UNCHANGED <<flagVars, serverSocket, clientSocket, picServerSocket,
                   picClientSocket>>
    /\ StopFrame

ClosesPicServer(who) ==
    /\ AtStop(who, "picSocket")
    /\ picServerSocket' = Closed(picServerSocket)
    /\ GoesTo(who, IF picServerSocket = "null" THEN "threw" ELSE "flag")
    /\ UNCHANGED <<flagVars, serverSocket, clientSocket, picClientSocket>>
    /\ StopFrame

ClearsRunning(who) ==
    /\ AtStop(who, "flag") /\ GoesTo(who, "done") /\ running' = FALSE
    /\ UNCHANGED <<stopRequested, serverSocket, clientSocket, picServerSocket,
                   picClientSocket>>
    /\ StopFrame

StopStep(who) ==
    \/ ClosesClient(who) \/ ClosesIn(who) \/ ClosesOut(who)
    \/ ClosesServer(who)
    \/ ClosesPicClient(who) \/ ClosesPicIn(who) \/ ClosesPicOut(who)
    \/ ClosesPicServer(who) \/ ClearsRunning(who)

----------------------------------------------------------------------------
(* The clients.                                                            *)

ClientFrame == UNCHANGED <<kindVars, stop, flagVars, mainVars, picVars>>

(* The next one comes when the stand-in is through with the last.          *)
Connects ==
    /\ serverSocket = "open" /\ server \in {"loop", "accept"}
    /\ peer \in {"none", "closed", "reset"} /\ peer' = "waiting"
    /\ sent' = NoLine /\ told' = NoLine
    /\ UNCHANGED picClientVars /\ ClientFrame

(* A line that is not to be read by any thread has no effect and is left   *)
(* out.                                                                    *)
ToBeRead == server \in {"accepted", "opening", "hello", "read"}
PicToBeRead == picture \in {"accepted", "opening", "read"}

Sends(m) ==
    /\ peer = "open" /\ ToBeRead
    /\ sent = NoLine \/ told # NoLine
    /\ sent' = m /\ told' = NoLine
    /\ UNCHANGED <<peer, picClientVars>> /\ ClientFrame

(* A line that is on its way arrives before the end of a connection that   *)
(* is closed, and is lost with one that is broken off.                     *)
Leaves(how) ==
    /\ peer = "open" /\ peer' = how
    /\ sent' = IF how = "closed" /\ Asked /\ ToBeRead THEN sent ELSE NoLine
    /\ told' = NoLine
    /\ UNCHANGED picClientVars /\ ClientFrame

PicConnects ==
    /\ picServerSocket = "open" /\ picture = "accept"
    /\ picPeer \in {"none", "closed", "reset"}
    /\ picPeer' = "waiting" /\ picSent' = NoLine /\ picTold' = NoLine
    /\ UNCHANGED clientVars /\ ClientFrame

PicSends(m) ==
    /\ picPeer = "open" /\ picSent = NoLine /\ PicToBeRead
    /\ picSent' = m
    /\ UNCHANGED <<picPeer, picTold, clientVars>> /\ ClientFrame

PicLeaves(how) ==
    /\ picPeer = "open" /\ picPeer' = how
    /\ picSent' = IF how = "closed" /\ PicToBeRead THEN picSent ELSE NoLine
    /\ picTold' = NoLine
    /\ UNCHANGED clientVars /\ ClientFrame

----------------------------------------------------------------------------
Next ==
    \/ ServerStep \/ PictureStep
    \/ StopExecution \/ \E who \in {"caller", "server"} : StopStep(who)
    \/ Connects \/ \E m \in ClientLines : Sends(m)
    \/ \E how \in {"closed", "reset"} : Leaves(how)
    \/ PicConnects \/ \E m \in ImgLines : PicSends(m)
    \/ \E how \in {"closed", "reset"} : PicLeaves(how)

Spec == Init /\ [][Next]_vars

(* The threads run, also where that of Server is in stop(), and a client   *)
(* does not stay connected for ever.  Nothing is asked of the caller of    *)
(* stopExecution.                                                          *)
FairSpec ==
    /\ Spec
    /\ WF_vars(ServerStep) /\ WF_vars(PictureStep) /\ WF_vars(StopStep("server"))
    /\ WF_vars(Leaves("closed")) /\ WF_vars(PicLeaves("closed"))
=============================================================================
