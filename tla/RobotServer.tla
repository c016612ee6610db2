---------------------------- MODULE RobotServer ----------------------------
(***************************************************************************)
(* The robot's server process: the accept loop of server(), the command    *)
(* session thread (session_task) and the image thread (img_task), which    *)
(* share the global client_connected without a lock; the clients of the    *)
(* two ports; and the end and restart of the process.                      *)
(*                                                                         *)
(* One step of a thread is what it does between two accesses to state that *)
(* another thread or a client can see.  A client of the command port is    *)
(* lock-step, as Client.java and the tests are: it sends a line, then      *)
(* waits for the answer; it may stay silent or hang up at any time.        *)
(***************************************************************************)
EXTENDS RobotProtocol

CONSTANTS
    ClientLines,    \* lines clients send on the command connection
    ImgLines,       \* lines clients send on the image connection
    MaxBacklog,     \* bound: clients waiting to be accepted, command port
    MaxImgBacklog   \* bound: clients waiting to be accepted, image port

ASSUME ClientLinesAssumption == ClientLines \subseteq Lines
ASSUME ImgLinesAssumption == ImgLines \subseteq Lines
ASSUME BacklogAssumption == MaxBacklog \in Nat \ {0}
ASSUME ImgBacklogAssumption == MaxImgBacklog \in Nat \ {0}

VARIABLES
    (* the process and the accept loop of server() *)
    status,             \* "running", "exited" (by itself) or "killed"
    mainPc,             \* where server() is
    backlog,            \* connections the kernel holds for accept, port 2025
    (* the command session *)
    sessPc,             \* where session_task is
    client_connected,   \* the global flag
    response,           \* the answer to the line being handled
    should_quit,        \* the session ends once the answer is sent
    (* the command connection: the client's end *)
    peer,               \* "none", "open", "closed" (by the client)
    sent,               \* the line the client sent and awaits an answer to
    reply,              \* the answer that reached the client
    confirmed,          \* it was answered CONN_OK and has not ended since
    (* the image thread *)
    imgPc,              \* where img_task is
    listener,           \* socket of port 2026: "none", "live", or "orphan"
                        \*   (still open, but its thread has gone)
    imgBacklog,         \* connections the kernel holds for accept, port 2026
    imgCmd,             \* cmd, which survives from one request to the next
    picFile,            \* /home/pi/pic.jpg: "absent", or "stale" or "fresh"
                        \*   relative to the request being served
    (* the image connection: the client's end *)
    imgPeer,            \* "none", "open", "closed" (by the client)
    imgRequest,         \* the line this connection's client has sent
    (* the wheels *)
    motion              \* the motor function called last

sessVars == <<sessPc, client_connected, response, should_quit>>
connVars == <<peer, sent, reply, confirmed>>
imgVars == <<imgPc, listener, imgBacklog, imgCmd, picFile>>
imgConnVars == <<imgPeer, imgRequest>>
mainVars == <<status, mainPc, backlog>>
vars == <<mainVars, sessVars, connVars, imgVars, imgConnVars, motion>>

Running == status = "running"

TypeOK ==
    /\ status \in {"running", "exited", "killed"}
    /\ mainPc \in {"start", "accept", "handshake", "joinSession", "joinImg",
                   "closing"}
    /\ backlog \in 0 .. MaxBacklog
    /\ sessPc \in {"none", "read", "send", "quit", "exited"}
    /\ client_connected \in {0, 1}
    /\ response \in Responses \cup {NoLine}
    /\ should_quit \in BOOLEAN
    /\ peer \in {"none", "open", "closed"}
    /\ sent \in ClientLines \cup {NoLine}
    /\ reply \in Responses \cup {NoLine}
    /\ confirmed \in BOOLEAN
    /\ imgPc \in {"none", "create", "spin", "check", "accept", "handshake",
                  "read", "dispatch", "reject", "reply", "snap", "send",
                  "leave", "exited"}
    /\ listener \in {"none", "live", "orphan"}
    /\ imgBacklog \in 0 .. MaxImgBacklog
    /\ imgCmd \in ImgLines \cup {NoLine, Unknown}
    /\ picFile \in {"absent", "stale", "fresh"}
    /\ imgPeer \in {"none", "open", "closed"}
    /\ imgRequest \in ImgLines \cup {NoLine}
    /\ motion \in MotorCalls

Init ==
    /\ status = "running" /\ mainPc = "start" /\ backlog = 0
    /\ sessPc = "none" /\ client_connected = 0
    /\ response = NoLine /\ should_quit = FALSE
    /\ peer = "none" /\ sent = NoLine /\ reply = NoLine /\ confirmed = FALSE
    /\ imgPc = "none" /\ listener = "none" /\ imgBacklog = 0
    /\ imgCmd = NoLine /\ picFile = "absent"
    /\ imgPeer = "none" /\ imgRequest = NoLine
    /\ motion = "idle"

----------------------------------------------------------------------------
(* The end of the process.  The kernel closes its sockets; the motor board *)
(* keeps the PWM registers it was last given.                              *)

Ends(how) ==
    /\ status' = how
    /\ UNCHANGED <<mainPc, backlog, sessVars, connVars, imgVars, imgConnVars,
                   motion>>

----------------------------------------------------------------------------
(* server(): the accept loop.                                              *)

MainStart ==
    /\ Running /\ mainPc = "start"
    /\ mainPc' = "accept"
    /\ UNCHANGED <<status, backlog, sessVars, connVars, imgVars, imgConnVars,
                   motion>>

(* No socket, no motors, or no TLS context: server() returns or exits.     *)
MainStartFails == Running /\ mainPc = "start" /\ Ends("exited")

MainAccept ==
    /\ Running /\ mainPc = "accept" /\ backlog > 0
    /\ backlog' = backlog - 1
    /\ mainPc' = "handshake"
    /\ peer' = "open"
    /\ UNCHANGED <<status, sessVars, sent, reply, confirmed, imgVars,
                   imgConnVars, motion>>

(* accept fails: the loop goes on to a handshake on descriptor -1, which   *)
(* fails, and server() returns.                                            *)
MainAcceptError == Running /\ mainPc = "accept" /\ Ends("exited")

(* The handshake succeeds: both threads are created.                       *)
MainHandshake ==
    /\ Running /\ mainPc = "handshake"
    /\ mainPc' = "joinSession"
    /\ sessPc' = "read" /\ response' = NoLine /\ should_quit' = FALSE
    /\ imgPc' = "create" /\ imgCmd' = NoLine
    /\ UNCHANGED <<status, backlog, client_connected, connVars, listener,
                   imgBacklog, picFile, imgConnVars, motion>>

MainHandshakeFails == Running /\ mainPc = "handshake" /\ Ends("exited")

MainJoinSession ==
    /\ Running /\ mainPc = "joinSession" /\ sessPc = "exited"
    /\ mainPc' = "joinImg"
    /\ UNCHANGED <<status, backlog, sessVars, connVars, imgVars, imgConnVars,
                   motion>>

MainJoinImg ==
    /\ Running /\ mainPc = "joinImg" /\ imgPc = "exited"
    /\ mainPc' = "closing"
    /\ UNCHANGED <<status, backlog, sessVars, connVars, imgVars, imgConnVars,
                   motion>>

(* The command connection is shut down.  The flag keeps its value; the     *)
(* third call shuts down descriptor 0, the global img_server_sockfd that   *)
(* img_task's local variable hides, so nothing happens to port 2026.       *)
MainClose ==
    /\ Running /\ mainPc = "closing"
    /\ mainPc' = "accept"
    /\ sessPc' = "none" /\ imgPc' = "none"
    /\ peer' = "none" /\ sent' = NoLine /\ reply' = NoLine
    /\ confirmed' = FALSE
    /\ UNCHANGED <<status, backlog, client_connected, response, should_quit,
                   listener, imgBacklog, imgCmd, picFile, imgConnVars, motion>>

----------------------------------------------------------------------------
(* session_task: the command session.                                      *)

(* The client has sent a line and no answer has reached it.                *)
Pending == sent # NoLine /\ reply = NoLine

SessionReads == Running /\ sessPc = "read" /\ Pending

Answers(code, quits) ==
    /\ response' = put_response(code)
    /\ should_quit' = quits
    /\ sessPc' = "send"
    /\ UNCHANGED <<mainVars, connVars, imgVars, imgConnVars>>

(* The handling of a line while there is no application-level connection.  *)
SessionDisconnErr ==
    /\ SessionReads /\ client_connected = 0 /\ sent = "DISCONN"
    /\ Answers(DISCONN_ERR, FALSE)
    /\ UNCHANGED <<client_connected, motion>>

SessionRejected ==
    /\ SessionReads /\ client_connected = 0 /\ sent \notin {"DISCONN", "CONN"}
    /\ Answers(CMD_ERR, TRUE)
    /\ UNCHANGED <<client_connected, motion>>

(* Mutant: the flag is not raised.                                         *)
MutSessionConn ==
    /\ SessionReads /\ client_connected = 0 /\ sent = "CONN"
    /\ Answers(CONN_OK, FALSE)
    /\ UNCHANGED <<client_connected, motion>>

SessionConn ==
    /\ SessionReads /\ client_connected = 0 /\ sent = "CONN"
    /\ client_connected' = 1
    /\ Answers(CONN_OK, FALSE)
    /\ UNCHANGED motion

(* The handling of a line while there is one.                              *)
(* Mutant: a second CONN is counted instead of refused.                    *)
MutSessionConnErr ==
    /\ SessionReads /\ client_connected = 1 /\ sent = "CONN"
    /\ client_connected' = client_connected + 1
    /\ Answers(CONN_OK, FALSE)
    /\ UNCHANGED motion

SessionConnErr ==
    /\ SessionReads /\ client_connected = 1 /\ sent = "CONN"
    /\ Answers(CONN_ERR, TRUE)
    /\ UNCHANGED <<client_connected, motion>>

(* Mutant: DISCONN lowers the flag and lets the session go on.             *)
MutSessionDisconn ==
    /\ SessionReads /\ client_connected = 1 /\ sent = "DISCONN"
    /\ client_connected' = 0
    /\ Answers(DISCONN_OK, FALSE)
    /\ UNCHANGED motion

SessionDisconn ==
    /\ SessionReads /\ client_connected = 1 /\ sent = "DISCONN"
    /\ client_connected' = 0
    /\ Answers(DISCONN_OK, TRUE)
    /\ UNCHANGED motion

SessionCommand ==
    /\ SessionReads /\ client_connected = 1 /\ sent \notin {"DISCONN", "CONN"}
    /\ motion' = MotionAfter(sent, motion)
    /\ Answers(CodeOf(sent), FALSE)
    /\ UNCHANGED client_connected

(* The read fails: the client hung up.  The thread goes without a word to  *)
(* the flag, to the image thread or to the motors.                         *)
SessionLost ==
    /\ Running /\ sessPc = "read" /\ peer = "closed" /\ ~Pending
    /\ sessPc' = "exited"
    /\ UNCHANGED <<mainVars, client_connected, response, should_quit, connVars,
                   imgVars, imgConnVars, motion>>

(* Mutant: the session ends before it sends its last answer.               *)
MutSessionSends ==
    /\ Running /\ sessPc = "send"
    /\ IF peer = "open" /\ ~should_quit
         THEN reply' = response /\ UNCHANGED sent
         ELSE sent' = NoLine /\ UNCHANGED reply
    /\ response' = NoLine
    /\ sessPc' = IF should_quit THEN "quit" ELSE "read"
    /\ UNCHANGED <<mainVars, client_connected, should_quit, peer, confirmed,
                   imgVars, imgConnVars, motion>>

(* Mutant: the thread ends after any answer.                               *)
MutSessionSendsOnce ==
    /\ Running /\ sessPc = "send"
    /\ IF peer = "open"
         THEN reply' = response /\ UNCHANGED sent
         ELSE sent' = NoLine /\ UNCHANGED reply
    /\ response' = NoLine /\ sessPc' = "quit" /\ should_quit' = TRUE
    /\ UNCHANGED <<mainVars, client_connected, peer, confirmed, imgVars,
                   imgConnVars, motion>>

(* The answer is sent, and lost when the client has hung up.               *)
SessionSends ==
    /\ Running /\ sessPc = "send"
    /\ IF peer = "open"
         THEN reply' = response /\ UNCHANGED sent
         ELSE sent' = NoLine /\ UNCHANGED reply
    /\ response' = NoLine
    /\ sessPc' = IF should_quit THEN "quit" ELSE "read"
    /\ UNCHANGED <<mainVars, client_connected, should_quit, peer, confirmed,
                   imgVars, imgConnVars, motion>>

SessionQuits ==
    /\ Running /\ sessPc = "quit"
    /\ client_connected' = 0
    /\ sessPc' = "exited"
    /\ UNCHANGED <<mainVars, response, should_quit, connVars, imgVars,
                   imgConnVars, motion>>

SessionStep ==
    \/ SessionDisconnErr \/ SessionRejected \/ SessionConn
    \/ SessionConnErr \/ SessionDisconn \/ SessionCommand
    \/ SessionLost \/ SessionSends \/ SessionQuits

----------------------------------------------------------------------------
(* img_task: the image thread.                                             *)

ImgAt(pc) == Running /\ imgPc = pc

(* What an image step leaves alone unless it says otherwise.               *)
ImgFrame == UNCHANGED <<mainVars, sessVars, connVars, motion>>

ImgCreate ==
    /\ ImgAt("create") /\ listener = "none"
    /\ listener' = "live" /\ imgPc' = "spin"
    /\ UNCHANGED <<imgBacklog, imgCmd, picFile, imgConnVars>> /\ ImgFrame

(* The port cannot be bound: always so while a socket of it is left open.  *)
ImgCreateFails ==
    /\ ImgAt("create")
    /\ imgPc' = "exited"
    /\ UNCHANGED <<listener, imgBacklog, imgCmd, picFile, imgConnVars>>
    /\ ImgFrame

(* Mutant: the image thread does not wait for the connection.              *)
MutImgSpin ==
    /\ ImgAt("spin")
    /\ imgPc' = "check"
    /\ UNCHANGED <<listener, imgBacklog, imgCmd, picFile, imgConnVars>>
    /\ ImgFrame

(* while (client_connected == 0);                                          *)
ImgSpin ==
    /\ ImgAt("spin") /\ client_connected # 0
    /\ imgPc' = "check"
    /\ UNCHANGED <<listener, imgBacklog, imgCmd, picFile, imgConnVars>>
    /\ ImgFrame

(* while (client_connected == 1)                                           *)
ImgCheck ==
    /\ ImgAt("check")
    /\ imgPc' = IF client_connected = 1 THEN "accept" ELSE "leave"
    /\ UNCHANGED <<listener, imgBacklog, imgCmd, picFile, imgConnVars>>
    /\ ImgFrame

ImgAccept ==
    /\ ImgAt("accept") /\ imgBacklog > 0
    /\ imgBacklog' = imgBacklog - 1
    /\ imgPeer' = "open" /\ imgRequest' = NoLine
    /\ imgPc' = "handshake"
    /\ UNCHANGED <<listener, imgCmd, picFile>> /\ ImgFrame

(* Mutant: a failure of the image port is made to end the connection.      *)
MutImgAcceptError ==
    /\ ImgAt("accept")
    /\ listener' = "none" /\ imgBacklog' = 0
    /\ imgPc' = "exited" /\ client_connected' = 0
    /\ UNCHANGED <<imgCmd, picFile, imgConnVars, mainVars, sessPc, response,
                   should_quit, connVars, motion>>

ImgAcceptError ==
    /\ ImgAt("accept")
    /\ listener' = "none" /\ imgBacklog' = 0
    /\ imgPc' = "exited"
    /\ UNCHANGED <<imgCmd, picFile, imgConnVars>> /\ ImgFrame

(* create_context or configure_context calls exit().                       *)
ImgTlsSetupFails == ImgAt("handshake") /\ Ends("exited")

ImgHandshake ==
    /\ ImgAt("handshake")
    /\ imgPc' = "read"
    /\ UNCHANGED <<listener, imgBacklog, imgCmd, picFile, imgConnVars>>
    /\ ImgFrame

(* The thread exits and leaves both of its sockets open.                   *)
ImgHandshakeFails ==
    /\ ImgAt("handshake")
    /\ listener' = "orphan" /\ imgPc' = "exited"
    /\ UNCHANGED <<imgBacklog, imgCmd, picFile, imgConnVars>> /\ ImgFrame

ImgRead ==
    /\ ImgAt("read") /\ imgRequest # NoLine
    /\ imgCmd' = imgRequest
    /\ imgPc' = "dispatch"
    /\ UNCHANGED <<listener, imgBacklog, picFile, imgConnVars>> /\ ImgFrame

(* The client hung up before its line: the result of read_msg is ignored,  *)
(* and cmd is whatever it was, or a mixture of that and of what came.  (A  *)
(* line that lacks nothing but its end is used as if it had been read.)    *)
ImgReadFails ==
    /\ ImgAt("read") /\ imgRequest = NoLine /\ imgPeer = "closed"
    /\ imgPc' = "dispatch"
    /\ imgCmd' \in {imgCmd, Unknown}
    /\ UNCHANGED <<listener, imgBacklog, picFile, imgConnVars>> /\ ImgFrame

(* Mutant: the flag is not looked at again once the request is read.       *)
MutImgDispatch ==
    /\ ImgAt("dispatch")
    /\ imgPc' = IF imgCmd = "PICTURE" THEN "reply" ELSE "reject"
    /\ UNCHANGED <<listener, imgBacklog, imgCmd, picFile, imgConnVars>>
    /\ ImgFrame

ImgDispatch ==
    /\ ImgAt("dispatch")
    /\ imgPc' = IF imgCmd = "PICTURE" /\ client_connected = 1
                  THEN "reply" ELSE "reject"
    /\ UNCHANGED <<listener, imgBacklog, imgCmd, picFile, imgConnVars>>
    /\ ImgFrame

(* Mutant: continue goes back to accept without the loop's test.           *)
MutImgReject ==
    /\ ImgAt("reject")
    /\ imgPeer' = "none" /\ imgRequest' = NoLine
    /\ imgPc' = "accept"
    /\ UNCHANGED <<listener, imgBacklog, imgCmd, picFile>> /\ ImgFrame

(* PICTURE_ERR, shutdown and continue: cmd is not cleared on this path.    *)
ImgReject ==
    /\ ImgAt("reject")
    /\ imgPeer' = "none" /\ imgRequest' = NoLine
    /\ imgPc' = "check"
    /\ UNCHANGED <<listener, imgBacklog, imgCmd, picFile>> /\ ImgFrame

ImgReply ==
    /\ ImgAt("reply")
    /\ imgPc' = "snap"
    /\ UNCHANGED <<listener, imgBacklog, imgCmd, picFile, imgConnVars>>
    /\ ImgFrame

ImgSnaps ==
    /\ ImgAt("snap")
    /\ picFile' = "fresh" /\ imgPc' = "send"
    /\ UNCHANGED <<listener, imgBacklog, imgCmd, imgConnVars>> /\ ImgFrame

(* The camera fails; the result of camSnap is ignored.  With no file from  *)
(* an earlier picture fopen returns NULL and fseek on it faults.           *)
ImgSnapFails ==
    /\ ImgAt("snap") /\ picFile # "absent"
    /\ imgPc' = "send"
    /\ UNCHANGED <<listener, imgBacklog, imgCmd, picFile, imgConnVars>>
    /\ ImgFrame

ImgSnapFaults == ImgAt("snap") /\ picFile = "absent" /\ Ends("killed")

(* Mutant: cmd is not cleared after a picture.                             *)
MutImgSend ==
    /\ ImgAt("send")
    /\ picFile' = "stale"
    /\ imgPeer' = "none" /\ imgRequest' = NoLine
    /\ imgPc' = "check"
    /\ UNCHANGED <<listener, imgBacklog, imgCmd>> /\ ImgFrame

ImgSend ==
    /\ ImgAt("send")
    /\ imgCmd' = NoLine /\ picFile' = "stale"
    /\ imgPeer' = "none" /\ imgRequest' = NoLine
    /\ imgPc' = "check"
    /\ UNCHANGED <<listener, imgBacklog>> /\ ImgFrame

(* Both sockets are shut down and the listening one is closed, with the    *)
(* connections the kernel held for it.                                     *)
ImgLeave ==
    /\ ImgAt("leave")
    /\ listener' = "none" /\ imgBacklog' = 0
    /\ imgPc' = "exited"
    /\ UNCHANGED <<imgCmd, picFile, imgConnVars>> /\ ImgFrame

ImgStep ==
    \/ ImgCreate \/ ImgCreateFails \/ ImgSpin \/ ImgCheck
    \/ ImgAccept \/ ImgAcceptError
    \/ ImgHandshake \/ ImgHandshakeFails
    \/ ImgRead \/ ImgReadFails \/ ImgDispatch
    \/ ImgReject \/ ImgReply \/ ImgSnaps \/ ImgSnapFails \/ ImgSend \/ ImgLeave

----------------------------------------------------------------------------
(* A write to a connection the other side has left.  It may still succeed  *)
(* and be lost; it may raise SIGPIPE, which the process neither ignores    *)
(* nor handles; or SSL_write returns -1, which send_msg takes for a count  *)
(* without sign, and its log runs off the message.                         *)
BrokenPipe ==
    /\ Running
    /\ \/ peer = "closed"
            /\ (sessPc = "send" \/ mainPc \in {"handshake", "closing"})
       \/ imgPeer = "closed"
            /\ imgPc \in {"handshake", "reject", "reply", "send"}
    /\ Ends("killed")

(* A signal ends the process, which handles none.                          *)
Killed == Running /\ Ends("killed")

(* The process is started again.  The board may have kept its power, and   *)
(* the picture file survives.                                              *)
Restart ==
    /\ ~Running
    /\ status' = "running" /\ mainPc' = "start" /\ backlog' = 0
    /\ sessPc' = "none" /\ client_connected' = 0
    /\ response' = NoLine /\ should_quit' = FALSE
    /\ peer' = "none" /\ sent' = NoLine /\ reply' = NoLine /\ confirmed' = FALSE
    /\ imgPc' = "none" /\ listener' = "none" /\ imgBacklog' = 0
    /\ imgCmd' = NoLine
    /\ picFile' = IF picFile = "absent" THEN "absent" ELSE "stale"
    /\ imgPeer' = "none" /\ imgRequest' = NoLine
    /\ motion' \in {motion, "idle"}

----------------------------------------------------------------------------
(* Clients of the command port.                                            *)

ClientConnects ==
    /\ Running /\ mainPc # "start" /\ backlog < MaxBacklog
    /\ backlog' = backlog + 1
    /\ UNCHANGED <<status, mainPc, sessVars, connVars, imgVars, imgConnVars,
                   motion>>

ClientFrame == UNCHANGED <<mainVars, sessVars, imgVars, imgConnVars, motion>>

(* Once the handshake is done the client may send its next line.           *)
ClientSends(line) ==
    /\ Running /\ mainPc \in {"joinSession", "joinImg"}
    /\ peer = "open" /\ sent = NoLine
    /\ sent' = line
    /\ UNCHANGED <<peer, reply, confirmed>> /\ ClientFrame

ClientReceives ==
    /\ Running /\ peer = "open" /\ reply # NoLine
    /\ confirmed' = CASE sent = "CONN" -> reply = "CONN_OK"
                      [] sent = "DISCONN" -> FALSE
                      [] OTHER -> confirmed
    /\ sent' = NoLine /\ reply' = NoLine
    /\ UNCHANGED peer /\ ClientFrame

ClientCloses ==
    /\ Running /\ peer = "open"
    /\ peer' = "closed"
    /\ UNCHANGED <<sent, reply, confirmed>> /\ ClientFrame

----------------------------------------------------------------------------
(* Clients of the image port.                                              *)

ImgClientFrame ==
    UNCHANGED <<mainVars, sessVars, connVars, imgPc, listener, imgCmd, picFile,
                motion>>

ImgClientConnects ==
    /\ Running /\ listener # "none" /\ imgBacklog < MaxImgBacklog
    /\ imgBacklog' = imgBacklog + 1
    /\ UNCHANGED imgConnVars /\ ImgClientFrame

ImgClientSends(line) ==
    /\ Running /\ imgPeer = "open" /\ imgPc = "read" /\ imgRequest = NoLine
    /\ imgRequest' = line
    /\ UNCHANGED <<imgBacklog, imgPeer>> /\ ImgClientFrame

ImgClientCloses ==
    /\ Running /\ imgPeer = "open"
    /\ imgPeer' = "closed"
    /\ UNCHANGED <<imgBacklog, imgRequest>> /\ ImgClientFrame

----------------------------------------------------------------------------
MainStep ==
    \/ MainStart \/ MainStartFails
    \/ MainAccept \/ MainAcceptError
    \/ MainHandshake \/ MainHandshakeFails
    \/ MainJoinSession \/ MainJoinImg \/ MainClose

ProcessStep ==
    BrokenPipe \/ Killed \/ ImgTlsSetupFails \/ ImgSnapFaults \/ Restart

ClientStep ==
    \/ ClientConnects
    \/ \E line \in ClientLines : ClientSends(line)
    \/ ClientReceives
    \/ ClientCloses
    \/ ImgClientConnects
    \/ \E line \in ImgLines : ImgClientSends(line)
    \/ ImgClientCloses

Next == MainStep \/ SessionStep \/ ImgStep \/ ProcessStep \/ ClientStep

(* The operating system schedules the three threads; nothing obliges a     *)
(* client to connect, to complete a handshake or to send anything, and     *)
(* nothing obliges a failure to happen.                                    *)
MainFairness ==
    /\ WF_vars(MainStart \/ MainStartFails)
    /\ WF_vars(MainAccept)
    /\ WF_vars(MainJoinSession \/ MainJoinImg \/ MainClose)

SessionFairness == WF_vars(SessionStep)

ImgFairness ==
    /\ WF_vars(ImgCreate \/ ImgCreateFails)
    /\ WF_vars(ImgAccept)
    /\ WF_vars(ImgSpin \/ ImgCheck \/ ImgRead \/ ImgReadFails \/ ImgDispatch
               \/ ImgReject \/ ImgReply \/ ImgSnaps \/ ImgSnapFails
               \/ ImgSnapFaults \/ ImgSend \/ ImgLeave)

Spec == Init /\ [][Next]_vars
FairSpec == Spec /\ MainFairness /\ SessionFairness /\ ImgFairness
=============================================================================
