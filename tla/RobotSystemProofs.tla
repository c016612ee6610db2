------------------------- MODULE RobotSystemProofs -------------------------
(***************************************************************************)
(* For every set of keys, every user and any number of failures: what      *)
(* RobotSystemProperties says of the window and the robot together.        *)
(*                                                                         *)
(* The two programs keep the theorems they have alone.  A step of the      *)
(* system is a step of the robot or none, so the invariant of RobotServer  *)
(* holds; from that, the invariant of RobotClient and JointInv it follows  *)
(* that the step is one of the window with a device, or none, so the       *)
(* invariant of RobotClient is carried over, and JointInv with it.         *)
(***************************************************************************)
EXTENDS RobotSystemProperties, TLAPS

Window == INSTANCE RobotClientProofs
Robot == INSTANCE RobotServerProofs WITH
             ClientLines <- ClientMessages, ImgLines <- {"PICTURE"},
             MaxBacklog <- 1, MaxImgBacklog <- 1

----------------------------------------------------------------------------
(* RobotProtocol is there once for each program, in RobotSystem and here.  *)
(* The tables are the same,                                                *)

LEMMA SameTables ==
    /\ C!messageConfirmation = messageConfirmation
    /\ Window!messageConfirmation = messageConfirmation
    /\ C!MotorCommands = MotorCommands
    /\ Window!MotorCommands = MotorCommands
    /\ C!None = "none" /\ Window!None = "none"
    /\ Window!NoLine = NoLine /\ Window!ClientMessages = ClientMessages
    /\ C!Wanted = Window!Wanted /\ C!MustSend = Window!MustSend
    /\ C!MaxTries = 5 /\ Window!MaxTries = 5
BY DEF C!messageConfirmation, Window!messageConfirmation, messageConfirmation,
   C!MotorCommands, Window!MotorCommands, MotorCommands, C!MotorCall,
   Window!MotorCall, MotorCall, C!None, Window!None, C!MustSend,
   Window!MustSend, C!Wanted, Window!Wanted, C!MaxTries, Window!MaxTries,
   NoLine, Window!NoLine, ClientMessages, Window!ClientMessages

LEMMA SameCodes ==
    /\ S!CONN_OK = CONN_OK /\ Robot!CONN_OK = CONN_OK
    /\ S!CONN_ERR = CONN_ERR /\ Robot!CONN_ERR = CONN_ERR
    /\ S!DISCONN_OK = DISCONN_OK /\ Robot!DISCONN_OK = DISCONN_OK
    /\ S!DISCONN_ERR = DISCONN_ERR /\ Robot!DISCONN_ERR = DISCONN_ERR
    /\ S!FWD_OK = FWD_OK /\ Robot!FWD_OK = FWD_OK
    /\ S!STOP_OK = STOP_OK /\ Robot!STOP_OK = STOP_OK
    /\ S!BKWD_OK = BKWD_OK /\ Robot!BKWD_OK = BKWD_OK
    /\ S!ROTATE_LEFT_OK = ROTATE_LEFT_OK /\ Robot!ROTATE_LEFT_OK = ROTATE_LEFT_OK
    /\ S!ROTATE_RIGHT_OK = ROTATE_RIGHT_OK /\ Robot!ROTATE_RIGHT_OK = ROTATE_RIGHT_OK
    /\ S!FRONT_L_OK = FRONT_L_OK /\ Robot!FRONT_L_OK = FRONT_L_OK
    /\ S!FRONT_R_OK = FRONT_R_OK /\ Robot!FRONT_R_OK = FRONT_R_OK
    /\ S!BCK_L_OK = BCK_L_OK /\ Robot!BCK_L_OK = BCK_L_OK
    /\ S!BCK_R_OK = BCK_R_OK /\ Robot!BCK_R_OK = BCK_R_OK
    /\ S!CMD_ERR = CMD_ERR /\ Robot!CMD_ERR = CMD_ERR
    /\ S!PING = PING /\ Robot!PING = PING
    /\ S!PICTURE_OK = PICTURE_OK /\ Robot!PICTURE_OK = PICTURE_OK
    /\ S!PICTURE_ERR = PICTURE_ERR /\ Robot!PICTURE_ERR = PICTURE_ERR
BY DEF CONN_OK, CONN_ERR, DISCONN_OK, DISCONN_ERR, FWD_OK, STOP_OK, BKWD_OK,
   ROTATE_LEFT_OK, ROTATE_RIGHT_OK, FRONT_L_OK, FRONT_R_OK, BCK_L_OK,
   BCK_R_OK, CMD_ERR, PING, PICTURE_OK, PICTURE_ERR, S!CONN_OK, S!CONN_ERR,
   S!DISCONN_OK, S!DISCONN_ERR, S!FWD_OK, S!STOP_OK, S!BKWD_OK,
   S!ROTATE_LEFT_OK, S!ROTATE_RIGHT_OK, S!FRONT_L_OK, S!FRONT_R_OK,
   S!BCK_L_OK, S!BCK_R_OK, S!CMD_ERR, S!PING, S!PICTURE_OK, S!PICTURE_ERR,
   Robot!CONN_OK, Robot!CONN_ERR, Robot!DISCONN_OK, Robot!DISCONN_ERR,
   Robot!FWD_OK, Robot!STOP_OK, Robot!BKWD_OK, Robot!ROTATE_LEFT_OK,
   Robot!ROTATE_RIGHT_OK, Robot!FRONT_L_OK, Robot!FRONT_R_OK, Robot!BCK_L_OK,
   Robot!BCK_R_OK, Robot!CMD_ERR, Robot!PING, Robot!PICTURE_OK,
   Robot!PICTURE_ERR

LEMMA SameLines ==
    /\ S!NoLine = NoLine /\ Robot!NoLine = NoLine
    /\ S!Unknown = Unknown /\ Robot!Unknown = Unknown
    /\ S!ClientMessages = ClientMessages /\ Robot!ClientMessages = ClientMessages
    /\ S!messageConfirmation = messageConfirmation
    /\ Robot!messageConfirmation = messageConfirmation
BY DEF NoLine, Unknown, ClientMessages, messageConfirmation, S!NoLine,
   S!Unknown, S!ClientMessages, S!messageConfirmation, Robot!NoLine,
   Robot!Unknown, Robot!ClientMessages, Robot!messageConfirmation

LEMMA SameMotions ==
    /\ S!MotorCommands = MotorCommands /\ Robot!MotorCommands = MotorCommands
    /\ S!MotorCalls = MotorCalls /\ Robot!MotorCalls = MotorCalls
    /\ \A cmd, m : S!MotionAfter(cmd, m) = MotionAfter(cmd, m)
    /\ \A cmd, m : Robot!MotionAfter(cmd, m) = MotionAfter(cmd, m)
BY DEF MotorCommands, MotorCalls, MotorCall, MotionAfter, S!MotorCommands,
   S!MotorCalls, S!MotorCall, S!MotionAfter, Robot!MotorCommands,
   Robot!MotorCalls, Robot!MotorCall, Robot!MotionAfter

LEMMA SameAnswers ==
    /\ S!Commands = Commands /\ Robot!Commands = Commands
    /\ S!Responses = Responses /\ Robot!Responses = Responses
    /\ \A code : S!put_response(code) = put_response(code)
    /\ \A code : Robot!put_response(code) = put_response(code)
    /\ \A cmd : S!CodeOf(cmd) = CodeOf(cmd) /\ Robot!CodeOf(cmd) = CodeOf(cmd)
BY SameCodes DEF Commands, Responses, ResponseCode, put_response, CodeOf,
   S!Commands, S!Responses, S!ResponseCode, S!put_response, S!CodeOf,
   Robot!Commands, Robot!Responses, Robot!ResponseCode, Robot!put_response,
   Robot!CodeOf

----------------------------------------------------------------------------
(* and so are the steps: of the window,                                    *)

LEMMA SameUserStep == C!UserStep <=> Window!UserStep
BY SameTables DEF C!UserStep, C!Chords, C!Presses, C!Releases,
   C!ConnectPressed, C!DisconnectPressed, C!CloseRequested, C!AlertClosed,
   C!uiVars, C!workerVars, C!clientVars, C!netVars, Window!UserStep,
   Window!Chords, Window!Presses, Window!Releases, Window!ConnectPressed,
   Window!DisconnectPressed, Window!CloseRequested, Window!AlertClosed,
   Window!uiVars, Window!workerVars, Window!clientVars, Window!netVars

LEMMA SameTimerStep == C!TimerStep <=> Window!TimerStep
BY SameTables DEF C!TimerStep, C!FrameConnected, C!FrameDisconnected,
   C!FramePasses, C!FrameSends, C!CommandConfirmed, C!CommandFails, C!Sends,
   C!Reads, C!Text, C!ReadsNull, C!ReadFails, C!uiVars, C!workerVars,
   C!clientVars, C!netVars, Window!TimerStep, Window!FrameConnected,
   Window!FrameDisconnected, Window!FramePasses, Window!FrameSends,
   Window!CommandConfirmed, Window!CommandFails, Window!Sends, Window!Reads,
   Window!Text, Window!ReadsNull, Window!ReadFails, Window!uiVars,
   Window!workerVars, Window!clientVars, Window!netVars

LEMMA SameConnectStep == C!ConnectStep <=> Window!ConnectStep
BY SameTables DEF C!ConnectStep, C!ConnectStarts, C!ConnectFails,
   C!ConnectSends, C!ConnectConfirmed, C!ConnectRefused, C!ConnectNotifies,
   C!Reads, C!Text, C!ReadsNull, C!ReadFails, C!Notifies, C!uiVars,
   C!workerVars, C!clientVars, C!netVars, Window!ConnectStep,
   Window!ConnectStarts, Window!ConnectFails, Window!ConnectSends,
   Window!ConnectConfirmed, Window!ConnectRefused, Window!ConnectNotifies,
   Window!Reads, Window!Text, Window!ReadsNull, Window!ReadFails,
   Window!Notifies, Window!uiVars, Window!workerVars, Window!clientVars,
   Window!netVars

LEMMA SameDisconnectStep == C!DisconnectStep <=> Window!DisconnectStep
BY SameTables DEF C!DisconnectStep, C!DisconnectSends, C!DisconnectConfirmed,
   C!DisconnectAgain, C!DisconnectGivesUp, C!DisconnectFails,
   C!DisconnectThrows, C!DisconnectDone, C!Sends, C!Reads, C!Text,
   C!ReadsNull, C!ReadFails, C!DisconnectReturns, C!uiVars, C!workerVars,
   C!clientVars, C!netVars, Window!DisconnectStep, Window!DisconnectSends,
   Window!DisconnectConfirmed, Window!DisconnectAgain,
   Window!DisconnectGivesUp, Window!DisconnectFails, Window!DisconnectThrows,
   Window!DisconnectDone, Window!Sends, Window!Reads, Window!Text,
   Window!ReadsNull, Window!ReadFails, Window!DisconnectReturns,
   Window!uiVars, Window!workerVars, Window!clientVars, Window!netVars

LEMMA SameCloseStep == C!CloseStep <=> Window!CloseStep
BY SameTables DEF C!CloseStep, C!CloseNotifies, C!CloseJoins,
   C!CloseNotConnected, C!Notifies, C!uiVars, C!workerVars, C!clientVars,
   C!netVars, Window!CloseStep, Window!CloseNotifies, Window!CloseJoins,
   Window!CloseNotConnected, Window!Notifies, Window!uiVars,
   Window!workerVars, Window!clientVars, Window!netVars

LEMMA SameWorkerStep == C!WorkerStep <=> Window!WorkerStep
BY SameTables DEF C!WorkerStep, C!WorkerReads, C!WorkerLoops, C!WorkerChecks,
   C!WorkerEnters, C!WorkerWakes, C!WorkerTests, C!WorkerSlept,
   C!WorkerPings, C!WorkerPinged, C!WorkerLost, C!WorkerFails,
   C!WorkerThrows, C!WorkerFrame, C!Sends, C!Reads, C!Text, C!ReadsNull,
   C!ReadFails, C!uiVars, C!workerVars, C!clientVars, C!netVars,
   Window!WorkerStep, Window!WorkerReads, Window!WorkerLoops,
   Window!WorkerChecks, Window!WorkerEnters, Window!WorkerWakes,
   Window!WorkerTests, Window!WorkerSlept, Window!WorkerPings,
   Window!WorkerPinged, Window!WorkerLost, Window!WorkerFails,
   Window!WorkerThrows, Window!WorkerFrame, Window!Sends, Window!Reads,
   Window!Text, Window!ReadsNull, Window!ReadFails, Window!uiVars,
   Window!workerVars, Window!clientVars, Window!netVars

(* and of the robot.                                                       *)

LEMMA SameMainStep == S!MainStep => Robot!MainStep
BY SameCodes, SameLines, SameMotions, SameAnswers DEF S!MainStep,
   S!MainStart, S!MainStartFails, S!MainAccept, S!MainAcceptError,
   S!MainHandshake, S!MainHandshakeFails, S!MainJoinSession, S!MainJoinImg,
   S!MainClose, S!Ends, S!Running, S!mainVars, S!sessVars, S!connVars,
   S!imgVars, S!imgConnVars, Robot!MainStep, Robot!MainStart,
   Robot!MainStartFails, Robot!MainAccept, Robot!MainAcceptError,
   Robot!MainHandshake, Robot!MainHandshakeFails, Robot!MainJoinSession,
   Robot!MainJoinImg, Robot!MainClose, Robot!Ends, Robot!Running,
   Robot!mainVars, Robot!sessVars, Robot!connVars, Robot!imgVars,
   Robot!imgConnVars

LEMMA SameSessionStep == S!SessionStep => Robot!SessionStep
BY SameCodes, SameLines, SameMotions, SameAnswers DEF S!SessionStep,
   S!SessionDisconnErr, S!SessionRejected, S!SessionConn, S!SessionConnErr,
   S!SessionDisconn, S!SessionCommand, S!SessionLost, S!SessionSends,
   S!SessionQuits, S!SessionReads, S!Pending, S!Answers, S!Running,
   S!mainVars, S!sessVars, S!connVars, S!imgVars, S!imgConnVars,
   Robot!SessionStep, Robot!SessionDisconnErr, Robot!SessionRejected,
   Robot!SessionConn, Robot!SessionConnErr, Robot!SessionDisconn,
   Robot!SessionCommand, Robot!SessionLost, Robot!SessionSends,
   Robot!SessionQuits, Robot!SessionReads, Robot!Pending, Robot!Answers,
   Robot!Running, Robot!mainVars, Robot!sessVars, Robot!connVars,
   Robot!imgVars, Robot!imgConnVars

LEMMA SameImgStep == S!ImgStep => Robot!ImgStep
BY SameCodes, SameLines, SameMotions, SameAnswers DEF S!ImgStep, S!ImgCreate,
   S!ImgCreateFails, S!ImgSpin, S!ImgCheck, S!ImgAccept, S!ImgAcceptError,
   S!ImgHandshake, S!ImgHandshakeFails, S!ImgRead, S!ImgReadFails,
   S!ImgDispatch, S!ImgReject, S!ImgReply, S!ImgSnaps, S!ImgSnapFails,
   S!ImgSend, S!ImgLeave, S!ImgAt, S!ImgFrame, S!Running, S!mainVars,
   S!sessVars, S!connVars, S!imgVars, S!imgConnVars, Robot!ImgStep,
   Robot!ImgCreate, Robot!ImgCreateFails, Robot!ImgSpin, Robot!ImgCheck,
   Robot!ImgAccept, Robot!ImgAcceptError, Robot!ImgHandshake,
   Robot!ImgHandshakeFails, Robot!ImgRead, Robot!ImgReadFails,
   Robot!ImgDispatch, Robot!ImgReject, Robot!ImgReply, Robot!ImgSnaps,
   Robot!ImgSnapFails, Robot!ImgSend, Robot!ImgLeave, Robot!ImgAt,
   Robot!ImgFrame, Robot!Running, Robot!mainVars, Robot!sessVars,
   Robot!connVars, Robot!imgVars, Robot!imgConnVars

LEMMA SameProcessStep == S!ProcessStep => Robot!ProcessStep
BY SameCodes, SameLines, SameMotions, SameAnswers DEF S!ProcessStep,
   S!BrokenPipe, S!Killed, S!ImgTlsSetupFails, S!ImgSnapFaults, S!Restart,
   S!Ends, S!ImgAt, S!Running, S!mainVars, S!sessVars, S!connVars, S!imgVars,
   S!imgConnVars, Robot!ProcessStep, Robot!BrokenPipe, Robot!Killed,
   Robot!ImgTlsSetupFails, Robot!ImgSnapFaults, Robot!Restart, Robot!Ends,
   Robot!ImgAt, Robot!Running, Robot!mainVars, Robot!sessVars,
   Robot!connVars, Robot!imgVars, Robot!imgConnVars

LEMMA SameClientStep == S!ClientStep => Robot!ClientStep
BY SameCodes, SameLines, SameMotions, SameAnswers DEF S!ClientStep,
   S!ClientConnects, S!ClientSends, S!ClientReceives, S!ClientCloses,
   S!ImgClientConnects, S!ImgClientSends, S!ImgClientCloses, S!ClientFrame,
   S!ImgClientFrame, S!Running, S!mainVars, S!sessVars, S!connVars,
   S!imgVars, S!imgConnVars, Robot!ClientStep, Robot!ClientConnects,
   Robot!ClientSends, Robot!ClientReceives, Robot!ClientCloses,
   Robot!ImgClientConnects, Robot!ImgClientSends, Robot!ImgClientCloses,
   Robot!ClientFrame, Robot!ImgClientFrame, Robot!Running, Robot!mainVars,
   Robot!sessVars, Robot!connVars, Robot!imgVars, Robot!imgConnVars

----------------------------------------------------------------------------
(* The invariant: that of the window, that of the robot, and that of both. *)

Inv ==
    /\ Window!TypeOK /\ Window!IInv
    /\ Robot!TypeOK /\ Robot!IInv
    /\ JointInv

(* The tables, as far as the proofs need them.                             *)
LEMMA Facts ==
    /\ NoLine \notin ClientMessages /\ NoLine \notin Responses
    /\ {"CONN", "DISCONN", "PING"} \subseteq ClientMessages \ MotorCommands
    /\ MotorCommands \subseteq ClientMessages
    /\ messageConfirmation["CONN"] = "CONN_OK"
    /\ put_response(CONN_OK) = "CONN_OK" /\ put_response(CONN_ERR) = "CONN_ERR"
    /\ ClientMessages \subseteq Lines /\ "PICTURE" \in Lines
    /\ "none" \notin MotorCommands
<1>1. NoLine \notin Responses
  <2>1. \A code : put_response(code) # NoLine
        BY DEF put_response, NoLine
  <2> QED BY <2>1 DEF Responses
<1>2. put_response(CONN_OK) = "CONN_OK" /\ put_response(CONN_ERR) = "CONN_ERR"
      BY DEF put_response, CONN_OK, CONN_ERR, DISCONN_OK, DISCONN_ERR, FWD_OK,
         STOP_OK, BKWD_OK, ROTATE_LEFT_OK, ROTATE_RIGHT_OK, FRONT_L_OK,
         FRONT_R_OK, BCK_L_OK, BCK_R_OK, PING, PICTURE_OK, PICTURE_ERR
<1>3. ClientMessages \subseteq Lines /\ "PICTURE" \in Lines
      BY DEF ClientMessages, messageConfirmation, Lines, Commands, ResponseCode
<1>4. /\ {"CONN", "DISCONN", "PING"} \subseteq ClientMessages \ MotorCommands
      /\ MotorCommands \subseteq ClientMessages
      /\ messageConfirmation["CONN"] = "CONN_OK"
      /\ NoLine \notin ClientMessages /\ "none" \notin MotorCommands
      BY DEF NoLine, ClientMessages, messageConfirmation, MotorCommands, MotorCall
<1> QED BY <1>1, <1>2, <1>3, <1>4

LEMMA ConfirmationsSaid ==
    \A m \in ClientMessages : messageConfirmation[m] # NoLine
<1>1. \A m \in ClientMessages : messageConfirmation[m] \in Window!Responses
      BY Window!TextsTyped, KeysAssumption, SameTables
<1>2. NoLine \notin Window!Responses
  <2>1. \A code : Window!put_response(code) # NoLine
        BY DEF Window!put_response, NoLine
  <2> QED BY <2>1 DEF Window!Responses
<1> QED BY <1>1, <1>2

LEMMA WantedIsCommand == C!Wanted \in MotorCommands \cup {"none"}
BY Window!WantedTyped, KeysAssumption, SameTables

LEMMA MustSendWanted == C!MustSend => C!Wanted \in MotorCommands
BY WantedIsCommand, SameTables DEF C!MustSend

LEMMA RobotAssumptions ==
    /\ ClientMessages \subseteq Robot!Lines /\ {"PICTURE"} \subseteq Robot!Lines
    /\ 1 \in Nat \ {0}
BY Facts, SameAnswers, SameLines DEF Lines, Robot!Lines

----------------------------------------------------------------------------
(* A step of the system is a step of the robot or none.                    *)

LEMMA WindowAloneFrame ==
    WindowAlone =>
        /\ UNCHANGED serverVars
        /\ UNCHANGED <<conn, lines, replies, accepted, robotMotion>>
        /\ fx' = fx \/ {fx, fx'} \cap {"connecting", "connectReply"} = {}
BY DEF WindowAlone, UserActs, C!UserStep, C!Presses, C!Releases, C!ConnectPressed,
   C!DisconnectPressed, C!CloseRequested, C!AlertClosed, C!FrameConnected,
   C!FrameDisconnected, C!FramePasses, C!ConnectNotifies, C!DisconnectDone,
   C!CloseStep, C!CloseNotifies, C!CloseJoins, C!CloseNotConnected,
   C!WorkerLoops, C!WorkerChecks, C!WorkerEnters, C!WorkerWakes, C!WorkerTests,
   C!WorkerSlept, C!WorkerFrame, C!uiVars, C!workerVars, C!clientVars, C!netVars

LEMMA RobotStep == Next => [Robot!Next]_(Robot!vars)
<1> SUFFICES ASSUME Next PROVE [Robot!Next]_(Robot!vars)
    OBVIOUS
<1>0. UNCHANGED serverVars => UNCHANGED Robot!vars
      BY DEF serverVars, Robot!vars, Robot!mainVars, Robot!sessVars,
             Robot!connVars, Robot!imgVars, Robot!imgConnVars
<1>1. \A line \in ClientMessages : S!ClientSends(line) => Robot!Next
      BY SameClientStep DEF S!ClientStep, Robot!Next
<1>2. S!ClientReceives \/ S!ClientConnects \/ S!ClientCloses => Robot!Next
      BY SameClientStep DEF S!ClientStep, Robot!Next
<1>3. CASE WindowAlone
      BY <1>3, <1>0, WindowAloneFrame
<1>4. CASE ServerAlone
  <2>1. CASE Server(AcceptLoop)
        BY <2>1, SameMainStep DEF Server, AcceptLoop, S!MainStep, Robot!Next
  <2>2. CASE Server(Session)
        BY <2>2, SameSessionStep DEF Server, Session, S!SessionStep, Robot!Next
  <2>3. CASE Server(ImageThread) \/ Server(S!ImgAccept)
        BY <2>3, SameImgStep DEF Server, ImageThread, S!ImgStep, Robot!Next
  <2>4. CASE Server(S!Restart)
        BY <2>4, SameProcessStep DEF Server, S!ProcessStep, Robot!Next
  <2>5. CASE Server(TakesPicture)
        BY <2>5, SameClientStep DEF Server, TakesPicture, S!ClientStep, Robot!Next
  <2> QED BY <1>4, <2>1, <2>2, <2>3, <2>4, <2>5 DEF ServerAlone
<1>5. CASE WindowWrites
  <2>1. \A line \in ClientMessages : Writes(line) => [Robot!Next]_(Robot!vars)
        BY <1>0, <1>1 DEF Writes
  <2> QED BY <1>5, <2>1, MustSendWanted, Facts DEF WindowWrites, C!FrameSends
<1>6. CASE WindowTakes
      BY <1>6, <1>0, <1>2 DEF WindowTakes
<1>7. CASE ServerAnswers
      BY <1>7, SameSessionStep DEF ServerAnswers, S!SessionStep, Robot!Next
<1>8. CASE ConnectRequests
      BY <1>8, <1>0, <1>2 DEF ConnectRequests
<1>9. CASE ConnectGoesThrough
      BY <1>9, <1>1, Facts DEF ConnectGoesThrough
<1>10. CASE ConnectGivesUp
      BY <1>10, <1>0 DEF ConnectGivesUp
<1>11. CASE CloseArrives
      BY <1>11, <1>2 DEF CloseArrives, Server
<1>12. CASE ServerCloses
      BY <1>12, SameMainStep DEF ServerCloses, S!MainStep, Robot!Next
<1>13. CASE ServerEnds
      BY <1>13, SameMainStep, SameProcessStep DEF ServerEnds, S!MainStep,
         S!ProcessStep, Robot!Next
<1>14. CASE ServerBreaks
      BY <1>14, SameProcessStep DEF ServerBreaks, S!ProcessStep, Robot!Next
<1>15. CASE PictureFails
      BY <1>15, SameImgStep, SameClientStep DEF PictureFails, S!ImgStep,
         S!ClientStep, Robot!Next
<1>16. CASE LinkBreaks
      BY <1>16, <1>2 DEF LinkBreaks
<1> QED BY <1>3, <1>4, <1>5, <1>6, <1>7, <1>8, <1>9, <1>10, <1>11, <1>12,
           <1>13, <1>14, <1>15, <1>16 DEF Next

----------------------------------------------------------------------------
(* What the two invariants say of a connection, in the words of JointInv.  *)

(* The window: one line or one answer, that of the call that waits.        *)
LEMMA WindowKnows ==
    ASSUME Inv
    PROVE  /\ lines \in Seq(ClientMessages)
           /\ replies \in Seq([to : ClientMessages, text : Window!Responses])
           /\ mutex = "fx" <=> fx \in {"commandReply", "connecting",
                    "connectReply", "connectNotify", "alert", "disconnReply"}
           /\ mutex = "worker" <=> wk = "reply"
           /\ conn = "open" => fx # "connecting"
           /\ conn = "open" => lines = <<>> \/ replies = <<>>
           /\ conn = "open" /\ replies # <<>> => Tail(replies) = <<>>
           /\ conn = "open" /\ mutex = "free" => lines = <<>> /\ replies = <<>>
           /\ conn = "open" /\ fx = "connectReply" =>
                  \/ lines = <<"CONN">> /\ replies = <<>>
                  \/ lines = <<>> /\ replies # <<>> /\ Head(replies).to = "CONN"
           /\ conn = "open" /\ fx = "commandReply" =>
                  Head(replies).to \in MotorCommands \/ replies = <<>>
           /\ conn = "open" /\ wk = "reply" =>
                  Head(replies).to = "PING" \/ replies = <<>>
<1>1. /\ lines \in Seq(ClientMessages)
      /\ replies \in Seq([to : ClientMessages, text : Window!Responses])
      BY SameTables DEF Inv, Window!TypeOK
<1>2. /\ mutex = "fx" <=> fx \in {"commandReply", "connecting",
               "connectReply", "connectNotify", "alert", "disconnReply"}
      /\ mutex = "worker" <=> wk = "reply"
      BY DEF Inv, Window!IInv, Window!MutexInv, Window!FxHolds
<1>3. conn = "open" => fx # "connecting"
      BY DEF Inv, Window!IInv, Window!FlagsInv, Window!Connecting, Window!Closing
<1>4. conn = "open" =>
          /\ lines = <<>> \/ replies = <<>>
          /\ replies # <<>> => Tail(replies) = <<>>
          /\ Window!Asker = NoLine => lines = <<>> /\ replies = <<>>
          /\ Window!Asker # NoLine =>
                 \/ lines = <<Window!Asker>> /\ replies = <<>>
                 \/ lines = <<>> /\ replies # <<>>
                        /\ Head(replies).to = Window!Asker
      BY SameTables DEF Inv, Window!IInv, Window!StreamInv
<1>5. mutex = "free" => Window!Asker = NoLine
      BY <1>2, SameTables DEF Window!Asker, Window!Asked
<1>6. fx = "connectReply" => Window!Asker = "CONN"
      BY <1>2 DEF Window!Asker, Window!Asked
<1>7. fx = "commandReply" => Window!Asker \in MotorCommands
  <2>1. fx = "commandReply" => wk # "reply" /\ C!Wanted # "none"
        BY <1>2, SameTables DEF Inv, Window!IInv, Window!CommandInv
  <2> QED BY <2>1, WantedIsCommand, SameTables DEF Window!Asker, Window!Asked
<1>8. wk = "reply" => Window!Asker = "PING"
      BY DEF Window!Asker
<1>9. "CONN" # NoLine /\ "PING" # NoLine /\ NoLine \notin MotorCommands
      BY Facts
<1> QED BY <1>1, <1>2, <1>3, <1>4, <1>5, <1>6, <1>7, <1>8, <1>9

(* The robot: what a thread of it does while a client is connected.        *)
LEMMA RobotKnows ==
    ASSUME Inv
    PROVE  /\ sent \in ClientMessages \cup {NoLine}
           /\ mainPc \in {"start", "accept", "handshake"} =>
                  sessPc = "none" /\ sent = NoLine /\ reply = NoLine
           /\ mainPc \in {"joinImg", "closing"} => sessPc = "exited"
           /\ sessPc = "send" => sent # NoLine /\ reply = NoLine
           /\ reply # NoLine => sent # NoLine
           /\ confirmed /\ peer = "open" /\ sent \notin {"CONN", "DISCONN"} =>
                  sessPc \in {"read", "send"} /\ client_connected = 1
           /\ confirmed /\ peer = "open" /\ sent \in ClientMessages \ {"CONN"}
                /\ sessPc = "send" => response = messageConfirmation[sent]
BY SameLines DEF Inv, Robot!TypeOK, Robot!IInv, Robot!ThreadsInv,
   Robot!LineInv, Robot!ConfirmInv, Robot!Believes, Robot!Serving

(* Both: on a standing connection the client was accepted, or waits to be. *)
LEMMA BothKnow ==
    ASSUME Inv, conn = "open"
    PROVE  /\ S!Running /\ peer = "open" /\ Established
           /\ mainPc \in {"joinSession", "joinImg", "closing"}
           /\ sent # "CONN" /\ sent # NoLine => confirmed
           /\ fx # "connectReply" => confirmed
           /\ lines # <<>> \/ replies # <<>> \/ sent = NoLine
<1>1. /\ S!Running /\ peer = "open"
      /\ mainPc \in {"joinSession", "joinImg", "closing"}
      /\ fx = "connectReply" \/ confirmed
      BY DEF Inv, JointInv, EndsInv
<1>2. /\ lines # <<>> => lines = <<sent>>
      /\ replies # <<>> => sent = Head(replies).to
      /\ lines = <<>> /\ replies = <<>> => sent = NoLine
      BY DEF Inv, JointInv, LineInv
<1>3. CASE fx = "connectReply"
      BY <1>1, <1>2, <1>3, WindowKnows DEF Established
<1> QED BY <1>1, <1>2, <1>3 DEF Established

----------------------------------------------------------------------------
(* JointInv is carried over by every step.                                 *)

(* A step that ends the connection, or meets none, and leaves the answers. *)
LEMMA WithoutConnection ==
    ASSUME Inv, conn' # "open", ~(fx' = "connecting" /\ Established'),
           replies' = replies,
           sessPc' # "send" \/ UNCHANGED <<sessPc, sent, response>>
    PROVE  JointInv'
BY DEF Inv, JointInv, EndsInv, LineInv, AnswerInv, RobotAnswersRightly,
   MotionInv

(* What JointInv speaks of.                                                *)
jointVars == <<fx, conn, lines, replies, robotMotion, status, mainPc, sessPc,
               peer, sent, reply, confirmed, response, motion>>

LEMMA JointFrame == ASSUME Inv, UNCHANGED jointVars PROVE JointInv'
BY DEF Inv, jointVars, JointInv, EndsInv, Established, S!Running, LineInv,
   AnswerInv, RobotAnswersRightly, MotionInv

LEMMA JointWindowAlone == ASSUME Inv, WindowAlone PROVE JointInv'
<1> USE WindowAloneFrame DEF serverVars
<1>1. EndsInv'
      BY DEF Inv, JointInv, EndsInv, Established, S!Running
<1>2. LineInv' /\ AnswerInv' /\ MotionInv'
      BY DEF Inv, JointInv, LineInv, AnswerInv, RobotAnswersRightly, MotionInv
<1> QED BY <1>1, <1>2 DEF JointInv

LEMMA JointAcceptLoop == ASSUME Inv, Server(AcceptLoop) PROVE JointInv'
<1> USE DEF Server, windowVars
<1>1. CASE S!MainStart
      BY <1>1, RobotKnows, BothKnow, WithoutConnection
         DEF S!MainStart, S!sessVars, S!connVars, Inv, JointInv, EndsInv,
             Established, S!Running
<1>2. CASE S!MainAccept
  <2>1. conn # "open"
        BY <1>2, BothKnow DEF S!MainAccept
  <2>2. EndsInv'
        BY <1>2, <2>1, RobotKnows DEF S!MainAccept, EndsInv
  <2> QED BY <1>2, <2>1, <2>2 DEF S!MainAccept, S!sessVars, Inv, JointInv,
             LineInv, AnswerInv, RobotAnswersRightly, MotionInv
<1>3. CASE S!MainHandshake
  <2>1. conn # "open"
        BY <1>3, BothKnow DEF S!MainHandshake
  <2>2. EndsInv'
        BY <1>3, <2>1, RobotKnows DEF S!MainHandshake, S!connVars, EndsInv
  <2> QED BY <1>3, <2>1, <2>2 DEF S!MainHandshake, Inv, JointInv,
             LineInv, AnswerInv, RobotAnswersRightly, MotionInv
<1>4. CASE S!MainJoinSession \/ S!MainJoinImg
  <2>1. /\ UNCHANGED <<status, sessPc, peer, sent, reply, confirmed, response,
                       motion>>
        /\ mainPc \in {"joinSession", "joinImg"} /\ sessPc = "exited"
        /\ mainPc' \in {"joinImg", "closing"}
        BY <1>4, RobotKnows DEF S!MainJoinSession, S!MainJoinImg, S!sessVars,
           S!connVars
  <2>2. EndsInv'
        BY <2>1 DEF Inv, JointInv, EndsInv, Established, S!Running
  <2> QED BY <2>1, <2>2 DEF Inv, JointInv, LineInv, AnswerInv,
             RobotAnswersRightly, MotionInv
<1> QED BY <1>1, <1>2, <1>3, <1>4 DEF AcceptLoop

(* The session thread takes the line that it has before it,                *)
LEMMA SessionTakes ==
    ASSUME Inv, S!SessionReads, sessPc' = "send",
           UNCHANGED <<windowVars, status, mainPc, peer, sent, reply, confirmed>>,
           sent = "CONN" => response' \in {"CONN_OK", "CONN_ERR"},
           IF sent \in MotorCommands /\ client_connected = 1
             THEN motion' = MotorCall[sent] ELSE motion' = motion
    PROVE  JointInv'
<1> USE DEF windowVars, S!SessionReads, S!Pending
<1>1. EndsInv'
      BY SameLines DEF Inv, JointInv, EndsInv, Established, S!Running
<1>2. LineInv' /\ AnswerInv'
      BY SameLines DEF Inv, JointInv, LineInv, AnswerInv, RobotAnswersRightly
<1>3. conn = "open" /\ sent \in MotorCommands => client_connected = 1
      BY BothKnow, RobotKnows, Facts
<1>4. MotionInv'
      BY <1>3 DEF Inv, JointInv, MotionInv
<1> QED BY <1>1, <1>2, <1>4 DEF JointInv

LEMMA JointSession == ASSUME Inv, Server(Session) PROVE JointInv'
<1> USE DEF Server
<1>1. CASE S!SessionDisconnErr \/ S!SessionRejected \/ S!SessionDisconn
  <2>1. sent # "CONN" /\ (client_connected = 0 \/ sent = "DISCONN")
        BY <1>1 DEF S!SessionDisconnErr, S!SessionRejected, S!SessionDisconn
  <2>2. ~(sent \in MotorCommands /\ client_connected = 1)
        BY <2>1, Facts
  <2> QED BY <1>1, <2>1, <2>2, SessionTakes DEF S!SessionDisconnErr,
             S!SessionRejected, S!SessionDisconn, S!Answers, S!mainVars,
             S!connVars
<1>2. CASE S!SessionConn \/ S!SessionConnErr
  <2>1. sent \notin MotorCommands
        BY <1>2, Facts DEF S!SessionConn, S!SessionConnErr
  <2>2. response' \in {"CONN_OK", "CONN_ERR"}
        BY <1>2, Facts, SameCodes, SameAnswers DEF S!SessionConn,
           S!SessionConnErr, S!Answers
  <2> QED BY <1>2, <2>1, <2>2, SessionTakes DEF S!SessionConn,
             S!SessionConnErr, S!Answers, S!mainVars, S!connVars
<1>3. CASE S!SessionCommand
  <2>1. /\ S!SessionReads /\ sessPc' = "send" /\ sent # "CONN"
        /\ UNCHANGED <<status, mainPc, peer, sent, reply, confirmed>>
        /\ client_connected = 1 /\ motion' = MotionAfter(sent, motion)
        BY <1>3, SameMotions DEF S!SessionCommand, S!Answers, S!mainVars,
           S!connVars
  <2> QED BY <1>3, <2>1, SessionTakes DEF MotionAfter
<1>4. CASE S!SessionLost
      BY <1>4, BothKnow, WithoutConnection DEF windowVars, S!SessionLost,
         S!mainVars, S!connVars, Established
<1>5. CASE S!SessionQuits
  <2>1. /\ UNCHANGED <<windowVars, status, mainPc, peer, sent, reply,
                       confirmed, response, motion>>
        /\ sessPc = "quit" /\ sessPc' = "exited"
        BY <1>5 DEF S!SessionQuits, S!mainVars, S!connVars
  <2>2. EndsInv'
        BY <2>1, RobotKnows DEF windowVars, Inv, JointInv, EndsInv, Established,
           S!Running
  <2> QED BY <2>1, <2>2 DEF windowVars, Inv, JointInv, LineInv, AnswerInv,
             RobotAnswersRightly, MotionInv
<1>6. CASE ~Established /\ S!SessionSends
      BY <1>6, BothKnow, WithoutConnection DEF windowVars, S!SessionSends,
         S!mainVars, Established, S!Running
<1> QED BY <1>1, <1>2, <1>3, <1>4, <1>5, <1>6 DEF Session

(* and nothing the image thread or its client does concerns it.            *)
LEMMA ImageFrames ==
    ASSUME \/ Server(ImageThread) \/ Server(S!ImgAccept)
           \/ Server(TakesPicture) \/ PictureFails
    PROVE  UNCHANGED jointVars
<1> USE DEF jointVars, Server, windowVars, S!mainVars, S!sessVars, S!connVars
<1>1. S!ImgStep => UNCHANGED <<S!mainVars, S!sessVars, S!connVars, motion>>
      BY DEF S!ImgStep, S!ImgCreate, S!ImgCreateFails, S!ImgSpin, S!ImgCheck,
         S!ImgAccept, S!ImgAcceptError, S!ImgHandshake, S!ImgHandshakeFails,
         S!ImgRead, S!ImgReadFails, S!ImgDispatch, S!ImgReject, S!ImgReply,
         S!ImgSnaps, S!ImgSnapFails, S!ImgSend, S!ImgLeave, S!ImgFrame
<1>2. S!ImgClientConnects \/ S!ImgClientSends("PICTURE") \/ S!ImgClientCloses
          => UNCHANGED <<S!mainVars, S!sessVars, S!connVars, motion>>
      BY DEF S!ImgClientConnects, S!ImgClientSends, S!ImgClientCloses,
         S!ImgClientFrame
<1> QED BY <1>1, <1>2 DEF ImageThread, TakesPicture, PictureFails, S!ImgStep

LEMMA JointServerAlone == ASSUME Inv, ServerAlone PROVE JointInv'
<1>1. CASE Server(S!Restart)
      BY <1>1, BothKnow, WithoutConnection DEF Server, windowVars, S!Restart,
         Established
<1>2. CASE Server(AcceptLoop)
      BY <1>2, JointAcceptLoop
<1>3. CASE Server(Session)
      BY <1>3, JointSession
<1>4. CASE Server(ImageThread) \/ Server(S!ImgAccept) \/ Server(TakesPicture)
  <2>1. UNCHANGED jointVars
        BY <1>4, ImageFrames
  <2> QED BY <2>1, JointFrame
<1> QED BY <1>1, <1>2, <1>3, <1>4 DEF ServerAlone

(* A call of the window that writes has the mutex to itself, so nothing is *)
(* under way on the connection.                                            *)
LEMMA WritesFrame ==
    ASSUME Inv, WindowWrites
    PROVE  /\ mutex = "free" /\ fx \notin {"connecting", "connectReply"}
           /\ fx' \notin {"connecting", "connectReply"}
           /\ UNCHANGED <<conn, replies, accepted, robotMotion>>
           /\ conn # "open" => UNCHANGED <<lines, serverVars>>
           /\ conn = "open" =>
                  \E line \in ClientMessages \ {"CONN"} :
                      lines' = Append(lines, line) /\ S!ClientSends(line)
<1>1. CASE C!FrameSends /\ Writes(C!Wanted)
  <2>1. C!Wanted \in ClientMessages \ {"CONN"}
        BY <1>1, MustSendWanted, Facts DEF C!FrameSends
  <2> QED BY <1>1, <2>1 DEF C!FrameSends, C!Sends, Writes
<1>2. CASE C!DisconnectSends /\ Writes("DISCONN")
  <2>1. "DISCONN" \in ClientMessages \ {"CONN"}
        BY Facts
  <2> QED BY <1>2, <2>1 DEF C!DisconnectSends, C!Sends, Writes
<1>3. CASE C!WorkerPings /\ Writes("PING")
  <2>1. "PING" \in ClientMessages \ {"CONN"}
        BY Facts
  <2>2. fx' = fx /\ mutex = "free"
        BY <1>3 DEF C!WorkerPings, C!WorkerFrame
  <2> QED BY <1>3, <2>1, <2>2, WindowKnows DEF C!WorkerPings, C!Sends, Writes
<1> QED BY <1>1, <1>2, <1>3 DEF WindowWrites

LEMMA JointWindowWrites == ASSUME Inv, WindowWrites PROVE JointInv'
<1> USE WritesFrame
<1>1. CASE conn # "open"
      BY <1>1, WithoutConnection DEF serverVars
<1>2. CASE conn = "open"
  <2>1. PICK line \in ClientMessages \ {"CONN"} :
            lines' = Append(lines, line) /\ S!ClientSends(line)
        BY <1>2
  <2>2. /\ lines = <<>> /\ replies = <<>> /\ lines' = <<line>>
        /\ confirmed /\ sent = NoLine
        BY <1>2, <2>1, WindowKnows, BothKnow, SameLines DEF S!ClientSends
  <2>3. /\ UNCHANGED <<status, mainPc, sessPc, peer, reply, confirmed, response,
                       motion>>
        /\ sent' = line
        BY <2>1 DEF S!ClientSends, S!ClientFrame, S!mainVars, S!sessVars
  <2>4. sessPc = "read" /\ reply = NoLine
        BY <1>2, <2>2, RobotKnows, BothKnow, Facts
  <2>5. EndsInv'
        BY <1>2, <2>2, <2>3 DEF Inv, JointInv, EndsInv, S!Running
  <2>6. LineInv' /\ AnswerInv'
        BY <1>2, <2>2, <2>3, <2>4 DEF LineInv, AnswerInv, RobotAnswersRightly
  <2>7. MotionInv'
        BY <1>2, <2>2, <2>3, <2>4 DEF Inv, JointInv, MotionInv
  <2> QED BY <2>5, <2>6, <2>7 DEF JointInv
<1> QED BY <1>1, <1>2

(* A call that reads takes the one answer there is, its own.               *)
LEMMA TakesFrame ==
    ASSUME Inv, WindowTakes
    PROVE  /\ fx' \notin {"connecting", "connectReply"}
           /\ UNCHANGED <<lines, accepted, robotMotion>>
           /\ conn' \in {conn, "shut"}
           /\ \/ UNCHANGED replies /\ conn # "open"
              \/ replies # <<>> /\ replies' = Tail(replies)
           /\ conn' = "open" =>
                  \/ fx # "connectReply" /\ Head(replies).to # "CONN"
                        /\ Head(replies).to # "DISCONN"
                  \/ Head(replies).to = "CONN" /\ Head(replies).text = "CONN_OK"
           /\ IF conn = "open" THEN S!ClientReceives ELSE UNCHANGED serverVars
<1> USE WindowKnows DEF C!Reads, C!ReadsNull, C!ReadFails, C!netVars, C!Text
<1>1. IF conn = "open" THEN S!ClientReceives ELSE UNCHANGED serverVars
      BY DEF WindowTakes
<1>2. CASE C!CommandConfirmed
      BY <1>1, <1>2, Facts DEF C!CommandConfirmed
<1>3. CASE C!CommandFails
      BY <1>1, <1>3, Facts DEF C!CommandFails
<1>4. CASE C!ConnectConfirmed \/ C!ConnectRefused
      BY <1>1, <1>4, SameTables, Facts DEF C!ConnectConfirmed, C!ConnectRefused
<1>5. CASE C!DisconnectConfirmed \/ C!DisconnectGivesUp
      BY <1>1, <1>5 DEF C!DisconnectConfirmed, C!DisconnectGivesUp,
         C!DisconnectReturns
<1>6. CASE C!DisconnectFails \/ C!DisconnectThrows
      BY <1>1, <1>6 DEF C!DisconnectFails, C!DisconnectThrows,
         C!DisconnectReturns
<1>7. CASE C!WorkerReads
  <2>1. fx' = fx /\ wk = "reply"
        BY <1>7 DEF C!WorkerReads, C!WorkerPinged, C!WorkerLost, C!WorkerFails,
           C!WorkerThrows, C!WorkerFrame
  <2> QED BY <1>1, <1>7, <2>1 DEF C!WorkerReads, C!WorkerPinged, C!WorkerLost,
             C!WorkerFails, C!WorkerThrows, C!WorkerFrame
<1> QED BY <1>2, <1>3, <1>4, <1>5, <1>6, <1>7 DEF WindowTakes

LEMMA JointWindowTakes == ASSUME Inv, WindowTakes PROVE JointInv'
<1> USE TakesFrame
<1>1. RobotAnswersRightly'
  <2>1. CASE UNCHANGED replies
        BY <2>1 DEF Inv, JointInv, AnswerInv, RobotAnswersRightly
  <2>2. CASE replies # <<>> /\ replies' = Tail(replies)
    <3>1. /\ Len(replies') = Len(replies) - 1 /\ Len(replies) \in Nat
          /\ \A i \in 1 .. Len(replies') : replies'[i] = replies[i + 1]
          BY <2>2, WindowKnows
    <3> QED BY <3>1 DEF Inv, JointInv, AnswerInv, RobotAnswersRightly
  <2> QED BY <2>1, <2>2
<1>2. CASE conn # "open"
      BY <1>1, <1>2 DEF serverVars, Inv, JointInv, EndsInv, LineInv, AnswerInv,
         MotionInv
<1>3. CASE conn = "open"
  <2>1. /\ sent' = NoLine /\ reply' = NoLine /\ reply # NoLine
        /\ confirmed' = CASE sent = "CONN" -> reply = "CONN_OK"
                          [] sent = "DISCONN" -> FALSE
                          [] OTHER -> confirmed
        /\ UNCHANGED <<status, mainPc, sessPc, peer, response, motion>>
        BY <1>3, SameLines DEF S!ClientReceives, S!ClientFrame, S!mainVars,
           S!sessVars
  <2>2. /\ replies # <<>> /\ lines' = <<>> /\ replies' = <<>>
        /\ sent = Head(replies).to /\ reply = Head(replies).text
        BY <1>3, WindowKnows DEF Inv, JointInv, LineInv
  <2>3. conn' = "open" => confirmed'
        BY <1>3, <2>1, <2>2, BothKnow
  <2>4. EndsInv'
        BY <1>3, <2>1, <2>3, BothKnow DEF EndsInv, S!Running
  <2>5. LineInv' /\ AnswerInv'
        BY <1>1, <2>1, <2>2, Facts DEF LineInv, AnswerInv
  <2>6. MotionInv'
        BY <1>3, <2>1, RobotKnows, Facts DEF Inv, JointInv, MotionInv
  <2> QED BY <2>4, <2>5, <2>6 DEF JointInv
<1> QED BY <1>2, <1>3

(* The answer that the session sends is the confirmation of the line, or   *)
(* a refusal of CONN.                                                      *)
LEMMA AnswersFrame ==
    ASSUME Inv, ServerAnswers
    PROVE  /\ conn = "open" /\ Established /\ sessPc = "send"
           /\ lines = <<sent>> /\ replies = <<>> /\ sent \in ClientMessages
           /\ sent = "CONN" => response \in {"CONN_OK", "CONN_ERR"}
           /\ sent # "CONN" => response = messageConfirmation[sent]
<1>1. /\ conn = "open" /\ lines # <<>> /\ Established /\ sessPc = "send"
      BY DEF ServerAnswers, C!DeviceAnswers, S!SessionSends
<1>2. lines = <<sent>> /\ replies = <<>>
      BY <1>1, WindowKnows DEF Inv, JointInv, LineInv
<1>3. sent \in ClientMessages
      BY <1>1, RobotKnows
<1>4. sent = "CONN" => response \in {"CONN_OK", "CONN_ERR"}
      BY <1>1 DEF Inv, JointInv, AnswerInv
<1>5. sent # "CONN" => response = messageConfirmation[sent]
      BY <1>1, <1>3, RobotKnows, BothKnow
<1> QED BY <1>1, <1>2, <1>3, <1>4, <1>5

LEMMA JointServerAnswers == ASSUME Inv, ServerAnswers PROVE JointInv'
<1>1. /\ reply' = response /\ sessPc' # "send"
      /\ UNCHANGED <<status, mainPc, peer, sent, confirmed, motion>>
      BY DEF ServerAnswers, S!SessionSends, S!mainVars, Established
<1>2. /\ UNCHANGED <<fx, conn>> /\ lines' = <<>>
      /\ replies' = <<[to |-> sent, text |-> response]>>
      /\ robotMotion' = IF /\ response = messageConfirmation[sent]
                           /\ sent \in MotorCommands
                          THEN sent ELSE robotMotion
      BY AnswersFrame, SameTables DEF ServerAnswers, C!DeviceAnswers,
         C!DeviceFrame
<1> USE AnswersFrame, Facts
<1>3. EndsInv'
      BY <1>1, <1>2, WindowKnows DEF Inv, JointInv, EndsInv, S!Running
<1>4. LineInv'
      BY <1>1, <1>2 DEF LineInv
<1>5. AnswerInv'
      BY <1>1, <1>2 DEF AnswerInv, RobotAnswersRightly
<1>6. MotionInv'
      BY <1>1, <1>2 DEF Inv, JointInv, MotionInv
<1> QED BY <1>3, <1>4, <1>5, <1>6 DEF JointInv

----------------------------------------------------------------------------
(* Connections and failures.                                               *)

LEMMA JointConnectRequests == ASSUME Inv, ConnectRequests PROVE JointInv'
<1>1. /\ ~Established /\ UNCHANGED <<conn, replies>>
      /\ UNCHANGED <<status, peer, sessPc, sent, response>>
      BY DEF ConnectRequests, C!ConnectStarts, C!netVars, S!ClientConnects,
         S!sessVars, S!connVars, serverVars
<1>2. ~Established' /\ conn' # "open"
      BY <1>1, BothKnow DEF Established, S!Running
<1> QED BY <1>1, <1>2, WithoutConnection

LEMMA JointConnectGoesThrough == ASSUME Inv, ConnectGoesThrough PROVE JointInv'
<1>1. /\ Established /\ fx = "connecting" /\ fx' = "connectReply"
      /\ conn' = "open" /\ lines' = <<"CONN">> /\ replies' = <<>>
      /\ robotMotion' = "none"
      BY SameTables DEF ConnectGoesThrough, C!ConnectSends
<1>2. /\ mainPc \in {"joinSession", "joinImg"} /\ sent = NoLine
      /\ sent' = "CONN"
      /\ UNCHANGED <<status, mainPc, sessPc, peer, reply, response>>
      BY SameLines DEF ConnectGoesThrough, S!ClientSends, S!ClientFrame,
         S!mainVars, S!sessVars
<1>3. sessPc = "read" /\ reply = NoLine
      BY <1>1, <1>2, RobotKnows DEF Inv, JointInv, EndsInv
<1> QED BY <1>1, <1>2, <1>3, SameTables DEF JointInv, EndsInv, Established,
           S!Running, LineInv, AnswerInv, RobotAnswersRightly, MotionInv

LEMMA JointConnectGivesUp == ASSUME Inv, ConnectGivesUp PROVE JointInv'
<1>1. /\ fx' = "alert" /\ UNCHANGED <<sessPc, sent, response>>
      /\ conn' # "open" /\ (UNCHANGED replies \/ replies' = <<>>)
      BY WindowKnows DEF ConnectGivesUp, C!ConnectFails, C!netVars, serverVars
<1> QED BY <1>1, WithoutConnection DEF Inv, JointInv, EndsInv, LineInv,
           AnswerInv, RobotAnswersRightly, MotionInv

LEMMA JointCloseArrives == ASSUME Inv, CloseArrives PROVE JointInv'
BY WithoutConnection DEF CloseArrives, Server, windowVars, S!ClientCloses,
   S!ClientFrame, S!sessVars

(* The window's end of a connection that the robot has left.               *)
LEMMA LeavesFrame ==
    ASSUME DeviceLeaves
    PROVE  UNCHANGED <<fx, replies>> /\ conn' # "open"
BY DEF DeviceLeaves, C!DeviceGoes, C!DeviceFrame, windowVars

LEMMA JointServerCloses == ASSUME Inv, ServerCloses PROVE JointInv'
BY LeavesFrame, WithoutConnection DEF ServerCloses, S!MainClose, Established

LEMMA JointServerEnds == ASSUME Inv, ServerEnds \/ ServerBreaks PROVE JointInv'
<1>1. /\ status' \in {"exited", "killed"} /\ DeviceLeaves
      /\ UNCHANGED <<sessPc, sent, response>>
      BY DEF ServerEnds, ServerBreaks, S!MainStartFails, S!MainAcceptError,
         S!MainHandshakeFails, S!Killed, S!ImgTlsSetupFails, S!ImgSnapFaults,
         S!BrokenPipe, S!Ends, S!sessVars, S!connVars
<1> QED BY <1>1, LeavesFrame, WithoutConnection DEF Established, S!Running

LEMMA JointLinkBreaks == ASSUME Inv, LinkBreaks PROVE JointInv'
BY LeavesFrame, WithoutConnection DEF LinkBreaks, S!ClientCloses,
   S!ClientFrame, S!sessVars, Established

LEMMA JointInductive == ASSUME Inv, [Next]_vars PROVE JointInv'
<1>1. CASE UNCHANGED vars
      BY <1>1, JointFrame DEF vars, windowVars, serverVars, jointVars
<1>2. CASE PictureFails
      BY <1>2, ImageFrames, JointFrame
<1> QED BY <1>1, <1>2, JointWindowAlone, JointServerAlone, JointWindowWrites,
           JointWindowTakes, JointServerAnswers, JointConnectRequests,
           JointConnectGoesThrough, JointConnectGivesUp, JointCloseArrives,
           JointServerCloses, JointServerEnds, JointLinkBreaks DEF Next

----------------------------------------------------------------------------
(* A step of the system is a step of the window, or none.                  *)

LEMMA SameDeviceStep == C!DeviceStep <=> Window!DeviceStep
BY SameTables DEF C!DeviceStep, C!DeviceReplies, C!DeviceAnswers, C!DeviceFrame,
   C!DeviceGoes, C!uiVars, C!workerVars, C!clientVars, Window!DeviceStep,
   Window!DeviceReplies, Window!DeviceAnswers, Window!DeviceFrame,
   Window!DeviceGoes, Window!uiVars, Window!workerVars, Window!clientVars

LEMMA SameNext == [Window!Next]_(Window!vars) => [C!Next]_(C!vars)
BY SameUserStep, SameTimerStep, SameConnectStep, SameDisconnectStep,
   SameCloseStep, SameWorkerStep, SameDeviceStep DEF C!Next, C!Finished,
   C!vars, C!uiVars, C!workerVars, C!clientVars, C!netVars, Window!Next,
   Window!Finished, Window!vars, Window!uiVars, Window!workerVars,
   Window!clientVars, Window!netVars

LEMMA DeviceLeavesStep == DeviceLeaves => [Window!Next]_(Window!vars)
<1>1. CASE conn = "open"
  <2>1. C!DeviceGoes => Window!DeviceGoes
        BY DEF C!DeviceGoes, Window!DeviceGoes, C!uiVars, C!workerVars,
           C!clientVars, Window!uiVars, Window!workerVars, Window!clientVars
  <2> QED BY <1>1, <2>1 DEF DeviceLeaves, Window!DeviceStep, Window!Next
<1>2. CASE conn # "open"
      BY <1>2 DEF DeviceLeaves, windowVars, Window!vars, Window!uiVars,
         Window!workerVars, Window!clientVars, Window!netVars
<1> QED BY <1>1, <1>2

LEMMA AnswersStep == ASSUME Inv, ServerAnswers PROVE Window!Next
<1>1. Window!DeviceAnswers(response)
      BY SameTables DEF ServerAnswers, C!DeviceAnswers, C!DeviceFrame,
         C!uiVars, C!workerVars, C!clientVars, Window!DeviceAnswers,
         Window!DeviceFrame, Window!uiVars, Window!workerVars,
         Window!clientVars
<1>2. response \in {"CONN_ERR", "CMD_ERR"}
          \cup {Window!messageConfirmation[lines[i]] : i \in 1 .. Len(lines)}
  <2>1. 1 \in 1 .. Len(lines) /\ lines[1] = sent
        BY AnswersFrame
  <2>2. response = "CONN_ERR" \/ response = messageConfirmation[sent]
        BY AnswersFrame, Facts
  <2> QED BY <2>1, <2>2, SameTables
<1> QED BY <1>1, <1>2 DEF Window!DeviceReplies, Window!DeviceStep, Window!Next

LEMMA WindowStep == ASSUME Inv, Next PROVE [Window!Next]_(Window!vars)
<1>0. UNCHANGED windowVars => UNCHANGED Window!vars
      BY DEF windowVars, Window!vars, Window!uiVars, Window!workerVars,
         Window!clientVars, Window!netVars
<1>1. CASE WindowAlone
      BY <1>1, SameUserStep, SameTimerStep, SameConnectStep, SameDisconnectStep,
         SameCloseStep, SameWorkerStep DEF WindowAlone, UserActs, C!TimerStep,
         C!ConnectStep, C!DisconnectStep, C!WorkerStep, Window!Next
<1>2. CASE WindowWrites
      BY <1>2, SameTimerStep, SameDisconnectStep, SameWorkerStep DEF
         WindowWrites, C!TimerStep, C!DisconnectStep, C!WorkerStep, Window!Next
<1>3. CASE WindowTakes
      BY <1>3, SameTimerStep, SameConnectStep, SameDisconnectStep,
         SameWorkerStep DEF WindowTakes, C!TimerStep, C!ConnectStep,
         C!DisconnectStep, C!WorkerStep, Window!Next
<1>4. CASE ConnectRequests \/ ConnectGoesThrough \/ ConnectGivesUp
      BY <1>4, SameConnectStep DEF ConnectRequests, ConnectGoesThrough,
         ConnectGivesUp, C!ConnectStep, Window!Next
<1>5. CASE ServerAnswers
      BY <1>5, AnswersStep
<1>6. CASE ServerCloses \/ ServerEnds \/ ServerBreaks \/ LinkBreaks
      BY <1>6, DeviceLeavesStep DEF ServerCloses, ServerEnds, ServerBreaks,
         LinkBreaks
<1>7. CASE ServerAlone \/ CloseArrives \/ PictureFails
      BY <1>7, <1>0 DEF ServerAlone, CloseArrives, PictureFails, Server
<1> QED BY <1>1, <1>2, <1>3, <1>4, <1>5, <1>6, <1>7 DEF Next

----------------------------------------------------------------------------
(* The theorems.                                                           *)

LEMMA RobotBegins == Init => Robot!Init
BY SameLines DEF Init, S!Init, Robot!Init

LEMMA WindowBegins == Init => Window!Init
BY SameTables DEF Init, C!Init, Window!Init

LEMMA JointBegins == Init => JointInv
BY SameLines DEF Init, C!Init, S!Init, JointInv, EndsInv, LineInv, AnswerInv,
   RobotAnswersRightly, MotionInv

(* The robot of the system is RobotServer, whatever the window does.       *)
THEOREM RobotRuns == Spec => Robot!Spec
<1>1. Next => [Robot!Next]_(Robot!vars)
      BY RobotStep
<1>2. UNCHANGED vars => UNCHANGED Robot!vars
      BY DEF vars, serverVars, Robot!vars, Robot!mainVars, Robot!sessVars,
         Robot!connVars, Robot!imgVars, Robot!imgConnVars
<1> QED BY <1>1, <1>2, RobotBegins, PTL DEF Spec, Robot!Spec

LEMMA RobotTypes == Robot!Spec => []Robot!TypeOK
BY Robot!TypeCorrect, RobotAssumptions

LEMMA RobotInvariant == Robot!Spec => []Robot!IInv
BY Robot!Invariance, RobotAssumptions

LEMMA WindowInvariant ==
    /\ Window!Init => Window!TypeOK /\ Window!IInv
    /\ Window!TypeOK /\ Window!IInv /\ [Window!Next]_(Window!vars) =>
           Window!TypeOK' /\ Window!IInv'
BY Window!Begins, Window!Continues, KeysAssumption

(* The two programs and what lies between them, in every state.            *)
THEOREM Invariance == Spec => []Inv
<1>1. Init => Window!TypeOK /\ Window!IInv /\ JointInv
      BY WindowBegins, WindowInvariant, JointBegins
<1>2. Inv /\ [Next]_vars => (Window!TypeOK /\ Window!IInv /\ JointInv)'
  <2> SUFFICES ASSUME Inv, [Next]_vars
               PROVE  (Window!TypeOK /\ Window!IInv /\ JointInv)'
      OBVIOUS
  <2>1. [Window!Next]_(Window!vars)
        BY WindowStep DEF vars, windowVars, Window!vars, Window!uiVars,
           Window!workerVars, Window!clientVars, Window!netVars
  <2> QED BY <2>1, WindowInvariant, JointInductive DEF Inv
<1>3. Inv <=> /\ Window!TypeOK /\ Window!IInv /\ JointInv
              /\ Robot!TypeOK /\ Robot!IInv
      BY DEF Inv
<1> QED BY <1>1, <1>2, <1>3, RobotRuns, RobotTypes, RobotInvariant, PTL DEF Spec

THEOREM JointInvariance == Spec => []JointInv
<1>1. Inv => JointInv
      BY DEF Inv
<1> QED BY <1>1, Invariance, PTL

(* To the window the robot is a device as RobotClient assumes one.         *)
THEOREM IsADevice == Spec => RobotIsADevice
<1>1. Init => C!Init
      BY DEF Init
<1>2. Inv /\ [Next]_vars => [C!Next]_(C!vars)
      BY WindowStep, SameNext DEF vars, windowVars, C!vars, C!uiVars,
         C!workerVars, C!clientVars, C!netVars
<1> QED BY <1>1, <1>2, Invariance, PTL DEF Spec, RobotIsADevice, C!Spec

(* At rest, a window that shows a robot has that robot's session, and the  *)
(* flags of the two programs agree.                                        *)
THEOREM SharesConnection == Spec => []RobotSharesConnection
<1>1. Inv => RobotSharesConnection
  <2> SUFFICES ASSUME Inv, AtRest
               PROVE  /\ S!Running /\ peer = "open" /\ client_connected = 1
                      /\ sessPc = "read" /\ mainPc = "joinSession"
      BY DEF RobotSharesConnection
  <2>1. /\ S!Running /\ peer = "open" /\ confirmed /\ sent = NoLine
        /\ mainPc \in {"joinSession", "joinImg", "closing"}
        BY BothKnow, WindowKnows DEF AtRest
  <2> QED BY <2>1, RobotKnows, Facts
<1> QED BY <1>1, Invariance, PTL

(* The robot never answers the window wrongly once it has accepted it.     *)
THEOREM AnswersRightly == Spec => []RobotAnswersRightly
<1>1. JointInv => RobotAnswersRightly
      BY DEF JointInv, AnswerInv
<1> QED BY <1>1, JointInvariance, PTL

(* A line without an answer, on a standing connection, is before the       *)
(* session thread.                                                         *)
THEOREM LineServed == Spec => []SentLineIsServed
<1>1. JointInv => SentLineIsServed
      BY DEF JointInv, EndsInv, LineInv, SentLineIsServed
<1> QED BY <1>1, JointInvariance, PTL

(* Once the keys are handled the wheels turn as they say.                  *)
THEOREM FollowKeys == Spec => []WheelsFollowKeys
<1>1. Inv => WheelsFollowKeys
  <2> SUFFICES ASSUME Inv, AtRest, ~newInstruction, robotMotion # C!None,
                      C!Wanted # C!None
               PROVE  motion = MotorCall[C!Wanted]
      BY DEF WheelsFollowKeys
  <2>1. robotMotion = C!Wanted
    <3>1. robotMotion = lastCommand
          BY SameTables DEF AtRest, Inv, Window!IInv, Window!CommandInv
    <3>2. IF C!Wanted = "STOP" THEN ~isMoving ELSE C!Wanted = lastCommand
          BY SameTables DEF AtRest, Inv, Window!IInv, Window!CommandInv
    <3>3. isMoving <=> lastCommand \notin {"none", "STOP"}
          BY SameTables DEF AtRest, Inv, Window!IInv, Window!CommandInv
    <3> QED BY <3>1, <3>2, <3>3, SameTables
  <2>2. conn = "open" /\ sent = NoLine
        BY BothKnow, WindowKnows DEF AtRest
  <2> QED BY <2>1, <2>2, RobotKnows DEF Inv, JointInv, MotionInv
<1> QED BY <1>1, Invariance, PTL

(* No command overtakes another or comes late on a standing connection.    *)
THEOREM LateCommand == Spec => NoLateCommand
<1>1. Inv /\ Next /\ S!Running /\ motion' # motion =>
          S!SessionCommand
  <2> SUFFICES ASSUME Inv, Next, S!Running, ~S!SessionCommand
               PROVE  motion' = motion
      OBVIOUS
  <2> USE DEF serverVars
  <2>1. CASE ServerAlone
    <3> USE DEF Server
    <3>1. CASE Server(AcceptLoop)
          BY <3>1 DEF AcceptLoop, S!MainStart, S!MainAccept, S!MainHandshake,
             S!MainJoinSession, S!MainJoinImg
    <3>2. CASE Server(Session)
          BY <3>2 DEF Session, S!SessionDisconnErr, S!SessionRejected,
             S!SessionConn, S!SessionConnErr, S!SessionDisconn, S!SessionLost,
             S!SessionQuits, S!SessionSends
    <3>3. CASE Server(ImageThread) \/ Server(S!ImgAccept)
               \/ Server(TakesPicture)
          BY <3>3, ImageFrames DEF jointVars
    <3>4. ~Server(S!Restart)
          BY DEF S!Restart
    <3> QED BY <2>1, <3>1, <3>2, <3>3, <3>4 DEF ServerAlone
  <2>2. CASE WindowAlone \/ WindowWrites \/ WindowTakes
        BY <2>2, WindowAloneFrame DEF WindowWrites, WindowTakes, Writes,
           S!ClientSends, S!ClientReceives, S!ClientFrame
  <2>3. CASE ServerAnswers
        BY <2>3 DEF ServerAnswers, S!SessionSends
  <2>4. CASE ConnectRequests \/ ConnectGoesThrough \/ ConnectGivesUp
        BY <2>4 DEF ConnectRequests, ConnectGoesThrough, ConnectGivesUp,
           S!ClientConnects, S!ClientSends, S!ClientFrame
  <2>5. CASE CloseArrives \/ LinkBreaks \/ ServerCloses
        BY <2>5 DEF CloseArrives, LinkBreaks, ServerCloses, Server,
           S!ClientCloses, S!ClientFrame, S!MainClose
  <2>6. CASE ServerEnds \/ ServerBreaks
        BY <2>6 DEF ServerEnds, ServerBreaks, S!MainStartFails,
           S!MainAcceptError, S!MainHandshakeFails, S!Killed,
           S!ImgTlsSetupFails, S!ImgSnapFaults, S!BrokenPipe, S!Ends
  <2>7. CASE PictureFails
        BY <2>7, ImageFrames DEF jointVars
  <2> QED BY <2>1, <2>2, <2>3, <2>4, <2>5, <2>6, <2>7 DEF Next
<1>2. ASSUME Inv, S!SessionCommand, motion' # motion, conn = "open"
      PROVE  fx = "commandReply" /\ motion' = MotorCall[C!Wanted]
  <2>1. /\ sent \in MotorCommands /\ motion' = MotorCall[sent]
        /\ reply = NoLine
        BY <1>2, SameMotions, SameLines DEF S!SessionCommand, S!SessionReads,
           S!Pending, MotionAfter
  <2>2. lines = <<sent>>
    <3>1. replies = <<>>
      <4> SUFFICES ASSUME replies # <<>> PROVE FALSE
          OBVIOUS
      <4>1. /\ Head(replies).to = sent /\ Head(replies).text = NoLine
            /\ 1 \in 1 .. Len(replies) /\ Head(replies) = replies[1]
            BY <1>2, <2>1, WindowKnows DEF Inv, JointInv, LineInv
      <4>2. messageConfirmation[sent] = NoLine
            BY <1>2, <2>1, <4>1, Facts DEF Inv, JointInv, AnswerInv,
               RobotAnswersRightly
      <4> QED BY <2>1, <4>2, ConfirmationsSaid, Facts
    <3> QED BY <1>2, <2>1, <3>1, Facts DEF Inv, JointInv, LineInv
  <2>3. Window!Asker = sent
        BY <1>2, <2>1, <2>2, SameTables DEF Inv, Window!IInv, Window!StreamInv
  <2>4. fx = "commandReply" /\ Window!Asker = C!Wanted
        BY <2>1, <2>3, Facts, SameTables DEF Window!Asker, Window!Asked
  <2> QED BY <2>1, <2>3, <2>4
<1>3. Inv /\ [Next]_vars =>
          [S!Running /\ motion' # motion /\ conn = "open" =>
               fx = "commandReply" /\ motion' = MotorCall[C!Wanted]]_vars
      BY <1>1, <1>2
<1> QED BY <1>3, Invariance, PTL DEF Spec, NoLateCommand
=============================================================================
