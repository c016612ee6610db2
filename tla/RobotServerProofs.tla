------------------------- MODULE RobotServerProofs -------------------------
(***************************************************************************)
(* Proofs, for every set of lines and every backlog, of the server's type  *)
(* invariant, of the inductive invariant IInv and the safety properties    *)
(* that follow from it, and of the refinement of RobotLink.                *)
(***************************************************************************)
EXTENDS RobotServerProperties, TLAPS

----------------------------------------------------------------------------
(* The protocol tables.                                                    *)

LEMMA ResponseTyped ==
    \A code \in CONN_OK .. PICTURE_ERR : put_response(code) \in Responses
BY DEF Responses

LEMMA CodeTyped == \A cmd : CodeOf(cmd) \in CONN_OK .. PICTURE_ERR
BY DEF CodeOf, Commands, ResponseCode, CONN_OK, FWD_OK, BKWD_OK, STOP_OK,
       ROTATE_LEFT_OK, ROTATE_RIGHT_OK, FRONT_L_OK, FRONT_R_OK, BCK_L_OK,
       BCK_R_OK, DISCONN_OK, PING, PICTURE_ERR, CMD_ERR

(* Every answer of the session is a text of the protocol.                  *)
LEMMA AnswersTyped ==
    /\ put_response(CONN_OK) \in Responses
    /\ put_response(CONN_ERR) \in Responses
    /\ put_response(DISCONN_OK) \in Responses
    /\ put_response(DISCONN_ERR) \in Responses
    /\ put_response(CMD_ERR) \in Responses
    /\ \A cmd : put_response(CodeOf(cmd)) \in Responses
BY ResponseTyped, CodeTyped
   DEF CONN_OK, CONN_ERR, DISCONN_OK, DISCONN_ERR, CMD_ERR, PICTURE_ERR

LEMMA IdleTyped == "idle" \in MotorCalls
BY DEF MotorCalls, MotorCommands, MotorCall

LEMMA MotionTyped ==
    ASSUME NEW cmd, NEW before \in MotorCalls
    PROVE  MotionAfter(cmd, before) \in MotorCalls
BY DEF MotionAfter, MotorCalls

----------------------------------------------------------------------------
(* Types.                                                                  *)

LEMMA MainStepTypes == TypeOK /\ MainStep => TypeOK'
<1> SUFFICES ASSUME TypeOK, MainStep PROVE TypeOK'
    OBVIOUS
<1> USE BacklogAssumption, ImgBacklogAssumption
        DEF TypeOK, mainVars, sessVars, connVars, imgVars, imgConnVars, Running
<1>1. CASE MainStart
    BY <1>1 DEF MainStart
<1>2. CASE MainStartFails
    BY <1>2 DEF MainStartFails, Ends
<1>3. CASE MainAccept
    BY <1>3 DEF MainAccept
<1>4. CASE MainAcceptError
    BY <1>4 DEF MainAcceptError, Ends
<1>5. CASE MainHandshake
  <2>1. should_quit' \in BOOLEAN
      BY <1>5 DEF MainHandshake
  <2> QED BY <1>5, <2>1 DEF MainHandshake
<1>6. CASE MainHandshakeFails
    BY <1>6 DEF MainHandshakeFails, Ends
<1>7. CASE MainJoinSession
    BY <1>7 DEF MainJoinSession
<1>8. CASE MainJoinImg
    BY <1>8 DEF MainJoinImg
<1>9. CASE MainClose
    BY <1>9 DEF MainClose
<1> QED BY <1>1, <1>2, <1>3, <1>4, <1>5, <1>6, <1>7, <1>8, <1>9 DEF MainStep

LEMMA SessionStepTypes == TypeOK /\ SessionStep => TypeOK'
<1> SUFFICES ASSUME TypeOK, SessionStep PROVE TypeOK'
    OBVIOUS
<1> USE BacklogAssumption, ImgBacklogAssumption
        DEF TypeOK, mainVars, sessVars, connVars, imgVars, imgConnVars, Running
<1>1. CASE SessionDisconnErr
  <2>1. should_quit' \in BOOLEAN
      BY <1>1 DEF SessionDisconnErr, SessionReads, Answers
  <2> QED BY <1>1, AnswersTyped, <2>1 DEF SessionDisconnErr, SessionReads, Answers
<1>2. CASE SessionRejected
    BY <1>2, AnswersTyped DEF SessionRejected, SessionReads, Answers
<1>3. CASE SessionConn
  <2>1. should_quit' \in BOOLEAN
      BY <1>3 DEF SessionConn, SessionReads, Answers
  <2> QED BY <1>3, AnswersTyped, <2>1 DEF SessionConn, SessionReads, Answers
<1>4. CASE SessionConnErr
    BY <1>4, AnswersTyped DEF SessionConnErr, SessionReads, Answers
<1>5. CASE SessionDisconn
    BY <1>5, AnswersTyped DEF SessionDisconn, SessionReads, Answers
<1>6. CASE SessionCommand
  <2>1. should_quit' \in BOOLEAN
      BY <1>6 DEF SessionCommand, SessionReads, Answers
  <2> QED BY <1>6, AnswersTyped, MotionTyped, <2>1 DEF SessionCommand, SessionReads, Answers
<1>7. CASE SessionLost
    BY <1>7 DEF SessionLost
<1>8. CASE SessionSends
    BY <1>8 DEF SessionSends
<1>9. CASE SessionQuits
    BY <1>9 DEF SessionQuits
<1> QED BY <1>1, <1>2, <1>3, <1>4, <1>5, <1>6, <1>7, <1>8, <1>9 DEF
       SessionStep

LEMMA ImgStepTypes == TypeOK /\ ImgStep => TypeOK'
<1> SUFFICES ASSUME TypeOK, ImgStep PROVE TypeOK'
    OBVIOUS
<1> USE BacklogAssumption, ImgBacklogAssumption
        DEF TypeOK, mainVars, sessVars, connVars, imgVars, imgConnVars, Running
<1>1. CASE ImgCreate
    BY <1>1 DEF ImgCreate, ImgFrame, ImgAt
<1>2. CASE ImgCreateFails
    BY <1>2 DEF ImgCreateFails, ImgFrame, ImgAt
<1>3. CASE ImgSpin
    BY <1>3 DEF ImgSpin, ImgFrame, ImgAt
<1>4. CASE ImgCheck
    BY <1>4 DEF ImgCheck, ImgFrame, ImgAt
<1>5. CASE ImgAccept
    BY <1>5 DEF ImgAccept, ImgFrame, ImgAt
<1>6. CASE ImgAcceptError
    BY <1>6 DEF ImgAcceptError, ImgFrame, ImgAt
<1>7. CASE ImgHandshake
    BY <1>7 DEF ImgHandshake, ImgFrame, ImgAt
<1>8. CASE ImgHandshakeFails
    BY <1>8 DEF ImgHandshakeFails, ImgFrame, ImgAt
<1>9. CASE ImgRead
    BY <1>9 DEF ImgRead, ImgFrame, ImgAt
<1>10. CASE ImgReadFails
    BY <1>10 DEF ImgReadFails, ImgFrame, ImgAt
<1>11. CASE ImgDispatch
    BY <1>11 DEF ImgDispatch, ImgFrame, ImgAt
<1>12. CASE ImgReject
    BY <1>12 DEF ImgReject, ImgFrame, ImgAt
<1>13. CASE ImgReply
    BY <1>13 DEF ImgReply, ImgFrame, ImgAt
<1>14. CASE ImgSnaps
    BY <1>14 DEF ImgSnaps, ImgFrame, ImgAt
<1>15. CASE ImgSnapFails
    BY <1>15 DEF ImgSnapFails, ImgFrame, ImgAt
<1>16. CASE ImgSend
    BY <1>16 DEF ImgSend, ImgFrame, ImgAt
<1>17. CASE ImgLeave
    BY <1>17 DEF ImgLeave, ImgFrame, ImgAt
<1> QED BY <1>1, <1>2, <1>3, <1>4, <1>5, <1>6, <1>7, <1>8, <1>9, <1>10,
       <1>11, <1>12, <1>13, <1>14, <1>15, <1>16, <1>17 DEF ImgStep

LEMMA ProcessStepTypes == TypeOK /\ ProcessStep => TypeOK'
<1> SUFFICES ASSUME TypeOK, ProcessStep PROVE TypeOK'
    OBVIOUS
<1> USE BacklogAssumption, ImgBacklogAssumption
        DEF TypeOK, mainVars, sessVars, connVars, imgVars, imgConnVars, Running
<1>1. CASE BrokenPipe \/ Killed
    BY <1>1 DEF BrokenPipe, Killed, Ends
<1>2. CASE ImgTlsSetupFails
    BY <1>2 DEF ImgTlsSetupFails, Ends, ImgAt
<1>3. CASE ImgSnapFaults
    BY <1>3 DEF ImgSnapFaults, Ends, ImgAt
<1>4. CASE Restart
  <2>1. should_quit' \in BOOLEAN /\ confirmed' \in BOOLEAN
      BY <1>4 DEF Restart
  <2> QED BY <1>4, IdleTyped, <2>1 DEF Restart
<1> QED BY <1>1, <1>2, <1>3, <1>4 DEF ProcessStep

LEMMA ClientStepTypes == TypeOK /\ ClientStep => TypeOK'
<1> SUFFICES ASSUME TypeOK, ClientStep PROVE TypeOK'
    OBVIOUS
<1> USE BacklogAssumption, ImgBacklogAssumption
        DEF TypeOK, mainVars, sessVars, connVars, imgVars, imgConnVars, Running
<1>1. CASE ClientConnects
    BY <1>1 DEF ClientConnects
<1>2. CASE \E line \in ClientLines : ClientSends(line)
    BY <1>2 DEF ClientSends, ClientFrame
<1>3. CASE ClientReceives
  <2>1. confirmed' \in BOOLEAN
      BY <1>3 DEF ClientReceives, ClientFrame
  <2>2. /\ sent' = NoLine /\ reply' = NoLine
        /\ UNCHANGED <<peer, mainVars, sessVars, imgVars, imgConnVars, motion>>
      BY <1>3 DEF ClientReceives, ClientFrame
  <2> QED BY <2>1, <2>2
<1>4. CASE ClientCloses
    BY <1>4 DEF ClientCloses, ClientFrame
<1>5. CASE ImgClientConnects
    BY <1>5 DEF ImgClientConnects, ImgClientFrame
<1>6. CASE \E line \in ImgLines : ImgClientSends(line)
    BY <1>6 DEF ImgClientSends, ImgClientFrame
<1>7. CASE ImgClientCloses
    BY <1>7 DEF ImgClientCloses, ImgClientFrame
<1> QED BY <1>1, <1>2, <1>3, <1>4, <1>5, <1>6, <1>7 DEF ClientStep

(* Every variable keeps its type: in particular the flag is 0 or 1 and the *)
(* texts on the wire are the protocol's.                                   *)
THEOREM TypeCorrect == Spec => []TypeOK
<1>1. Init => TypeOK
  <2> SUFFICES ASSUME Init PROVE TypeOK
      OBVIOUS
  <2>1. should_quit \in BOOLEAN /\ confirmed \in BOOLEAN
      BY DEF Init
  <2> QED BY <2>1, BacklogAssumption, ImgBacklogAssumption, IdleTyped
          DEF Init, TypeOK
<1>2. TypeOK /\ [Next]_vars => TypeOK'
  <2> SUFFICES ASSUME TypeOK, [Next]_vars PROVE TypeOK'
      OBVIOUS
  <2>1. CASE Next
      BY <2>1, MainStepTypes, SessionStepTypes, ImgStepTypes,
         ProcessStepTypes, ClientStepTypes DEF Next
  <2>2. CASE UNCHANGED vars
      BY <2>2 DEF TypeOK, vars, mainVars, sessVars, connVars, imgVars,
                  imgConnVars
  <2> QED BY <2>1, <2>2
<1> QED BY <1>1, <1>2, PTL DEF Spec
----------------------------------------------------------------------------
(* The inductive invariant.                                                *)

(* The two tables agree: what process_cmd answers to a message of the Java *)
(* client is the confirmation the client expects.                          *)
LEMMA ConfirmationTable ==
    \A m \in ClientMessages : process_cmd(m) = messageConfirmation[m]
<1> SUFFICES ASSUME NEW m \in ClientMessages
             PROVE  process_cmd(m) = messageConfirmation[m]
    OBVIOUS
<1>1. m \in {"CONN", "FWD", "BKWD", "ROTATE_LEFT", "ROTATE_RIGHT", "FRONT_L",
             "FRONT_R", "BCK_L", "BCK_R", "DISCONN", "STOP", "PING"}
    BY DEF ClientMessages, messageConfirmation
<1> USE DEF process_cmd, put_response, CodeOf, Commands, ResponseCode,
        messageConfirmation, CONN_OK, CONN_ERR, DISCONN_OK, DISCONN_ERR, FWD_OK,
        STOP_OK, BKWD_OK, ROTATE_LEFT_OK, ROTATE_RIGHT_OK, FRONT_L_OK,
        FRONT_R_OK, BCK_L_OK, BCK_R_OK, CMD_ERR, PING, PICTURE_OK, PICTURE_ERR
<1>2. CASE m \in {"CONN", "FWD", "BKWD", "ROTATE_LEFT"}
    BY <1>2
<1>3. CASE m \in {"ROTATE_RIGHT", "FRONT_L", "FRONT_R", "BCK_L"}
    BY <1>3
<1>4. CASE m \in {"BCK_R", "DISCONN", "STOP", "PING"}
    BY <1>4
<1> QED BY <1>1, <1>2, <1>3, <1>4

LEMMA AnswerTexts ==
    /\ put_response(CONN_ERR) = "CONN_ERR"
    /\ put_response(DISCONN_OK) = messageConfirmation["DISCONN"]
    /\ \A m \in ClientMessages :
           put_response(CodeOf(m)) = messageConfirmation[m]
<1> USE DEF put_response, messageConfirmation, CONN_OK, CONN_ERR, DISCONN_OK,
        DISCONN_ERR, FWD_OK, STOP_OK, BKWD_OK, ROTATE_LEFT_OK, ROTATE_RIGHT_OK,
        FRONT_L_OK, FRONT_R_OK, BCK_L_OK, BCK_R_OK, PING, PICTURE_OK,
        PICTURE_ERR
<1>1. put_response(CONN_ERR) = "CONN_ERR"
    OBVIOUS
<1>2. put_response(DISCONN_OK) = messageConfirmation["DISCONN"]
    OBVIOUS
<1> QED BY <1>1, <1>2, ConfirmationTable DEF process_cmd

(* What each party of the system leaves alone.                             *)
LEMMA SessionFrames ==
    SessionStep =>
        /\ UNCHANGED <<mainVars, imgVars, imgConnVars, peer, confirmed>>
        /\ sessPc \in {"read", "send", "quit"}
        /\ sessPc' \in {"read", "send", "quit", "exited"}
BY DEF SessionStep, SessionDisconnErr, SessionRejected, SessionConn,
       SessionConnErr, SessionDisconn, SessionCommand, SessionLost,
       SessionSends, SessionQuits, SessionReads, Answers, connVars

LEMMA ImgFrames ==
    ImgStep =>
        /\ UNCHANGED <<mainVars, sessVars, connVars, motion>>
        /\ imgPc \notin {"none", "exited"} /\ imgPc' # "none"
BY DEF ImgStep, ImgCreate, ImgCreateFails, ImgSpin, ImgCheck, ImgAccept,
       ImgAcceptError, ImgHandshake, ImgHandshakeFails, ImgRead, ImgReadFails,
       ImgDispatch, ImgReject, ImgReply, ImgSnaps, ImgSnapFails, ImgSend,
       ImgLeave, ImgAt, ImgFrame

LEMMA ClientFrames ==
    ClientStep =>
        /\ UNCHANGED <<status, mainPc, sessVars, imgPc, listener, imgCmd,
                       picFile, motion>>
        /\ imgRequest' # imgRequest => imgPc = "read"
BY DEF ClientStep, ClientConnects, ClientSends, ClientReceives, ClientCloses,
       ImgClientConnects, ImgClientSends, ImgClientCloses, ClientFrame,
       ImgClientFrame, mainVars, imgVars, imgConnVars

LEMMA ProcessFrames ==
    ProcessStep =>
        \/ Restart
        \/ UNCHANGED <<mainPc, backlog, sessVars, connVars, imgVars,
                       imgConnVars, motion>>
BY DEF ProcessStep, BrokenPipe, Killed, ImgTlsSetupFails, ImgSnapFaults, Ends

LEMMA RestartInv == Restart => IInv'
BY DEF Restart, IInv, ThreadsInv, FlagInv, PastSpin, PortInv, CmdInv, LineInv,
       Believes, Serving, ConfirmInv, NoLine

LEMMA MainPort == TypeOK /\ IInv /\ MainStep => PortInv'
<1> SUFFICES ASSUME TypeOK, IInv, MainStep PROVE PortInv'
    OBVIOUS
<1> USE DEF IInv, PortInv, PastSpin, imgVars
<1>1. CASE UNCHANGED imgVars
    BY <1>1
<1>2. CASE MainHandshake
    BY <1>2 DEF MainHandshake, ThreadsInv
<1>3. CASE MainClose
    BY <1>3 DEF MainClose, ThreadsInv
<1> QED BY <1>1, <1>2, <1>3 DEF MainStep, MainStart, MainStartFails,
        MainAccept, MainAcceptError, MainHandshakeFails, MainJoinSession,
        MainJoinImg, Ends

LEMMA ImgPort == TypeOK /\ IInv /\ ImgStep => PortInv'
<1> SUFFICES ASSUME TypeOK, IInv, ImgStep PROVE PortInv'
    OBVIOUS
<1> USE DEF IInv, PortInv, PastSpin, ImgAt
<1>1. CASE ImgCreate \/ ImgCreateFails \/ ImgSpin \/ ImgCheck \/ ImgAccept
    BY <1>1 DEF ImgCreate, ImgCreateFails, ImgSpin, ImgCheck, ImgAccept
<1>2. CASE ImgAcceptError \/ ImgHandshake \/ ImgHandshakeFails \/ ImgLeave
    BY <1>2 DEF ImgAcceptError, ImgHandshake, ImgHandshakeFails, ImgLeave
<1>3. CASE ImgRead \/ ImgReadFails \/ ImgDispatch \/ ImgReject
    BY <1>3 DEF ImgRead, ImgReadFails, ImgDispatch, ImgReject
<1>4. CASE ImgReply \/ ImgSnaps \/ ImgSnapFails \/ ImgSend
    BY <1>4 DEF ImgReply, ImgSnaps, ImgSnapFails, ImgSend
<1> QED BY <1>1, <1>2, <1>3, <1>4 DEF ImgStep

LEMMA MainThreads == TypeOK /\ IInv /\ MainStep => ThreadsInv'
<1> SUFFICES ASSUME TypeOK, IInv, MainStep PROVE ThreadsInv'
    OBVIOUS
<1> USE DEF TypeOK, IInv, ThreadsInv, mainVars, sessVars, connVars, imgVars,
    imgConnVars
<1>1. CASE MainStart
    BY <1>1 DEF MainStart
<1>2. CASE MainStartFails
    BY <1>2 DEF MainStartFails, Ends
<1>3. CASE MainAccept
    BY <1>3 DEF MainAccept
<1>4. CASE MainAcceptError
    BY <1>4 DEF MainAcceptError, Ends
<1>5. CASE MainHandshake
    BY <1>5 DEF MainHandshake
<1>6. CASE MainHandshakeFails
    BY <1>6 DEF MainHandshakeFails, Ends
<1>7. CASE MainJoinSession
    BY <1>7 DEF MainJoinSession
<1>8. CASE MainJoinImg
    BY <1>8 DEF MainJoinImg
<1>9. CASE MainClose
    BY <1>9 DEF MainClose
<1> QED BY <1>1, <1>2, <1>3, <1>4, <1>5, <1>6, <1>7, <1>8, <1>9 DEF MainStep

LEMMA MainFlag == TypeOK /\ IInv /\ MainStep => FlagInv'
<1> SUFFICES ASSUME TypeOK, IInv, MainStep PROVE FlagInv'
    OBVIOUS
<1> USE DEF TypeOK, IInv, ThreadsInv, FlagInv, PastSpin, mainVars, sessVars,
    connVars, imgVars, imgConnVars
<1>1. CASE MainStart
    BY <1>1 DEF MainStart
<1>2. CASE MainStartFails
    BY <1>2 DEF MainStartFails, Ends
<1>3. CASE MainAccept
    BY <1>3 DEF MainAccept
<1>4. CASE MainAcceptError
    BY <1>4 DEF MainAcceptError, Ends
<1>5. CASE MainHandshake
    BY <1>5 DEF MainHandshake
<1>6. CASE MainHandshakeFails
    BY <1>6 DEF MainHandshakeFails, Ends
<1>7. CASE MainJoinSession
    BY <1>7 DEF MainJoinSession
<1>8. CASE MainJoinImg
    BY <1>8 DEF MainJoinImg
<1>9. CASE MainClose
    BY <1>9 DEF MainClose
<1> QED BY <1>1, <1>2, <1>3, <1>4, <1>5, <1>6, <1>7, <1>8, <1>9 DEF MainStep

LEMMA SessionFlag == TypeOK /\ IInv /\ SessionStep => FlagInv'
<1> SUFFICES ASSUME TypeOK, IInv, SessionStep PROVE FlagInv'
    OBVIOUS
<1> USE DEF TypeOK, IInv, FlagInv, PastSpin, mainVars, sessVars, connVars,
    imgVars, imgConnVars
<1>1. CASE SessionDisconnErr
    BY <1>1 DEF SessionDisconnErr, SessionReads, Answers
<1>2. CASE SessionRejected
    BY <1>2 DEF SessionRejected, SessionReads, Answers
<1>3. CASE SessionConn
    BY <1>3 DEF SessionConn, SessionReads, Answers
<1>4. CASE SessionConnErr
    BY <1>4 DEF SessionConnErr, SessionReads, Answers
<1>5. CASE SessionDisconn
    BY <1>5 DEF SessionDisconn, SessionReads, Answers
<1>6. CASE SessionCommand
    BY <1>6 DEF SessionCommand, SessionReads, Answers
<1>7. CASE SessionLost
    BY <1>7 DEF SessionLost
<1>8. CASE SessionSends
    BY <1>8 DEF SessionSends
<1>9. CASE SessionQuits
    BY <1>9 DEF SessionQuits
<1> QED BY <1>1, <1>2, <1>3, <1>4, <1>5, <1>6, <1>7, <1>8, <1>9 DEF
    SessionStep

LEMMA ImgFlag == TypeOK /\ IInv /\ ImgStep => FlagInv'
<1> SUFFICES ASSUME TypeOK, IInv, ImgStep PROVE FlagInv'
    OBVIOUS
<1> USE DEF TypeOK, IInv, FlagInv, PastSpin, mainVars, sessVars, connVars,
    imgVars, imgConnVars
<1>1. CASE ImgCreate
    BY <1>1 DEF ImgCreate, ImgFrame, ImgAt
<1>2. CASE ImgCreateFails
    BY <1>2 DEF ImgCreateFails, ImgFrame, ImgAt
<1>3. CASE ImgSpin
    BY <1>3 DEF ImgSpin, ImgFrame, ImgAt
<1>4. CASE ImgCheck
    BY <1>4 DEF ImgCheck, ImgFrame, ImgAt
<1>5. CASE ImgAccept
    BY <1>5 DEF ImgAccept, ImgFrame, ImgAt
<1>6. CASE ImgAcceptError
    BY <1>6 DEF ImgAcceptError, ImgFrame, ImgAt
<1>7. CASE ImgHandshake
    BY <1>7 DEF ImgHandshake, ImgFrame, ImgAt
<1>8. CASE ImgHandshakeFails
    BY <1>8 DEF ImgHandshakeFails, ImgFrame, ImgAt
<1>9. CASE ImgRead
    BY <1>9 DEF ImgRead, ImgFrame, ImgAt
<1>10. CASE ImgReadFails
    BY <1>10 DEF ImgReadFails, ImgFrame, ImgAt
<1>11. CASE ImgDispatch
    BY <1>11 DEF ImgDispatch, ImgFrame, ImgAt
<1>12. CASE ImgReject
    BY <1>12 DEF ImgReject, ImgFrame, ImgAt
<1>13. CASE ImgReply
    BY <1>13 DEF ImgReply, ImgFrame, ImgAt
<1>14. CASE ImgSnaps
    BY <1>14 DEF ImgSnaps, ImgFrame, ImgAt
<1>15. CASE ImgSnapFails
    BY <1>15 DEF ImgSnapFails, ImgFrame, ImgAt
<1>16. CASE ImgSend
    BY <1>16 DEF ImgSend, ImgFrame, ImgAt
<1>17. CASE ImgLeave
    BY <1>17 DEF ImgLeave, ImgFrame, ImgAt
<1> QED BY <1>1, <1>2, <1>3, <1>4, <1>5, <1>6, <1>7, <1>8, <1>9, <1>10, <1>11,
    <1>12, <1>13, <1>14, <1>15, <1>16, <1>17 DEF ImgStep

LEMMA MainCmd == TypeOK /\ IInv /\ MainStep => CmdInv'
<1> SUFFICES ASSUME TypeOK, IInv, MainStep PROVE CmdInv'
    OBVIOUS
<1> USE DEF TypeOK, IInv, ThreadsInv, CmdInv, mainVars, sessVars, connVars,
    imgVars, imgConnVars
<1>1. CASE MainStart
    BY <1>1 DEF MainStart
<1>2. CASE MainStartFails
    BY <1>2 DEF MainStartFails, Ends
<1>3. CASE MainAccept
    BY <1>3 DEF MainAccept
<1>4. CASE MainAcceptError
    BY <1>4 DEF MainAcceptError, Ends
<1>5. CASE MainHandshake
    BY <1>5 DEF MainHandshake
<1>6. CASE MainHandshakeFails
    BY <1>6 DEF MainHandshakeFails, Ends
<1>7. CASE MainJoinSession
    BY <1>7 DEF MainJoinSession
<1>8. CASE MainJoinImg
    BY <1>8 DEF MainJoinImg
<1>9. CASE MainClose
    BY <1>9 DEF MainClose
<1> QED BY <1>1, <1>2, <1>3, <1>4, <1>5, <1>6, <1>7, <1>8, <1>9 DEF MainStep

LEMMA ImgCmdStep == TypeOK /\ IInv /\ ImgStep => CmdInv'
<1> SUFFICES ASSUME TypeOK, IInv, ImgStep PROVE CmdInv'
    OBVIOUS
<1> USE DEF TypeOK, IInv, FlagInv, CmdInv, PastSpin, NoLine, mainVars,
    sessVars, connVars, imgVars, imgConnVars
<1>1. CASE ImgCreate
    BY <1>1 DEF ImgCreate, ImgFrame, ImgAt
<1>2. CASE ImgCreateFails
    BY <1>2 DEF ImgCreateFails, ImgFrame, ImgAt
<1>3. CASE ImgSpin
    BY <1>3 DEF ImgSpin, ImgFrame, ImgAt
<1>4. CASE ImgCheck
    BY <1>4 DEF ImgCheck, ImgFrame, ImgAt
<1>5. CASE ImgAccept
    BY <1>5 DEF ImgAccept, ImgFrame, ImgAt
<1>6. CASE ImgAcceptError
    BY <1>6 DEF ImgAcceptError, ImgFrame, ImgAt
<1>7. CASE ImgHandshake
    BY <1>7 DEF ImgHandshake, ImgFrame, ImgAt
<1>8. CASE ImgHandshakeFails
    BY <1>8 DEF ImgHandshakeFails, ImgFrame, ImgAt
<1>9. CASE ImgRead
    BY <1>9 DEF ImgRead, ImgFrame, ImgAt
<1>10. CASE ImgReadFails
    BY <1>10 DEF ImgReadFails, ImgFrame, ImgAt, Unknown
<1>11. CASE ImgDispatch
    BY <1>11 DEF ImgDispatch, ImgFrame, ImgAt
<1>12. CASE ImgReject
    BY <1>12 DEF ImgReject, ImgFrame, ImgAt
<1>13. CASE ImgReply
    BY <1>13 DEF ImgReply, ImgFrame, ImgAt
<1>14. CASE ImgSnaps
    BY <1>14 DEF ImgSnaps, ImgFrame, ImgAt
<1>15. CASE ImgSnapFails
    BY <1>15 DEF ImgSnapFails, ImgFrame, ImgAt
<1>16. CASE ImgSend
    BY <1>16 DEF ImgSend, ImgFrame, ImgAt
<1>17. CASE ImgLeave
    BY <1>17 DEF ImgLeave, ImgFrame, ImgAt
<1> QED BY <1>1, <1>2, <1>3, <1>4, <1>5, <1>6, <1>7, <1>8, <1>9, <1>10, <1>11,
    <1>12, <1>13, <1>14, <1>15, <1>16, <1>17 DEF ImgStep

LEMMA MainLine == TypeOK /\ IInv /\ MainStep => LineInv'
<1> SUFFICES ASSUME TypeOK, IInv, MainStep PROVE LineInv'
    OBVIOUS
<1> USE DEF TypeOK, IInv, LineInv, mainVars, sessVars, connVars, imgVars,
    imgConnVars
<1>1. CASE MainStart
    BY <1>1 DEF MainStart
<1>2. CASE MainStartFails
    BY <1>2 DEF MainStartFails, Ends
<1>3. CASE MainAccept
    BY <1>3 DEF MainAccept
<1>4. CASE MainAcceptError
    BY <1>4 DEF MainAcceptError, Ends
<1>5. CASE MainHandshake
    BY <1>5 DEF MainHandshake
<1>6. CASE MainHandshakeFails
    BY <1>6 DEF MainHandshakeFails, Ends
<1>7. CASE MainJoinSession
    BY <1>7 DEF MainJoinSession
<1>8. CASE MainJoinImg
    BY <1>8 DEF MainJoinImg
<1>9. CASE MainClose
    BY <1>9 DEF MainClose
<1> QED BY <1>1, <1>2, <1>3, <1>4, <1>5, <1>6, <1>7, <1>8, <1>9 DEF MainStep

LEMMA SessionLine == TypeOK /\ IInv /\ SessionStep => LineInv'
<1> SUFFICES ASSUME TypeOK, IInv, SessionStep PROVE LineInv'
    OBVIOUS
<1> USE DEF TypeOK, IInv, ThreadsInv, LineInv, Pending, mainVars, sessVars,
    connVars, imgVars, imgConnVars
<1>1. CASE SessionDisconnErr
    BY <1>1 DEF SessionDisconnErr, SessionReads, Answers
<1>2. CASE SessionRejected
    BY <1>2 DEF SessionRejected, SessionReads, Answers
<1>3. CASE SessionConn
    BY <1>3 DEF SessionConn, SessionReads, Answers
<1>4. CASE SessionConnErr
    BY <1>4 DEF SessionConnErr, SessionReads, Answers
<1>5. CASE SessionDisconn
    BY <1>5 DEF SessionDisconn, SessionReads, Answers
<1>6. CASE SessionCommand
    BY <1>6 DEF SessionCommand, SessionReads, Answers
<1>7. CASE SessionLost
    BY <1>7 DEF SessionLost
<1>8. CASE SessionSends
    BY <1>8 DEF SessionSends
<1>9. CASE SessionQuits
    BY <1>9 DEF SessionQuits
<1> QED BY <1>1, <1>2, <1>3, <1>4, <1>5, <1>6, <1>7, <1>8, <1>9 DEF
    SessionStep

LEMMA MainConfirm == TypeOK /\ IInv /\ MainStep => ConfirmInv'
<1> SUFFICES ASSUME TypeOK, IInv, MainStep PROVE ConfirmInv'
    OBVIOUS
<1> USE DEF TypeOK, IInv, ThreadsInv, LineInv, ConfirmInv, Believes, Serving,
    NoLine, mainVars, sessVars, connVars, imgVars, imgConnVars
<1>1. CASE MainStart
    BY <1>1 DEF MainStart
<1>2. CASE MainStartFails
    BY <1>2 DEF MainStartFails, Ends
<1>3. CASE MainAccept
    BY <1>3 DEF MainAccept
<1>4. CASE MainAcceptError
    BY <1>4 DEF MainAcceptError, Ends
<1>5. CASE MainHandshake
    BY <1>5 DEF MainHandshake
<1>6. CASE MainHandshakeFails
    BY <1>6 DEF MainHandshakeFails, Ends
<1>7. CASE MainJoinSession
    BY <1>7 DEF MainJoinSession
<1>8. CASE MainJoinImg
    BY <1>8 DEF MainJoinImg
<1>9. CASE MainClose
    BY <1>9 DEF MainClose
<1> QED BY <1>1, <1>2, <1>3, <1>4, <1>5, <1>6, <1>7, <1>8, <1>9 DEF MainStep

LEMMA SessionConfirm == TypeOK /\ IInv /\ SessionStep => ConfirmInv'
<1> SUFFICES ASSUME TypeOK, IInv, SessionStep PROVE ConfirmInv'
    OBVIOUS
<1> USE DEF TypeOK, IInv, FlagInv, LineInv, ConfirmInv, Believes, Serving,
    Pending, mainVars, sessVars, connVars, imgVars, imgConnVars
<1>1. CASE SessionDisconnErr
    BY <1>1 DEF SessionDisconnErr, SessionReads, Answers
<1>2. CASE SessionRejected
    BY <1>2 DEF SessionRejected, SessionReads, Answers
<1>3. CASE SessionConn
    BY <1>3 DEF SessionConn, SessionReads, Answers
<1>4. CASE SessionConnErr
    BY <1>4, AnswerTexts DEF SessionConnErr, SessionReads, Answers, NoLine
<1>5. CASE SessionDisconn
    BY <1>5, AnswerTexts DEF SessionDisconn, SessionReads, Answers
<1>6. CASE SessionCommand
    BY <1>6, AnswerTexts DEF SessionCommand, SessionReads, Answers
<1>7. CASE SessionLost
    BY <1>7 DEF SessionLost
<1>8. CASE SessionSends
    BY <1>8 DEF SessionSends
<1>9. CASE SessionQuits
    BY <1>9 DEF SessionQuits
<1> QED BY <1>1, <1>2, <1>3, <1>4, <1>5, <1>6, <1>7, <1>8, <1>9 DEF
    SessionStep

LEMMA SessionCmd == TypeOK /\ IInv /\ SessionStep => CmdInv'
<1> SUFFICES ASSUME TypeOK, IInv, SessionStep PROVE CmdInv'
    OBVIOUS
<1>1. UNCHANGED <<imgPc, imgCmd, imgRequest>> /\ sessPc # "exited"
    BY SessionFrames DEF imgVars, imgConnVars
<1>2. CASE client_connected' = client_connected
    BY <1>1, <1>2 DEF IInv, CmdInv
<1>3. CASE client_connected' = 1 /\ client_connected = 0 /\ sessPc = "read"
    BY <1>1, <1>3 DEF IInv, CmdInv, FlagInv, PastSpin
<1>4. CASE client_connected' = 0
    BY <1>1, <1>4 DEF IInv, CmdInv
<1> QED BY <1>2, <1>3, <1>4 DEF SessionStep, SessionDisconnErr,
        SessionRejected, SessionConn, SessionConnErr, SessionDisconn,
        SessionCommand, SessionLost, SessionSends, SessionQuits, SessionReads

LEMMA ClientLine == TypeOK /\ IInv /\ ClientStep => LineInv'
<1> SUFFICES ASSUME TypeOK, IInv, ClientStep PROVE LineInv'
    OBVIOUS
<1>1. UNCHANGED <<mainPc, sessPc>>
    BY ClientFrames DEF sessVars
<1> USE DEF IInv, LineInv
<1>2. CASE UNCHANGED connVars
    BY <1>1, <1>2 DEF connVars
<1>3. CASE \E line \in ClientLines : ClientSends(line)
    BY <1>1, <1>3 DEF ClientSends
<1>4. CASE ClientReceives
    BY <1>1, <1>4 DEF ClientReceives
<1>5. CASE ClientCloses
    BY <1>1, <1>5 DEF ClientCloses
<1> QED BY <1>2, <1>3, <1>4, <1>5 DEF ClientStep, ClientConnects,
        ImgClientConnects, ImgClientSends, ImgClientCloses, ImgClientFrame

LEMMA ClientConfirm == TypeOK /\ IInv /\ ClientStep => ConfirmInv'
<1> SUFFICES ASSUME TypeOK, IInv, ClientStep PROVE ConfirmInv'
    OBVIOUS
<1>1. UNCHANGED sessVars
    BY ClientFrames
<1> USE <1>1 DEF TypeOK, IInv, LineInv, ConfirmInv, Believes, Serving, sessVars
<1>2. CASE UNCHANGED connVars
    BY <1>2 DEF connVars
<1>3. CASE \E line \in ClientLines : ClientSends(line)
  <2>1. PICK line \in ClientLines : ClientSends(line)
      BY <1>3
  <2>2. sent = NoLine /\ reply = NoLine /\ sessPc # "send" /\ peer = "open"
      BY <2>1 DEF ClientSends
  <2>3. UNCHANGED <<peer, reply, confirmed>>
      BY <2>1 DEF ClientSends
  <2>4. Believes => Serving
      BY <2>2 DEF NoLine
  <2> QED BY <2>2, <2>3, <2>4 DEF NoLine
<1>4. CASE ClientReceives
    BY <1>4 DEF ClientReceives, NoLine, ClientMessages, messageConfirmation
<1>5. CASE ClientCloses
    BY <1>5 DEF ClientCloses
<1> QED BY <1>2, <1>3, <1>4, <1>5 DEF ClientStep, ClientConnects,
        ImgClientConnects, ImgClientSends, ImgClientCloses, ImgClientFrame

(* IInv is preserved: one step per party, one conjunct per lemma.          *)
LEMMA Inductive == TypeOK /\ IInv /\ [Next]_vars => IInv'
<1> SUFFICES ASSUME TypeOK, IInv, [Next]_vars PROVE IInv'
    OBVIOUS
<1>1. CASE MainStep
    BY <1>1, MainThreads, MainFlag, MainPort, MainCmd, MainLine,
       MainConfirm DEF IInv
<1>2. CASE SessionStep
  <2> USE <1>2, SessionFrames DEF mainVars, imgVars, imgConnVars
  <2>1. ThreadsInv'
      BY DEF TypeOK, IInv, ThreadsInv
  <2>2. PortInv'
      BY DEF IInv, PortInv, PastSpin
  <2> QED BY <2>1, <2>2, SessionFlag, SessionCmd, SessionLine, SessionConfirm
          DEF IInv
<1>3. CASE ImgStep
  <2> USE <1>3, ImgFrames DEF mainVars, sessVars, connVars
  <2>1. ThreadsInv'
      BY DEF TypeOK, IInv, ThreadsInv
  <2>2. LineInv'
      BY DEF IInv, LineInv
  <2>3. ConfirmInv'
      BY DEF IInv, ConfirmInv, Believes, Serving
  <2> QED BY <2>1, <2>2, <2>3, ImgFlag, ImgPort, ImgCmdStep DEF IInv
<1>4. CASE ProcessStep
  <2>1. CASE Restart
      BY <2>1, RestartInv
  <2>2. CASE UNCHANGED <<mainPc, backlog, sessVars, connVars, imgVars,
                         imgConnVars, motion>>
      BY <2>2 DEF IInv, ThreadsInv, FlagInv, PastSpin, PortInv, CmdInv,
                  LineInv, ConfirmInv, Believes, Serving, sessVars, connVars, imgVars,
                  imgConnVars
  <2> QED BY <1>4, <2>1, <2>2, ProcessFrames
<1>5. CASE ClientStep
  <2> USE <1>5, ClientFrames DEF sessVars
  <2>1. ThreadsInv'
      BY DEF IInv, ThreadsInv
  <2>2. FlagInv'
      BY DEF IInv, FlagInv, PastSpin
  <2>3. CmdInv'
      BY DEF IInv, CmdInv
  <2>4. PortInv'
      BY DEF IInv, PortInv, PastSpin
  <2> QED BY <2>1, <2>2, <2>3, <2>4, ClientLine, ClientConfirm DEF IInv
<1>6. CASE UNCHANGED vars
    BY <1>6 DEF vars, mainVars, IInv, ThreadsInv, FlagInv, PastSpin, PortInv,
                CmdInv, LineInv, ConfirmInv, Believes, Serving, sessVars, connVars,
                imgVars, imgConnVars
<1> QED BY <1>1, <1>2, <1>3, <1>4, <1>5, <1>6 DEF Next

(* The invariant of the server holds, whatever the lines and backlogs.     *)
THEOREM Invariance == Spec => []IInv
<1>1. Init => IInv
    BY DEF Init, IInv, ThreadsInv, FlagInv, PastSpin, PortInv, CmdInv,
           LineInv, ConfirmInv, Believes, Serving, NoLine
<1>2. TypeOK /\ IInv /\ [Next]_vars => IInv'
    BY Inductive
<1> QED BY <1>1, <1>2, TypeCorrect, PTL DEF Spec

----------------------------------------------------------------------------
(* The safety properties.                                                  *)

(* img_task never serves a picture that its client did not ask for.        *)
THEOREM PicturesOnRequest == Spec => []PictureOnlyOnRequest
<1>1. IInv => PictureOnlyOnRequest
    BY DEF IInv, CmdInv, PictureOnlyOnRequest
<1> QED BY <1>1, Invariance, PTL

(* img_task gives up the camera of a live session only where its socket    *)
(* calls fail, and a port it leaves open stays without a thread.           *)
THEOREM PictureLoopFollows == Spec => PictureLoopTracksSession
<1>1. ASSUME TypeOK, IInv, [Next]_vars, imgPc # "exited", imgPc' = "exited"
      PROVE  \/ client_connected = 0 /\ should_quit
             \/ imgPc = "create" /\ listener' # "live"
             \/ imgPc = "accept" /\ listener' = "none"
             \/ imgPc = "handshake" /\ listener' = "orphan"
  <2>1. ImgStep
      BY <1>1, SessionFrames, ClientFrames, ProcessFrames
         DEF Next, MainStep, MainStart, MainStartFails, MainAccept,
             MainAcceptError, MainHandshake, MainHandshakeFails,
             MainJoinSession, MainJoinImg, MainClose, Ends, Restart, imgVars,
             vars
  <2>2. ImgCreateFails \/ ImgAcceptError \/ ImgHandshakeFails \/ ImgLeave
      BY <1>1, <2>1 DEF ImgStep, ImgCreate, ImgSpin, ImgCheck, ImgAccept,
             ImgHandshake, ImgRead, ImgReadFails, ImgDispatch, ImgReject,
             ImgReply, ImgSnaps, ImgSnapFails, ImgSend
  <2>3. CASE ImgLeave
      BY <1>1, <2>3 DEF ImgLeave, ImgAt, IInv, FlagInv, PastSpin
  <2>4. CASE ImgCreateFails
      BY <1>1, <2>4 DEF ImgCreateFails, ImgAt, IInv, PortInv, PastSpin
  <2> QED BY <2>2, <2>3, <2>4
          DEF ImgAcceptError, ImgHandshakeFails, ImgAt
<1>2. ASSUME TypeOK, IInv, [Next]_vars, Running, listener = "orphan", Running'
      PROVE  listener' = "orphan" /\ imgPc' \in {"none", "create", "exited"}
  <2>1. imgPc \in {"none", "create", "exited"}
      BY <1>2 DEF IInv, PortInv, PastSpin, TypeOK
  <2>2. CASE ImgStep
      BY <1>2, <2>1, <2>2
         DEF ImgStep, ImgAt, ImgCreate, ImgCreateFails, ImgSpin, ImgCheck,
             ImgAccept, ImgAcceptError, ImgHandshake, ImgHandshakeFails,
             ImgRead, ImgReadFails, ImgDispatch, ImgReject, ImgReply, ImgSnaps,
             ImgSnapFails, ImgSend, ImgLeave
  <2>3. CASE MainStep
      BY <1>2, <2>1, <2>3
         DEF MainStep, MainStart, MainStartFails, MainAccept, MainAcceptError,
             MainHandshake, MainHandshakeFails, MainJoinSession, MainJoinImg,
             MainClose, Ends, imgVars
  <2>4. CASE ProcessStep
      BY <1>2, <2>1, <2>4, ProcessFrames DEF Restart, imgVars
  <2> QED BY <1>2, <2>1, <2>2, <2>3, <2>4, SessionFrames, ClientFrames
          DEF Next, imgVars, vars
<1>3. TypeOK /\ IInv /\ [Next]_vars =>
        [/\ imgPc # "exited" /\ imgPc' = "exited" =>
                \/ client_connected = 0 /\ should_quit
                \/ imgPc = "create" /\ listener' # "live"
                \/ imgPc = "accept" /\ listener' = "none"
                \/ imgPc = "handshake" /\ listener' = "orphan"
         /\ Running /\ listener = "orphan" /\ Running' =>
                listener' = "orphan"
                  /\ imgPc' \in {"none", "create", "exited"}
        ]_vars
    BY <1>1, <1>2
<1> QED BY <1>3, Invariance, TypeCorrect, PTL
        DEF Spec, PictureLoopTracksSession

(* A client that was told CONN_OK is connected until it asks otherwise.    *)
THEOREM ConfirmedConnected == Spec => []ConfirmedMeansConnected
<1>1. IInv => ConfirmedMeansConnected
    BY DEF IInv, ConfirmInv, Believes, Serving, ConfirmedMeansConnected
<1> QED BY <1>1, Invariance, PTL

(* The answers a connected Java client reads are those it compares with.   *)
THEOREM ConfirmedAccepted == Spec => []ConfirmedCommandsAccepted
<1>1. IInv => ConfirmedCommandsAccepted
    BY DEF IInv, ConfirmInv, Believes, ConfirmedCommandsAccepted
<1> QED BY <1>1, Invariance, PTL

----------------------------------------------------------------------------
(* The refinement of RobotLink.                                            *)

(* The value of pic in RobotLink.                                          *)
ServesPicture == Running /\ imgPc \in {"reply", "snap", "send"}

LEMMA LinkFrame ==
    ASSUME UNCHANGED <<status, client_connected, motion>>,
           UNCHANGED ServesPicture
    PROVE  UNCHANGED Link!vars
BY DEF Link!vars, Running, ServesPicture

LEMMA LinkHalt ==
    ASSUME Running, status' \in {"exited", "killed"},
           UNCHANGED <<client_connected, motion>>
    PROVE  Link!Halt
BY DEF Link!Halt, Running

LEMMA LinkMain == TypeOK /\ IInv /\ MainStep => [Link!Next]_Link!vars
<1> SUFFICES ASSUME TypeOK, IInv, MainStep PROVE [Link!Next]_Link!vars
    OBVIOUS
<1> USE DEF sessVars, imgVars
<1>1. CASE MainStart \/ MainAccept \/ MainJoinSession \/ MainJoinImg
    BY <1>1, LinkFrame DEF MainStart, MainAccept, MainJoinSession, MainJoinImg,
                           ServesPicture, Running
<1>2. CASE MainStartFails \/ MainAcceptError \/ MainHandshakeFails
    BY <1>2, LinkHalt DEF MainStartFails, MainAcceptError, MainHandshakeFails,
                          Ends, Link!Next
<1>3. CASE MainHandshake
    BY <1>3, LinkFrame DEF MainHandshake, ServesPicture, Running, IInv,
                           ThreadsInv
<1>4. CASE MainClose
    BY <1>4, LinkFrame DEF MainClose, ServesPicture, Running, IInv, ThreadsInv
<1> QED BY <1>1, <1>2, <1>3, <1>4 DEF MainStep

LEMMA LinkSession == TypeOK /\ IInv /\ SessionStep => [Link!Next]_Link!vars
<1> SUFFICES ASSUME TypeOK, IInv, SessionStep PROVE [Link!Next]_Link!vars
    OBVIOUS
<1>1. UNCHANGED <<status, imgPc>>
    BY SessionFrames DEF mainVars, imgVars
<1>2. UNCHANGED Running /\ UNCHANGED ServesPicture
    BY <1>1 DEF Running, ServesPicture
<1>3. CASE UNCHANGED <<client_connected, motion>>
    BY <1>1, <1>2, <1>3, LinkFrame
<1>4. CASE SessionConn
  <2>1. ~PastSpin
      BY <1>4 DEF SessionConn, SessionReads, IInv, FlagInv
  <2> QED BY <1>2, <1>4, <2>1
          DEF SessionConn, SessionReads, PastSpin, ServesPicture, Link!Open,
              Link!Next
<1>5. CASE SessionDisconn \/ (SessionQuits /\ client_connected = 1)
  <2>1. Running /\ client_connected = 1 /\ client_connected' = 0
      BY <1>5 DEF SessionDisconn, SessionQuits, SessionReads
  <2>2. UNCHANGED motion
      BY <1>5 DEF SessionDisconn, SessionQuits
  <2>3. Link!Close
      BY <1>2, <2>1, <2>2 DEF ServesPicture, Link!Close
  <2> QED BY <2>3 DEF Link!Next
<1>6. CASE SessionCommand
  <2>1. motion' \in MotorCalls
      BY <1>6, MotionTyped DEF SessionCommand, TypeOK
  <2>2. Link!Drive(motion')
      BY <1>2, <1>6 DEF SessionCommand, SessionReads, ServesPicture, Link!Drive
  <2> QED BY <2>1, <2>2 DEF Link!Next
<1> QED BY <1>3, <1>4, <1>5, <1>6
        DEF SessionStep, SessionDisconnErr, SessionRejected, SessionConnErr,
            SessionLost, SessionSends, SessionQuits, TypeOK

LEMMA LinkImg == TypeOK /\ IInv /\ ImgStep => [Link!Next]_Link!vars
<1> SUFFICES ASSUME TypeOK, IInv, ImgStep PROVE [Link!Next]_Link!vars
    OBVIOUS
<1>1. UNCHANGED <<status, client_connected, motion>>
    BY ImgFrames DEF mainVars, sessVars
<1>2. CASE UNCHANGED ServesPicture
    BY <1>1, <1>2, LinkFrame
<1>3. CASE ImgDispatch /\ imgPc' = "reply"
    BY <1>1, <1>3 DEF ImgDispatch, ImgAt, Running, Link!StartPicture, Link!Next
<1>4. CASE ImgSend
    BY <1>1, <1>4 DEF ImgSend, ImgAt, Running, Link!EndPicture, Link!Next
<1>5. (imgPc \in {"reply", "snap", "send"}) = (imgPc' \in {"reply", "snap", "send"})
        => UNCHANGED ServesPicture
    BY <1>1 DEF ServesPicture, Running
<1> QED BY <1>2, <1>3, <1>4, <1>5
        DEF ImgStep, ImgCreate, ImgCreateFails, ImgSpin, ImgCheck, ImgAccept,
            ImgAcceptError, ImgHandshake, ImgHandshakeFails, ImgRead,
            ImgReadFails, ImgDispatch, ImgReject, ImgReply, ImgSnaps,
            ImgSnapFails, ImgLeave, ImgAt

LEMMA LinkProcess == TypeOK /\ ProcessStep => [Link!Next]_Link!vars
<1> SUFFICES ASSUME TypeOK, ProcessStep PROVE [Link!Next]_Link!vars
    OBVIOUS
<1>1. CASE BrokenPipe \/ Killed \/ ImgTlsSetupFails \/ ImgSnapFaults
    BY <1>1, LinkHalt DEF BrokenPipe, Killed, ImgTlsSetupFails, ImgSnapFaults, ImgAt,
                          Ends, sessVars, Link!Next
<1>2. CASE Restart
    BY <1>2 DEF Restart, Running, Link!Reboot, Link!Next
<1> QED BY <1>1, <1>2 DEF ProcessStep

(* The server refines RobotLink: it is driven and starts a picture only    *)
(* while connected, and is not connected anew while a picture is served.   *)
THEOREM Refinement == Spec => ImplementsLink
<1>1. Init => Link!Init
    BY DEF Init, Running, Link!Init
<1>2. TypeOK /\ IInv /\ [Next]_vars => [Link!Next]_Link!vars
  <2> SUFFICES ASSUME TypeOK, IInv, [Next]_vars PROVE [Link!Next]_Link!vars
      OBVIOUS
  <2>1. CASE ClientStep
      BY <2>1, ClientFrames, LinkFrame DEF sessVars, ServesPicture, Running
  <2>2. CASE UNCHANGED vars
      BY <2>2, LinkFrame DEF vars, mainVars, sessVars, imgVars, ServesPicture,
                             Running
  <2> QED BY <2>1, <2>2, LinkMain, LinkSession, LinkImg, LinkProcess DEF Next
<1> QED BY <1>1, <1>2, TypeCorrect, Invariance, PTL
        DEF Spec, ImplementsLink, Link!Spec
=============================================================================
