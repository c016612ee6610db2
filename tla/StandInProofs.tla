--------------------------- MODULE StandInProofs ---------------------------
(***************************************************************************)
(* For every set of lines clients send: the stand-in of the client's tests *)
(* keeps its types, tells its two kinds apart by every answer, and leaves  *)
(* no port taken after a stop() that came to its end.                      *)
(***************************************************************************)
EXTENDS StandInProperties, TLAPS

Callers == {"caller", "server"}

----------------------------------------------------------------------------
(* The tables.                                                             *)

Bad == {"PINGG", "FWD_KO", "BKWD_KO", "ROTATE_LEFT_KO", "ROTATE_RIGHT_KO",
        "FRONT_L_KO", "FRONT_R_KO", "BCK_R_KO", "BCK_L_KO", "STOPP"}
Good == {"CONN_OK", "FWD_OK", "BKWD_OK", "ROTATE_LEFT_OK", "ROTATE_RIGHT_OK",
         "FRONT_L_OK", "FRONT_R_OK", "BCK_L_OK", "BCK_R_OK", "DISCONN_OK",
         "STOP_OK", "PING"}

LEMMA Messages ==
    /\ ClientMessages = {"CONN", "FWD", "BKWD", "ROTATE_LEFT", "ROTATE_RIGHT",
                         "FRONT_L", "FRONT_R", "BCK_L", "BCK_R", "DISCONN",
                         "STOP", "PING"}
    /\ DOMAIN badAnswer = ClientMessages \ {"CONN", "DISCONN"}
BY DEF ClientMessages, messageConfirmation, badAnswer

LEMMA GoodAnswers == \A m \in ClientMessages : messageConfirmation[m] \in Good
<1> SUFFICES ASSUME NEW m \in ClientMessages
             PROVE  messageConfirmation[m] \in Good
    OBVIOUS
<1>1. CASE m \in {"CONN", "FWD", "BKWD", "ROTATE_LEFT", "ROTATE_RIGHT", "FRONT_L"}
      BY <1>1 DEF messageConfirmation, Good
<1>2. CASE m \in {"FRONT_R", "BCK_L", "BCK_R", "DISCONN", "STOP", "PING"}
      BY <1>2 DEF messageConfirmation, Good
<1> QED  BY <1>1, <1>2, Messages

LEMMA BadAnswers == \A m \in DOMAIN badAnswer : badAnswer[m] \in Bad
<1> SUFFICES ASSUME NEW m \in DOMAIN badAnswer
             PROVE  badAnswer[m] \in Bad
    OBVIOUS
<1>1. CASE m \in {"FWD", "BKWD", "ROTATE_LEFT", "ROTATE_RIGHT", "FRONT_L"}
      BY <1>1 DEF badAnswer, Bad
<1>2. CASE m \in {"FRONT_R", "BCK_L", "BCK_R", "STOP", "PING"}
      BY <1>2 DEF badAnswer, Bad
<1> QED  BY <1>1, <1>2, Messages

(* Every confirmation is a text of the robot's protocol.                   *)
LEMMA GoodIsText == Good \cup {"CMD_ERR"} \subseteq Responses
<1> USE DEF put_response, CONN_OK, CONN_ERR, DISCONN_OK, DISCONN_ERR, FWD_OK,
        STOP_OK, BKWD_OK, ROTATE_LEFT_OK, ROTATE_RIGHT_OK, FRONT_L_OK,
        FRONT_R_OK, BCK_L_OK, BCK_R_OK, CMD_ERR, PING, PICTURE_OK, PICTURE_ERR
<1>1. /\ put_response(42) = "CONN_OK" /\ put_response(44) = "DISCONN_OK"
      /\ put_response(46) = "FWD_OK" /\ put_response(47) = "STOP_OK"
      /\ put_response(48) = "BKWD_OK" /\ put_response(49) = "ROTATE_LEFT_OK"
      /\ put_response(50) = "ROTATE_RIGHT_OK" /\ put_response(51) = "FRONT_L_OK"
      /\ put_response(52) = "FRONT_R_OK" /\ put_response(53) = "BCK_L_OK"
      /\ put_response(54) = "BCK_R_OK" /\ put_response(55) = "CMD_ERR"
      /\ put_response(56) = "PING"
      OBVIOUS
<1>2. \A code \in 42 .. 58 : put_response(code) \in Responses
      BY DEF Responses
<1> HIDE DEF put_response
<1>3. 42 .. 56 \subseteq 42 .. 58
      OBVIOUS
<1> QED  BY <1>1, <1>2, <1>3 DEF Good

LEMMA Disjoint ==
    /\ Good \cap Bad = {} /\ "CMD_ERR" \notin Good \cup Bad
    /\ EmptyLine \notin Good \cup Bad /\ NoLine \notin Good \cup Bad
BY DEF Good, Bad, EmptyLine, NoLine

Told == Responses \cup {badAnswer[m] : m \in DOMAIN badAnswer} \cup {EmptyLine, NoLine}

LEMMA AnswerTyped == \A line \in Lines : AnswerTo(line) \in Told
<1> SUFFICES ASSUME NEW line \in Lines
             PROVE  AnswerTo(line) \in Told
    OBVIOUS
<1>1. CASE line \notin ClientMessages
      BY <1>1, GoodIsText DEF AnswerTo, Told
<1>2. CASE line = "CONN"
      BY <1>2, Messages DEF AnswerTo, Told
<1>3. CASE line \in ClientMessages \ {"CONN"} /\ (serverType = "good" \/ line = "DISCONN")
  <2>1. AnswerTo(line) = messageConfirmation[line]
        BY <1>3 DEF AnswerTo
  <2> QED  BY <1>3, <2>1, GoodAnswers, GoodIsText DEF Told
<1>4. CASE line \in ClientMessages \ {"CONN", "DISCONN"} /\ serverType # "good"
  <2>1. AnswerTo(line) = badAnswer[line] /\ line \in DOMAIN badAnswer
        BY <1>4, Messages DEF AnswerTo
  <2> QED  BY <2>1 DEF Told
<1> QED  BY <1>1, <1>2, <1>3, <1>4

----------------------------------------------------------------------------
(* Types.                                                                  *)

LEMMA Begins == Init => TypeOK /\ IInv
<1> SUFFICES ASSUME Init PROVE TypeOK /\ IInv
    OBVIOUS
<1>1. TypeOK
      BY DEF Init, TypeOK
<1>2. AnswerInv
      BY DEF Init, AnswerInv
<1>3. SocketInv
      BY DEF Init, SocketInv
<1> QED  BY <1>1, <1>2, <1>3 DEF IInv

LEMMA ServerTypes ==
    ASSUME TypeOK, ServerStep
    PROVE  TypeOK'
<1> USE DEF TypeOK, ServerFrame, SocketsKept, Older, kindVars, flagVars,
            picVars, clientVars, picClientVars
<1>1. CASE StartsServer
      BY <1>1 DEF StartsServer
<1>2. CASE StartFails
      BY <1>2 DEF StartFails
<1>3. CASE StartsPicture
      BY <1>3 DEF StartsPicture
<1>4. CASE Loops
      BY <1>4 DEF Loops
<1>5. CASE Accepts
      BY <1>5 DEF Accepts
<1>6. CASE AcceptThrows
      BY <1>6 DEF AcceptThrows
<1>7. CASE OpensIn \/ OpensOut
      BY <1>7 DEF OpensIn, OpensOut
<1>8. CASE ServerThrows
      BY <1>8 DEF ServerThrows
<1>9. CASE Greets
  <2>1. "CONN_OK" \in Responses
        BY GoodIsText DEF Good
  <2> QED  BY <1>9, <2>1 DEF Greets, Tells
<1>10. CASE Serves
  <2>1. sent \in Lines
        BY <1>10, StandInLinesAssumption DEF Serves, Asked
  <2>2. told' \in Told
        BY <1>10, <2>1, AnswerTyped DEF Serves, Tells, Told
  <2>3. sent' \in {sent, NoLine} /\ peer' \in {peer, "closed", "reset"}
        BY <1>10 DEF Serves, Tells
  <2> QED  BY <1>10, <2>2, <2>3 DEF Serves, Told
<1>11. CASE ClientLeft
      BY <1>11 DEF ClientLeft
<1>12. CASE AfterStop
      BY <1>12 DEF AfterStop
<1> QED  BY <1>1, <1>2, <1>3, <1>4, <1>5, <1>6, <1>7, <1>8, <1>9, <1>10,
            <1>11, <1>12 DEF ServerStep

LEMMA PictureTypes ==
    ASSUME TypeOK, PictureStep
    PROVE  TypeOK'
<1> USE DEF TypeOK, PictureFrame, Older, kindVars, flagVars, mainVars,
            clientVars, picClientVars
<1>1. CASE PictureStarts
      BY <1>1 DEF PictureStarts
<1>2. CASE PictureAccepts
      BY <1>2 DEF PictureAccepts
<1>3. CASE PictureOpensIn \/ PictureOpensOut
      BY <1>3 DEF PictureOpensIn, PictureOpensOut
<1>4. CASE PictureEnds
      BY <1>4 DEF PictureEnds
<1>5. CASE PictureServes
      BY <1>5 DEF PictureServes, PictureAnswerTo
<1>6. CASE PictureSends
      BY <1>6 DEF PictureSends
<1> QED  BY <1>1, <1>2, <1>3, <1>4, <1>5, <1>6 DEF PictureStep

LEMMA StopTypes ==
    ASSUME TypeOK, StopExecution \/ \E who \in Callers : StopStep(who)
    PROVE  TypeOK'
<1> USE DEF TypeOK, StopFrame, GoesTo, Closed, ClosedBy, kindVars, flagVars, clientVars,
            picClientVars
<1>1. CASE StopExecution
      BY <1>1 DEF StopExecution
<1>2. ASSUME NEW who \in Callers, StopStep(who)
      PROVE  TypeOK'
  <2>1. CASE ClosesClient(who)
        BY <2>1 DEF ClosesClient, Callers
  <2>2. CASE ClosesIn(who) \/ ClosesOut(who)
        BY <2>2 DEF ClosesIn, ClosesOut, Callers
  <2>3. CASE ClosesServer(who)
        BY <2>3 DEF ClosesServer, Callers
  <2>4. CASE ClosesPicClient(who)
        BY <2>4 DEF ClosesPicClient, Callers
  <2>5. CASE ClosesPicIn(who) \/ ClosesPicOut(who)
        BY <2>5 DEF ClosesPicIn, ClosesPicOut, Callers
  <2>6. CASE ClosesPicServer(who)
        BY <2>6 DEF ClosesPicServer, Callers
  <2>7. CASE ClearsRunning(who)
    <3>1. running' \in BOOLEAN
          BY <2>7, Zenon DEF ClearsRunning
    <3> QED  BY <2>7, <3>1 DEF ClearsRunning, Callers
  <2> QED  BY <1>2, <2>1, <2>2, <2>3, <2>4, <2>5, <2>6, <2>7 DEF StopStep
<1> QED  BY <1>1, <1>2

ClientStep ==
    \/ Connects \/ \E m \in ClientLines : Sends(m)
    \/ \E how \in {"closed", "reset"} : Leaves(how)
    \/ PicConnects \/ \E m \in ImgLines : PicSends(m)
    \/ \E how \in {"closed", "reset"} : PicLeaves(how)

LEMMA ClientTypes ==
    ASSUME TypeOK, ClientStep
    PROVE  TypeOK'
<1> USE DEF TypeOK, ClientFrame, kindVars, flagVars, mainVars, picVars,
            clientVars, picClientVars
<1>1. CASE Connects
      BY <1>1 DEF Connects
<1>2. ASSUME NEW m \in ClientLines, Sends(m)
      PROVE  TypeOK'
      BY <1>2 DEF Sends
<1>3. ASSUME NEW how \in {"closed", "reset"}, Leaves(how)
      PROVE  TypeOK'
      BY <1>3 DEF Leaves
<1>4. CASE PicConnects
      BY <1>4 DEF PicConnects
<1>5. ASSUME NEW m \in ImgLines, PicSends(m)
      PROVE  TypeOK'
      BY <1>5 DEF PicSends
<1>6. ASSUME NEW how \in {"closed", "reset"}, PicLeaves(how)
      PROVE  TypeOK'
      BY <1>6 DEF PicLeaves
<1> QED  BY <1>1, <1>2, <1>3, <1>4, <1>5, <1>6 DEF ClientStep

LEMMA Steps ==
    Next <=> \/ ServerStep \/ PictureStep
             \/ StopExecution \/ \E who \in Callers : StopStep(who)
             \/ ClientStep
BY DEF Next, ClientStep, Callers

LEMMA KeepsType ==
    ASSUME TypeOK, [Next]_vars
    PROVE  TypeOK'
<1>1. CASE UNCHANGED vars
      BY <1>1 DEF TypeOK, vars, kindVars, flagVars, mainVars, picVars,
                  clientVars, picClientVars
<1> QED  BY <1>1, Steps, ServerTypes, PictureTypes, StopTypes, ClientTypes

----------------------------------------------------------------------------
(* Answers.                                                                *)

LEMMA AnswerStep ==
    ASSUME AnswerInv, [Next]_vars
    PROVE  AnswerInv'
(* What a line is answered depends on nothing that changes.                *)
<1>1. ASSUME UNCHANGED <<serverType, testRun, sent, told>>
      PROVE  AnswerInv'
      BY <1>1 DEF AnswerInv, StopsItself, AnswerTo
<1>2. CASE ServerStep
  <2>1. CASE Greets
    <3>1. told' \in {NoLine, "CONN_OK"}
          BY <2>1 DEF Greets, Tells
    <3> QED  BY <3>1 DEF AnswerInv
  <2>2. CASE Serves
    <3>1. CASE StopsItself(sent)
      <4>1. UNCHANGED <<serverType, testRun, sent, told>>
            BY <2>2, <3>1 DEF Serves, ServerFrame, kindVars, clientVars
      <4> QED  BY <1>1, <4>1
    <3>2. CASE ~StopsItself(sent)
      <4>1. \/ told' = NoLine
            \/ told' = AnswerTo(sent) /\ UNCHANGED <<serverType, testRun, sent>>
            BY <2>2, <3>2 DEF Serves, Tells, ServerFrame, kindVars
      <4> QED  BY <3>2, <4>1 DEF AnswerInv, AnswerTo, StopsItself
    <3> QED  BY <3>1, <3>2
  <2>3. CASE ~Greets /\ ~Serves
    <3>1. UNCHANGED <<serverType, testRun, sent, told>>
          BY <1>2, <2>3 DEF ServerStep, StartsServer, StartFails, StartsPicture,
             Loops, Accepts, AcceptThrows, OpensIn, OpensOut, ServerThrows,
             ClientLeft, AfterStop, ServerFrame, kindVars, clientVars
    <3> QED  BY <1>1, <3>1
  <2> QED  BY <2>1, <2>2, <2>3
<1>3. CASE PictureStep
  <2>1. UNCHANGED <<serverType, testRun, sent, told>>
        BY <1>3 DEF PictureStep, PictureStarts, PictureAccepts,
           PictureOpensIn, PictureOpensOut, PictureEnds, PictureServes,
           PictureSends, PictureFrame, kindVars, clientVars
  <2> QED  BY <1>1, <2>1
<1>4. CASE StopExecution \/ \E who \in Callers : StopStep(who)
  <2>1. UNCHANGED <<serverType, testRun, sent, told>>
        BY <1>4 DEF StopExecution, StopStep, ClosesClient, ClosesIn, ClosesOut,
           ClosesServer, ClosesPicClient, ClosesPicIn, ClosesPicOut,
           ClosesPicServer, ClearsRunning, StopFrame, kindVars, clientVars
  <2> QED  BY <1>1, <2>1
<1>5. CASE ClientStep
  <2>1. \/ told' = NoLine
        \/ UNCHANGED <<serverType, testRun, sent, told>>
        BY <1>5 DEF ClientStep, Connects, Sends, Leaves, PicConnects, PicSends,
           PicLeaves, ClientFrame, kindVars, clientVars
  <2> QED  BY <1>1, <2>1 DEF AnswerInv
<1>6. CASE UNCHANGED vars
      BY <1>1, <1>6 DEF vars, kindVars, clientVars
<1> QED  BY <1>2, <1>3, <1>4, <1>5, <1>6, Steps

----------------------------------------------------------------------------
(* Sockets.                                                                *)

LEMMA SocketStep ==
    ASSUME TypeOK, SocketInv, [Next]_vars
    PROVE  SocketInv'
<1> USE DEF SocketInv
<1>0. stop = [w \in Callers |-> stop[w]]
      BY DEF TypeOK, Callers
<1>1. CASE ServerStep
  <2>1. CASE StartsServer
    <3>1. serverSocket = "null"
          BY <2>1 DEF StartsServer
    <3>2. \A who \in {"caller", "server"} :
              stop[who] \notin {"picClient", "picIn", "picOut", "picSocket", "flag",
                                "done"}
          BY <3>1
    <3> QED  BY <2>1, <3>2 DEF StartsServer, ServerFrame, flagVars, picVars
  <2>2. CASE StartsPicture
    <3>1. picture = "none" /\ picServerSocket = "null"
          BY <2>2 DEF StartsPicture
    <3> QED  BY <2>2, <3>1 DEF StartsPicture, ServerFrame, SocketsKept, flagVars,
                               picVars
  <2>3. CASE Serves
    <3>1. CASE StopsItself(sent)
      <4>1. /\ server = "read" /\ server' = "stopping"
            /\ stop' = [stop EXCEPT !["server"] = "client"]
            /\ UNCHANGED <<serverSocket, picture, picServerSocket, running>>
            BY <2>3, <3>1 DEF Serves, ServerFrame, SocketsKept, flagVars, picVars
      <4>2. \A who \in {"caller", "server"} :
                stop'[who] = stop[who] \/ stop'[who] = "client"
            BY <1>0, <4>1 DEF Callers
      <4> QED  BY <4>1, <4>2
    <3>2. CASE ~StopsItself(sent)
      <4>1. /\ server = "read" /\ server' \in {"loop", "read"}
            /\ UNCHANGED <<stop, serverSocket, picture, picServerSocket, running>>
            BY <2>3, <3>2 DEF Serves, ServerFrame, SocketsKept, flagVars, picVars
      <4> QED  BY <4>1
    <3> QED  BY <3>1, <3>2
  <2>4. CASE ~StartsServer /\ ~StartsPicture /\ ~Serves
    <3>1. /\ server' \notin {"start", "startPicture"}
          /\ UNCHANGED <<stop, serverSocket, picture, picServerSocket, running>>
          BY <1>1, <2>4 DEF ServerStep, StartFails, Loops, Accepts,
             AcceptThrows, OpensIn, OpensOut, ServerThrows, Greets, ClientLeft,
             AfterStop, ServerFrame, SocketsKept, flagVars, picVars
    <3> QED  BY <3>1
  <2> QED  BY <2>1, <2>2, <2>3, <2>4
<1>2. CASE PictureStep
  <2>1. UNCHANGED <<server, serverSocket, stop, running>>
        BY <1>2 DEF PictureStep, PictureStarts, PictureAccepts,
           PictureOpensIn, PictureOpensOut, PictureEnds, PictureServes,
           PictureSends, PictureFrame, flagVars, mainVars
  <2>2. CASE PictureStarts
    <3>1. picture = "start" /\ picServerSocket = "null"
          /\ picture' \in {"accept", "ended"}
          BY <2>2 DEF PictureStarts
    <3>2. \A who \in {"caller", "server"} : stop[who] \notin {"flag", "done"}
          BY <3>1
    <3> QED  BY <2>1, <3>1, <3>2
  <2>3. CASE ~PictureStarts
    <3>1. /\ picture \notin {"none", "start"} /\ picture' \notin {"none", "start"}
          /\ UNCHANGED picServerSocket
          BY <1>2, <2>3 DEF PictureStep, PictureAccepts, PictureOpensIn,
             PictureOpensOut, PictureEnds, PictureServes, PictureSends
    <3> QED  BY <2>1, <3>1
  <2> QED  BY <2>2, <2>3
<1>3. CASE StopExecution
  <2>1. /\ UNCHANGED <<server, picture, serverSocket, picServerSocket, running>>
        /\ stop' = [stop EXCEPT !["caller"] = "client"]
        BY <1>3 DEF StopExecution, StopFrame, GoesTo
  <2>2. \A who \in {"caller", "server"} :
            stop'[who] = stop[who] \/ stop'[who] = "client"
        BY <1>0, <2>1 DEF Callers
  <2> QED  BY <2>1, <2>2
<1>4. ASSUME NEW who \in Callers, StopStep(who)
      PROVE  SocketInv'
(* Who is in stop() goes on by a step, the other one stays where it is.    *)
  <2>1. ASSUME NEW pc, GoesTo(who, pc)
        PROVE  \A w \in Callers : stop'[w] = pc \/ stop'[w] = stop[w]
        BY <1>0, <2>1 DEF GoesTo
  <2>2. UNCHANGED <<server, picture>>
        BY <1>4 DEF StopStep, ClosesClient, ClosesIn, ClosesOut, ClosesServer,
           ClosesPicClient, ClosesPicIn, ClosesPicOut, ClosesPicServer,
           ClearsRunning, StopFrame
  <2>3. CASE ClosesClient(who) \/ ClosesIn(who) \/ ClosesOut(who)
    <3>1. /\ UNCHANGED <<serverSocket, picServerSocket, running>>
          /\ \E pc \in {"socket", "in", "out", "threw"} : GoesTo(who, pc)
          BY <2>3 DEF ClosesClient, ClosesIn, ClosesOut, StopFrame, flagVars
    <3>2. \A w \in {"caller", "server"} :
              stop'[w] = stop[w] \/ stop'[w] \in {"socket", "in", "out", "threw"}
          BY <2>1, <3>1 DEF Callers
    <3> QED  BY <2>2, <3>1, <3>2
  <2>4. CASE ClosesServer(who)
    <3>1. /\ UNCHANGED <<picServerSocket, running>>
          /\ serverSocket' = Closed(serverSocket)
          /\ \E pc \in {"picClient", "threw"} :
                GoesTo(who, pc) /\ (pc = "picClient" => serverSocket # "null")
          BY <2>4 DEF ClosesServer, StopFrame, flagVars
    <3>2. /\ serverSocket' = "null" <=> serverSocket = "null"
          /\ serverSocket = "closed" => serverSocket' = "closed"
          /\ serverSocket # "null" => serverSocket' = "closed"
          BY <3>1 DEF Closed
    <3>3. \A w \in {"caller", "server"} :
              \/ stop'[w] = stop[w] \/ stop'[w] = "threw"
              \/ stop'[w] = "picClient" /\ serverSocket # "null"
          BY <2>1, <3>1 DEF Callers
    <3> QED  BY <2>2, <3>1, <3>2, <3>3
  <2>5. CASE ClosesPicClient(who) \/ ClosesPicIn(who) \/ ClosesPicOut(who)
    <3>1. /\ stop[who] \in {"picClient", "picIn", "picOut"}
          /\ UNCHANGED <<serverSocket, picServerSocket, running>>
          /\ \E pc \in {"picSocket", "picIn", "picOut", "threw"} : GoesTo(who, pc)
          BY <2>5 DEF ClosesPicClient, ClosesPicIn, ClosesPicOut, AtStop,
             StopFrame, flagVars
    <3>2. serverSocket = "closed"
          BY <3>1 DEF Callers
    <3>3. \A w \in {"caller", "server"} :
              \/ stop'[w] = stop[w]
              \/ stop'[w] \in {"picSocket", "picIn", "picOut", "threw"}
          BY <2>1, <3>1 DEF Callers
    <3> QED  BY <2>2, <3>1, <3>2, <3>3
  <2>6. CASE ClosesPicServer(who)
    <3>1. /\ stop[who] = "picSocket" /\ UNCHANGED <<serverSocket, running>>
          /\ picServerSocket' = Closed(picServerSocket)
          /\ \E pc \in {"flag", "threw"} :
                GoesTo(who, pc) /\ (pc = "flag" => picServerSocket # "null")
          BY <2>6 DEF ClosesPicServer, AtStop, StopFrame, flagVars
    <3>2. /\ picServerSocket' = "null" <=> picServerSocket = "null"
          /\ picServerSocket = "closed" => picServerSocket' = "closed"
          /\ picServerSocket # "null" => picServerSocket' = "closed"
          BY <3>1 DEF Closed
    <3>3. serverSocket = "closed"
          BY <3>1 DEF Callers
    <3>4. \A w \in {"caller", "server"} :
              \/ stop'[w] = stop[w] \/ stop'[w] = "threw"
              \/ stop'[w] = "flag" /\ picServerSocket # "null"
          BY <2>1, <3>1 DEF Callers
    <3> QED  BY <2>2, <3>1, <3>2, <3>3, <3>4
  <2>7. CASE ClearsRunning(who)
    <3>1. /\ stop[who] = "flag" /\ running' = FALSE /\ GoesTo(who, "done")
          /\ UNCHANGED <<serverSocket, picServerSocket>>
          BY <2>7 DEF ClearsRunning, AtStop, StopFrame
    <3>2. serverSocket = "closed" /\ picServerSocket = "closed"
          BY <3>1 DEF Callers
    <3>3. \A w \in {"caller", "server"} : stop'[w] = stop[w] \/ stop'[w] = "done"
          BY <2>1, <3>1 DEF Callers
    <3> QED  BY <2>2, <3>1, <3>2, <3>3
  <2> QED  BY <1>4, <2>3, <2>4, <2>5, <2>6, <2>7 DEF StopStep
<1>5. CASE ClientStep
  <2>1. UNCHANGED <<server, picture, serverSocket, picServerSocket, stop, running>>
        BY <1>5 DEF ClientStep, Connects, Sends, Leaves, PicConnects, PicSends,
           PicLeaves, ClientFrame, flagVars, mainVars, picVars
  <2> QED  BY <2>1
<1>6. CASE UNCHANGED vars
      BY <1>6 DEF vars, flagVars, mainVars, picVars
<1> QED  BY <1>1, <1>2, <1>3, <1>4, <1>5, <1>6, Steps

----------------------------------------------------------------------------
(* The theorems.                                                           *)

(* Answers are those of the last line or the greeting; a socket is opened  *)
(* once, before stop() can close it, and stays closed.                     *)
THEOREM Invariance == Spec => [](TypeOK /\ IInv)
<1>1. TypeOK /\ IInv /\ [Next]_vars => (TypeOK /\ IInv)'
      BY KeepsType, AnswerStep, SocketStep DEF IInv
<1> QED  BY <1>1, Begins, PTL DEF Spec

(* The types of both threads, of stop() and of the two clients.            *)
THEOREM TypeCorrect == Spec => []TypeOK
BY Invariance, PTL

(* A good stand-in confirms every command it does not stop at, a bad one   *)
(* none (at DISCONN it stops before its confirmation is sent): the answer  *)
(* tells the type.                                                         *)
THEOREM TypesDiffer == Spec => []TypesTellApart
<1>1. TypeOK /\ AnswerInv => TypesTellApart
  <2> SUFFICES ASSUME TypeOK, AnswerInv, sent \in ClientMessages,
                      told \notin {NoLine, "CONN_OK", EmptyLine}
               PROVE  /\ ~StopsItself(sent)
                      /\ (told = messageConfirmation[sent]) <=> (serverType = "good")
      BY DEF TypesTellApart
  <2>1. ~StopsItself(sent) /\ told = AnswerTo(sent) /\ sent # "CONN"
        BY DEF AnswerInv, AnswerTo
  <2>2. CASE serverType = "good"
        BY <2>1, <2>2 DEF AnswerTo
  <2>3. CASE serverType # "good"
    <3>1. serverType = "bad"
          BY <2>3 DEF TypeOK
    <3>2. sent # "DISCONN"
          BY <2>1, <3>1 DEF StopsItself
    <3>3. told = badAnswer[sent] /\ sent \in DOMAIN badAnswer
          BY <2>1, <2>3, <3>2, Messages DEF AnswerTo
    <3>4. told \in Bad /\ messageConfirmation[sent] \in Good
          BY <3>3, BadAnswers, GoodAnswers
    <3> QED  BY <2>1, <2>3, <3>4, Disjoint
  <2> QED  BY <2>2, <2>3
<1> QED  BY <1>1, Invariance, PTL DEF IInv

(* After a stop() that came to its end neither port is listened on, by     *)
(* whichever thread, and however early, it was called.                     *)
THEOREM StopFrees == Spec => []StopFreesPorts
<1>1. IInv => StopFreesPorts
      BY DEF IInv, SocketInv, StopFreesPorts
<1> QED  BY <1>1, Invariance, PTL
=============================================================================
