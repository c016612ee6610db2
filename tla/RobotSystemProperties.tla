----------------------- MODULE RobotSystemProperties -----------------------
(***************************************************************************)
(* What must hold of the window and the robot together, and two sentences  *)
(* of the repository that do not.                                          *)
(***************************************************************************)
EXTENDS RobotSystem, Sequences

----------------------------------------------------------------------------
(* The keys are handled and the client is at rest.                         *)
AtRest == fx = "idle" /\ mutex = "free" /\ connected /\ conn = "open"

(* While the window shows a robot and nobody uses the client, the robot    *)
(* has this window's session and takes it for connected: the flags of the  *)
(* two programs, set by four threads, agree although neither side tells    *)
(* the other when it fails.                                                *)
RobotSharesConnection ==
    AtRest => /\ S!Running /\ peer = "open" /\ client_connected = 1
              /\ sessPc = "read" /\ mainPc = "joinSession"

(* RobotClient allows its device to answer wrongly; the robot never does   *)
(* once it has accepted the CONN, whatever became of earlier connections.  *)
(* So goForward and the others never throw a RobotException, the ping no   *)
(* LostConnectionException, and disconnect() never tries again.            *)
RobotAnswersRightly ==
    \A i \in 1 .. Len(replies) :
        replies[i].to = "CONN"
            \/ replies[i].text = messageConfirmation[replies[i].to]

(* Once the timer has handled the keys the wheels turn as the keys say, if *)
(* a command was carried out on this connection at all.                    *)
WheelsFollowKeys ==
    AtRest /\ ~newInstruction /\ robotMotion # C!None /\ C!Wanted # C!None =>
        motion = MotorCall[C!Wanted]

(* The robot is a device as RobotClient assumes one: to the window the     *)
(* system is RobotClient, so what holds of that holds here.                *)
RobotIsADevice == C!Spec

(* The wheels change only while the window waits for the command that      *)
(* changes them: no command overtakes another or comes late, unless the    *)
(* connection is lost under it.                                            *)
NoLateCommand ==
    [][S!Running /\ motion' # motion /\ conn = "open" =>
           fx = "commandReply" /\ motion' = MotorCall[C!Wanted]]_vars

(* The robot keeps what RobotClient assumes of its device: while a line of *)
(* the window is without an answer on a standing connection, the session   *)
(* thread has it before it.  (RobotServer's RequestAnswered says that the  *)
(* thread then answers it, or the connection goes.)                        *)
SentLineIsServed ==
    conn = "open" /\ lines # <<>> =>
        /\ S!Running /\ peer = "open"
        /\ lines = <<sent>> /\ sessPc \in {"read", "send"}

----------------------------------------------------------------------------
(* The inductive invariant behind them, together with those of the two     *)
(* programs.                                                               *)

(* Both ends of a standing connection take it for the same one, and once   *)
(* the window has its CONN_OK so does the robot.                           *)
EndsInv ==
    /\ conn = "open" =>
           /\ S!Running /\ peer = "open"
           /\ mainPc \in {"joinSession", "joinImg", "closing"}
           /\ fx = "connectReply" \/ confirmed
    /\ fx = "connecting" /\ Established =>
           sent = NoLine /\ (mainPc = "handshake" \/ sessPc = "read")

(* What the window waits for is what the session has before it.            *)
LineInv ==
    conn = "open" =>
        /\ lines # <<>> =>
               lines = <<sent>> /\ reply = NoLine /\ sessPc \in {"read", "send"}
        /\ replies # <<>> => sent = Head(replies).to /\ reply = Head(replies).text
        /\ lines = <<>> /\ replies = <<>> => sent = NoLine

(* A CONN is answered as one, whatever earlier sessions left in the flag.  *)
AnswerInv ==
    /\ sessPc = "send" /\ sent = "CONN" => response \in {"CONN_OK", "CONN_ERR"}
    /\ RobotAnswersRightly

(* The wheels do what the window was told, or what it is about to be told. *)
MotionInv ==
    conn = "open" =>
        IF sessPc = "send" /\ sent \in MotorCommands
          THEN motion = MotorCall[sent]
          ELSE robotMotion # C!None => motion = MotorCall[robotMotion]

JointInv == EndsInv /\ LineInv /\ AnswerInv /\ MotionInv

----------------------------------------------------------------------------
(* What the repository says and the programs do not do.                    *)

(* server.h: session_task is "started each time a new client connects to   *)
(* the server".  So a connect of the window comes to an end.               *)
ConnectEnds == (fx = "connecting") ~> (fx # "connecting")

(* UIController.java:201: with no key pressed, "robot ne bouge pas", the   *)
(* robot does not move.  So once the timer has handled that, it rests.     *)
RestsWithoutKeys ==
    AtRest /\ ~newInstruction /\ pressed = {} => motion = "idle"
=============================================================================
