----------------------- MODULE RobotClientProperties -----------------------
(***************************************************************************)
(* What must hold of the client, and two sentences of the repository that  *)
(* do not.                                                                 *)
(***************************************************************************)
EXTENDS RobotClient

----------------------------------------------------------------------------
(* Safety.                                                                 *)

(* The answer a call reads is the answer to the line it sent.  The timer,  *)
(* the buttons and the ping share one stream of answers without numbers,   *)
(* and a call that fails may leave its answer behind.                      *)
Asked ==
    CASE fx = "commandReply" -> Wanted
      [] fx = "connectReply" -> "CONN"
      [] fx = "disconnReply" -> "DISCONN"
      [] OTHER               -> NoLine
AnswerGoesToAsker ==
    replies # <<>> /\ conn = "open" =>
        /\ Asked # NoLine => Head(replies).to = Asked
        /\ wk = "reply" => Head(replies).to = "PING"

(* While the window takes the robot for connected, a device has answered   *)
(* CONN_OK on the present connection, and the client takes it for          *)
(* connected too: whatever the ping finds, the two flags, which different  *)
(* threads set, agree whenever nobody is using the client.                 *)
ConnectedMeansGreeted ==
    connected /\ mutex = "free" /\ fx # "disconnDone" => isConnected /\ accepted

(* The timer tests worker.connected, then waits for the mutex; the ping    *)
(* may lose the robot in between.  No command then reaches a device the    *)
(* window does not take for connected.                                     *)
CommandsOnlyWhileConnected ==
    fx = "commandReply" /\ conn = "open" => connected

(* Once the timer has handled the keys, the robot moves as the keys say,   *)
(* if it has carried out a command of this connection at all: wrong        *)
(* answers, keys that change in between and keys that contradict do not    *)
(* leave the last command, isMoving and the robot with different views.    *)
RobotFollowsKeys ==
    fx = "idle" /\ connected /\ conn = "open" /\ ~newInstruction
        /\ robotMotion # None /\ Wanted # None =>
        robotMotion = Wanted

----------------------------------------------------------------------------
(* The inductive invariant behind them.                                    *)

(* Who holds the mutex is in a place that holds it.                        *)
FxHolds == {"commandReply", "connecting", "connectReply", "connectNotify",
            "alert", "disconnReply"}
MutexInv ==
    /\ mutex = "fx" <=> fx \in FxHolds
    /\ mutex = "worker" <=> wk = "reply"

(* On an open connection there is one line, sent or answered, for the call *)
(* that waits, and none when nobody does.                                  *)
Asker == IF wk = "reply" THEN "PING" ELSE Asked
StreamInv ==
    conn = "open" =>
        IF Asker = NoLine
          THEN lines = <<>> /\ replies = <<>>
          ELSE \/ lines = <<Asker>> /\ replies = <<>>
               \/ lines = <<>> /\ replies # <<>> /\ Tail(replies) = <<>>
                    /\ Head(replies).to = Asker

(* An answer that is there to be read, and is what the call hopes for.     *)
Confirmed(line) == replies # <<>> /\ Text = messageConfirmation[line]

(* The flags of the two threads, the client and the device.                *)
Connecting == {"connectAcquire", "connecting", "connectReply", "alert"}
Closing == {"closeNotify", "closeJoin", "closeAcquire", "disconnReply", "closed"}
FlagsInv ==
    /\ connected /\ fx # "disconnDone" =>
           isConnected /\ (accepted \/ (fx = "disconnReply" /\ Confirmed("DISCONN")))
    /\ fx = "connectReply" => isConnected /\ (Confirmed("CONN") => accepted)
    /\ fx \in Connecting => ~connected
    /\ ~running => ~connected /\ fx \in Closing
    /\ conn = "open" => connected \/ fx = "connectReply" \/ ~running
    /\ fx = "disconnDone" => conn # "open"

(* The last command, isMoving, the robot and the keys.                     *)
CommandInv ==
    /\ fx = "commandReply" => Wanted # None
    /\ isMoving <=> lastCommand \notin {None, "STOP"}
    /\ conn = "open" =>
           IF fx = "commandReply" /\ Confirmed(Wanted)
             THEN robotMotion = Wanted
             ELSE robotMotion \in {None, lastCommand}
    /\ ~newInstruction =>
           IF Wanted = "STOP" THEN ~isMoving ELSE Wanted \in {None, lastCommand}

(* What the places, the flags and the stream have to do with each other:   *)
(* the properties above are its consequences.                              *)
IInv == MutexInv /\ StreamInv /\ FlagsInv /\ CommandInv

----------------------------------------------------------------------------
(* Liveness, of FairSpec.                                                  *)

(* The window's thread does not wait for ever for the mutex or an answer,  *)
(* even when the ping has ended its thread with an exception.              *)
Waits == {"timerAcquire", "commandReply", "connectAcquire", "connecting",
          "connectReply", "disconnAcquire", "disconnReply", "closeAcquire"}
WindowUnblocks == (fx \in Waits) ~> (fx \notin Waits)

(* A worker that is in its ping loop, or asleep in wait(), when the window *)
(* closes lets close() come to its end.                                    *)
CloseEndsFromLoop ==
    (fx = "closeNotify" /\ wk \notin {"check", "enter"}) ~> (fx = "closed")

(* A lost connection that was up for a frame of the timer is shown.        *)
DisconnectionShown ==
    (~connected /\ justDisconnected)
        ~> (label = "Disconnected" \/ connected \/ ~running)

----------------------------------------------------------------------------
(* What the repository says and the code does not do.                      *)

(* UIController.java:235: close "Closes the ui and all the active          *)
(* threads".                                                               *)
CloseEnds == (fx = "closeNotify") ~> (fx = "closed")

(* UIController.java:668: "send ping every 10 sec to ensure the connection *)
(* is still alive".  So a device that has gone is noticed by a worker that *)
(* is between two pings.                                                   *)
LostRobotNoticed ==
    (wk = "sleep" /\ connected /\ conn = "broken") ~> ~connected
=============================================================================
