---------------------------- MODULE RobotClient ----------------------------
(***************************************************************************)
(* The Java client: the JavaFX thread of UIController (keys, animation     *)
(* timer, connect, disconnect and close), its ConnectedWorker thread, and  *)
(* the Client they share under a mutex.  The other end of the command      *)
(* connection is any device: it answers a line rightly or wrongly, and it  *)
(* may go at any time.                                                     *)
(*                                                                         *)
(* The two threads share worker.connected and worker.running without a     *)
(* lock; one step of a thread is what it does between two accesses to what *)
(* the other can change.  The window's thread handles one event at a time. *)
(***************************************************************************)
EXTENDS RobotProtocol, Sequences

CONSTANT Keys               \* the arrow keys the user has

ASSUME KeysAssumption == Keys \subseteq {"up", "down", "left", "right"}

VARIABLES
    (* UIController, the JavaFX thread *)
    fx,                 \* where it is; "idle" between two events
    pressed,            \* upPressed, downPressed, leftPressed, rightPressed
    newInstruction,     \* a key was pressed or released and not yet handled
    lastCommand,        \* the command confirmed last
    justDisconnected,   \* the timer has seen the connection
    label,              \* LConnectionStatus
    (* ConnectedWorker *)
    wk,                 \* where its thread is
    connected,          \* the flags of its object
    running,
    (* between them *)
    mutex,              \* who holds it: "free", "fx" or "worker"
    (* Client *)
    isConnected,
    isMoving,
    tries,              \* disconnect(): DISCONN lines sent, MaxTries at most
    (* the connection and the device at its other end *)
    conn,               \* "none", "open", "shut" (by the client), "broken"
    lines,              \* lines sent and not yet answered
    replies,            \* answers not yet read, with the line each answers
    accepted,           \* the device answered CONN_OK and not DISCONN_OK since
    robotMotion         \* the movement it confirmed last on this connection

uiVars == <<pressed, newInstruction, lastCommand, justDisconnected, label>>
workerVars == <<wk, connected, running>>
clientVars == <<isConnected, isMoving, tries>>
netVars == <<conn, lines, replies, accepted, robotMotion>>
vars == <<fx, uiVars, workerVars, mutex, clientVars, netVars>>

MaxTries == 5               \* disconnect(): while (... && count++ != 5)
None == "none"              \* no command, no movement

TypeOK ==
    /\ fx \in {"idle", "timerAcquire", "commandReply", "connectAcquire",
               "connecting", "connectReply", "connectNotify", "alert",
               "disconnAcquire", "disconnReply", "disconnDone", "closeNotify", "closeJoin",
               "closeAcquire", "closed"}
    /\ pressed \subseteq Keys
    /\ newInstruction \in BOOLEAN
    /\ lastCommand \in MotorCommands \cup {None}
    /\ justDisconnected \in BOOLEAN
    /\ label \in {"Connected", "Disconnected"}
    /\ wk \in {"loop", "check", "enter", "waiting", "inner", "sleep",
               "acquire", "reply", "exited", "dead"}
    /\ connected \in BOOLEAN
    /\ running \in BOOLEAN
    /\ mutex \in {"free", "fx", "worker"}
    /\ isConnected \in BOOLEAN
    /\ isMoving \in BOOLEAN
    /\ tries \in 0 .. MaxTries
    /\ conn \in {"none", "open", "shut", "broken"}
    /\ lines \in Seq(ClientMessages)
    /\ replies \in Seq([to : ClientMessages, text : Responses])
    /\ accepted \in BOOLEAN
    /\ robotMotion \in MotorCommands \cup {None}

Init ==
    /\ fx = "idle" /\ pressed = {} /\ newInstruction = FALSE
    /\ lastCommand = None /\ justDisconnected = FALSE
    /\ label = "Disconnected"
    /\ wk = "loop" /\ connected = FALSE /\ running = TRUE
    /\ mutex = "free"
    /\ isConnected = FALSE /\ isMoving = FALSE /\ tries = 0
    /\ conn = "none" /\ lines = <<>> /\ replies = <<>>
    /\ accepted = FALSE /\ robotMotion = None

----------------------------------------------------------------------------
(* What a call of Client does to the connection.                           *)

(* out.print and out.flush: a PrintWriter reports no error.                *)
Sends(line) ==
    /\ lines' = IF conn = "open" THEN Append(lines, line) ELSE lines
    /\ UNCHANGED <<conn, replies, accepted, robotMotion>>

(* in.readLine() returns a line,                                           *)
Reads ==
    /\ replies # <<>> /\ conn \in {"open", "broken"}
    /\ replies' = Tail(replies)
Text == Head(replies).text

(* or null at the end of the stream, which the caller dereferences,        *)
ReadsNull == conn = "broken" /\ replies = <<>> /\ UNCHANGED netVars

(* or throws an IOException: the connection was reset, or it was closed.   *)
ReadFails == conn \in {"broken", "shut"} /\ UNCHANGED netVars

----------------------------------------------------------------------------
(* Keys and mouse buttons; a button of a diagonal stands for two keys.     *)

Presses(ks) ==
    /\ fx = "idle"
    /\ pressed' = pressed \cup ks /\ newInstruction' = TRUE
    /\ UNCHANGED <<fx, lastCommand, justDisconnected, label, workerVars, mutex,
                   clientVars, netVars>>

Releases(ks) ==
    /\ fx = "idle"
    /\ pressed' = pressed \ ks /\ newInstruction' = TRUE
    /\ UNCHANGED <<fx, lastCommand, justDisconnected, label, workerVars, mutex,
                   clientVars, netVars>>

Chords ==
    {{k} : k \in Keys}
        \cup {{u, s} : u \in Keys \cap {"up", "down"},
                       s \in Keys \cap {"left", "right"}}

(* The command the pressed keys stand for; None when they contradict.      *)
Wanted ==
    LET up == "up" \in pressed
        down == "down" \in pressed
        left == "left" \in pressed
        right == "right" \in pressed
    IN  CASE up /\ left                            -> "FRONT_L"
          [] up /\ ~left /\ right                  -> "FRONT_R"
          [] up /\ ~left /\ ~right /\ ~down        -> "FWD"
          [] ~up /\ down /\ left                   -> "BCK_L"
          [] ~up /\ down /\ ~left /\ right         -> "BCK_R"
          [] ~up /\ down /\ ~left /\ ~right        -> "BKWD"
          [] ~up /\ ~down /\ left /\ ~right        -> "ROTATE_LEFT"
          [] ~up /\ ~down /\ ~left /\ right        -> "ROTATE_RIGHT"
          [] ~up /\ ~down /\ ~left /\ ~right       -> "STOP"
          [] OTHER                                 -> None

(* Whether the timer calls the client for it.                              *)
MustSend ==
    CASE Wanted = None   -> FALSE
      [] Wanted = "STOP" -> isMoving
      [] OTHER           -> lastCommand # Wanted

----------------------------------------------------------------------------
(* AnimationTimer.handle.                                                  *)

FrameConnected ==
    /\ fx = "idle" /\ connected
    /\ justDisconnected' = TRUE /\ fx' = "timerAcquire"
    /\ UNCHANGED <<pressed, newInstruction, lastCommand, label, workerVars,
                   mutex, clientVars, netVars>>

(* Mutant: the label is forgotten.                                         *)
MutFrameDisconnected ==
    /\ fx \in {"idle", "alert"} /\ ~connected /\ justDisconnected
    /\ connected' = FALSE /\ justDisconnected' = FALSE
    /\ UNCHANGED <<fx, label, pressed, newInstruction, lastCommand, wk, running,
                   mutex, clientVars, netVars>>

(* The timer goes on behind an alert.                                      *)
FrameDisconnected ==
    /\ fx \in {"idle", "alert"} /\ ~connected /\ justDisconnected
    /\ label' = "Disconnected" /\ connected' = FALSE
    /\ justDisconnected' = FALSE
    /\ UNCHANGED <<fx, pressed, newInstruction, lastCommand, wk, running, mutex,
                   clientVars, netVars>>

(* The mutex is acquired, and released again without a call that sends.    *)
FramePasses ==
    /\ fx = "timerAcquire" /\ mutex = "free"
    /\ \/ ~newInstruction /\ UNCHANGED newInstruction
       \/ newInstruction /\ ~MustSend /\ newInstruction' = FALSE
       \/ newInstruction /\ MustSend /\ ~isConnected /\ UNCHANGED newInstruction
    /\ fx' = "idle"
    /\ UNCHANGED <<pressed, lastCommand, justDisconnected, label, workerVars,
                   mutex, clientVars, netVars>>

(* Mutant: the timer does not wait for the answer.                         *)
MutFrameSends ==
    /\ fx = "timerAcquire" /\ mutex = "free"
    /\ newInstruction /\ MustSend /\ isConnected
    /\ mutex' = "free" /\ fx' = "idle"
    /\ Sends(Wanted)
    /\ UNCHANGED <<uiVars, workerVars, clientVars>>

FrameSends ==
    /\ fx = "timerAcquire" /\ mutex = "free"
    /\ newInstruction /\ MustSend /\ isConnected
    /\ mutex' = "fx" /\ fx' = "commandReply"
    /\ Sends(Wanted)
    /\ UNCHANGED <<uiVars, workerVars, clientVars>>

CommandConfirmed ==
    /\ fx = "commandReply" /\ Reads /\ Text = messageConfirmation[Wanted]
    /\ isMoving' = (Wanted # "STOP")
    /\ lastCommand' = Wanted /\ newInstruction' = FALSE
    /\ mutex' = "free" /\ fx' = "idle"
    /\ UNCHANGED <<pressed, justDisconnected, label, workerVars, isConnected,
                   tries, conn, lines, accepted, robotMotion>>

(* Mutant: the instruction counts as handled whatever came of it.          *)
MutCommandFails ==
    /\ fx = "commandReply"
    /\ \/ /\ Reads /\ Text # messageConfirmation[Wanted]
          /\ UNCHANGED <<conn, lines, accepted, robotMotion>>
       \/ ReadsNull
       \/ ReadFails
    /\ newInstruction' = FALSE
    /\ mutex' = "free" /\ fx' = "idle"
    /\ UNCHANGED <<pressed, lastCommand, justDisconnected, label, workerVars,
                   clientVars>>

(* A wrong answer, null or an IOException: none reaches the last lines of  *)
(* the try block.  (The alert of a wrong answer is refused by JavaFX in an *)
(* animation.)                                                             *)
CommandFails ==
    /\ fx = "commandReply"
    /\ \/ /\ Reads /\ Text # messageConfirmation[Wanted]
          /\ UNCHANGED <<conn, lines, accepted, robotMotion>>
       \/ ReadsNull
       \/ ReadFails
    /\ mutex' = "free" /\ fx' = "idle"
    /\ UNCHANGED <<uiVars, workerVars, clientVars>>

TimerStep ==
    \/ FrameConnected \/ FrameDisconnected \/ FramePasses \/ FrameSends
    \/ CommandConfirmed \/ CommandFails

----------------------------------------------------------------------------
(* connectButtonPressed and Client.connect.  While connected, the button   *)
(* only warns.                                                             *)

ConnectPressed ==
    /\ fx = "idle" /\ ~connected
    /\ fx' = "connectAcquire"
    /\ UNCHANGED <<uiVars, workerVars, mutex, clientVars, netVars>>

(* createSocket, then startHandshake, which has no time limit.             *)
ConnectStarts ==
    /\ fx = "connectAcquire" /\ mutex = "free"
    /\ mutex' = "fx" /\ fx' = "connecting"
    /\ UNCHANGED <<uiVars, workerVars, clientVars, netVars>>

(* No connection, or no TLS session over it.  In the second case the       *)
(* client's streams are already those of the new socket.                   *)
ConnectFails ==
    /\ fx = "connecting"
    /\ fx' = "alert"
    /\ \/ UNCHANGED netVars
       \/ /\ conn' = "broken" /\ lines' = <<>> /\ replies' = <<>>
          /\ accepted' = FALSE /\ robotMotion' = None
    /\ UNCHANGED <<uiVars, workerVars, mutex, clientVars>>

ConnectSends ==
    /\ fx = "connecting"
    /\ fx' = "connectReply"
    /\ isConnected' = TRUE
    /\ conn' = "open" /\ lines' = <<"CONN">> /\ replies' = <<>>
    /\ accepted' = FALSE /\ robotMotion' = None
    /\ UNCHANGED <<uiVars, workerVars, mutex, isMoving, tries>>

(* Mutant: only CONN_ERR is refused.                                       *)
MutConnectConfirmed ==
    /\ fx = "connectReply" /\ Reads /\ Text # "CONN_ERR"
    /\ connected' = TRUE /\ label' = "Connected"
    /\ fx' = "connectNotify"
    /\ UNCHANGED <<pressed, newInstruction, lastCommand, justDisconnected, wk,
                   running, mutex, clientVars, conn, lines, accepted,
                   robotMotion>>

ConnectConfirmed ==
    /\ fx = "connectReply" /\ Reads /\ Text = messageConfirmation["CONN"]
    /\ connected' = TRUE /\ label' = "Connected"
    /\ fx' = "connectNotify"
    /\ UNCHANGED <<pressed, newInstruction, lastCommand, justDisconnected, wk,
                   running, mutex, clientVars, conn, lines, accepted,
                   robotMotion>>

(* Any other end is a CantConnectException; isConnected stays as it is.    *)
ConnectRefused ==
    /\ fx = "connectReply"
    /\ \/ /\ Reads /\ Text # messageConfirmation["CONN"]
          /\ conn' = "shut" /\ UNCHANGED <<lines, accepted, robotMotion>>
       \/ ReadsNull
       \/ ReadFails
    /\ fx' = "alert"
    /\ UNCHANGED <<uiVars, workerVars, mutex, clientVars>>

(* synchronized (worker) { worker.notify(); }                              *)
Notifies == wk' = IF wk = "waiting" THEN "inner" ELSE wk

ConnectNotifies ==
    /\ fx = "connectNotify"
    /\ Notifies
    /\ mutex' = "free" /\ fx' = "idle"
    /\ UNCHANGED <<uiVars, connected, running, clientVars, netVars>>

(* The user dismisses the alert, which is shown with the mutex held.       *)
AlertClosed ==
    /\ fx = "alert"
    /\ label' = "Disconnected" /\ connected' = FALSE
    /\ mutex' = "free" /\ fx' = "idle"
    /\ UNCHANGED <<pressed, newInstruction, lastCommand, justDisconnected, wk,
                   running, clientVars, netVars>>

----------------------------------------------------------------------------
(* disconnectButtonPressed and Client.disconnect.                          *)

DisconnectPressed ==
    /\ fx = "idle" /\ connected
    /\ fx' = "disconnAcquire"
    /\ UNCHANGED <<uiVars, workerVars, mutex, clientVars, netVars>>

DisconnectSends ==
    /\ \/ fx = "disconnAcquire"
       \/ fx = "closeAcquire" /\ isConnected
    /\ mutex = "free"
    /\ mutex' = "fx" /\ fx' = "disconnReply" /\ tries' = 1
    /\ Sends("DISCONN")
    /\ UNCHANGED <<uiVars, workerVars, isConnected, isMoving>>

(* disconnect() returns, or throws what its caller handles.  Called by the *)
(* button it is followed by setDisconnected; called by close, by nothing.  *)
DisconnectReturns ==
    /\ mutex' = "free" /\ tries' = 0
    /\ fx' = IF running THEN "disconnDone" ELSE "closed"
    /\ UNCHANGED <<uiVars, workerVars, isMoving>>

DisconnectConfirmed ==
    /\ fx = "disconnReply" /\ Reads /\ Text = messageConfirmation["DISCONN"]
    /\ conn' = "shut" /\ isConnected' = FALSE
    /\ UNCHANGED <<lines, accepted, robotMotion>>
    /\ DisconnectReturns

(* Mutant: one line more than five.                                        *)
MutDisconnectAgain ==
    /\ fx = "disconnReply" /\ Reads /\ Text # messageConfirmation["DISCONN"]
    /\ tries <= MaxTries
    /\ tries' = tries + 1
    /\ lines' = IF conn = "open" THEN Append(lines, "DISCONN") ELSE lines
    /\ UNCHANGED <<fx, uiVars, workerVars, mutex, isConnected, isMoving, conn,
                   accepted, robotMotion>>

DisconnectAgain ==
    /\ fx = "disconnReply" /\ Reads /\ Text # messageConfirmation["DISCONN"]
    /\ tries < MaxTries
    /\ tries' = tries + 1
    /\ lines' = IF conn = "open" THEN Append(lines, "DISCONN") ELSE lines
    /\ UNCHANGED <<fx, uiVars, workerVars, mutex, isConnected, isMoving, conn,
                   accepted, robotMotion>>

DisconnectGivesUp ==
    /\ fx = "disconnReply" /\ Reads /\ Text # messageConfirmation["DISCONN"]
    /\ tries = MaxTries
    /\ conn' = "shut" /\ UNCHANGED <<isConnected, lines, accepted, robotMotion>>
    /\ DisconnectReturns

DisconnectFails ==
    /\ fx = "disconnReply" /\ ReadFails
    /\ UNCHANGED isConnected
    /\ DisconnectReturns

(* The NullPointerException leaves the handler, or close, altogether.      *)
DisconnectThrows ==
    /\ fx = "disconnReply" /\ ReadsNull
    /\ mutex' = "free" /\ tries' = 0
    /\ fx' = IF running THEN "idle" ELSE "closed"
    /\ UNCHANGED <<uiVars, workerVars, isConnected, isMoving>>

DisconnectDone ==
    /\ fx = "disconnDone"
    /\ label' = "Disconnected" /\ connected' = FALSE
    /\ fx' = "idle"
    /\ UNCHANGED <<pressed, newInstruction, lastCommand, justDisconnected, wk,
                   running, mutex, clientVars, netVars>>

DisconnectStep ==
    \/ DisconnectSends \/ DisconnectConfirmed \/ DisconnectAgain
    \/ DisconnectGivesUp \/ DisconnectFails \/ DisconnectThrows
    \/ DisconnectDone

----------------------------------------------------------------------------
(* close(): the window is gone and Launcher.stop was called.               *)

(* Mutant: the worker is told to stop but not that it is disconnected.     *)
MutCloseRequested ==
    /\ fx = "idle"
    /\ running' = FALSE
    /\ fx' = "closeNotify"
    /\ UNCHANGED <<uiVars, wk, connected, mutex, clientVars, netVars>>

CloseRequested ==
    /\ fx = "idle"
    /\ running' = FALSE /\ connected' = FALSE
    /\ fx' = "closeNotify"
    /\ UNCHANGED <<uiVars, wk, mutex, clientVars, netVars>>

CloseNotifies ==
    /\ fx = "closeNotify"
    /\ Notifies
    /\ fx' = "closeJoin"
    /\ UNCHANGED <<uiVars, connected, running, mutex, clientVars, netVars>>

CloseJoins ==
    /\ fx = "closeJoin" /\ wk \in {"exited", "dead"}
    /\ fx' = "closeAcquire"
    /\ UNCHANGED <<uiVars, workerVars, mutex, clientVars, netVars>>

CloseNotConnected ==
    /\ fx = "closeAcquire" /\ mutex = "free" /\ ~isConnected
    /\ fx' = "closed"
    /\ UNCHANGED <<uiVars, workerVars, mutex, clientVars, netVars>>

CloseStep == CloseNotifies \/ CloseJoins \/ CloseNotConnected

----------------------------------------------------------------------------
(* ConnectedWorker.run.                                                    *)

WorkerFrame == UNCHANGED <<fx, uiVars, running, isMoving, tries>>

(* while (running)                                                         *)
WorkerLoops ==
    /\ wk = "loop"
    /\ wk' = IF running THEN "check" ELSE "exited"
    /\ UNCHANGED <<connected, mutex, isConnected, netVars>> /\ WorkerFrame

(* if (!connected), tested before the monitor is entered                   *)
WorkerChecks ==
    /\ wk = "check"
    /\ wk' = IF connected THEN "inner" ELSE "enter"
    /\ UNCHANGED <<connected, mutex, isConnected, netVars>> /\ WorkerFrame

(* synchronized (this) { wait(); }                                         *)
WorkerEnters ==
    /\ wk = "enter"
    /\ wk' = "waiting"
    /\ UNCHANGED <<connected, mutex, isConnected, netVars>> /\ WorkerFrame

(* wait() may return without a notify.                                     *)
WorkerWakes ==
    /\ wk = "waiting"
    /\ wk' = "inner"
    /\ UNCHANGED <<connected, mutex, isConnected, netVars>> /\ WorkerFrame

(* while (connected)                                                       *)
WorkerTests ==
    /\ wk = "inner"
    /\ wk' = IF connected THEN "sleep" ELSE "loop"
    /\ UNCHANGED <<connected, mutex, isConnected, netVars>> /\ WorkerFrame

(* Ten seconds later: if (!connected) break;                               *)
WorkerSlept ==
    /\ wk = "sleep"
    /\ wk' = IF connected THEN "acquire" ELSE "loop"
    /\ UNCHANGED <<connected, mutex, isConnected, netVars>> /\ WorkerFrame

(* Mutant: the ping does not wait for the mutex.                           *)
MutWorkerPings ==
    /\ wk = "acquire"
    /\ wk' = "reply"
    /\ Sends("PING")
    /\ UNCHANGED <<connected, mutex, isConnected>> /\ WorkerFrame

WorkerPings ==
    /\ wk = "acquire" /\ mutex = "free"
    /\ mutex' = "worker" /\ wk' = "reply"
    /\ Sends("PING")
    /\ UNCHANGED <<connected, isConnected>> /\ WorkerFrame

WorkerPinged ==
    /\ wk = "reply" /\ Reads /\ Text = messageConfirmation["PING"]
    /\ mutex' = "free" /\ wk' = "inner"
    /\ UNCHANGED <<connected, isConnected, conn, lines, accepted, robotMotion>>
    /\ WorkerFrame

(* Mutant: the LostConnectionException is thrown and nothing closed.       *)
MutWorkerLost ==
    /\ wk = "reply" /\ Reads /\ Text # messageConfirmation["PING"]
    /\ connected' = FALSE
    /\ mutex' = "free" /\ wk' = "inner"
    /\ UNCHANGED <<isConnected, conn, lines, accepted, robotMotion>>
    /\ WorkerFrame

(* A wrong answer: LostConnectionException.                                *)
WorkerLost ==
    /\ wk = "reply" /\ Reads /\ Text # messageConfirmation["PING"]
    /\ isConnected' = FALSE /\ conn' = "shut"
    /\ connected' = FALSE
    /\ mutex' = "free" /\ wk' = "inner"
    /\ UNCHANGED <<lines, accepted, robotMotion>> /\ WorkerFrame

WorkerFails ==
    /\ wk = "reply" /\ ReadFails
    /\ connected' = FALSE
    /\ mutex' = "free" /\ wk' = "inner"
    /\ UNCHANGED isConnected /\ WorkerFrame

(* Mutant: the mutex is not released in a finally block.                   *)
MutWorkerThrows ==
    /\ wk = "reply" /\ ReadsNull
    /\ wk' = "dead"
    /\ UNCHANGED <<mutex, connected, isConnected>> /\ WorkerFrame

(* The NullPointerException ends the thread, and nobody is told.           *)
WorkerThrows ==
    /\ wk = "reply" /\ ReadsNull
    /\ mutex' = "free" /\ wk' = "dead"
    /\ UNCHANGED <<connected, isConnected>> /\ WorkerFrame

WorkerReads == WorkerPinged \/ WorkerLost \/ WorkerFails \/ WorkerThrows

----------------------------------------------------------------------------
(* The device at the other end.                                            *)

DeviceFrame == UNCHANGED <<fx, uiVars, workerVars, mutex, clientVars, conn>>

(* It answers the line it has waited for longest.  A device that is not    *)
(* the robot, or is not willing, says something else than the confirmation *)
(* and carries nothing out.                                                *)
DeviceAnswers(text) ==
    /\ conn = "open" /\ lines # <<>>
    /\ LET line == Head(lines)
           confirms == text = messageConfirmation[line]
       IN  /\ replies' = Append(replies, [to |-> line, text |-> text])
           /\ accepted' = IF confirms /\ line \in {"CONN", "DISCONN"}
                            THEN line = "CONN" ELSE accepted
           /\ robotMotion' = IF confirms /\ line \in MotorCommands
                               THEN line ELSE robotMotion
    /\ lines' = Tail(lines)
    /\ DeviceFrame

DeviceGoes ==
    /\ conn = "open"
    /\ conn' = "broken" /\ lines' = <<>>
    /\ UNCHANGED <<fx, uiVars, workerVars, mutex, clientVars, replies, accepted,
                   robotMotion>>

----------------------------------------------------------------------------
UserStep ==
    \/ \E ks \in Chords : Presses(ks) \/ Releases(ks)
    \/ ConnectPressed \/ DisconnectPressed \/ CloseRequested \/ AlertClosed

ConnectStep ==
    \/ ConnectStarts \/ ConnectFails \/ ConnectSends
    \/ ConnectConfirmed \/ ConnectRefused \/ ConnectNotifies

WorkerStep ==
    \/ WorkerLoops \/ WorkerChecks \/ WorkerEnters \/ WorkerWakes
    \/ WorkerTests \/ WorkerSlept \/ WorkerPings \/ WorkerReads

(* The texts that the client tells apart: the right one, and two others.   *)
DeviceReplies ==
    \E text \in {"CONN_ERR", "CMD_ERR"}
                  \cup {messageConfirmation[lines[i]] : i \in 1 .. Len(lines)} :
        DeviceAnswers(text)

DeviceStep == DeviceReplies \/ DeviceGoes

Finished == fx = "closed" /\ wk \in {"exited", "dead"} /\ UNCHANGED vars

Next ==
    \/ UserStep \/ TimerStep \/ ConnectStep \/ DisconnectStep \/ CloseStep
    \/ WorkerStep \/ DeviceStep \/ Finished

(* JavaFX runs the timer's frames and the rest of an event; the virtual    *)
(* machine runs the worker.  A thread that waits for the mutex gets it at  *)
(* last, because the worker sleeps ten seconds between two acquisitions    *)
(* and JavaFX leaves the mutex alone between two frames.  The device is    *)
(* assumed to answer or to go.  The user does nothing of necessity.        *)
Fairness ==
    /\ WF_vars(FrameConnected \/ FrameDisconnected)
    /\ SF_vars(FramePasses \/ FrameSends)
    /\ SF_vars(ConnectStarts)
    /\ WF_vars(ConnectFails \/ ConnectSends)
    /\ SF_vars(DisconnectSends)
    /\ WF_vars(CommandConfirmed \/ CommandFails)
    /\ WF_vars(ConnectConfirmed \/ ConnectRefused \/ ConnectNotifies)
    /\ WF_vars(DisconnectConfirmed \/ DisconnectAgain \/ DisconnectGivesUp
               \/ DisconnectFails \/ DisconnectThrows \/ DisconnectDone)
    /\ SF_vars(CloseNotConnected)
    /\ WF_vars(CloseNotifies \/ CloseJoins)
    /\ WF_vars(WorkerLoops \/ WorkerChecks \/ WorkerEnters)
    /\ WF_vars(WorkerTests \/ WorkerSlept \/ WorkerReads)
    /\ SF_vars(WorkerPings)
    /\ WF_vars(DeviceStep)

Spec == Init /\ [][Next]_vars
FairSpec == Spec /\ Fairness
=============================================================================
