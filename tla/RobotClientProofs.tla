------------------------- MODULE RobotClientProofs -------------------------
(***************************************************************************)
(* For every set of keys, every device and every interleaving of the       *)
(* window's thread and the worker: what RobotClientProperties says of      *)
(* safety.  IInv is inductive; it relates the holder of the mutex, the     *)
(* stream of answers, the flags of the two threads and the last command.   *)
(***************************************************************************)
EXTENDS RobotClientProperties, SequenceTheorems, TLAPS

----------------------------------------------------------------------------
(* The protocol tables and the keys.                                       *)

LEMMA ProtocolFacts ==
    /\ {"CONN", "DISCONN", "PING"} \subseteq ClientMessages \ MotorCommands
    /\ MotorCommands \subseteq ClientMessages /\ "STOP" \in MotorCommands
    /\ NoLine \notin ClientMessages /\ None \notin ClientMessages
BY DEF ClientMessages, messageConfirmation, MotorCommands, MotorCall, NoLine,
       None

LEMMA TextsTyped ==
    /\ {"CONN_ERR", "CMD_ERR"} \subseteq Responses
    /\ \A m \in ClientMessages : messageConfirmation[m] \in Responses
<1>1. \A code \in 42 .. 58 : put_response(code) \in Responses
      BY DEF Responses, CONN_OK, PICTURE_ERR
<1> USE DEF CONN_OK, CONN_ERR, DISCONN_OK, DISCONN_ERR, FWD_OK, STOP_OK,
        BKWD_OK, ROTATE_LEFT_OK, ROTATE_RIGHT_OK, FRONT_L_OK, FRONT_R_OK, BCK_L_OK,
        BCK_R_OK, CMD_ERR, PING, PICTURE_OK, PICTURE_ERR
<1>2. /\ put_response(42) = "CONN_OK" /\ put_response(43) = "CONN_ERR"
      /\ put_response(44) = "DISCONN_OK" /\ put_response(46) = "FWD_OK"
      /\ put_response(47) = "STOP_OK" /\ put_response(48) = "BKWD_OK"
      /\ put_response(49) = "ROTATE_LEFT_OK"
      /\ put_response(50) = "ROTATE_RIGHT_OK"
      /\ put_response(51) = "FRONT_L_OK" /\ put_response(52) = "FRONT_R_OK"
      /\ put_response(53) = "BCK_L_OK" /\ put_response(54) = "BCK_R_OK"
      /\ put_response(55) = "CMD_ERR" /\ put_response(56) = "PING"
      BY DEF put_response
<1>3. {"CONN_OK", "CONN_ERR", "DISCONN_OK", "FWD_OK", "STOP_OK", "BKWD_OK",
       "ROTATE_LEFT_OK", "ROTATE_RIGHT_OK", "FRONT_L_OK", "FRONT_R_OK",
       "BCK_L_OK", "BCK_R_OK", "CMD_ERR", "PING"} \subseteq Responses
      BY <1>1, <1>2
<1> QED  BY <1>3 DEF messageConfirmation, ClientMessages

LEMMA WantedTyped == Wanted \in MotorCommands \cup {None}
BY DEF Wanted, MotorCommands, MotorCall, None

LEMMA WantedSame == pressed' = pressed => Wanted' = Wanted
BY DEF Wanted

LEMMA ChordsAreKeys == \A ks \in Chords : ks \subseteq Keys
BY DEF Chords

----------------------------------------------------------------------------
(* TypeOK in three parts.  Each is carried over by the steps on its own.   *)

FlagTypes ==
    /\ newInstruction \in BOOLEAN /\ justDisconnected \in BOOLEAN
    /\ connected \in BOOLEAN /\ running \in BOOLEAN
    /\ isConnected \in BOOLEAN /\ isMoving \in BOOLEAN /\ accepted \in BOOLEAN

PlaceTypes ==
    /\ fx \in {"idle", "timerAcquire", "commandReply", "connectAcquire",
               "connecting", "connectReply", "connectNotify", "alert",
               "disconnAcquire", "disconnReply", "disconnDone", "closeNotify",
               "closeJoin", "closeAcquire", "closed"}
    /\ pressed \subseteq Keys
    /\ lastCommand \in MotorCommands \cup {None}
    /\ label \in {"Connected", "Disconnected"}
    /\ wk \in {"loop", "check", "enter", "waiting", "inner", "sleep",
               "acquire", "reply", "exited", "dead"}
    /\ mutex \in {"free", "fx", "worker"}
    /\ tries \in 0 .. MaxTries

NetTypes ==
    /\ conn \in {"none", "open", "shut", "broken"}
    /\ lines \in Seq(ClientMessages)
    /\ replies \in Seq([to : ClientMessages, text : Responses])
    /\ robotMotion \in MotorCommands \cup {None}

LEMMA TypesAre ==
    /\ TypeOK <=> FlagTypes /\ PlaceTypes /\ NetTypes
    /\ TypeOK' <=> FlagTypes' /\ PlaceTypes' /\ NetTypes'
BY DEF TypeOK, FlagTypes, PlaceTypes, NetTypes

----------------------------------------------------------------------------
(* Types: the flags,                                                       *)

LEMMA BooleansUserStep ==
    ASSUME FlagTypes, UserStep
    PROVE  FlagTypes'
BY Zenon DEF FlagTypes, uiVars, workerVars, clientVars, netVars, UserStep,
   Presses, Releases, ConnectPressed, DisconnectPressed, CloseRequested,
   AlertClosed

LEMMA BooleansTimerStep ==
    ASSUME FlagTypes, TimerStep
    PROVE  FlagTypes'
BY Zenon DEF FlagTypes, uiVars, workerVars, clientVars, netVars, TimerStep,
   FrameConnected, FrameDisconnected, FramePasses, FrameSends,
   CommandConfirmed, CommandFails, MustSend, Sends, Reads, ReadsNull, ReadFails

LEMMA BooleansConnectStep ==
    ASSUME FlagTypes, ConnectStep
    PROVE  FlagTypes'
BY Zenon DEF FlagTypes, uiVars, workerVars, clientVars, netVars,
   ConnectStep, ConnectStarts, ConnectFails, ConnectSends, ConnectConfirmed,
   ConnectRefused, ConnectNotifies, Reads, ReadsNull, ReadFails, Notifies

LEMMA BooleansDisconnectStep ==
    ASSUME FlagTypes, DisconnectStep
    PROVE  FlagTypes'
BY Zenon DEF FlagTypes, uiVars, workerVars, clientVars, netVars,
   DisconnectStep, DisconnectSends, DisconnectConfirmed, DisconnectAgain,
   DisconnectGivesUp, DisconnectFails, DisconnectThrows, DisconnectDone, Sends,
   Reads, DisconnectReturns, ReadFails, ReadsNull

LEMMA BooleansCloseStep ==
    ASSUME FlagTypes, CloseStep
    PROVE  FlagTypes'
BY Zenon DEF FlagTypes, uiVars, workerVars, clientVars, netVars, CloseStep,
   CloseNotifies, CloseJoins, CloseNotConnected, Notifies

LEMMA BooleansWorkerStep ==
    ASSUME FlagTypes, WorkerStep
    PROVE  FlagTypes'
BY Zenon DEF FlagTypes, uiVars, workerVars, clientVars, netVars, WorkerStep,
   WorkerReads, WorkerLoops, WorkerChecks, WorkerEnters, WorkerWakes,
   WorkerTests, WorkerSlept, WorkerPings, WorkerPinged, WorkerLost,
   WorkerFails, WorkerThrows, WorkerFrame, Sends, Reads, ReadFails, ReadsNull

(* the places of the two threads and what they hold,                       *)

LEMMA PlacesUserStep ==
    ASSUME PlaceTypes, UserStep
    PROVE  PlaceTypes'
<1> USE DEF PlaceTypes, MaxTries, uiVars, workerVars, clientVars, netVars
<1>1. ASSUME NEW ks \in Chords, Presses(ks)
      PROVE  PlaceTypes'
      BY <1>1, ChordsAreKeys DEF Presses
<1>2. ASSUME NEW ks \in Chords, Releases(ks)
      PROVE  PlaceTypes'
      BY <1>2, ProtocolFacts, WantedTyped DEF Releases
<1>3. CASE ConnectPressed
      BY <1>3, ProtocolFacts, WantedTyped DEF ConnectPressed
<1>4. CASE DisconnectPressed
      BY <1>4, ProtocolFacts, WantedTyped DEF DisconnectPressed
<1>5. CASE CloseRequested
      BY <1>5, ProtocolFacts, WantedTyped DEF CloseRequested
<1>6. CASE AlertClosed
      BY <1>6, ProtocolFacts, WantedTyped DEF AlertClosed
<1> QED  BY <1>1, <1>2, <1>3, <1>4, <1>5, <1>6 DEF UserStep

LEMMA PlacesTimerStep ==
    ASSUME PlaceTypes, TimerStep
    PROVE  PlaceTypes'
BY ProtocolFacts, WantedTyped DEF PlaceTypes, MaxTries, uiVars, workerVars,
   clientVars, netVars, TimerStep, FrameConnected, FrameDisconnected,
   FramePasses, FrameSends, CommandConfirmed, CommandFails, MustSend, Sends,
   Reads, ReadsNull, ReadFails

LEMMA PlacesConnectStep ==
    ASSUME PlaceTypes, ConnectStep
    PROVE  PlaceTypes'
BY ProtocolFacts, WantedTyped DEF PlaceTypes, MaxTries, uiVars, workerVars,
   clientVars, netVars, ConnectStep, ConnectStarts, ConnectFails, ConnectSends,
   ConnectConfirmed, ConnectRefused, ConnectNotifies, Reads, ReadsNull,
   ReadFails, Notifies

LEMMA PlacesDisconnectStep ==
    ASSUME PlaceTypes, DisconnectStep
    PROVE  PlaceTypes'
BY ProtocolFacts, WantedTyped DEF PlaceTypes, MaxTries, uiVars, workerVars,
   clientVars, netVars, DisconnectStep, DisconnectSends, DisconnectConfirmed,
   DisconnectAgain, DisconnectGivesUp, DisconnectFails, DisconnectThrows,
   DisconnectDone, Sends, Reads, DisconnectReturns, ReadFails, ReadsNull

LEMMA PlacesCloseStep ==
    ASSUME PlaceTypes, CloseStep
    PROVE  PlaceTypes'
BY ProtocolFacts, WantedTyped DEF PlaceTypes, MaxTries, uiVars, workerVars,
   clientVars, netVars, CloseStep, CloseNotifies, CloseJoins,
   CloseNotConnected, Notifies

LEMMA PlacesWorkerStep ==
    ASSUME PlaceTypes, WorkerStep
    PROVE  PlaceTypes'
BY ProtocolFacts, WantedTyped DEF PlaceTypes, MaxTries, uiVars, workerVars,
   clientVars, netVars, WorkerStep, WorkerReads, WorkerLoops, WorkerChecks,
   WorkerEnters, WorkerWakes, WorkerTests, WorkerSlept, WorkerPings,
   WorkerPinged, WorkerLost, WorkerFails, WorkerThrows, WorkerFrame, Sends,
   Reads, ReadFails, ReadsNull

(* and the connection.                                                     *)

LEMMA NetUserStep ==
    ASSUME NetTypes, UserStep
    PROVE  NetTypes'
<1> USE DEF NetTypes, uiVars, workerVars, clientVars, netVars
<1>1. ASSUME NEW ks \in Chords, Presses(ks)
      PROVE  NetTypes'
      BY <1>1, ProtocolFacts, WantedTyped DEF Presses
<1>2. ASSUME NEW ks \in Chords, Releases(ks)
      PROVE  NetTypes'
      BY <1>2, ProtocolFacts, WantedTyped DEF Releases
<1>3. CASE ConnectPressed
      BY <1>3, ProtocolFacts, WantedTyped DEF ConnectPressed
<1>4. CASE DisconnectPressed
      BY <1>4, ProtocolFacts, WantedTyped DEF DisconnectPressed
<1>5. CASE CloseRequested
      BY <1>5, ProtocolFacts, WantedTyped DEF CloseRequested
<1>6. CASE AlertClosed
      BY <1>6, ProtocolFacts, WantedTyped DEF AlertClosed
<1> QED  BY <1>1, <1>2, <1>3, <1>4, <1>5, <1>6 DEF UserStep

LEMMA NetTimerStep ==
    ASSUME NetTypes, TimerStep
    PROVE  NetTypes'
<1> USE DEF NetTypes, uiVars, workerVars, clientVars, netVars
<1>1. CASE FrameConnected
      BY <1>1, ProtocolFacts, WantedTyped DEF FrameConnected
<1>2. CASE FrameDisconnected
      BY <1>2, ProtocolFacts, WantedTyped DEF FrameDisconnected
<1>3. CASE FramePasses
      BY <1>3, ProtocolFacts, WantedTyped DEF FramePasses, MustSend
<1>4. CASE FrameSends
      BY <1>4, ProtocolFacts, WantedTyped DEF FrameSends, Sends, MustSend
<1>5. CASE CommandConfirmed
      BY <1>5, ProtocolFacts, WantedTyped DEF CommandConfirmed, Reads
<1>6. CASE CommandFails
      BY <1>6, ProtocolFacts, WantedTyped DEF CommandFails, Reads,
         ReadsNull, ReadFails
<1> QED  BY <1>1, <1>2, <1>3, <1>4, <1>5, <1>6 DEF TimerStep

LEMMA NetConnectStep ==
    ASSUME NetTypes, ConnectStep
    PROVE  NetTypes'
<1> USE DEF NetTypes, uiVars, workerVars, clientVars, netVars
<1>1. CASE ConnectStarts
      BY <1>1, ProtocolFacts, WantedTyped DEF ConnectStarts
<1>2. CASE ConnectFails
  <2>1. CASE UNCHANGED netVars
        BY <2>1
  <2>2. CASE lines' = <<>> /\ replies' = <<>> /\ conn' = "broken" /\ robotMotion' = None
        BY <2>2
  <2> QED  BY <1>2, <2>1, <2>2 DEF ConnectFails
<1>3. CASE ConnectSends
      BY <1>3, ProtocolFacts, WantedTyped DEF ConnectSends
<1>4. CASE ConnectConfirmed
      BY <1>4, ProtocolFacts, WantedTyped DEF ConnectConfirmed, Reads
<1>5. CASE ConnectRefused
  <2>1. CASE UNCHANGED netVars
        BY <2>1
  <2>2. CASE Reads /\ conn' = "shut" /\ UNCHANGED <<lines, accepted, robotMotion>>
        BY <2>2 DEF Reads
  <2> QED  BY <1>5, <2>1, <2>2 DEF ConnectRefused, ReadsNull, ReadFails
<1>6. CASE ConnectNotifies
      BY <1>6, ProtocolFacts, WantedTyped DEF ConnectNotifies, Notifies
<1> QED  BY <1>1, <1>2, <1>3, <1>4, <1>5, <1>6 DEF ConnectStep

LEMMA NetDisconnectStep ==
    ASSUME NetTypes, DisconnectStep
    PROVE  NetTypes'
<1> USE DEF NetTypes, uiVars, workerVars, clientVars, netVars
<1>1. CASE DisconnectSends
      BY <1>1, ProtocolFacts, WantedTyped DEF DisconnectSends, Sends
<1>2. CASE DisconnectConfirmed
      BY <1>2, ProtocolFacts, WantedTyped DEF DisconnectConfirmed, Reads,
         DisconnectReturns
<1>3. CASE DisconnectAgain
      BY <1>3, ProtocolFacts, WantedTyped DEF DisconnectAgain, Reads
<1>4. CASE DisconnectGivesUp
      BY <1>4, ProtocolFacts, WantedTyped DEF DisconnectGivesUp, Reads,
         DisconnectReturns
<1>5. CASE DisconnectFails
      BY <1>5, ProtocolFacts, WantedTyped DEF DisconnectFails, ReadFails,
         DisconnectReturns
<1>6. CASE DisconnectThrows
      BY <1>6, ProtocolFacts, WantedTyped DEF DisconnectThrows, ReadsNull
<1>7. CASE DisconnectDone
      BY <1>7, ProtocolFacts, WantedTyped DEF DisconnectDone
<1> QED  BY <1>1, <1>2, <1>3, <1>4, <1>5, <1>6, <1>7 DEF DisconnectStep

LEMMA NetCloseStep ==
    ASSUME NetTypes, CloseStep
    PROVE  NetTypes'
<1> USE DEF NetTypes, uiVars, workerVars, clientVars, netVars
<1>1. CASE CloseNotifies
      BY <1>1, ProtocolFacts, WantedTyped DEF CloseNotifies, Notifies
<1>2. CASE CloseJoins
      BY <1>2, ProtocolFacts, WantedTyped DEF CloseJoins
<1>3. CASE CloseNotConnected
      BY <1>3, ProtocolFacts, WantedTyped DEF CloseNotConnected
<1> QED  BY <1>1, <1>2, <1>3 DEF CloseStep

LEMMA NetWorkerStep ==
    ASSUME NetTypes, WorkerStep
    PROVE  NetTypes'
<1> USE DEF NetTypes, uiVars, workerVars, clientVars, netVars
<1>1. CASE WorkerLoops
      BY <1>1, ProtocolFacts, WantedTyped DEF WorkerLoops, WorkerFrame
<1>2. CASE WorkerChecks
      BY <1>2, ProtocolFacts, WantedTyped DEF WorkerChecks, WorkerFrame
<1>3. CASE WorkerEnters
      BY <1>3, ProtocolFacts, WantedTyped DEF WorkerEnters, WorkerFrame
<1>4. CASE WorkerWakes
      BY <1>4, ProtocolFacts, WantedTyped DEF WorkerWakes, WorkerFrame
<1>5. CASE WorkerTests
      BY <1>5, ProtocolFacts, WantedTyped DEF WorkerTests, WorkerFrame
<1>6. CASE WorkerSlept
      BY <1>6, ProtocolFacts, WantedTyped DEF WorkerSlept, WorkerFrame
<1>7. CASE WorkerPings
      BY <1>7, ProtocolFacts, WantedTyped DEF WorkerPings, Sends,
         WorkerFrame
<1>8. CASE WorkerPinged
      BY <1>8, ProtocolFacts, WantedTyped DEF WorkerPinged, Reads,
         WorkerFrame
<1>9. CASE WorkerLost
      BY <1>9, ProtocolFacts, WantedTyped DEF WorkerLost, Reads, WorkerFrame
<1>10. CASE WorkerFails
      BY <1>10, ProtocolFacts, WantedTyped DEF WorkerFails, ReadFails,
         WorkerFrame
<1>11. CASE WorkerThrows
      BY <1>11, ProtocolFacts, WantedTyped DEF WorkerThrows, ReadsNull,
         WorkerFrame
<1> QED  BY <1>1, <1>2, <1>3, <1>4, <1>5, <1>6, <1>7, <1>8, <1>9, <1>10,
            <1>11 DEF WorkerStep, WorkerReads

----------------------------------------------------------------------------
(* The mutex: who takes it goes to a place that holds it, who releases it  *)
(* leaves that place.                                                      *)

LEMMA MutexUserStep ==
    ASSUME TypeOK, MutexInv, UserStep
    PROVE  MutexInv'
BY DEF MutexInv, FxHolds, uiVars, workerVars, clientVars, netVars, UserStep,
   Presses, Releases, ConnectPressed, DisconnectPressed, CloseRequested,
   AlertClosed

LEMMA MutexTimerStep ==
    ASSUME TypeOK, MutexInv, TimerStep
    PROVE  MutexInv'
BY DEF MutexInv, FxHolds, uiVars, workerVars, clientVars, netVars,
   TimerStep, FrameConnected, FrameDisconnected, FramePasses, FrameSends,
   CommandConfirmed, CommandFails, MustSend, Sends, Reads, ReadsNull, ReadFails

LEMMA MutexConnectStep ==
    ASSUME TypeOK, MutexInv, ConnectStep
    PROVE  MutexInv'
BY DEF MutexInv, FxHolds, uiVars, workerVars, clientVars, netVars,
   ConnectStep, ConnectStarts, ConnectFails, ConnectSends, ConnectConfirmed,
   ConnectRefused, ConnectNotifies, Reads, ReadsNull, ReadFails, Notifies

LEMMA MutexDisconnectStep ==
    ASSUME TypeOK, MutexInv, DisconnectStep
    PROVE  MutexInv'
BY DEF MutexInv, FxHolds, uiVars, workerVars, clientVars, netVars,
   DisconnectStep, DisconnectSends, DisconnectConfirmed, DisconnectAgain,
   DisconnectGivesUp, DisconnectFails, DisconnectThrows, DisconnectDone, Sends,
   Reads, DisconnectReturns, ReadFails, ReadsNull

LEMMA MutexCloseStep ==
    ASSUME TypeOK, MutexInv, CloseStep
    PROVE  MutexInv'
BY DEF MutexInv, FxHolds, uiVars, workerVars, clientVars, netVars,
   CloseStep, CloseNotifies, CloseJoins, CloseNotConnected, Notifies

LEMMA MutexWorkerStep ==
    ASSUME TypeOK, MutexInv, WorkerStep
    PROVE  MutexInv'
BY DEF MutexInv, FxHolds, uiVars, workerVars, clientVars, netVars,
   WorkerStep, WorkerReads, WorkerLoops, WorkerChecks, WorkerEnters,
   WorkerWakes, WorkerTests, WorkerSlept, WorkerPings, WorkerPinged,
   WorkerLost, WorkerFails, WorkerThrows, WorkerFrame, Sends, Reads, ReadFails,
   ReadsNull

----------------------------------------------------------------------------
(* The stream: a call starts with the mutex free, hence with nothing on    *)
(* the way, and ends when it has read its answer or when the connection is *)
(* open no longer.                                                         *)

LEMMA StreamUserStep ==
    ASSUME TypeOK, MutexInv, StreamInv, UserStep
    PROVE  StreamInv'
<1> USE DEF TypeOK, MutexInv, FxHolds, StreamInv, Asker, Asked, uiVars,
            workerVars, clientVars, netVars
<1>1. ASSUME NEW ks \in Chords, Presses(ks)
      PROVE  StreamInv'
      BY <1>1, ProtocolFacts, WantedTyped, WantedSame DEF Presses
<1>2. ASSUME NEW ks \in Chords, Releases(ks)
      PROVE  StreamInv'
      BY <1>2, ProtocolFacts, WantedTyped, WantedSame DEF Releases
<1>3. CASE ConnectPressed
      BY <1>3, ProtocolFacts, WantedTyped, WantedSame DEF ConnectPressed
<1>4. CASE DisconnectPressed
      BY <1>4, ProtocolFacts, WantedTyped, WantedSame DEF DisconnectPressed
<1>5. CASE CloseRequested
      BY <1>5, ProtocolFacts, WantedTyped, WantedSame DEF CloseRequested
<1>6. CASE AlertClosed
      BY <1>6, ProtocolFacts, WantedTyped, WantedSame DEF AlertClosed
<1> QED  BY <1>1, <1>2, <1>3, <1>4, <1>5, <1>6 DEF UserStep

LEMMA StreamTimerStep ==
    ASSUME TypeOK, MutexInv, StreamInv, TimerStep
    PROVE  StreamInv'
<1> USE DEF TypeOK, MutexInv, FxHolds, StreamInv, Asker, Asked, uiVars,
            workerVars, clientVars, netVars
<1>1. CASE FrameConnected
      BY <1>1, ProtocolFacts, WantedTyped, WantedSame DEF FrameConnected
<1>2. CASE FrameDisconnected
      BY <1>2, ProtocolFacts, WantedTyped, WantedSame DEF FrameDisconnected
<1>3. CASE FramePasses
      BY <1>3, ProtocolFacts, WantedTyped, WantedSame DEF FramePasses,
         MustSend
<1>4. CASE FrameSends
  <2>1. Asker' = Wanted /\ Wanted \in MotorCommands /\ Wanted # NoLine
        BY <1>4, ProtocolFacts, WantedTyped, WantedSame DEF FrameSends, MustSend
  <2>2. conn = "open" => lines = <<>> /\ replies = <<>>
        BY <1>4 DEF FrameSends
  <2> QED  BY <1>4, <2>1, <2>2 DEF FrameSends, Sends
<1>5. CASE CommandConfirmed
      BY <1>5, ProtocolFacts, WantedTyped, WantedSame DEF CommandConfirmed,
         Reads
<1>6. CASE CommandFails
      BY <1>6, ProtocolFacts, WantedTyped, WantedSame DEF CommandFails,
         Reads, ReadsNull, ReadFails
<1> QED  BY <1>1, <1>2, <1>3, <1>4, <1>5, <1>6 DEF TimerStep

LEMMA StreamConnectStep ==
    ASSUME TypeOK, MutexInv, StreamInv, ConnectStep
    PROVE  StreamInv'
<1> USE DEF TypeOK, MutexInv, FxHolds, StreamInv, Asker, Asked, uiVars,
            workerVars, clientVars, netVars
<1>1. CASE ConnectStarts
      BY <1>1, ProtocolFacts, WantedTyped, WantedSame DEF ConnectStarts
<1>2. CASE ConnectFails
      BY <1>2, ProtocolFacts, WantedTyped, WantedSame DEF ConnectFails
<1>3. CASE ConnectSends
      BY <1>3, ProtocolFacts, WantedTyped, WantedSame DEF ConnectSends
<1>4. CASE ConnectConfirmed
      BY <1>4, ProtocolFacts, WantedTyped, WantedSame DEF ConnectConfirmed,
         Reads
<1>5. CASE ConnectRefused
      BY <1>5, ProtocolFacts, WantedTyped, WantedSame DEF ConnectRefused,
         Reads, ReadsNull, ReadFails
<1>6. CASE ConnectNotifies
      BY <1>6, ProtocolFacts, WantedTyped, WantedSame DEF ConnectNotifies,
         Notifies
<1> QED  BY <1>1, <1>2, <1>3, <1>4, <1>5, <1>6 DEF ConnectStep

LEMMA StreamDisconnectStep ==
    ASSUME TypeOK, MutexInv, StreamInv, DisconnectStep
    PROVE  StreamInv'
<1> USE DEF TypeOK, MutexInv, FxHolds, StreamInv, Asker, Asked, uiVars,
            workerVars, clientVars, netVars
<1>1. CASE DisconnectSends
  <2>1. Asker' = "DISCONN" /\ "DISCONN" # NoLine
        BY <1>1 DEF DisconnectSends, NoLine
  <2>2. conn = "open" => lines = <<>> /\ replies = <<>>
        BY <1>1 DEF DisconnectSends
  <2> QED  BY <1>1, <2>1, <2>2 DEF DisconnectSends, Sends
<1>2. CASE DisconnectConfirmed
      BY <1>2, ProtocolFacts, WantedTyped, WantedSame DEF
         DisconnectConfirmed, Reads, DisconnectReturns
<1>3. CASE DisconnectAgain
  <2>1. Asker' = "DISCONN" /\ Asker = "DISCONN" /\ "DISCONN" # NoLine
        BY <1>3 DEF DisconnectAgain, NoLine
  <2>2. conn = "open" => lines = <<>> /\ Tail(replies) = <<>>
        BY <1>3, <2>1 DEF DisconnectAgain, Reads
  <2> QED  BY <1>3, <2>1, <2>2 DEF DisconnectAgain, Reads
<1>4. CASE DisconnectGivesUp
      BY <1>4, ProtocolFacts, WantedTyped, WantedSame DEF DisconnectGivesUp,
         Reads, DisconnectReturns
<1>5. CASE DisconnectFails
      BY <1>5, ProtocolFacts, WantedTyped, WantedSame DEF DisconnectFails,
         ReadFails, DisconnectReturns
<1>6. CASE DisconnectThrows
      BY <1>6, ProtocolFacts, WantedTyped, WantedSame DEF DisconnectThrows,
         ReadsNull
<1>7. CASE DisconnectDone
      BY <1>7, ProtocolFacts, WantedTyped, WantedSame DEF DisconnectDone
<1> QED  BY <1>1, <1>2, <1>3, <1>4, <1>5, <1>6, <1>7 DEF DisconnectStep

LEMMA StreamCloseStep ==
    ASSUME TypeOK, MutexInv, StreamInv, CloseStep
    PROVE  StreamInv'
<1> USE DEF TypeOK, MutexInv, FxHolds, StreamInv, Asker, Asked, uiVars,
            workerVars, clientVars, netVars
<1>1. CASE CloseNotifies
      BY <1>1, ProtocolFacts, WantedTyped, WantedSame DEF CloseNotifies,
         Notifies
<1>2. CASE CloseJoins
      BY <1>2, ProtocolFacts, WantedTyped, WantedSame DEF CloseJoins
<1>3. CASE CloseNotConnected
      BY <1>3, ProtocolFacts, WantedTyped, WantedSame DEF CloseNotConnected
<1> QED  BY <1>1, <1>2, <1>3 DEF CloseStep

LEMMA StreamWorkerStep ==
    ASSUME TypeOK, MutexInv, StreamInv, WorkerStep
    PROVE  StreamInv'
<1> USE DEF TypeOK, MutexInv, FxHolds, StreamInv, Asker, Asked, uiVars,
            workerVars, clientVars, netVars
<1>1. CASE WorkerLoops
      BY <1>1, ProtocolFacts, WantedTyped, WantedSame DEF WorkerLoops,
         WorkerFrame
<1>2. CASE WorkerChecks
      BY <1>2, ProtocolFacts, WantedTyped, WantedSame DEF WorkerChecks,
         WorkerFrame
<1>3. CASE WorkerEnters
      BY <1>3, ProtocolFacts, WantedTyped, WantedSame DEF WorkerEnters,
         WorkerFrame
<1>4. CASE WorkerWakes
      BY <1>4, ProtocolFacts, WantedTyped, WantedSame DEF WorkerWakes,
         WorkerFrame
<1>5. CASE WorkerTests
      BY <1>5, ProtocolFacts, WantedTyped, WantedSame DEF WorkerTests,
         WorkerFrame
<1>6. CASE WorkerSlept
      BY <1>6, ProtocolFacts, WantedTyped, WantedSame DEF WorkerSlept,
         WorkerFrame
<1>7. CASE WorkerPings
  <2>1. Asker' = "PING" /\ "PING" # NoLine
        BY <1>7 DEF WorkerPings, NoLine
  <2>2. conn = "open" => lines = <<>> /\ replies = <<>>
        BY <1>7 DEF WorkerPings
  <2> QED  BY <1>7, <2>1, <2>2 DEF WorkerPings, WorkerFrame, Sends
<1>8. CASE WorkerPinged
      BY <1>8, ProtocolFacts, WantedTyped, WantedSame DEF WorkerPinged,
         Reads, WorkerFrame
<1>9. CASE WorkerLost
      BY <1>9, ProtocolFacts, WantedTyped, WantedSame DEF WorkerLost, Reads,
         WorkerFrame
<1>10. CASE WorkerFails
      BY <1>10, ProtocolFacts, WantedTyped, WantedSame DEF WorkerFails,
         ReadFails, WorkerFrame
<1>11. CASE WorkerThrows
      BY <1>11, ProtocolFacts, WantedTyped, WantedSame DEF WorkerThrows,
         ReadsNull, WorkerFrame
<1> QED  BY <1>1, <1>2, <1>3, <1>4, <1>5, <1>6, <1>7, <1>8, <1>9, <1>10,
            <1>11 DEF WorkerStep, WorkerReads

----------------------------------------------------------------------------
(* The flags of the window, the worker and the client.                     *)

LEMMA FlagsUserStep ==
    ASSUME TypeOK, IInv, UserStep
    PROVE  FlagsInv'
<1> USE DEF TypeOK, IInv, MutexInv, FxHolds, FlagsInv, Connecting, Closing,
            Confirmed, Text, uiVars, workerVars, clientVars, netVars
<1>1. ASSUME NEW ks \in Chords, Presses(ks)
      PROVE  FlagsInv'
      BY <1>1 DEF Presses
<1>2. ASSUME NEW ks \in Chords, Releases(ks)
      PROVE  FlagsInv'
      BY <1>2 DEF Releases
<1>3. CASE ConnectPressed
      BY <1>3 DEF ConnectPressed
<1>4. CASE DisconnectPressed
      BY <1>4 DEF DisconnectPressed
<1>5. CASE CloseRequested
      BY <1>5 DEF CloseRequested
<1>6. CASE AlertClosed
      BY <1>6 DEF AlertClosed
<1> QED  BY <1>1, <1>2, <1>3, <1>4, <1>5, <1>6 DEF UserStep

LEMMA FlagsTimerStep ==
    ASSUME TypeOK, IInv, TimerStep
    PROVE  FlagsInv'
<1> USE DEF TypeOK, IInv, MutexInv, FxHolds, FlagsInv, Connecting, Closing,
            Confirmed, Text, uiVars, workerVars, clientVars, netVars
<1>1. CASE FrameConnected
      BY <1>1 DEF FrameConnected
<1>2. CASE FrameDisconnected
      BY <1>2 DEF FrameDisconnected
<1>3. CASE FramePasses
      BY <1>3 DEF FramePasses, MustSend
<1>4. CASE FrameSends
      BY <1>4 DEF FrameSends, Sends, MustSend
<1>5. CASE CommandConfirmed
      BY <1>5 DEF CommandConfirmed, Reads
<1>6. CASE CommandFails
      BY <1>6 DEF CommandFails, Reads, ReadsNull, ReadFails
<1> QED  BY <1>1, <1>2, <1>3, <1>4, <1>5, <1>6 DEF TimerStep

LEMMA FlagsConnectStep ==
    ASSUME TypeOK, IInv, ConnectStep
    PROVE  FlagsInv'
<1> USE DEF TypeOK, IInv, MutexInv, FxHolds, FlagsInv, Connecting, Closing,
            Confirmed, Text, uiVars, workerVars, clientVars, netVars
<1>1. CASE ConnectStarts
      BY <1>1 DEF ConnectStarts
<1>2. CASE ConnectFails
      BY <1>2 DEF ConnectFails
<1>3. CASE ConnectSends
      BY <1>3 DEF ConnectSends
<1>4. CASE ConnectConfirmed
      BY <1>4 DEF ConnectConfirmed, Reads
<1>5. CASE ConnectRefused
      BY <1>5 DEF ConnectRefused, Reads, ReadsNull, ReadFails
<1>6. CASE ConnectNotifies
      BY <1>6 DEF ConnectNotifies, Notifies
<1> QED  BY <1>1, <1>2, <1>3, <1>4, <1>5, <1>6 DEF ConnectStep

LEMMA FlagsDisconnectStep ==
    ASSUME TypeOK, IInv, DisconnectStep
    PROVE  FlagsInv'
<1> USE DEF TypeOK, IInv, MutexInv, FxHolds, FlagsInv, Connecting, Closing,
            Confirmed, Text, uiVars, workerVars, clientVars, netVars
<1>1. CASE DisconnectSends
      BY <1>1 DEF DisconnectSends, Sends
<1>2. CASE DisconnectConfirmed
      BY <1>2 DEF DisconnectConfirmed, Reads, DisconnectReturns
<1>3. CASE DisconnectAgain
      BY <1>3 DEF DisconnectAgain, Reads
<1>4. CASE DisconnectGivesUp
      BY <1>4 DEF DisconnectGivesUp, Reads, DisconnectReturns
<1>5. CASE DisconnectFails
      BY <1>5 DEF DisconnectFails, ReadFails, DisconnectReturns
<1>6. CASE DisconnectThrows
      BY <1>6 DEF DisconnectThrows, ReadsNull
<1>7. CASE DisconnectDone
      BY <1>7 DEF DisconnectDone
<1> QED  BY <1>1, <1>2, <1>3, <1>4, <1>5, <1>6, <1>7 DEF DisconnectStep

LEMMA FlagsCloseStep ==
    ASSUME TypeOK, IInv, CloseStep
    PROVE  FlagsInv'
<1> USE DEF TypeOK, IInv, MutexInv, FxHolds, FlagsInv, Connecting, Closing,
            Confirmed, Text, uiVars, workerVars, clientVars, netVars
<1>1. CASE CloseNotifies
      BY <1>1 DEF CloseNotifies, Notifies
<1>2. CASE CloseJoins
      BY <1>2 DEF CloseJoins
<1>3. CASE CloseNotConnected
      BY <1>3 DEF CloseNotConnected
<1> QED  BY <1>1, <1>2, <1>3 DEF CloseStep

LEMMA FlagsWorkerStep ==
    ASSUME TypeOK, IInv, WorkerStep
    PROVE  FlagsInv'
<1> USE DEF TypeOK, IInv, MutexInv, FxHolds, FlagsInv, Connecting, Closing,
            Confirmed, Text, uiVars, workerVars, clientVars, netVars
<1>1. CASE WorkerLoops
      BY <1>1 DEF WorkerLoops, WorkerFrame
<1>2. CASE WorkerChecks
      BY <1>2 DEF WorkerChecks, WorkerFrame
<1>3. CASE WorkerEnters
      BY <1>3 DEF WorkerEnters, WorkerFrame
<1>4. CASE WorkerWakes
      BY <1>4 DEF WorkerWakes, WorkerFrame
<1>5. CASE WorkerTests
      BY <1>5 DEF WorkerTests, WorkerFrame
<1>6. CASE WorkerSlept
      BY <1>6 DEF WorkerSlept, WorkerFrame
<1>7. CASE WorkerPings
      BY <1>7 DEF WorkerPings, Sends, WorkerFrame
<1>8. CASE WorkerPinged
      BY <1>8 DEF WorkerPinged, Reads, WorkerFrame
<1>9. CASE WorkerLost
      BY <1>9 DEF WorkerLost, Reads, WorkerFrame
<1>10. CASE WorkerFails
      BY <1>10 DEF WorkerFails, ReadFails, WorkerFrame
<1>11. CASE WorkerThrows
      BY <1>11 DEF WorkerThrows, ReadsNull, WorkerFrame
<1> QED  BY <1>1, <1>2, <1>3, <1>4, <1>5, <1>6, <1>7, <1>8, <1>9, <1>10,
            <1>11 DEF WorkerStep, WorkerReads

----------------------------------------------------------------------------
(* The last command, isMoving, the robot and the keys.                     *)

LEMMA CommandUserStep ==
    ASSUME TypeOK, IInv, UserStep
    PROVE  CommandInv'
<1> USE DEF TypeOK, IInv, MutexInv, FxHolds, StreamInv, FlagsInv,
            CommandInv, Confirmed, Text, Asker, Asked, uiVars, workerVars,
            clientVars, netVars
<1>1. ASSUME NEW ks \in Chords, Presses(ks)
      PROVE  CommandInv'
      BY <1>1, ProtocolFacts, WantedTyped, WantedSame DEF Presses
<1>2. ASSUME NEW ks \in Chords, Releases(ks)
      PROVE  CommandInv'
      BY <1>2, ProtocolFacts, WantedTyped, WantedSame DEF Releases
<1>3. CASE ConnectPressed
      BY <1>3, ProtocolFacts, WantedTyped, WantedSame DEF ConnectPressed
<1>4. CASE DisconnectPressed
      BY <1>4, ProtocolFacts, WantedTyped, WantedSame DEF DisconnectPressed
<1>5. CASE CloseRequested
      BY <1>5, ProtocolFacts, WantedTyped, WantedSame DEF CloseRequested
<1>6. CASE AlertClosed
      BY <1>6, ProtocolFacts, WantedTyped, WantedSame DEF AlertClosed
<1> QED  BY <1>1, <1>2, <1>3, <1>4, <1>5, <1>6 DEF UserStep

LEMMA CommandTimerStep ==
    ASSUME TypeOK, IInv, TimerStep
    PROVE  CommandInv'
<1> USE DEF TypeOK, IInv, MutexInv, FxHolds, StreamInv, FlagsInv,
            CommandInv, Confirmed, Text, Asker, Asked, uiVars, workerVars,
            clientVars, netVars
<1>1. CASE FrameConnected
      BY <1>1, ProtocolFacts, WantedTyped, WantedSame DEF FrameConnected
<1>2. CASE FrameDisconnected
      BY <1>2, ProtocolFacts, WantedTyped, WantedSame DEF FrameDisconnected
<1>3. CASE FramePasses
      BY <1>3, ProtocolFacts, WantedTyped, WantedSame DEF FramePasses,
         MustSend
<1>4. CASE FrameSends
      BY <1>4, ProtocolFacts, WantedTyped, WantedSame DEF FrameSends, Sends,
         MustSend
<1>5. CASE CommandConfirmed
      BY <1>5, ProtocolFacts, WantedTyped, WantedSame DEF CommandConfirmed,
         Reads
<1>6. CASE CommandFails
      BY <1>6, ProtocolFacts, WantedTyped, WantedSame DEF CommandFails,
         Reads, ReadsNull, ReadFails
<1> QED  BY <1>1, <1>2, <1>3, <1>4, <1>5, <1>6 DEF TimerStep

LEMMA CommandConnectStep ==
    ASSUME TypeOK, IInv, ConnectStep
    PROVE  CommandInv'
<1> USE DEF TypeOK, IInv, MutexInv, FxHolds, StreamInv, FlagsInv,
            CommandInv, Confirmed, Text, Asker, Asked, uiVars, workerVars,
            clientVars, netVars
<1>1. CASE ConnectStarts
      BY <1>1, ProtocolFacts, WantedTyped, WantedSame DEF ConnectStarts
<1>2. CASE ConnectFails
      BY <1>2, ProtocolFacts, WantedTyped, WantedSame DEF ConnectFails
<1>3. CASE ConnectSends
      BY <1>3, ProtocolFacts, WantedTyped, WantedSame DEF ConnectSends
<1>4. CASE ConnectConfirmed
      BY <1>4, ProtocolFacts, WantedTyped, WantedSame DEF ConnectConfirmed,
         Reads
<1>5. CASE ConnectRefused
      BY <1>5, ProtocolFacts, WantedTyped, WantedSame DEF ConnectRefused,
         Reads, ReadsNull, ReadFails
<1>6. CASE ConnectNotifies
      BY <1>6, ProtocolFacts, WantedTyped, WantedSame DEF ConnectNotifies,
         Notifies
<1> QED  BY <1>1, <1>2, <1>3, <1>4, <1>5, <1>6 DEF ConnectStep

LEMMA CommandDisconnectStep ==
    ASSUME TypeOK, IInv, DisconnectStep
    PROVE  CommandInv'
<1> USE DEF TypeOK, IInv, MutexInv, FxHolds, StreamInv, FlagsInv,
            CommandInv, Confirmed, Text, Asker, Asked, uiVars, workerVars,
            clientVars, netVars
<1>1. CASE DisconnectSends
      BY <1>1, ProtocolFacts, WantedTyped, WantedSame DEF DisconnectSends,
         Sends
<1>2. CASE DisconnectConfirmed
      BY <1>2, ProtocolFacts, WantedTyped, WantedSame DEF
         DisconnectConfirmed, Reads, DisconnectReturns
<1>3. CASE DisconnectAgain
      BY <1>3, ProtocolFacts, WantedTyped, WantedSame DEF DisconnectAgain,
         Reads
<1>4. CASE DisconnectGivesUp
      BY <1>4, ProtocolFacts, WantedTyped, WantedSame DEF DisconnectGivesUp,
         Reads, DisconnectReturns
<1>5. CASE DisconnectFails
      BY <1>5, ProtocolFacts, WantedTyped, WantedSame DEF DisconnectFails,
         ReadFails, DisconnectReturns
<1>6. CASE DisconnectThrows
      BY <1>6, ProtocolFacts, WantedTyped, WantedSame DEF DisconnectThrows,
         ReadsNull
<1>7. CASE DisconnectDone
      BY <1>7, ProtocolFacts, WantedTyped, WantedSame DEF DisconnectDone
<1> QED  BY <1>1, <1>2, <1>3, <1>4, <1>5, <1>6, <1>7 DEF DisconnectStep

LEMMA CommandCloseStep ==
    ASSUME TypeOK, IInv, CloseStep
    PROVE  CommandInv'
<1> USE DEF TypeOK, IInv, MutexInv, FxHolds, StreamInv, FlagsInv,
            CommandInv, Confirmed, Text, Asker, Asked, uiVars, workerVars,
            clientVars, netVars
<1>1. CASE CloseNotifies
      BY <1>1, ProtocolFacts, WantedTyped, WantedSame DEF CloseNotifies,
         Notifies
<1>2. CASE CloseJoins
      BY <1>2, ProtocolFacts, WantedTyped, WantedSame DEF CloseJoins
<1>3. CASE CloseNotConnected
      BY <1>3, ProtocolFacts, WantedTyped, WantedSame DEF CloseNotConnected
<1> QED  BY <1>1, <1>2, <1>3 DEF CloseStep

LEMMA CommandWorkerStep ==
    ASSUME TypeOK, IInv, WorkerStep
    PROVE  CommandInv'
<1> USE DEF TypeOK, IInv, MutexInv, FxHolds, StreamInv, FlagsInv,
            CommandInv, Confirmed, Text, Asker, Asked, uiVars, workerVars,
            clientVars, netVars
<1>1. CASE WorkerLoops
      BY <1>1, ProtocolFacts, WantedTyped, WantedSame DEF WorkerLoops,
         WorkerFrame
<1>2. CASE WorkerChecks
      BY <1>2, ProtocolFacts, WantedTyped, WantedSame DEF WorkerChecks,
         WorkerFrame
<1>3. CASE WorkerEnters
      BY <1>3, ProtocolFacts, WantedTyped, WantedSame DEF WorkerEnters,
         WorkerFrame
<1>4. CASE WorkerWakes
      BY <1>4, ProtocolFacts, WantedTyped, WantedSame DEF WorkerWakes,
         WorkerFrame
<1>5. CASE WorkerTests
      BY <1>5, ProtocolFacts, WantedTyped, WantedSame DEF WorkerTests,
         WorkerFrame
<1>6. CASE WorkerSlept
      BY <1>6, ProtocolFacts, WantedTyped, WantedSame DEF WorkerSlept,
         WorkerFrame
<1>7. CASE WorkerPings
      BY <1>7, ProtocolFacts, WantedTyped, WantedSame DEF WorkerPings,
         Sends, WorkerFrame
<1>8. CASE WorkerPinged
      BY <1>8, ProtocolFacts, WantedTyped, WantedSame DEF WorkerPinged,
         Reads, WorkerFrame
<1>9. CASE WorkerLost
      BY <1>9, ProtocolFacts, WantedTyped, WantedSame DEF WorkerLost, Reads,
         WorkerFrame
<1>10. CASE WorkerFails
      BY <1>10, ProtocolFacts, WantedTyped, WantedSame DEF WorkerFails,
         ReadFails, WorkerFrame
<1>11. CASE WorkerThrows
      BY <1>11, ProtocolFacts, WantedTyped, WantedSame DEF WorkerThrows,
         ReadsNull, WorkerFrame
<1> QED  BY <1>1, <1>2, <1>3, <1>4, <1>5, <1>6, <1>7, <1>8, <1>9, <1>10,
            <1>11 DEF WorkerStep, WorkerReads

----------------------------------------------------------------------------
(* The device answers the one line there is, or goes.                      *)

LEMMA AnswerGiven ==
    ASSUME TypeOK, IInv, NEW text, DeviceAnswers(text)
    PROVE  /\ conn = "open" /\ Asker # NoLine
           /\ lines = <<Asker>> /\ replies = <<>> /\ lines' = <<>>
           /\ replies' = <<[to |-> Asker, text |-> text]>>
           /\ accepted' = IF /\ text = messageConfirmation[Asker]
                             /\ Asker \in {"CONN", "DISCONN"}
                          THEN Asker = "CONN" ELSE accepted
           /\ robotMotion' = IF /\ text = messageConfirmation[Asker]
                                /\ Asker \in MotorCommands
                             THEN Asker ELSE robotMotion
           /\ UNCHANGED <<fx, uiVars, workerVars, mutex, clientVars, conn>>
<1>1. conn = "open" /\ lines # <<>>
      BY DEF DeviceAnswers
<1>2. Asker # NoLine /\ lines = <<Asker>> /\ replies = <<>>
      BY <1>1 DEF IInv, StreamInv
<1>3. Head(lines) = Asker /\ Tail(lines) = <<>>
      BY <1>2
<1> QED  BY <1>1, <1>2, <1>3 DEF DeviceAnswers, DeviceFrame

LEMMA TypesDeviceStep ==
    ASSUME TypeOK, IInv, DeviceStep
    PROVE  TypeOK'
<1>1. ASSUME NEW text \in {"CONN_ERR", "CMD_ERR"}
                  \cup {messageConfirmation[lines[i]] : i \in 1 .. Len(lines)},
             DeviceAnswers(text)
      PROVE  TypeOK'
  <2>1. Asker \in ClientMessages
    <3>1. lines \in Seq(ClientMessages) /\ Len(lines) = 1 /\ lines[1] = Asker
          BY <1>1, AnswerGiven DEF TypeOK
    <3> QED  BY <3>1, ElementOfSeq
  <2>2. text \in Responses
    <3>1. CASE text \in {"CONN_ERR", "CMD_ERR"}
          BY <3>1, TextsTyped
    <3>2. CASE \E i \in 1 .. Len(lines) : text = messageConfirmation[lines[i]]
      <4>1. text = messageConfirmation[Asker]
            BY <1>1, <3>2, AnswerGiven
      <4> QED  BY <2>1, <4>1, TextsTyped
    <3> QED  BY <1>1, <3>1, <3>2
  <2>3. FlagTypes'
    <3>1. accepted' \in BOOLEAN
          BY <1>1, AnswerGiven DEF TypeOK
    <3> QED  BY <1>1, <3>1, AnswerGiven, TypesAre, Zenon
             DEF FlagTypes, uiVars, workerVars, clientVars
  <2>4. PlaceTypes'
        BY <1>1, AnswerGiven, TypesAre DEF PlaceTypes, uiVars, workerVars, clientVars
  <2>5. NetTypes'
    <3>1. [to |-> Asker, text |-> text] \in [to : ClientMessages, text : Responses]
          BY <2>1, <2>2
    <3>2. replies' \in Seq([to : ClientMessages, text : Responses])
      <4>1. replies' = <<[to |-> Asker, text |-> text]>>
            BY <1>1, AnswerGiven
      <4> QED  BY ONLY <3>1, <4>1
    <3>3. lines' \in Seq(ClientMessages)
      <4>1. lines' = <<>>
            BY <1>1, AnswerGiven
      <4> QED  BY ONLY <4>1
    <3>4. robotMotion' \in MotorCommands \cup {None}
          BY <1>1, AnswerGiven, TypesAre DEF NetTypes
    <3> QED  BY <1>1, <3>2, <3>3, <3>4, AnswerGiven, TypesAre DEF NetTypes
  <2> QED  BY <2>3, <2>4, <2>5 DEF TypeOK, FlagTypes, PlaceTypes, NetTypes
<1>2. CASE DeviceGoes
  <2>1. FlagTypes'
        BY <1>2, TypesAre, Zenon DEF FlagTypes, DeviceGoes, uiVars, workerVars, clientVars
  <2>2. PlaceTypes'
        BY <1>2, TypesAre DEF PlaceTypes, DeviceGoes, uiVars, workerVars, clientVars
  <2>3. NetTypes'
        BY <1>2, TypesAre DEF NetTypes, DeviceGoes
  <2> QED  BY <2>1, <2>2, <2>3 DEF TypeOK, FlagTypes, PlaceTypes, NetTypes
<1> QED  BY <1>1, <1>2 DEF DeviceStep, DeviceReplies

LEMMA InvDeviceStep ==
    ASSUME TypeOK, IInv, DeviceStep
    PROVE  IInv'
<1> USE DEF uiVars, workerVars, clientVars, netVars
<1>1. ASSUME NEW text, DeviceAnswers(text)
      PROVE  IInv'
  <2>1. MutexInv'
        BY <1>1, AnswerGiven DEF IInv, MutexInv
  <2>2. Wanted' = Wanted /\ Asker' = Asker
        BY <1>1, AnswerGiven, WantedSame DEF Asker, Asked
  <2>3. replies' # <<>> /\ Tail(replies') = <<>> /\ Head(replies').to = Asker
        /\ Text' = text
    <3> DEFINE answer == [to |-> Asker, text |-> text]
    <3>1. answer.to = Asker /\ answer.text = text
          OBVIOUS
    <3>2. replies' = <<answer>>
          BY <1>1, AnswerGiven
    <3> HIDE DEF answer
    <3>3. replies' # <<>> /\ Tail(replies') = <<>> /\ Head(replies') = answer
          BY <3>2
    <3> QED  BY <3>1, <3>3 DEF Text
  <2>4. StreamInv'
        BY <1>1, <2>2, <2>3, AnswerGiven DEF StreamInv
  <2>5. FlagsInv'
    <3>1. fx = "connectReply" => Asker = "CONN"
          BY DEF IInv, MutexInv, FxHolds, Asker, Asked
    <3>2. Asker = "DISCONN" => fx = "disconnReply"
          BY ProtocolFacts, WantedTyped
             DEF IInv, MutexInv, CommandInv, FxHolds, Asker, Asked, NoLine
    <3>3. connected /\ fx # "disconnDone" => isConnected /\ accepted
          BY <1>1, <3>2, AnswerGiven DEF IInv, FlagsInv, StreamInv, Confirmed
    <3> QED  BY <1>1, <2>3, <3>1, <3>2, <3>3, AnswerGiven
             DEF IInv, FlagsInv, Connecting, Closing, Confirmed
  <2>6. CommandInv'
    <3>1. fx = "commandReply" => Asker = Wanted /\ Wanted \in MotorCommands
          BY WantedTyped DEF IInv, MutexInv, CommandInv, FxHolds, Asker, Asked
    <3>2. fx # "commandReply" => Asker \notin MotorCommands
          BY ProtocolFacts DEF Asker, Asked
    <3>3. robotMotion \in {None, lastCommand}
          BY <1>1, AnswerGiven DEF IInv, CommandInv, StreamInv, Confirmed
    <3> QED  BY <1>1, <2>2, <2>3, <3>1, <3>2, <3>3, AnswerGiven
             DEF IInv, CommandInv, Confirmed
  <2> QED  BY <2>1, <2>4, <2>5, <2>6 DEF IInv
<1>2. CASE DeviceGoes
  <2>1. MutexInv' /\ StreamInv'
        BY <1>2 DEF DeviceGoes, IInv, MutexInv, StreamInv
  <2>2. FlagsInv'
        BY <1>2 DEF DeviceGoes, IInv, FlagsInv, Confirmed, Text
  <2>3. CommandInv'
        BY <1>2, WantedSame DEF DeviceGoes, IInv, CommandInv
  <2> QED  BY <2>1, <2>2, <2>3 DEF IInv
<1> QED  BY <1>1, <1>2 DEF DeviceStep, DeviceReplies

----------------------------------------------------------------------------
(* The theorems.                                                           *)

LEMMA Begins == Init => TypeOK /\ IInv
<1> SUFFICES ASSUME Init PROVE TypeOK /\ IInv
    OBVIOUS
<1>1. FlagTypes
      BY Zenon DEF Init, FlagTypes
<1>2. PlaceTypes /\ NetTypes
      BY DEF Init, PlaceTypes, NetTypes, MaxTries
<1>3. Wanted = "STOP"
      BY DEF Init, Wanted
<1>4. MutexInv /\ StreamInv
      BY DEF Init, MutexInv, FxHolds, StreamInv
<1>5. FlagsInv /\ CommandInv
      BY <1>3 DEF Init, FlagsInv, CommandInv, Connecting, Closing, None
<1> QED  BY <1>1, <1>2, <1>4, <1>5, TypesAre DEF IInv

LEMMA Continues == TypeOK /\ IInv /\ [Next]_vars => TypeOK' /\ IInv'
<1> SUFFICES ASSUME TypeOK, IInv, [Next]_vars PROVE TypeOK' /\ IInv'
    OBVIOUS
<1> USE TypesAre
<1>1. CASE UserStep
      BY <1>1, BooleansUserStep, PlacesUserStep, NetUserStep, MutexUserStep,
         StreamUserStep, FlagsUserStep, CommandUserStep DEF IInv
<1>2. CASE TimerStep
      BY <1>2, BooleansTimerStep, PlacesTimerStep, NetTimerStep, MutexTimerStep,
         StreamTimerStep, FlagsTimerStep, CommandTimerStep DEF IInv
<1>3. CASE ConnectStep
      BY <1>3, BooleansConnectStep, PlacesConnectStep, NetConnectStep,
         MutexConnectStep, StreamConnectStep, FlagsConnectStep,
         CommandConnectStep DEF IInv
<1>4. CASE DisconnectStep
      BY <1>4, BooleansDisconnectStep, PlacesDisconnectStep, NetDisconnectStep,
         MutexDisconnectStep, StreamDisconnectStep, FlagsDisconnectStep,
         CommandDisconnectStep DEF IInv
<1>5. CASE CloseStep
      BY <1>5, BooleansCloseStep, PlacesCloseStep, NetCloseStep, MutexCloseStep,
         StreamCloseStep, FlagsCloseStep, CommandCloseStep DEF IInv
<1>6. CASE WorkerStep
      BY <1>6, BooleansWorkerStep, PlacesWorkerStep, NetWorkerStep,
         MutexWorkerStep, StreamWorkerStep, FlagsWorkerStep,
         CommandWorkerStep DEF IInv
<1>7. CASE DeviceStep
      BY <1>7, TypesDeviceStep, InvDeviceStep
<1>8. CASE UNCHANGED vars
  <2> USE <1>8 DEF vars, uiVars, workerVars, clientVars, netVars
  <2>1. FlagTypes'
        BY Zenon DEF FlagTypes
  <2>2. PlaceTypes' /\ NetTypes'
        BY DEF PlaceTypes, NetTypes
  <2>3. Wanted' = Wanted
        BY WantedSame
  <2>4. MutexInv' /\ StreamInv'
        BY <2>3 DEF IInv, MutexInv, StreamInv, Asker, Asked
  <2>5. FlagsInv' /\ CommandInv'
        BY <2>3 DEF IInv, FlagsInv, CommandInv, Confirmed, Text
  <2> QED  BY <2>1, <2>2, <2>4, <2>5 DEF IInv
<1> QED  BY <1>1, <1>2, <1>3, <1>4, <1>5, <1>6, <1>7, <1>8 DEF Next, Finished

(* Types, and the invariant that relates the places of the two threads,    *)
(* the flags they share and the stream, hold in every state.               *)
THEOREM Invariance == Spec => [](TypeOK /\ IInv)
<1>1. Init => TypeOK /\ IInv
      BY Begins
<1>2. TypeOK /\ IInv /\ [Next]_vars => (TypeOK /\ IInv)'
      BY Continues
<1> QED  BY <1>1, <1>2, PTL DEF Spec

(* Every variable of the client has a value of its kind.                   *)
THEOREM TypeCorrect == Spec => []TypeOK
BY Invariance, PTL

(* The answer a call reads is the answer to its own line, whatever calls   *)
(* failed before it.                                                       *)
THEOREM AnswersToAskers == Spec => []AnswerGoesToAsker
<1>1. TypeOK /\ IInv => AnswerGoesToAsker
  <2> SUFFICES ASSUME TypeOK, IInv, replies # <<>>, conn = "open"
               PROVE  /\ Asked # NoLine => Head(replies).to = Asked
                      /\ wk = "reply" => Head(replies).to = "PING"
      BY DEF AnswerGoesToAsker
  <2>1. Asker # NoLine /\ Head(replies).to = Asker
        BY DEF IInv, StreamInv
  <2>2. wk = "reply" => Asked = NoLine
        BY DEF IInv, MutexInv, FxHolds, Asked, NoLine
  <2> QED  BY <2>1, <2>2 DEF Asker
<1> QED  BY <1>1, Invariance, PTL

(* While the window takes the robot for connected and nobody uses the      *)
(* client, the client is connected and the device has accepted it.         *)
THEOREM ConnectedGreeted == Spec => []ConnectedMeansGreeted
<1>1. TypeOK /\ IInv => ConnectedMeansGreeted
      BY DEF IInv, MutexInv, FxHolds, FlagsInv, ConnectedMeansGreeted
<1> QED  BY <1>1, Invariance, PTL

(* No command is under way on an open connection of which the window       *)
(* thinks that it is none.                                                 *)
THEOREM CommandsConnected == Spec => []CommandsOnlyWhileConnected
<1>1. TypeOK /\ IInv => CommandsOnlyWhileConnected
      BY DEF IInv, FlagsInv, Closing, CommandsOnlyWhileConnected
<1> QED  BY <1>1, Invariance, PTL

(* Once the keys are handled, the robot that has moved at all moves as     *)
(* they say, for every set of keys.                                        *)
THEOREM FollowsKeys == Spec => []RobotFollowsKeys
<1>1. TypeOK /\ IInv => RobotFollowsKeys
  <2> SUFFICES ASSUME TypeOK, IInv, fx = "idle", conn = "open", ~newInstruction,
                      robotMotion # None, Wanted # None
               PROVE  robotMotion = Wanted
      BY DEF RobotFollowsKeys
  <2>1. robotMotion = lastCommand
        BY DEF IInv, CommandInv
  <2>2. CASE Wanted = "STOP"
        BY <2>1, <2>2 DEF IInv, CommandInv
  <2>3. CASE Wanted # "STOP"
        BY <2>1, <2>3 DEF IInv, CommandInv
  <2> QED  BY <2>2, <2>3
<1> QED  BY <1>1, Invariance, PTL
=============================================================================
