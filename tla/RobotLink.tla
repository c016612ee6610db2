----------------------------- MODULE RobotLink -----------------------------
(***************************************************************************)
(* What the robot's server promises, without threads, sockets or lines:    *)
(* there is one application-level connection at a time; only while it is   *)
(* open is the robot driven and a picture started; and no connection is    *)
(* opened while a picture of an earlier one is still being served.         *)
(***************************************************************************)
CONSTANT Motions            \* the motor functions the robot can be left in

VARIABLES
    up,         \* the server process is running
    conn,       \* there is an application-level connection
    motion,     \* the motor function called last
    pic         \* a picture request has been accepted and is being served

vars == <<up, conn, motion, pic>>

Init ==
    /\ up = TRUE
    /\ conn = FALSE
    /\ motion = "idle"
    /\ pic = FALSE

(* A CONN line is accepted.                                                *)
Open ==
    /\ up /\ ~conn /\ ~pic
    /\ conn' = TRUE
    /\ UNCHANGED <<up, motion, pic>>

(* A DISCONN line, or a protocol error, ends the connection.  A picture in *)
(* progress is finished.                                                   *)
Close ==
    /\ up /\ conn
    /\ conn' = FALSE
    /\ UNCHANGED <<up, motion, pic>>

Drive(m) ==
    /\ up /\ conn
    /\ motion' = m
    /\ UNCHANGED <<up, conn, pic>>

StartPicture ==
    /\ up /\ conn /\ ~pic
    /\ pic' = TRUE
    /\ UNCHANGED <<up, conn, motion>>

EndPicture ==
    /\ up /\ pic
    /\ pic' = FALSE
    /\ UNCHANGED <<up, conn, motion>>

(* The process ends.  Nothing tells the motors.                            *)
Halt ==
    /\ up
    /\ up' = FALSE
    /\ pic' = FALSE
    /\ UNCHANGED <<conn, motion>>

(* The process is started again; the motor board may have kept its power.  *)
Reboot ==
    /\ ~up
    /\ up' = TRUE
    /\ conn' = FALSE
    /\ pic' = FALSE
    /\ motion' \in {motion, "idle"}

Next ==
    \/ Open
    \/ Close
    \/ \E m \in Motions : Drive(m)
    \/ StartPicture
    \/ EndPicture
    \/ Halt
    \/ Reboot

Spec == Init /\ [][Next]_vars
=============================================================================
