--------------------------- MODULE MCRobotSystem ---------------------------
(* Values of RobotSystem's constants for TLC.                              *)
EXTENDS RobotSystemProperties

MCOneKey == {"up"}
MCUsers == {"drives", "photographs", "leaves"}
MCDriver == {"drives"}
=============================================================================
