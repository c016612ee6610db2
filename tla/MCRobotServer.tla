--------------------------- MODULE MCRobotServer ---------------------------
(* Values of RobotServer's constants for TLC.                              *)
EXTENDS RobotServerProperties

(* One line of each kind the session tells apart: CONN, DISCONN, two       *)
(* commands that process_cmd handles, and a line the protocol lacks.       *)
MCLines == {"CONN", "DISCONN", "FRONT_L", "FRONT_R", Unknown}
(* The same with a single command, for the runs that look for a            *)
(* counterexample.                                                         *)
MCSomeLines == {"CONN", "DISCONN", "FWD"}
MCImgLines == {"PICTURE", Unknown}
=============================================================================
