--------------------------- MODULE MCRobotClient ---------------------------
(* Values of RobotClient's constant for TLC.                               *)
EXTENDS RobotClientProperties

(* All the keys, and one for the runs that check liveness.                 *)
MCKeys == {"up", "down", "left", "right"}
MCOneKey == {"up"}
=============================================================================
