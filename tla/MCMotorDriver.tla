--------------------------- MODULE MCMotorDriver ---------------------------
(* Values of MotorDriver's constant for TLC.                               *)
EXTENDS MotorDriverProperties

(* The speed the protocol uses and the boundaries: 1, whose half is 0; 13, *)
(* the first one the cast is defined for, with a half it is not defined     *)
(* for; 16, from which a turn is one; and more than the clamp lets pass.   *)
MCSpeeds == {1, 13, 16, DEFAULT_SPEED, 255}
=============================================================================
