----------------------- MODULE MotorDriverProperties -----------------------
(* What must hold of the wheels.                                           *)
EXTENDS MotorDriver

(* motor.h limits the speed "to prevent overvoltage of motors".  The OFF   *)
(* time is written one byte after the other: no mixture of an old and a    *)
(* new byte, at any point a call or the process can stop, exceeds it.      *)
NoOvervoltage ==
    \A w \in Wheels : HighSteps(PWM[w]) * 100 <= MAX_SPEED * 4096

(* After a whole call both wheels do what it asked, whatever calls and     *)
(* crashes left in the registers before it.                                *)
SettledAsAsked ==
    settled => \A w \in Wheels :
        IF asked[w].run
          THEN /\ Driven(w) = {asked[w].dir}
               /\ HighSteps(PWM[w]) = asked[w].duty * 40 - 1
          ELSE Driven(w) = {}

(* A wheel is never driven in a direction that neither the current call    *)
(* nor the last whole one that ran it asks for, at any byte: the torn      *)
(* levels of the two direction pins never combine to the opposite.         *)
DrivenOnlyAsAsked ==
    \A w \in Wheels : Driven(w) \subseteq mayTurn[w]

(* The movements of motor.h, of a call that has been carried out.  A wheel *)
(* at a velocity of 0 rests: a speed of 0, or half of a speed of 1.        *)
Steps(w, dir) == IF Driven(w) = {dir} THEN HighSteps(PWM[w]) ELSE 0
Goes(w, dir) == Driven(w) = IF call.speed = 0 THEN {} ELSE {dir}

Straight(dir) ==
    /\ Goes("R", dir) /\ Goes("L", dir)
    /\ Steps("R", dir) = Steps("L", dir)

Rotates(inner, outer) ==
    /\ Goes(inner, BACKWARD) /\ Goes(outer, FORWARD)
    /\ Steps(inner, BACKWARD) = Steps(outer, FORWARD)

(* Up to speed 15 the build that saturates the cast gives both wheels the  *)
(* least duty, and the turn is straight.                                   *)
Turns(inner, outer, dir) ==
    /\ Goes(outer, dir)
    /\ IF call.speed = 1 THEN Driven(inner) = {} ELSE Goes(inner, dir)
    /\ Steps(inner, dir) <= Steps(outer, dir)
    /\ call.speed > 15 => Steps(inner, dir) < Steps(outer, dir)

(* motor.h names the movements.  Once settled, both wheels turn in the     *)
(* sense of the name: straight with equal steps, on the spot with equal    *)
(* steps against each other, and in a turn with fewer steps on the side    *)
(* turned to.                                                              *)
MovesAsNamed ==
    settled =>
        CASE call.f = "runForward"  -> Straight(FORWARD)
          [] call.f = "runBackward" -> Straight(BACKWARD)
          [] call.f = "turnRightF"  -> Turns("R", "L", FORWARD)
          [] call.f = "turnLeftF"   -> Turns("L", "R", FORWARD)
          [] call.f = "turnRightB"  -> Turns("R", "L", BACKWARD)
          [] call.f = "turnLeftB"   -> Turns("L", "R", BACKWARD)
          [] call.f = "rotateRight" -> Rotates("R", "L")
          [] call.f = "rotateLeft"  -> Rotates("L", "R")
          [] call.f = "idle"        -> Driven("R") = {} /\ Driven("L") = {}

(* The bytes implement the abstract drive train: between two calls the     *)
(* wheels do not change, within one they change one at a time and only as  *)
(* somebody asked, and the process that dies leaves them as they are.      *)
Train == INSTANCE DriveTrain WITH
    Directions <- {FORWARD, BACKWARD},
    up <- alive,
    phase <- IF settled THEN "obeyed" ELSE IF todo # <<>> THEN "busy" ELSE "none",
    order <- [w \in Wheels |-> IF asked[w].run THEN asked[w].dir ELSE "rest"],
    may <- mayTurn,
    turning <- [w \in Wheels |-> Driven(w)]

ImplementsTrain == Train!Spec
=============================================================================
