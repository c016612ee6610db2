---------------------------- MODULE MotorDriver ----------------------------
(***************************************************************************)
(* The motor functions of motor.c, down to the bytes that PCA9685.c writes *)
(* to the PWM board over I2C.  A call is the sequence of its register      *)
(* writes; the board's outputs follow each write at once, so every prefix  *)
(* of the sequence is something the wheels do, and something they go on    *)
(* doing when the process dies there: the registers outlive it.            *)
(***************************************************************************)
EXTENDS Integers, Sequences

CONSTANTS
    Speeds,         \* the speeds given to the motor functions
    MaxCrashes      \* bound: how often the process dies

ASSUME SpeedsAssumption == Speeds \subseteq 0 .. 255        \* unsigned char
ASSUME CrashesAssumption == MaxCrashes \in Nat

----------------------------------------------------------------------------
(* Constants of motor.h, MotorDriver.h and PCA9685.h.                      *)

MAX_SPEED == 70
MIN_SPEED == 10
DEFAULT_SPEED == 50

Wheels == {"R", "L"}                    \* MOTOR_R is MOTORB, MOTOR_L MOTORA
FORWARD == "forward"
BACKWARD == "backward"

PWM == [R |-> 5, L |-> 0]               \* channels PWMB, PWMA
IN1 == [R |-> 3, L |-> 1]               \* channels BIN1, AIN1
IN2 == [R |-> 4, L |-> 2]               \* channels BIN2, AIN2
Channels == 0 .. 5

----------------------------------------------------------------------------
(* motor.c: from a function and a speed to the PWM duty of each wheel.     *)

Clamp(speed) == IF speed > 100 THEN 100 ELSE speed

(* Mutant: the range of speeds is added to the minimum whole.              *)
MutDuty(speed, build) == (speed * MAX_SPEED) \div 100 + MIN_SPEED

(* (unsigned char)(speed / 100. * MAX_SPEED - MIN_SPEED) + MIN_SPEED, as   *)
(* the macro SPEED_RANGE, which has no parentheses, makes it; the cast     *)
(* truncates towards zero.  Below speed 13 the double is -1 or less and    *)
(* the cast is undefined: the build saturates it to 0 or wraps it.         *)
Duty(speed, build) ==
    LET hundredths == speed * MAX_SPEED - 100 * MIN_SPEED
        below == (-hundredths) \div 100
        cast == IF hundredths >= 0 THEN hundredths \div 100
                ELSE IF build = "saturate" THEN 0
                ELSE (256 - below) % 256
    IN  (cast + MIN_SPEED) % 256

(* What setMotor asks of a wheel for a velocity.                           *)
Stop == [run |-> FALSE]
setMotor(velocity, build) ==
    IF velocity > 0
      THEN [run |-> TRUE, dir |-> FORWARD, duty |-> Duty(velocity, build)]
    ELSE IF velocity < 0
      THEN [run |-> TRUE, dir |-> BACKWARD, duty |-> Duty(-velocity, build)]
    ELSE Stop

(* speed * 0.5, converted to signed char, truncates.                       *)
Half(speed) == speed \div 2

Functions == {"runForward", "runBackward", "turnRightF", "turnLeftF",
              "turnRightB", "turnLeftB", "rotateRight", "rotateLeft", "idle"}

(* Mutant: one turn keeps the lines it was copied from.                    *)
MutVelocity(f, speed) ==
    LET s == Clamp(speed)
    IN  CASE f = "runForward"  -> [R |-> s, L |-> s]
          [] f = "runBackward" -> [R |-> -s, L |-> -s]
          [] f = "turnRightF"  -> [R |-> Half(s), L |-> s]
          [] f = "turnLeftF"   -> [R |-> s, L |-> Half(s)]
          [] f \in {"turnRightB", "turnLeftB"} -> [R |-> -s, L |-> -Half(s)]
          [] f = "rotateRight" -> [R |-> -s, L |-> s]
          [] f = "rotateLeft"  -> [R |-> s, L |-> -s]
          [] f = "idle"        -> [R |-> 0, L |-> 0]

(* The velocities of the two wheels.                                       *)
Velocity(f, speed) ==
    LET s == Clamp(speed)
    IN  CASE f = "runForward"  -> [R |-> s, L |-> s]
          [] f = "runBackward" -> [R |-> -s, L |-> -s]
          [] f = "turnRightF"  -> [R |-> Half(s), L |-> s]
          [] f = "turnLeftF"   -> [R |-> s, L |-> Half(s)]
          [] f = "turnRightB"  -> [R |-> -Half(s), L |-> -s]
          [] f = "turnLeftB"   -> [R |-> -s, L |-> -Half(s)]
          [] f = "rotateRight" -> [R |-> -s, L |-> s]
          [] f = "rotateLeft"  -> [R |-> s, L |-> -s]
          [] f = "idle"        -> [R |-> 0, L |-> 0]

----------------------------------------------------------------------------
(* MotorDriver.c and PCA9685.c: the register writes of a wheel.            *)

Write(channel, reg, value) == [channel |-> channel, reg |-> reg, value |-> value]

(* Mutant: the low bytes are not masked.                                   *)
MutSetPWM(channel, on, off) ==
    << Write(channel, "ON_L", on), Write(channel, "ON_H", on \div 256),
       Write(channel, "OFF_L", off), Write(channel, "OFF_H", off \div 256) >>

PCA9685_SetPWM(channel, on, off) ==
    << Write(channel, "ON_L", on % 256), Write(channel, "ON_H", on \div 256),
       Write(channel, "OFF_L", off % 256), Write(channel, "OFF_H", off \div 256) >>

(* The OFF time is a UWORD: a duty of 0 makes it 65535.                    *)
PCA9685_SetPwmDutyCycle(channel, pulse) ==
    PCA9685_SetPWM(channel, 0, (pulse * (4096 \div 100) - 1) % 65536)

PCA9685_SetLevel(channel, value) ==
    PCA9685_SetPWM(channel, 0, IF value = 1 THEN 4095 ELSE 0)

(* Mutants: a reversal does not lower the other pin; the two pins of one   *)
(* wheel are exchanged.                                                    *)
MutMotor_Run(wheel, dir, speed) ==
       PCA9685_SetPwmDutyCycle(PWM[wheel], Clamp(speed))
    \o PCA9685_SetLevel((IF dir = FORWARD THEN IN2 ELSE IN1)[wheel], 1)

SwappedMotor_Run(wheel, dir, speed) ==
       PCA9685_SetPwmDutyCycle(PWM[wheel], Clamp(speed))
    \o PCA9685_SetLevel((IF wheel = "L" THEN IN2 ELSE IN1)[wheel],
                        IF dir = FORWARD THEN 0 ELSE 1)
    \o PCA9685_SetLevel((IF wheel = "L" THEN IN1 ELSE IN2)[wheel],
                        IF dir = FORWARD THEN 1 ELSE 0)

Motor_Run(wheel, dir, speed) ==
       PCA9685_SetPwmDutyCycle(PWM[wheel], Clamp(speed))
    \o PCA9685_SetLevel(IN1[wheel], IF dir = FORWARD THEN 0 ELSE 1)
    \o PCA9685_SetLevel(IN2[wheel], IF dir = FORWARD THEN 1 ELSE 0)

Motor_Stop(wheel) == PCA9685_SetPwmDutyCycle(PWM[wheel], 0)

WheelWrites(wheel, ask) ==
    IF ask.run THEN Motor_Run(wheel, ask.dir, ask.duty) ELSE Motor_Stop(wheel)

----------------------------------------------------------------------------
VARIABLES
    build,      \* what the compiled cast does below 0 (never changes)
    alive,      \* the server process is running
    crashes,    \* how often it has died
    regs,       \* the board's registers, per channel
    todo,       \* the writes the current call has left
    call,       \* the last function called, and its speed
    asked,      \* what it asks of each wheel
    settled,    \* the call has been carried out entirely
    mayTurn     \* per wheel, the directions asked since (and in) the last
                \*   call that was carried out entirely and ran it

vars == <<build, alive, crashes, regs, todo, call, asked, settled, mayTurn>>

Bytes == 0 .. 255
Asks == {Stop} \cup [run : {TRUE}, dir : {FORWARD, BACKWARD}, duty : Bytes]

TypeOK ==
    /\ build \in {"saturate", "wrap"}
    /\ alive \in BOOLEAN
    /\ crashes \in 0 .. MaxCrashes
    /\ regs \in [Channels -> [ON_L : Bytes, ON_H : Bytes, OFF_L : Bytes,
                              OFF_H : Bytes]]
    /\ todo \in Seq([channel : Channels, value : Bytes,
                     reg : {"ON_L", "ON_H", "OFF_L", "OFF_H"}])
    /\ call \in [f : Functions, speed : Speeds]
    /\ asked \in [Wheels -> Asks]
    /\ settled \in BOOLEAN
    /\ mayTurn \in [Wheels -> SUBSET {FORWARD, BACKWARD}]

(* The board at power-on: every output fully off (bit 4 of OFF_H).         *)
PowerOn ==
    [c \in Channels |-> [ON_L |-> 0, ON_H |-> 0, OFF_L |-> 0, OFF_H |-> 16]]

Init ==
    /\ build \in {"saturate", "wrap"}
    /\ alive = TRUE /\ crashes = 0
    /\ regs = PowerOn
    /\ todo = <<>>
    /\ call \in [f : {"idle"}, speed : Speeds]
    /\ asked = [w \in Wheels |-> Stop]
    /\ settled = FALSE
    /\ mayTurn = [w \in Wheels |-> {}]

(* A motor function is called: setMotor for the right wheel, then for the  *)
(* left one.  The session runs one command at a time.                      *)
Call(f, speed) ==
    /\ alive /\ todo = <<>>
    /\ call' = [f |-> f, speed |-> speed]
    /\ LET v == Velocity(f, speed)
       IN  asked' = [w \in Wheels |-> setMotor(v[w], build)]
    /\ todo' = WheelWrites("R", asked'["R"]) \o WheelWrites("L", asked'["L"])
    /\ settled' = FALSE
    /\ mayTurn' = [w \in Wheels |->
                     mayTurn[w] \cup IF asked'[w].run THEN {asked'[w].dir} ELSE {}]
    /\ UNCHANGED <<build, alive, crashes, regs>>

(* DEV_I2C_WriteByte: the write that the board acknowledges.  The ones it  *)
(* does not are repeated for as long as it takes.                          *)
DEV_I2C_WriteByte ==
    /\ alive /\ todo # <<>>
    /\ LET w == Head(todo)
       IN  regs' = [regs EXCEPT ![w.channel][w.reg] = w.value]
    /\ todo' = Tail(todo)
    /\ settled' = (todo' = <<>>)
    /\ mayTurn' = IF todo' # <<>> THEN mayTurn
                  ELSE [w \in Wheels |->
                          IF asked[w].run THEN {asked[w].dir} ELSE mayTurn[w]]
    /\ UNCHANGED <<build, alive, crashes, call, asked>>

(* The process dies between two writes, with or without the board's power. *)
Crash ==
    /\ alive /\ crashes < MaxCrashes
    /\ alive' = FALSE /\ crashes' = crashes + 1
    /\ regs' \in {regs, PowerOn}
    /\ todo' = <<>>
    /\ settled' = FALSE
    /\ UNCHANGED <<build, call, asked, mayTurn>>

(* Mutant: the start of the program clears the outputs.                    *)
MutmotorInit ==
    /\ ~alive
    /\ alive' = TRUE /\ regs' = PowerOn
    /\ UNCHANGED <<build, crashes, todo, call, asked, settled, mayTurn>>

(* motorInit after a restart sets the board's mode and frequency and       *)
(* leaves the outputs' registers as they are.                              *)
motorInit ==
    /\ ~alive
    /\ alive' = TRUE
    /\ UNCHANGED <<build, crashes, regs, todo, call, asked, settled, mayTurn>>

Next ==
    \/ \E f \in Functions, speed \in Speeds : Call(f, speed)
    \/ DEV_I2C_WriteByte
    \/ Crash
    \/ motorInit

Spec == Init /\ [][Next]_vars

----------------------------------------------------------------------------
(* What the board does with its registers.  ON is 0 throughout: an output  *)
(* is high for the first OFF of the 4096 steps of a period, unless it is   *)
(* fully off.                                                              *)

OFF(channel) == regs[channel].OFF_H * 256 + regs[channel].OFF_L
FullOff(channel) == (regs[channel].OFF_H \div 16) % 2 = 1
HighSteps(channel) == IF FullOff(channel) THEN 0 ELSE OFF(channel) % 4096

(* The levels a direction pin takes in a period.                           *)
LevelsOf(channel) ==
    CASE HighSteps(channel) = 0    -> {0}
      [] HighSteps(channel) = 4095 -> {1}
      [] OTHER                     -> {0, 1}

(* The directions in which the bridge may drive a wheel in a period.       *)
Driven(wheel) ==
    {dir \in {FORWARD, BACKWARD} :
        /\ HighSteps(PWM[wheel]) > 0
        /\ (IF dir = FORWARD THEN 0 ELSE 1) \in LevelsOf(IN1[wheel])
        /\ (IF dir = FORWARD THEN 1 ELSE 0) \in LevelsOf(IN2[wheel])}
=============================================================================
