------------------------- MODULE MotorDriverProofs -------------------------
(***************************************************************************)
(* For every set of speeds an unsigned char can hold, both meanings of the *)
(* undefined cast and any number of deaths of the process: the registers   *)
(* hold bytes, no wheel gets more than motor.h allows at any byte, a call  *)
(* that was carried out makes the wheels do what it asked whatever the     *)
(* registers held, both wheels move as its name says, and the bytes        *)
(* implement the abstract drive train.                                     *)
(***************************************************************************)
EXTENDS MotorDriverProperties, SequenceTheorems, TLAPS

----------------------------------------------------------------------------
(* motor.c.                                                                *)

LEMMA ClampBounds ==
    ASSUME NEW speed \in 0 .. 255
    PROVE  /\ Clamp(speed) \in 0 .. 100 /\ Half(Clamp(speed)) \in 0 .. 100
BY DEF Clamp, Half

(* The cast wraps to at most 255 and its sum with MIN_SPEED is a byte too. *)
LEMMA DutyIs ==
    ASSUME NEW speed \in 1 .. 100, NEW b \in {"saturate", "wrap"}
    PROVE  Duty(speed, b) =
             IF speed * 70 - 1000 >= 0
               THEN 10 + (speed * 70 - 1000) \div 100
             ELSE IF b = "saturate" THEN 10
             ELSE 10 - (1000 - speed * 70) \div 100
<1> DEFINE hundredths == speed * 70 - 1000
           below == (-hundredths) \div 100
<1>1. hundredths \in -930 .. 6000 /\ -hundredths = 1000 - speed * 70
      OBVIOUS
<1>2. CASE hundredths >= 0
  <2>1. hundredths \div 100 \in 0 .. 60
        BY <1>1, <1>2
  <2> QED  BY <1>2, <2>1 DEF Duty, MAX_SPEED, MIN_SPEED
<1>3. CASE hundredths < 0
  <2>1. below \in 0 .. 9
        BY <1>1, <1>3
  <2>2. (256 - below) % 256 = IF below = 0 THEN 0 ELSE 256 - below
        BY <2>1
  <2>3. CASE b = "saturate"
        BY <1>3, <2>3 DEF Duty, MAX_SPEED, MIN_SPEED
  <2>4. CASE b = "wrap" /\ below = 0
        BY <1>1, <1>3, <2>2, <2>4 DEF Duty, MAX_SPEED, MIN_SPEED
  <2>5. CASE b = "wrap" /\ below # 0
    <3>1. ((256 - below) + 10) % 256 = 10 - below
          BY <2>1, <2>5
    <3> QED  BY <1>1, <1>3, <2>1, <2>2, <2>5, <3>1
             DEF Duty, MAX_SPEED, MIN_SPEED
  <2> QED  BY <2>3, <2>4, <2>5
<1> QED  BY <1>1, <1>2, <1>3

(* A hundredth, as the cast takes it.                                      *)
LEMMA Hundredth ==
    ASSUME NEW n \in Int, n >= 0, n <= 6000
    PROVE  /\ n \div 100 \in 0 .. 60
           /\ n <= 930 => n \div 100 \in 0 .. 9
           /\ 100 * (n \div 100) <= n /\ n < 100 * (n \div 100) + 100
<1>1. n \div 100 \in 0 .. 60
      OBVIOUS
<1>2. n <= 930 => n \div 100 \in 0 .. 9
      OBVIOUS
<1>3. 100 * (n \div 100) <= n /\ n < 100 * (n \div 100) + 100
      OBVIOUS
<1> QED  BY <1>1, <1>2, <1>3

(* Whatever the build makes of the cast, a wheel that runs gets between 1  *)
(* and MAX_SPEED hundredths, and no less at a higher speed.                *)
LEMMA DutyBounds ==
    ASSUME NEW speed \in 1 .. 100, NEW b \in {"saturate", "wrap"}
    PROVE  Duty(speed, b) \in 1 .. MAX_SPEED
<1> DEFINE n == speed * 70 - 1000
           up == n \div 100
           down == (1000 - speed * 70) \div 100
<1>1. n >= 0 => up \in 0 .. 60
      BY Hundredth
<1>2. n < 0 => down \in 0 .. 9
      BY Hundredth
<1>3. Duty(speed, b) = IF n >= 0 THEN 10 + up
                       ELSE IF b = "saturate" THEN 10 ELSE 10 - down
      BY DutyIs
<1>4. n \in Int
      OBVIOUS
<1> HIDE DEF n, up, down
<1> QED  BY <1>1, <1>2, <1>3, <1>4 DEF MAX_SPEED

LEMMA DutyGrows ==
    ASSUME NEW s \in 1 .. 100, NEW t \in 1 .. 100, s <= t,
           NEW b \in {"saturate", "wrap"}
    PROVE  Duty(s, b) <= Duty(t, b)
<1> DEFINE m == s * 70 - 1000
           n == t * 70 - 1000
           upm == m \div 100
           upn == n \div 100
           downm == (1000 - s * 70) \div 100
           downn == (1000 - t * 70) \div 100
<1>1. m \in Int /\ n \in Int /\ m <= n
      OBVIOUS
<1>2. m >= 0 => upm \in 0 .. 60 /\ 100 * upm <= m /\ m < 100 * upm + 100
      BY Hundredth
<1>3. n >= 0 => upn \in 0 .. 60 /\ 100 * upn <= n /\ n < 100 * upn + 100
      BY Hundredth
<1>4. m < 0 => downm \in 0 .. 9 /\ 100 * downm <= -m /\ -m < 100 * downm + 100
      BY Hundredth
<1>5. n < 0 => downn \in 0 .. 9 /\ 100 * downn <= -n /\ -n < 100 * downn + 100
      BY Hundredth
<1>6. /\ Duty(s, b) = IF m >= 0 THEN 10 + upm
                      ELSE IF b = "saturate" THEN 10 ELSE 10 - downm
      /\ Duty(t, b) = IF n >= 0 THEN 10 + upn
                      ELSE IF b = "saturate" THEN 10 ELSE 10 - downn
      BY DutyIs
<1> HIDE DEF m, n, upm, upn, downm, downn
<1> QED  BY <1>1, <1>2, <1>3, <1>4, <1>5, <1>6

(* From speed 16 on half the speed is a smaller duty.  The half of 16 is   *)
(* below what the cast is defined for, and 16 gets more than the least.    *)
LEMMA DutyHalves ==
    ASSUME NEW t \in 16 .. 100, NEW s \in 1 .. 100, 2 * s <= t,
           NEW b \in {"saturate", "wrap"}
    PROVE  Duty(s, b) < Duty(t, b)
<1> DEFINE m == s * 70 - 1000
           n == t * 70 - 1000
           upm == m \div 100
           upn == n \div 100
           downm == (1000 - s * 70) \div 100
<1>1. m \in Int /\ n \in Int /\ n >= 120 /\ m + 560 <= n
      OBVIOUS
<1>2. m >= 0 => upm \in 0 .. 60 /\ 100 * upm <= m
      BY Hundredth
<1>3. upn \in 0 .. 60 /\ n < 100 * upn + 100
      BY <1>1, Hundredth
<1>4. m < 0 => downm \in 0 .. 9
      BY Hundredth
<1>5. Duty(s, b) = IF m >= 0 THEN 10 + upm
                   ELSE IF b = "saturate" THEN 10 ELSE 10 - downm
      BY DutyIs
<1>6. Duty(t, b) = 10 + upn
      BY <1>1, DutyIs
<1> HIDE DEF m, n, upm, upn, downm
<1>7. upn >= 1
      BY <1>1, <1>3
<1>8. CASE m >= 0
      BY <1>1, <1>2, <1>3, <1>5, <1>6, <1>8
<1>9. CASE m < 0
      BY <1>1, <1>3, <1>4, <1>5, <1>6, <1>7, <1>9
<1> QED  BY <1>1, <1>8, <1>9

(* What a wheel may be asked for.                                          *)
SafeAsks ==
    {Stop} \cup [run : {TRUE}, dir : {FORWARD, BACKWARD}, duty : 1 .. MAX_SPEED]

LEMMA SetMotorIsSafe ==
    ASSUME NEW v \in -100 .. 100, NEW b \in {"saturate", "wrap"}
    PROVE  setMotor(v, b) \in SafeAsks
<1>1. CASE v > 0
  <2>1. Duty(v, b) \in 1 .. MAX_SPEED
        BY <1>1, DutyBounds
  <2> QED  BY <1>1, <2>1 DEF setMotor, SafeAsks
<1>2. CASE v < 0
  <2>1. Duty(-v, b) \in 1 .. MAX_SPEED
        BY <1>2, DutyBounds
  <2> QED  BY <1>2, <2>1 DEF setMotor, SafeAsks
<1>3. CASE v = 0
      BY <1>3 DEF setMotor, SafeAsks
<1> QED  BY <1>1, <1>2, <1>3

LEMMA VelocityBounds ==
    ASSUME NEW f \in Functions, NEW speed \in 0 .. 255
    PROVE  \A w \in Wheels : Velocity(f, speed)[w] \in -100 .. 100
<1> DEFINE s == Clamp(speed)
           h == Half(s)
<1>1. s \in 0 .. 100 /\ h \in 0 .. 100
      BY ClampBounds
<1>2. \A w \in Wheels : Velocity(f, speed)[w] \in {s, -s, h, -h, 0}
      BY DEF Functions, Wheels, Velocity
<1> HIDE DEF s, h
<1>3. \A v \in {s, -s, h, -h, 0} : v \in -100 .. 100
      BY <1>1
<1> QED  BY <1>2, <1>3

----------------------------------------------------------------------------
(* PCA9685.c: which bytes reach the board.                                 *)

PWMChannels == {PWM[w] : w \in Wheels}
Registers == {"ON_L", "ON_H", "OFF_L", "OFF_H"}
AnyWrite == [channel : Channels, reg : Registers, value : Bytes]

(* The high byte of an OFF time within the limit, or that of 65535.        *)
SafeHigh == 0 .. 10 \cup {255}
SafeWrites ==
    {w \in AnyWrite :
        w.channel \in PWMChannels /\ w.reg = "OFF_H" => w.value \in SafeHigh}

(* The bytes of a number.                                                  *)
LEMMA BytesOf ==
    ASSUME NEW n \in Int, n >= 0
    PROVE  /\ n <= 65535 => n \div 256 \in 0 .. 255
           /\ n <= 2799 => n \div 256 \in 0 .. 10
           /\ n % 256 \in 0 .. 255
           /\ n <= 65535 => n % 256 = n - 256 * (n \div 256)
<1>1. n <= 65535 => n \div 256 \in 0 .. 255
      OBVIOUS
<1>2. n <= 2799 => n \div 256 \in 0 .. 10
      OBVIOUS
<1>3. n % 256 \in 0 .. 255
      OBVIOUS
<1>4. n <= 65535 => n % 256 = n - 256 * (n \div 256)
      OBVIOUS
<1> QED  BY <1>1, <1>2, <1>3, <1>4

LEMMA SetPWMIsSafe ==
    ASSUME NEW c \in Channels, NEW off \in Int, off >= 0, off <= 65535,
           c \in PWMChannels => off \div 256 \in SafeHigh
    PROVE  PCA9685_SetPWM(c, 0, off) \in Seq(SafeWrites)
<1>1. off % 256 \in Bytes /\ off \div 256 \in Bytes
      BY BytesOf DEF Bytes
<1>2. Write(c, "ON_L", 0) \in SafeWrites /\ Write(c, "ON_H", 0) \in SafeWrites
      BY DEF SafeWrites, AnyWrite, Registers, Bytes, Write
<1>3. Write(c, "OFF_L", off % 256) \in SafeWrites
      BY <1>1 DEF SafeWrites, AnyWrite, Registers, Write
<1>4. Write(c, "OFF_H", off \div 256) \in SafeWrites
      BY <1>1 DEF SafeWrites, AnyWrite, Registers, Write
<1> QED  BY <1>1, <1>2, <1>3, <1>4 DEF PCA9685_SetPWM

LEMMA OffTime ==
    ASSUME NEW pulse \in 0 .. MAX_SPEED
    PROVE  (pulse * (4096 \div 100) - 1) % 65536 =
               IF pulse = 0 THEN 65535 ELSE pulse * 40 - 1
<1>1. 4096 \div 100 = 40 /\ pulse \in 0 .. 70
      BY DEF MAX_SPEED
<1> QED  BY <1>1

LEMMA DutyCycleIsSafe ==
    ASSUME NEW w \in Wheels, NEW pulse \in 0 .. MAX_SPEED
    PROVE  PCA9685_SetPwmDutyCycle(PWM[w], pulse) \in Seq(SafeWrites)
<1> DEFINE off == (pulse * (4096 \div 100) - 1) % 65536
<1>1. pulse \in 0 .. 70
      BY DEF MAX_SPEED
<1>2. off = IF pulse = 0 THEN 65535 ELSE pulse * 40 - 1
      BY OffTime
<1> HIDE DEF off
<1>3. off \in Int /\ off >= 0 /\ off <= 65535 /\ off \div 256 \in SafeHigh
  <2>1. CASE pulse = 0
    <3>1. 65535 \div 256 = 255
          OBVIOUS
    <3> QED  BY <1>2, <2>1, <3>1 DEF SafeHigh
  <2>2. CASE pulse # 0
    <3>1. off \in Int /\ off >= 0 /\ off <= 2799
          BY <1>1, <1>2, <2>2
    <3>2. off \div 256 \in 0 .. 10
          BY <3>1, BytesOf
    <3> QED  BY <3>1, <3>2 DEF SafeHigh
  <2> QED  BY <2>1, <2>2
<1>4. PWM[w] \in Channels
      BY DEF PWM, Wheels, Channels
<1>5. PCA9685_SetPWM(PWM[w], 0, off) \in Seq(SafeWrites)
      BY <1>3, <1>4, SetPWMIsSafe
<1> QED  BY <1>5 DEF PCA9685_SetPwmDutyCycle, off

LEMMA LevelIsSafe ==
    ASSUME NEW w \in Wheels, NEW v \in {0, 1}
    PROVE  /\ PCA9685_SetLevel(IN1[w], v) \in Seq(SafeWrites)
           /\ PCA9685_SetLevel(IN2[w], v) \in Seq(SafeWrites)
<1>1. IN1[w] \in Channels \ PWMChannels /\ IN2[w] \in Channels \ PWMChannels
      BY DEF IN1, IN2, PWM, Wheels, Channels, PWMChannels
<1>2. ASSUME NEW c \in Channels \ PWMChannels
      PROVE  /\ PCA9685_SetPWM(c, 0, 4095) \in Seq(SafeWrites)
             /\ PCA9685_SetPWM(c, 0, 0) \in Seq(SafeWrites)
      BY <1>2, SetPWMIsSafe
<1>3. \A c \in Channels \ PWMChannels :
          PCA9685_SetLevel(c, v) \in Seq(SafeWrites)
      BY <1>2 DEF PCA9685_SetLevel
<1> QED  BY <1>1, <1>3

LEMMA WheelIsSafe ==
    ASSUME NEW w \in Wheels, NEW ask \in SafeAsks
    PROVE  WheelWrites(w, ask) \in Seq(SafeWrites)
<1>1. CASE ask.run
  <2>1. ask.duty \in 1 .. MAX_SPEED
    <3>1. ask # Stop
          BY <1>1 DEF Stop
    <3> QED  BY <3>1 DEF SafeAsks
  <2>2. Clamp(ask.duty) = ask.duty
        BY <2>1 DEF Clamp, MAX_SPEED
  <2>3. PCA9685_SetPwmDutyCycle(PWM[w], Clamp(ask.duty)) \in Seq(SafeWrites)
        BY <2>1, <2>2, DutyCycleIsSafe
  <2>4. /\ PCA9685_SetLevel(IN1[w], IF ask.dir = FORWARD THEN 0 ELSE 1)
               \in Seq(SafeWrites)
        /\ PCA9685_SetLevel(IN2[w], IF ask.dir = FORWARD THEN 1 ELSE 0)
               \in Seq(SafeWrites)
        BY LevelIsSafe
  <2>5. Motor_Run(w, ask.dir, ask.duty) \in Seq(SafeWrites)
        BY <2>3, <2>4, ConcatProperties DEF Motor_Run
  <2> QED  BY <1>1, <2>5 DEF WheelWrites
<1>2. CASE ~ask.run
      BY <1>2, DutyCycleIsSafe DEF WheelWrites, Motor_Stop, MAX_SPEED
<1> QED  BY <1>1, <1>2

LEMMA SafeIsTyped == SafeWrites \subseteq AnyWrite /\ SafeAsks \subseteq Asks
<1>1. SafeWrites \subseteq AnyWrite
      BY DEF SafeWrites
<1>2. [run : {TRUE}, dir : {FORWARD, BACKWARD}, duty : 1 .. MAX_SPEED]
          \subseteq [run : {TRUE}, dir : {FORWARD, BACKWARD}, duty : Bytes]
  <2>1. 1 .. MAX_SPEED \subseteq Bytes
        BY DEF Bytes, MAX_SPEED
  <2> QED  BY <2>1
<1> QED  BY <1>1, <1>2 DEF SafeAsks, Asks

(* Only a wheel that runs has a direction.                                 *)
LEMMA AskHasDirection ==
    ASSUME NEW ask \in Asks, ask.run
    PROVE  ask.dir \in {FORWARD, BACKWARD}
<1>1. ask # Stop
      BY DEF Stop
<1> QED  BY <1>1 DEF Asks

----------------------------------------------------------------------------
(* A call writes each register it reaches once, and the ones that make a   *)
(* wheel do what it asks are among them.                                   *)

On(s, C) == \A i \in 1 .. Len(s) : s[i].channel \in C
Once(s) ==
    \A i, j \in 1 .. Len(s) :
        i # j => s[i].channel # s[j].channel \/ s[i].reg # s[j].reg
Has(s, x) == \E i \in 1 .. Len(s) : s[i] = x
SetsTo(s, c, off) ==
    Has(s, Write(c, "OFF_L", off % 256)) /\ Has(s, Write(c, "OFF_H", off \div 256))

LEMMA Joined ==
    ASSUME NEW S, NEW s \in Seq(S), NEW t \in Seq(S), NEW C, NEW D,
           On(s, C), On(t, D), Once(s), Once(t), C \cap D = {}
    PROVE  On(s \o t, C \cup D) /\ Once(s \o t)
<1> DEFINE n == Len(s)
           m == Len(t)
           st == s \o t
<1>1. /\ n \in Nat /\ m \in Nat /\ Len(st) = n + m
      /\ \A i \in 1 .. Len(st) : st[i] = IF i <= n THEN s[i] ELSE t[i - n]
      BY ConcatProperties
<1> HIDE DEF n, m, st
<1>2. \A i \in 1 .. Len(st) : i <= n => i \in 1 .. n /\ st[i] = s[i]
      BY <1>1
<1>3. \A i \in 1 .. Len(st) : ~(i <= n) => i - n \in 1 .. m /\ st[i] = t[i - n]
      BY <1>1
<1>4. \A i \in 1 .. Len(st) : IF i <= n THEN st[i].channel \in C
                                        ELSE st[i].channel \in D
  <2>1. \A i \in 1 .. n : s[i].channel \in C
        BY DEF On, n
  <2>2. \A i \in 1 .. m : t[i].channel \in D
        BY DEF On, m
  <2> QED  BY <1>2, <1>3, <2>1, <2>2
<1>5. ASSUME NEW i \in 1 .. Len(st), NEW j \in 1 .. Len(st), i # j
      PROVE  st[i].channel # st[j].channel \/ st[i].reg # st[j].reg
  <2>1. CASE i <= n /\ j <= n
        BY <1>2, <1>5, <2>1 DEF Once, n
  <2>2. CASE ~(i <= n) /\ ~(j <= n)
    <3>1. i - n # j - n
          BY <1>1, <1>5
    <3> QED  BY <1>3, <2>2, <3>1 DEF Once, m
  <2>3. CASE (i <= n) # (j <= n)
        BY <1>4, <2>3
  <2> QED  BY <2>1, <2>2, <2>3
<1> QED  BY <1>4, <1>5 DEF On, Once, st

LEMMA Kept ==
    ASSUME NEW S, NEW s \in Seq(S), NEW t \in Seq(S), NEW c, NEW off,
           SetsTo(s, c, off) \/ SetsTo(t, c, off)
    PROVE  SetsTo(s \o t, c, off)
<1> DEFINE st == s \o t
<1>1. /\ Len(s) \in Nat /\ Len(t) \in Nat /\ Len(st) = Len(s) + Len(t)
      /\ \A i \in 1 .. Len(st) :
             st[i] = IF i <= Len(s) THEN s[i] ELSE t[i - Len(s)]
      BY ConcatProperties
<1> HIDE DEF st
<1>2. ASSUME NEW x, Has(s, x)
      PROVE  Has(st, x)
  <2>1. PICK i \in 1 .. Len(s) : s[i] = x
        BY <1>2 DEF Has
  <2>2. i \in 1 .. Len(st) /\ st[i] = x
        BY <1>1, <2>1
  <2> QED  BY <2>2 DEF Has
<1>3. ASSUME NEW x, Has(t, x)
      PROVE  Has(st, x)
  <2>1. PICK i \in 1 .. Len(t) : t[i] = x
        BY <1>3 DEF Has
  <2>2. /\ Len(s) + i \in 1 .. Len(st) /\ ~(Len(s) + i <= Len(s))
        /\ (Len(s) + i) - Len(s) = i
        BY <1>1
  <2>3. st[Len(s) + i] = x
        BY <1>1, <2>1, <2>2
  <2> QED  BY <2>2, <2>3 DEF Has
<1> QED  BY <1>2, <1>3 DEF SetsTo, st

LEMMA OneChannel ==
    ASSUME NEW c, NEW off
    PROVE  /\ On(PCA9685_SetPWM(c, 0, off), {c})
           /\ Once(PCA9685_SetPWM(c, 0, off))
           /\ SetsTo(PCA9685_SetPWM(c, 0, off), c, off)
<1> DEFINE s == PCA9685_SetPWM(c, 0, off)
<1>1. /\ Len(s) = 4
      /\ s[1].channel = c /\ s[1].reg = "ON_L"
      /\ s[2].channel = c /\ s[2].reg = "ON_H"
      /\ s[3] = Write(c, "OFF_L", off % 256)
      /\ s[4] = Write(c, "OFF_H", off \div 256)
      BY DEF PCA9685_SetPWM, Write
<1>2. s[3].channel = c /\ s[3].reg = "OFF_L" /\ s[4].channel = c /\ s[4].reg = "OFF_H"
      BY <1>1 DEF Write
<1> HIDE DEF s
<1>3. 1 .. Len(s) = {1, 2, 3, 4}
      BY <1>1
<1>4. On(s, {c}) /\ Once(s)
      BY <1>1, <1>2, <1>3 DEF On, Once
<1>5. SetsTo(s, c, off)
      BY <1>1, <1>3 DEF SetsTo, Has
<1> QED  BY <1>4, <1>5 DEF s

(* The OFF times that carry out what a wheel is asked for.                 *)
PwmTime(ask) == IF ask.run THEN ask.duty * 40 - 1 ELSE 65535
In1Time(ask) == IF ask.dir = FORWARD THEN 0 ELSE 4095
In2Time(ask) == IF ask.dir = FORWARD THEN 4095 ELSE 0
Carries(s, w, ask) ==
    /\ SetsTo(s, PWM[w], PwmTime(ask))
    /\ ask.run => /\ SetsTo(s, IN1[w], In1Time(ask))
                  /\ SetsTo(s, IN2[w], In2Time(ask))
ChannelsOf(w) == {PWM[w], IN1[w], IN2[w]}

LEMMA WheelCarries ==
    ASSUME NEW w \in Wheels, NEW ask \in SafeAsks
    PROVE  /\ On(WheelWrites(w, ask), ChannelsOf(w))
           /\ Once(WheelWrites(w, ask))
           /\ Carries(WheelWrites(w, ask), w, ask)
<1>1. CASE ask.run
  <2> DEFINE p == PCA9685_SetPWM(PWM[w], 0, PwmTime(ask))
             a == PCA9685_SetPWM(IN1[w], 0, In1Time(ask))
             b == PCA9685_SetPWM(IN2[w], 0, In2Time(ask))
  <2>1. ask.duty \in 1 .. 70
    <3>1. ask # Stop
          BY <1>1 DEF Stop
    <3> QED  BY <3>1 DEF SafeAsks, MAX_SPEED
  <2>2. PCA9685_SetPwmDutyCycle(PWM[w], Clamp(ask.duty)) = p
    <3>1. Clamp(ask.duty) = ask.duty /\ 4096 \div 100 = 40
          BY <2>1 DEF Clamp
    <3>2. (ask.duty * 40 - 1) % 65536 = ask.duty * 40 - 1
          BY <2>1
    <3> QED  BY <1>1, <3>1, <3>2 DEF PCA9685_SetPwmDutyCycle, PwmTime
  <2>3. /\ PCA9685_SetLevel(IN1[w], IF ask.dir = FORWARD THEN 0 ELSE 1) = a
        /\ PCA9685_SetLevel(IN2[w], IF ask.dir = FORWARD THEN 1 ELSE 0) = b
        BY DEF PCA9685_SetLevel, In1Time, In2Time
  <2>4. WheelWrites(w, ask) = (p \o a) \o b
        BY <1>1, <2>2, <2>3 DEF WheelWrites, Motor_Run
  <2>5. /\ p \in Seq(AnyWrite) /\ a \in Seq(AnyWrite) /\ b \in Seq(AnyWrite)
    <3>1. p \in Seq(SafeWrites)
      <4>1. Clamp(ask.duty) \in 0 .. MAX_SPEED
            BY <2>1 DEF Clamp, MAX_SPEED
      <4> QED  BY <2>2, <4>1, DutyCycleIsSafe
    <3>2. a \in Seq(SafeWrites) /\ b \in Seq(SafeWrites)
          BY <2>3, LevelIsSafe
    <3> QED  BY <3>1, <3>2, SafeIsTyped
  <2>6. /\ On(p, {PWM[w]}) /\ Once(p) /\ SetsTo(p, PWM[w], PwmTime(ask))
        /\ On(a, {IN1[w]}) /\ Once(a) /\ SetsTo(a, IN1[w], In1Time(ask))
        /\ On(b, {IN2[w]}) /\ Once(b) /\ SetsTo(b, IN2[w], In2Time(ask))
        BY OneChannel
  <2> HIDE DEF p, a, b
  <2>7. PWM[w] # IN1[w] /\ PWM[w] # IN2[w] /\ IN1[w] # IN2[w]
        BY DEF PWM, IN1, IN2, Wheels
  <2>8. p \o a \in Seq(AnyWrite)
        BY <2>5, ConcatProperties
  <2>9. On(p \o a, {PWM[w]} \cup {IN1[w]}) /\ Once(p \o a)
    <3>1. {PWM[w]} \cap {IN1[w]} = {}
          BY <2>7
    <3> QED  BY <2>5, <2>6, <3>1, Joined
  <2>10. /\ On((p \o a) \o b, ({PWM[w]} \cup {IN1[w]}) \cup {IN2[w]})
         /\ Once((p \o a) \o b)
    <3>1. ({PWM[w]} \cup {IN1[w]}) \cap {IN2[w]} = {}
          BY <2>7
    <3> QED  BY <2>5, <2>6, <2>8, <2>9, <3>1, Joined
  <2>11. SetsTo(p \o a, PWM[w], PwmTime(ask)) /\ SetsTo(p \o a, IN1[w], In1Time(ask))
         BY <2>5, <2>6, Kept
  <2>12. Carries((p \o a) \o b, w, ask)
         BY <2>5, <2>6, <2>8, <2>11, Kept DEF Carries
  <2>13. ChannelsOf(w) = ({PWM[w]} \cup {IN1[w]}) \cup {IN2[w]}
         BY DEF ChannelsOf
  <2> QED  BY <2>4, <2>10, <2>12, <2>13
<1>2. CASE ~ask.run
  <2> DEFINE p == PCA9685_SetPWM(PWM[w], 0, 65535)
  <2>1. (0 * (4096 \div 100) - 1) % 65536 = 65535
    <3> DEFINE off(pulse) == (pulse * (4096 \div 100) - 1) % 65536
    <3>1. \A pulse \in 0 .. MAX_SPEED :
              off(pulse) = IF pulse = 0 THEN 65535 ELSE pulse * 40 - 1
          BY OffTime
    <3>2. 0 \in 0 .. MAX_SPEED
          BY DEF MAX_SPEED
    <3> HIDE DEF off
    <3>3. off(0) = 65535
          BY <3>1, <3>2
    <3> QED  BY <3>3 DEF off
  <2>2. WheelWrites(w, ask) = p
        BY <1>2, <2>1 DEF WheelWrites, Motor_Stop, PCA9685_SetPwmDutyCycle
  <2>3. On(p, {PWM[w]}) /\ Once(p) /\ SetsTo(p, PWM[w], 65535)
        BY OneChannel
  <2> HIDE DEF p
  <2>4. On(p, ChannelsOf(w))
        BY <2>3 DEF On, ChannelsOf
  <2>5. Carries(p, w, ask)
        BY <1>2, <2>3 DEF Carries, PwmTime
  <2> QED  BY <2>2, <2>3, <2>4, <2>5
<1> QED  BY <1>1, <1>2

(* The writes of a call.                                                   *)
Writes(a) == WheelWrites("R", a["R"]) \o WheelWrites("L", a["L"])

LEMMA CallCarries ==
    ASSUME NEW a \in [Wheels -> SafeAsks]
    PROVE  /\ Writes(a) \in Seq(SafeWrites)
           /\ Once(Writes(a))
           /\ \A w \in Wheels : Carries(Writes(a), w, a[w])
<1> DEFINE r == WheelWrites("R", a["R"])
           l == WheelWrites("L", a["L"])
<1>1. "R" \in Wheels /\ "L" \in Wheels /\ a["R"] \in SafeAsks /\ a["L"] \in SafeAsks
      BY DEF Wheels
<1>2. r \in Seq(SafeWrites) /\ l \in Seq(SafeWrites)
      BY <1>1, WheelIsSafe
<1>3. /\ On(r, ChannelsOf("R")) /\ Once(r) /\ Carries(r, "R", a["R"])
      /\ On(l, ChannelsOf("L")) /\ Once(l) /\ Carries(l, "L", a["L"])
      BY <1>1, WheelCarries
<1>4. ChannelsOf("R") \cap ChannelsOf("L") = {}
      BY DEF ChannelsOf, PWM, IN1, IN2
<1> HIDE DEF r, l
<1>5. r \o l \in Seq(SafeWrites) /\ Once(r \o l)
      BY <1>2, <1>3, <1>4, Joined, ConcatProperties
<1>6. Carries(r \o l, "R", a["R"]) /\ Carries(r \o l, "L", a["L"])
      BY <1>2, <1>3, Kept DEF Carries
<1> QED  BY <1>5, <1>6 DEF Wheels, Writes, r, l

----------------------------------------------------------------------------
(* The steps.                                                              *)

RegisterBytes == [ON_L : Bytes, ON_H : Bytes, OFF_L : Bytes, OFF_H : Bytes]

(* The high bytes that are in the board or on their way to it: within the  *)
(* limit, or with the bit that turns the output off.                       *)
Limits ==
    /\ todo \in Seq(SafeWrites)
    /\ \A c \in PWMChannels : regs[c].OFF_H \in SafeHigh \cup {16}

LEMMA CallIsSafe ==
    ASSUME TypeOK, NEW f \in Functions, NEW speed \in Speeds, Call(f, speed)
    PROVE  asked' \in [Wheels -> SafeAsks] /\ todo' \in Seq(SafeWrites)
<1>1. speed \in 0 .. 255 /\ build \in {"saturate", "wrap"}
      BY SpeedsAssumption DEF TypeOK
<1>2. \A w \in Wheels : setMotor(Velocity(f, speed)[w], build) \in SafeAsks
      BY <1>1, VelocityBounds, SetMotorIsSafe
<1>3. asked' = [w \in Wheels |-> setMotor(Velocity(f, speed)[w], build)]
      BY DEF Call
<1>4. asked' \in [Wheels -> SafeAsks]
      BY <1>2, <1>3
<1>5. asked'["R"] \in SafeAsks /\ asked'["L"] \in SafeAsks
      BY <1>4 DEF Wheels
<1>6. /\ WheelWrites("R", asked'["R"]) \in Seq(SafeWrites)
      /\ WheelWrites("L", asked'["L"]) \in Seq(SafeWrites)
      BY <1>5, WheelIsSafe DEF Wheels
<1>7. todo' = WheelWrites("R", asked'["R"]) \o WheelWrites("L", asked'["L"])
      BY DEF Call
<1> QED  BY <1>4, <1>6, <1>7, ConcatProperties

(* One byte reaches one register.                                          *)
LEMMA WriteIsSafe ==
    ASSUME TypeOK, Limits, DEV_I2C_WriteByte
    PROVE  /\ todo' \in Seq(SafeWrites)
           /\ regs' \in [Channels -> RegisterBytes]
           /\ \A c \in PWMChannels : regs'[c].OFF_H \in SafeHigh \cup {16}
<1> DEFINE w == Head(todo)
<1>1. todo \in Seq(SafeWrites) /\ todo # <<>>
      BY DEF Limits, DEV_I2C_WriteByte
<1>2. w \in SafeWrites /\ todo' \in Seq(SafeWrites)
      BY <1>1, HeadTailProperties DEF DEV_I2C_WriteByte
<1>3. w.channel \in Channels /\ w.reg \in Registers /\ w.value \in Bytes
      BY <1>2 DEF SafeWrites, AnyWrite
<1>4. regs' = [regs EXCEPT ![w.channel][w.reg] = w.value]
      BY DEF DEV_I2C_WriteByte
<1>5. regs \in [Channels -> RegisterBytes]
      BY DEF TypeOK, RegisterBytes
<1> HIDE DEF w
<1>6. [regs[w.channel] EXCEPT ![w.reg] = w.value] \in RegisterBytes
      BY <1>3, <1>5 DEF RegisterBytes, Registers
<1>7. regs' = [regs EXCEPT ![w.channel] =
                   [regs[w.channel] EXCEPT ![w.reg] = w.value]]
      BY <1>4
<1>8. regs' \in [Channels -> RegisterBytes]
      BY <1>3, <1>5, <1>6, <1>7
<1>9. ASSUME NEW c \in PWMChannels
      PROVE  regs'[c].OFF_H \in SafeHigh \cup {16}
  <2>1. c \in Channels /\ regs[c].OFF_H \in SafeHigh \cup {16}
        /\ regs[c] \in RegisterBytes
        BY <1>5 DEF Limits, PWMChannels, PWM, Wheels, Channels
  <2>2. CASE c = w.channel /\ w.reg = "OFF_H"
    <3>1. w.value \in SafeHigh
          BY <1>2, <2>2 DEF SafeWrites
    <3>2. regs'[c].OFF_H = w.value
          BY <1>7, <1>5, <2>1, <2>2 DEF RegisterBytes
    <3> QED  BY <3>1, <3>2
  <2>3. CASE c = w.channel /\ w.reg # "OFF_H"
    <3>1. regs'[c].OFF_H = regs[c].OFF_H
          BY <1>7, <1>5, <2>1, <2>3 DEF RegisterBytes
    <3> QED  BY <2>1, <3>1
  <2>4. CASE c # w.channel
    <3>1. regs'[c] = regs[c]
          BY <1>7, <1>5, <2>1, <2>4
    <3> QED  BY <2>1, <3>1
  <2> QED  BY <2>2, <2>3, <2>4
<1> QED  BY <1>2, <1>8, <1>9

(* The board after power-on has every output off.                          *)
LEMMA PowerOnIsSafe ==
    /\ PowerOn \in [Channels -> RegisterBytes]
    /\ \A c \in PWMChannels : PowerOn[c].OFF_H = 16
BY DEF PowerOn, RegisterBytes, Bytes, PWMChannels, PWM, Wheels, Channels

LEMMA Begins == Init => TypeOK /\ Limits
<1> SUFFICES ASSUME Init PROVE TypeOK /\ Limits
    OBVIOUS
<1>1. TypeOK
  <2>1. regs \in [Channels -> RegisterBytes]
        BY PowerOnIsSafe DEF Init
  <2>2. call \in [f : Functions, speed : Speeds]
        BY DEF Init, Functions
  <2>3. asked \in [Wheels -> Asks]
        BY DEF Init, Asks
  <2>4. alive \in BOOLEAN /\ settled \in BOOLEAN
        BY Zenon DEF Init
  <2>5. crashes \in 0 .. MaxCrashes
        BY CrashesAssumption DEF Init
  <2> QED  BY <2>1, <2>2, <2>3, <2>4, <2>5 DEF Init, TypeOK, RegisterBytes
<1>2. Limits
      BY PowerOnIsSafe DEF Init, Limits
<1> QED  BY <1>1, <1>2

LEMMA Continues == TypeOK /\ Limits /\ [Next]_vars => TypeOK' /\ Limits'
<1> SUFFICES ASSUME TypeOK, Limits, [Next]_vars PROVE TypeOK' /\ Limits'
    OBVIOUS
<1>0. \A s \in Seq(SafeWrites) : s \in Seq(AnyWrite)
      BY SafeIsTyped
<1>1. ASSUME NEW f \in Functions, NEW speed \in Speeds, Call(f, speed)
      PROVE  TypeOK' /\ Limits'
  <2>1. asked' \in [Wheels -> SafeAsks] /\ todo' \in Seq(SafeWrites)
        BY <1>1, CallIsSafe
  <2>2. asked' \in [Wheels -> Asks] /\ todo' \in Seq(AnyWrite)
        BY <1>0, <2>1, SafeIsTyped
  <2>3. mayTurn' \in [Wheels -> SUBSET {FORWARD, BACKWARD}]
    <3>1. \A w \in Wheels :
              asked'[w].run => asked'[w].dir \in {FORWARD, BACKWARD}
          BY <2>2, AskHasDirection
    <3> QED  BY <1>1, <3>1 DEF Call, TypeOK
  <2>4. call' \in [f : Functions, speed : Speeds]
        BY <1>1 DEF Call
  <2>5. alive' \in BOOLEAN /\ settled' \in BOOLEAN
        BY <1>1, Zenon DEF Call, TypeOK
  <2>6. build' = build /\ crashes' = crashes /\ regs' = regs
        BY <1>1 DEF Call
  <2>7. TypeOK'
        BY <2>2, <2>3, <2>4, <2>5, <2>6 DEF TypeOK, AnyWrite, Registers
  <2>8. Limits'
        BY <2>1, <2>6 DEF Limits
  <2> QED  BY <2>7, <2>8
<1>2. CASE DEV_I2C_WriteByte
  <2>1. /\ todo' \in Seq(SafeWrites) /\ regs' \in [Channels -> RegisterBytes]
        /\ \A c \in PWMChannels : regs'[c].OFF_H \in SafeHigh \cup {16}
        BY <1>2, WriteIsSafe
  <2>2. mayTurn' \in [Wheels -> SUBSET {FORWARD, BACKWARD}]
    <3>1. \A w \in Wheels :
              asked[w].run => asked[w].dir \in {FORWARD, BACKWARD}
          BY AskHasDirection DEF TypeOK
    <3> QED  BY <1>2, <3>1 DEF DEV_I2C_WriteByte, TypeOK
  <2>3. settled' \in BOOLEAN
        BY <1>2 DEF DEV_I2C_WriteByte
  <2>4. TypeOK'
        BY <1>0, <1>2, <2>1, <2>2, <2>3
           DEF DEV_I2C_WriteByte, TypeOK, AnyWrite, Registers, RegisterBytes
  <2> QED  BY <2>1, <2>4 DEF Limits
<1>3. CASE Crash
  <2>1. regs' \in [Channels -> RegisterBytes]
        BY <1>3, PowerOnIsSafe DEF Crash, TypeOK, RegisterBytes
  <2>2. \A c \in PWMChannels : regs'[c].OFF_H \in SafeHigh \cup {16}
        BY <1>3, PowerOnIsSafe DEF Crash, Limits
  <2>3. crashes' \in 0 .. MaxCrashes
        BY <1>3, CrashesAssumption DEF Crash, TypeOK
  <2>4. alive' \in BOOLEAN /\ settled' \in BOOLEAN
        BY <1>3, Zenon DEF Crash
  <2>5. TypeOK'
        BY <1>3, <2>1, <2>3, <2>4 DEF Crash, TypeOK, RegisterBytes
  <2> QED  BY <1>3, <2>2, <2>5 DEF Crash, Limits
<1>4. CASE motorInit
  <2>1. TypeOK'
        BY <1>4 DEF motorInit, TypeOK
  <2> QED  BY <1>4, <2>1 DEF motorInit, Limits
<1>5. CASE UNCHANGED vars
      BY <1>5 DEF vars, TypeOK, Limits
<1> QED  BY <1>1, <1>2, <1>3, <1>4, <1>5 DEF Next

----------------------------------------------------------------------------
(* Every write of the call is still to come, or it is in its register and  *)
(* nothing that is to come changes it.                                     *)

Off(s, x) == \A j \in 1 .. Len(s) : s[j].channel # x.channel \/ s[j].reg # x.reg
Lands(x) ==
    Has(todo, x) \/ (regs[x.channel][x.reg] = x.value /\ Off(todo, x))
Landing ==
    /\ asked \in [Wheels -> SafeAsks]
    /\ Once(todo)
    /\ settled => todo = <<>>
    /\ todo # <<>> \/ settled =>
           \A x \in AnyWrite : Has(Writes(asked), x) => Lands(x)

LEMMA LandingCall ==
    ASSUME TypeOK, NEW f \in Functions, NEW speed \in Speeds, Call(f, speed)
    PROVE  Landing'
<1>1. asked' \in [Wheels -> SafeAsks]
      BY CallIsSafe
<1>2. todo' = Writes(asked') /\ settled' = FALSE
      BY DEF Call, Writes
<1>3. Once(todo')
      BY <1>1, <1>2, CallCarries
<1>4. \A x : Has(Writes(asked'), x) => Has(todo', x)
      BY <1>2
<1> QED  BY <1>1, <1>2, <1>3, <1>4 DEF Landing, Lands

LEMMA LandingWrite ==
    ASSUME TypeOK, Limits, Landing, DEV_I2C_WriteByte
    PROVE  Landing'
<1> DEFINE w == Head(todo)
<1>1. /\ todo \in Seq(SafeWrites) /\ todo # <<>> /\ todo' = Tail(todo)
      /\ asked' = asked /\ settled' = (todo' = <<>>)
      /\ regs' = [regs EXCEPT ![w.channel][w.reg] = w.value]
      BY DEF Limits, DEV_I2C_WriteByte
<1>2. /\ Len(todo) \in Nat /\ Len(todo) >= 1 /\ w = todo[1] /\ w \in SafeWrites
      /\ Len(todo') = Len(todo) - 1
      /\ \A j \in 1 .. Len(todo') : todo'[j] = todo[j + 1]
      BY <1>1, HeadTailProperties, EmptySeq
<1>3. \A j \in 1 .. Len(todo') : j + 1 \in 1 .. Len(todo) /\ j + 1 # 1
      BY <1>2
<1>4. Once(todo')
  <2> SUFFICES ASSUME NEW i \in 1 .. Len(todo'), NEW j \in 1 .. Len(todo'), i # j
               PROVE  \/ todo'[i].channel # todo'[j].channel
                      \/ todo'[i].reg # todo'[j].reg
      BY DEF Once
  <2>1. i + 1 # j + 1
        OBVIOUS
  <2> QED  BY <1>2, <1>3, <2>1 DEF Landing, Once
<1>5. w.channel \in Channels /\ w.reg \in Registers /\ w.value \in Bytes
      BY <1>2 DEF SafeWrites, AnyWrite
<1>6. regs \in [Channels -> RegisterBytes]
      BY DEF TypeOK, RegisterBytes
<1> HIDE DEF w
<1>7. regs'[w.channel][w.reg] = w.value
      BY <1>1, <1>5, <1>6 DEF RegisterBytes, Registers
<1>8. ASSUME NEW c \in Channels, NEW r \in Registers, c # w.channel \/ r # w.reg
      PROVE  regs'[c][r] = regs[c][r]
      BY <1>1, <1>5, <1>6, <1>8 DEF RegisterBytes, Registers
<1>9. ASSUME NEW x \in AnyWrite, Has(Writes(asked), x)
      PROVE  Lands(x)'
  <2>1. Lands(x)
        BY <1>1, <1>9 DEF Landing
  <2>2. CASE Has(todo, x)
    <3>1. PICK i \in 1 .. Len(todo) : todo[i] = x
          BY <2>2 DEF Has
    <3>2. CASE i = 1
      <4>1. x = w
            BY <1>2, <3>1, <3>2
      <4>2. Off(todo', x)
        <5>1. \A j \in 1 .. Len(todo') :
                  \/ todo[j + 1].channel # todo[1].channel
                  \/ todo[j + 1].reg # todo[1].reg
              BY <1>2, <1>3 DEF Landing, Once
        <5> QED  BY <1>2, <4>1, <5>1 DEF Off
      <4> QED  BY <1>7, <4>1, <4>2 DEF Lands
    <3>3. CASE i # 1
      <4>1. i - 1 \in 1 .. Len(todo') /\ (i - 1) + 1 = i
            BY <1>2, <3>1, <3>3
      <4>2. todo'[i - 1] = x
            BY <1>2, <3>1, <4>1
      <4> QED  BY <4>1, <4>2 DEF Lands, Has
    <3> QED  BY <3>2, <3>3
  <2>3. CASE regs[x.channel][x.reg] = x.value /\ Off(todo, x)
    <3>1. x.channel \in Channels /\ x.reg \in Registers
          BY DEF AnyWrite
    <3>2. w.channel # x.channel \/ w.reg # x.reg
          BY <1>2, <2>3 DEF Off
    <3>3. regs'[x.channel][x.reg] = x.value
          BY <1>8, <2>3, <3>1, <3>2
    <3>4. Off(todo', x)
          BY <1>2, <1>3, <2>3 DEF Off
    <3> QED  BY <3>3, <3>4 DEF Lands
  <2> QED  BY <2>1, <2>2, <2>3 DEF Lands
<1>10. \A x \in AnyWrite : Has(Writes(asked), x)' => Lands(x)'
       BY <1>1, <1>9
<1>11. asked' \in [Wheels -> SafeAsks] /\ (settled' => todo' = <<>>)
       BY <1>1 DEF Landing
<1> QED  BY <1>4, <1>10, <1>11 DEF Landing

LEMMA LandingKept ==
    ASSUME TypeOK, Limits, Landing, [Next]_vars
    PROVE  Landing'
<1>1. ASSUME NEW f \in Functions, NEW speed \in Speeds, Call(f, speed)
      PROVE  Landing'
      BY <1>1, LandingCall
<1>2. CASE DEV_I2C_WriteByte
      BY <1>2, LandingWrite
<1>3. CASE Crash
  <2>1. todo' = <<>> /\ settled' = FALSE /\ asked' = asked
        BY <1>3 DEF Crash
  <2>2. Once(<<>>)
        BY DEF Once
  <2> QED  BY <2>1, <2>2 DEF Landing
<1>4. CASE motorInit
      BY <1>4 DEF motorInit, Landing, Lands
<1>5. CASE UNCHANGED vars
      BY <1>5 DEF vars, Landing, Lands
<1> QED  BY <1>1, <1>2, <1>3, <1>4, <1>5 DEF Next

(* Once a call is carried out, the OFF times are those it set.             *)
LEMMA Landed ==
    ASSUME TypeOK, Landing, settled, NEW c \in Channels,
           NEW off \in Int, off >= 0, off <= 65535, SetsTo(Writes(asked), c, off)
    PROVE  OFF(c) = off /\ regs[c].OFF_H = off \div 256
<1> DEFINE high == off \div 256
           low == off % 256
<1>1. high \in Bytes /\ low \in Bytes /\ low = off - 256 * high
      BY BytesOf DEF Bytes
<1>2. Has(Writes(asked), Write(c, "OFF_L", low))
      /\ Has(Writes(asked), Write(c, "OFF_H", high))
      BY DEF SetsTo
<1> HIDE DEF high, low
<1>3. Write(c, "OFF_L", low) \in AnyWrite /\ Write(c, "OFF_H", high) \in AnyWrite
      BY <1>1 DEF Write, AnyWrite, Registers
<1>4. todo = <<>> /\ \A x : ~Has(todo, x)
      BY DEF Landing, Has
<1>5. \A x \in AnyWrite : Has(Writes(asked), x) => regs[x.channel][x.reg] = x.value
      BY <1>4 DEF Landing, Lands
<1>6. regs[c].OFF_L = low /\ regs[c].OFF_H = high
      BY <1>2, <1>3, <1>5 DEF Write
<1>7. OFF(c) = off
      BY <1>1, <1>6 DEF OFF, Bytes
<1> QED  BY <1>6, <1>7 DEF high

LEMMA ShownFor ==
    ASSUME TypeOK, Landing, settled, NEW c \in Channels,
           NEW off \in Int, off >= 0, off <= 4095, SetsTo(Writes(asked), c, off)
    PROVE  HighSteps(c) = off
<1>1. OFF(c) = off /\ regs[c].OFF_H = off \div 256
      BY Landed
<1>2. (off \div 256) \div 16 = 0 /\ off % 4096 = off
      OBVIOUS
<1>3. ~FullOff(c)
      BY <1>1, <1>2 DEF FullOff
<1> QED  BY <1>1, <1>2, <1>3 DEF HighSteps

LEMMA ShownOff ==
    ASSUME TypeOK, Landing, settled, NEW c \in Channels,
           SetsTo(Writes(asked), c, 65535)
    PROVE  HighSteps(c) = 0
<1>1. regs[c].OFF_H = 65535 \div 256
      BY Landed
<1>2. 65535 \div 256 = 255 /\ 255 \div 16 = 15
      OBVIOUS
<1>3. FullOff(c)
      BY <1>1, <1>2 DEF FullOff
<1> QED  BY <1>3 DEF HighSteps

(* What a wheel does when a call that asked for it has been carried out.   *)
LEMMA WheelDoes ==
    ASSUME TypeOK, Landing, settled, NEW w \in Wheels
    PROVE  IF asked[w].run
             THEN /\ Driven(w) = {asked[w].dir}
                  /\ HighSteps(PWM[w]) = asked[w].duty * 40 - 1
             ELSE Driven(w) = {}
<1> DEFINE ask == asked[w]
<1>1. ask \in SafeAsks /\ Carries(Writes(asked), w, ask)
      BY CallCarries DEF Landing
<1>2. PWM[w] \in Channels /\ IN1[w] \in Channels /\ IN2[w] \in Channels
      BY DEF PWM, IN1, IN2, Wheels, Channels
<1> HIDE DEF ask
<1>3. CASE ask.run
  <2>1. ask.duty \in 1 .. 70 /\ ask.dir \in {FORWARD, BACKWARD}
    <3>1. ask # Stop
          BY <1>3 DEF Stop
    <3> QED  BY <1>1, <3>1 DEF SafeAsks, MAX_SPEED
  <2>2. HighSteps(PWM[w]) = ask.duty * 40 - 1
    <3>1. SetsTo(Writes(asked), PWM[w], ask.duty * 40 - 1)
          BY <1>1, <1>3 DEF Carries, PwmTime
    <3>2. /\ ask.duty * 40 - 1 \in Int /\ ask.duty * 40 - 1 >= 0
          /\ ask.duty * 40 - 1 <= 4095
          BY <2>1
    <3> QED  BY <1>2, <3>1, <3>2, ShownFor
  <2>3. /\ SetsTo(Writes(asked), IN1[w], In1Time(ask))
        /\ SetsTo(Writes(asked), IN2[w], In2Time(ask))
        BY <1>1, <1>3 DEF Carries
  <2>4. CASE ask.dir = FORWARD
    <3>1. HighSteps(IN1[w]) = 0 /\ HighSteps(IN2[w]) = 4095
          BY <1>2, <2>3, <2>4, ShownFor DEF In1Time, In2Time
    <3>2. LevelsOf(IN1[w]) = {0} /\ LevelsOf(IN2[w]) = {1}
          BY <3>1 DEF LevelsOf
    <3>3. Driven(w) = {FORWARD}
          BY <2>1, <2>2, <3>2 DEF Driven, FORWARD, BACKWARD
    <3> QED  BY <1>3, <2>2, <2>4, <3>3 DEF ask
  <2>5. CASE ask.dir # FORWARD
    <3>1. HighSteps(IN1[w]) = 4095 /\ HighSteps(IN2[w]) = 0
          BY <1>2, <2>3, <2>5, ShownFor DEF In1Time, In2Time
    <3>2. LevelsOf(IN1[w]) = {1} /\ LevelsOf(IN2[w]) = {0}
          BY <3>1 DEF LevelsOf
    <3>3. Driven(w) = {BACKWARD}
          BY <2>1, <2>2, <3>2 DEF Driven, FORWARD, BACKWARD
    <3> QED  BY <1>3, <2>1, <2>2, <2>5, <3>3 DEF ask
  <2> QED  BY <2>4, <2>5
<1>4. CASE ~ask.run
  <2>1. HighSteps(PWM[w]) = 0
        BY <1>1, <1>2, <1>4, ShownOff DEF Carries, PwmTime
  <2>2. Driven(w) = {}
        BY <2>1 DEF Driven
  <2> QED  BY <1>4, <2>2 DEF ask
<1> QED  BY <1>3, <1>4

----------------------------------------------------------------------------
(* The movement of a call.                                                 *)

(* What is asked of the wheels is what the call that is under way, or has  *)
(* just been carried out, makes of its function and speed.                 *)
Named ==
    todo # <<>> \/ settled =>
        asked = [w \in Wheels |->
                    setMotor(Velocity(call.f, call.speed)[w], build)]

LEMMA NamedKept ==
    ASSUME Named, [Next]_vars
    PROVE  Named'
<1>1. ASSUME NEW f \in Functions, NEW speed \in Speeds, Call(f, speed)
      PROVE  Named'
      BY <1>1 DEF Call, Named
<1>2. CASE DEV_I2C_WriteByte
      BY <1>2 DEF DEV_I2C_WriteByte, Named
<1>3. CASE Crash
      BY <1>3 DEF Crash, Named
<1>4. CASE motorInit
      BY <1>4 DEF motorInit, Named
<1>5. CASE UNCHANGED vars
      BY <1>5 DEF vars, Named
<1> QED  BY <1>1, <1>2, <1>3, <1>4, <1>5 DEF Next

StepsFor(v) == IF v > 0 THEN Duty(v, build) * 40 - 1 ELSE 0

(* What a wheel does for a velocity.                                       *)
LEMMA WheelMoves ==
    ASSUME TypeOK, Landing, Named, settled, NEW w \in Wheels,
           NEW v \in -100 .. 100, v = Velocity(call.f, call.speed)[w]
    PROVE  /\ Steps(w, FORWARD) = StepsFor(v)
           /\ Steps(w, BACKWARD) = StepsFor(-v)
           /\ Driven(w) = IF v > 0 THEN {FORWARD}
                          ELSE IF v < 0 THEN {BACKWARD} ELSE {}
<1>1. asked[w] = setMotor(v, build)
      BY DEF Named
<1>2. CASE v > 0
  <2>1. asked[w] = [run |-> TRUE, dir |-> FORWARD, duty |-> Duty(v, build)]
        BY <1>1, <1>2 DEF setMotor
  <2>2. Driven(w) = {FORWARD} /\ HighSteps(PWM[w]) = Duty(v, build) * 40 - 1
        BY <2>1, WheelDoes
  <2> QED  BY <1>2, <2>2 DEF Steps, StepsFor, FORWARD, BACKWARD
<1>3. CASE v < 0
  <2>1. asked[w] = [run |-> TRUE, dir |-> BACKWARD, duty |-> Duty(-v, build)]
        BY <1>1, <1>3 DEF setMotor
  <2>2. Driven(w) = {BACKWARD} /\ HighSteps(PWM[w]) = Duty(-v, build) * 40 - 1
        BY <2>1, WheelDoes
  <2>3. -v > 0 /\ ~(v > 0)
        BY <1>3
  <2> QED  BY <1>3, <2>2, <2>3 DEF Steps, StepsFor, FORWARD, BACKWARD
<1>4. CASE v = 0
  <2>1. asked[w] = [run |-> FALSE]
        BY <1>1, <1>4 DEF setMotor, Stop
  <2>2. Driven(w) = {}
        BY <2>1, WheelDoes
  <2>3. ~(0 > 0) /\ ~(-0 > 0) /\ ~(0 < 0)
        OBVIOUS
  <2> QED  BY <1>4, <2>2, <2>3 DEF Steps, StepsFor
<1> QED  BY <1>2, <1>3, <1>4

(* The slower wheel of a turn gets no more than the faster one.            *)
LEMMA StepsGrow ==
    ASSUME TypeOK, NEW s \in 0 .. 100, NEW h \in 0 .. 100, h <= s
    PROVE  StepsFor(h) <= StepsFor(s)
<1>1. build \in {"saturate", "wrap"}
      BY DEF TypeOK
<1>2. \A n \in 1 .. 100 : Duty(n, build) \in 1 .. 70
      BY <1>1, DutyBounds DEF MAX_SPEED
<1>3. CASE h > 0
  <2> DEFINE dh == Duty(h, build)
             ds == Duty(s, build)
  <2>1. dh <= ds
        BY <1>1, <1>3, DutyGrows
  <2>2. dh \in 1 .. 70 /\ ds \in 1 .. 70
        BY <1>2, <1>3
  <2>3. StepsFor(h) = dh * 40 - 1 /\ StepsFor(s) = ds * 40 - 1
        BY <1>3 DEF StepsFor
  <2> HIDE DEF dh, ds
  <2> QED  BY <2>1, <2>2, <2>3
<1>4. CASE h = 0
  <2> DEFINE ds == Duty(s, build)
  <2>1. s > 0 => ds \in 1 .. 70
        BY <1>2
  <2>2. StepsFor(h) = 0 /\ StepsFor(s) = IF s > 0 THEN ds * 40 - 1 ELSE 0
        BY <1>4 DEF StepsFor
  <2> HIDE DEF ds
  <2> QED  BY <2>1, <2>2
<1> QED  BY <1>3, <1>4

(* And less, from speed 16 on.                                             *)
LEMMA StepsHalve ==
    ASSUME TypeOK, NEW s \in 16 .. 100, NEW h \in 1 .. 100, 2 * h <= s
    PROVE  StepsFor(h) < StepsFor(s)
<1> DEFINE dh == Duty(h, build)
           ds == Duty(s, build)
<1>1. build \in {"saturate", "wrap"}
      BY DEF TypeOK
<1>2. dh < ds
      BY <1>1, DutyHalves
<1>3. dh \in 1 .. 70 /\ ds \in 1 .. 70
      BY <1>1, DutyBounds DEF MAX_SPEED
<1>4. StepsFor(h) = dh * 40 - 1 /\ StepsFor(s) = ds * 40 - 1
      BY DEF StepsFor
<1> HIDE DEF dh, ds
<1> QED  BY <1>2, <1>3, <1>4

(* What the clamp and the halving make of a speed.                         *)
LEMMA HalfOfClamped ==
    ASSUME NEW speed \in 0 .. 255
    PROVE  LET s == Clamp(speed)
               h == Half(s)
           IN  /\ s \in 0 .. 100 /\ h \in 0 .. 100 /\ 2 * h <= s
               /\ s = 0 <=> speed = 0
               /\ h = 0 <=> speed \in {0, 1}
               /\ speed > 15 => s >= 16 /\ h > 0
<1> DEFINE s == Clamp(speed)
           h == Half(s)
<1>1. s = IF speed > 100 THEN 100 ELSE speed
      BY DEF Clamp
<1>2. /\ s \in 0 .. 100 /\ (s = 0 <=> speed = 0)
      /\ s \in {0, 1} <=> speed \in {0, 1}
      /\ speed > 15 => s >= 16
      BY <1>1
<1> HIDE DEF s
<1>3. h \in 0 .. 100 /\ 2 * h <= s /\ s <= 2 * h + 1
      BY <1>2 DEF Half
<1> HIDE DEF h
<1>4. /\ h = 0 <=> speed \in {0, 1}
      /\ speed > 15 => h > 0
      BY <1>2, <1>3
<1> QED  BY <1>2, <1>3, <1>4 DEF s, h

(* A wheel that goes ahead, or back, at a velocity of the size u.          *)
Ahead(w, u) ==
    /\ Driven(w) = IF u = 0 THEN {} ELSE {FORWARD}
    /\ Steps(w, FORWARD) = StepsFor(u)

Back(w, u) ==
    /\ Driven(w) = IF u = 0 THEN {} ELSE {BACKWARD}
    /\ Steps(w, BACKWARD) = StepsFor(u)

LEMMA AheadOrBack ==
    ASSUME TypeOK, Landing, Named, settled, NEW w \in Wheels,
           NEW u \in 0 .. 100
    PROVE  /\ Velocity(call.f, call.speed)[w] = u => Ahead(w, u)
           /\ Velocity(call.f, call.speed)[w] = -u => Back(w, u)
<1>1. u \in -100 .. 100 /\ -u \in -100 .. 100 /\ -(-u) = u
      OBVIOUS
<1>2. ASSUME Velocity(call.f, call.speed)[w] = u
      PROVE  Ahead(w, u)
  <2>1. /\ Steps(w, FORWARD) = StepsFor(u)
        /\ Driven(w) = IF u > 0 THEN {FORWARD}
                       ELSE IF u < 0 THEN {BACKWARD} ELSE {}
        BY <1>1, <1>2, WheelMoves
  <2> QED  BY <2>1 DEF Ahead
<1>3. ASSUME Velocity(call.f, call.speed)[w] = -u
      PROVE  Back(w, u)
  <2> DEFINE v == -u
  <2>1. v \in -100 .. 100 /\ -v = u /\ ~(v > 0) /\ (v < 0 <=> u # 0)
        BY <1>1
  <2>2. v = Velocity(call.f, call.speed)[w]
        BY <1>3
  <2> HIDE DEF v
  <2>3. /\ Steps(w, BACKWARD) = StepsFor(-v)
        /\ Driven(w) = IF v > 0 THEN {FORWARD}
                       ELSE IF v < 0 THEN {BACKWARD} ELSE {}
        BY <2>1, <2>2, WheelMoves
  <2> QED  BY <2>1, <2>3 DEF Back
<1> QED  BY <1>2, <1>3

LEMMA MovesRight ==
    ASSUME TypeOK, Landing, Named, settled
    PROVE  MovesAsNamed
<1> DEFINE s == Clamp(call.speed)
           h == Half(s)
<1>1. call.f \in Functions /\ call.speed \in 0 .. 255
      BY SpeedsAssumption DEF TypeOK
<1>2. /\ s \in 0 .. 100 /\ h \in 0 .. 100 /\ 2 * h <= s
      /\ s = 0 <=> call.speed = 0
      /\ h = 0 <=> call.speed \in {0, 1}
      /\ call.speed > 15 => s >= 16 /\ h > 0
  <2> DEFINE speed == call.speed
  <2>1. speed \in 0 .. 255
        BY <1>1
  <2> HIDE DEF speed
  <2>2. LET t == Clamp(speed)
        IN  /\ t \in 0 .. 100 /\ Half(t) \in 0 .. 100 /\ 2 * Half(t) <= t
            /\ t = 0 <=> speed = 0
            /\ Half(t) = 0 <=> speed \in {0, 1}
            /\ speed > 15 => t >= 16 /\ Half(t) > 0
        BY <2>1, HalfOfClamped
  <2> QED  BY <2>2 DEF speed
<1>3. \A w \in Wheels, u \in {0, s, h} :
          /\ Velocity(call.f, call.speed)[w] = u => Ahead(w, u)
          /\ Velocity(call.f, call.speed)[w] = -u => Back(w, u)
  <2>1. \A u \in {0, s, h} : u \in 0 .. 100
        BY <1>2
  <2> HIDE DEF s, h
  <2> QED  BY <2>1, AheadOrBack
<1>4. /\ call.f = "runForward" => Ahead("R", s) /\ Ahead("L", s)
      /\ call.f = "runBackward" => Back("R", s) /\ Back("L", s)
      /\ call.f = "turnRightF" => Ahead("R", h) /\ Ahead("L", s)
      /\ call.f = "turnLeftF" => Ahead("R", s) /\ Ahead("L", h)
      /\ call.f = "turnRightB" => Back("R", h) /\ Back("L", s)
      /\ call.f = "turnLeftB" => Back("R", s) /\ Back("L", h)
      /\ call.f = "rotateRight" => Back("R", s) /\ Ahead("L", s)
      /\ call.f = "rotateLeft" => Ahead("R", s) /\ Back("L", s)
      /\ call.f = "idle" => Ahead("R", 0) /\ Ahead("L", 0)
      BY <1>3 DEF Velocity, Wheels
<1>5. /\ StepsFor(h) <= StepsFor(s)
      /\ call.speed > 15 => StepsFor(h) < StepsFor(s)
  <2> HIDE DEF s, h
  <2>1. h <= s /\ (call.speed > 15 => s \in 16 .. 100 /\ h \in 1 .. 100)
        BY <1>2
  <2> QED  BY <1>2, <2>1, StepsGrow, StepsHalve
<1> HIDE DEF s, h
<1>6. /\ call.f = "runForward" => Straight(FORWARD)
      /\ call.f = "runBackward" => Straight(BACKWARD)
      BY <1>2, <1>4 DEF Straight, Goes, Ahead, Back
<1>7. /\ call.f = "turnRightF" => Turns("R", "L", FORWARD)
      /\ call.f = "turnLeftF" => Turns("L", "R", FORWARD)
      BY <1>2, <1>4, <1>5 DEF Turns, Goes, Ahead
<1>8. /\ call.f = "turnRightB" => Turns("R", "L", BACKWARD)
      /\ call.f = "turnLeftB" => Turns("L", "R", BACKWARD)
      BY <1>2, <1>4, <1>5 DEF Turns, Goes, Back
<1>9. /\ call.f = "rotateRight" => Rotates("R", "L")
      /\ call.f = "rotateLeft" => Rotates("L", "R")
      BY <1>2, <1>4 DEF Rotates, Goes, Ahead, Back
<1>10. call.f = "idle" => Driven("R") = {} /\ Driven("L") = {}
       BY <1>4 DEF Ahead
<1> QED  BY <1>1, <1>6, <1>7, <1>8, <1>9, <1>10 DEF MovesAsNamed, Functions

----------------------------------------------------------------------------
(* Half-way through a call.                                                *)

Directions == {FORWARD, BACKWARD}

(* The pin that is high when a wheel is driven in a direction.             *)
Pin(dir) == IF dir = FORWARD THEN IN2 ELSE IN1
Low(c) == regs[c].OFF_L = 0 /\ regs[c].OFF_H \in {0, 16}
ZerosOn(s, c) == \A i \in 1 .. Len(s) : s[i].channel = c => s[i].value = 0

(* The pin of a direction that a wheel may not take is low, and nothing on *)
(* its way to the board raises it.  So the torn levels do not matter: of   *)
(* the two pins, only the one of a direction that was asked for moves.     *)
Quiet ==
    \A w \in Wheels, dir \in Directions :
        dir \notin mayTurn[w] => Low(Pin(dir)[w]) /\ ZerosOn(todo, Pin(dir)[w])

LEMMA ZerosJoined ==
    ASSUME NEW S, NEW s \in Seq(S), NEW t \in Seq(S), NEW c,
           ZerosOn(s, c), ZerosOn(t, c)
    PROVE  ZerosOn(s \o t, c)
<1> DEFINE n == Len(s)
           m == Len(t)
           st == s \o t
<1>1. /\ n \in Nat /\ m \in Nat /\ Len(st) = n + m
      /\ \A i \in 1 .. Len(st) : st[i] = IF i <= n THEN s[i] ELSE t[i - n]
      BY ConcatProperties
<1>2. \A i \in 1 .. n : s[i].channel = c => s[i].value = 0
      BY DEF ZerosOn
<1>3. \A i \in 1 .. m : t[i].channel = c => t[i].value = 0
      BY DEF ZerosOn
<1> HIDE DEF n, m, st
<1>4. \A i \in 1 .. Len(st) : st[i].channel = c => st[i].value = 0
  <2> SUFFICES ASSUME NEW i \in 1 .. Len(st), st[i].channel = c
               PROVE  st[i].value = 0
      OBVIOUS
  <2>1. CASE i <= n
    <3>1. i \in 1 .. n /\ st[i] = s[i]
          BY <1>1, <2>1
    <3> QED  BY <1>2, <3>1
  <2>2. CASE ~(i <= n)
    <3>1. i - n \in 1 .. m /\ st[i] = t[i - n]
          BY <1>1, <2>2
    <3> QED  BY <1>3, <3>1
  <2> QED  BY <2>1, <2>2
<1> QED  BY <1>4 DEF ZerosOn, st

LEMMA ZerosElsewhere ==
    ASSUME NEW s, NEW C, On(s, C), NEW c, c \notin C
    PROVE  ZerosOn(s, c)
BY DEF On, ZerosOn

LEMMA ZeroLevel ==
    ASSUME NEW c, NEW d
    PROVE  ZerosOn(PCA9685_SetLevel(c, 0), d)
<1> DEFINE s == PCA9685_SetPWM(c, 0, 0)
<1>1. 0 % 256 = 0 /\ 0 \div 256 = 0
      OBVIOUS
<1>2. /\ Len(s) = 4 /\ s[1].value = 0 /\ s[2].value = 0 /\ s[3].value = 0
      /\ s[4].value = 0
      BY <1>1 DEF PCA9685_SetPWM, Write
<1>3. PCA9685_SetLevel(c, 0) = s
      BY DEF PCA9685_SetLevel
<1> HIDE DEF s
<1> QED  BY <1>2, <1>3 DEF ZerosOn

(* A wheel that is not asked to run in a direction gets only zeros on the  *)
(* pin of it.                                                              *)
LEMMA WheelQuiet ==
    ASSUME NEW w \in Wheels, NEW ask \in SafeAsks, NEW dir \in Directions,
           ~(ask.run /\ ask.dir = dir)
    PROVE  ZerosOn(WheelWrites(w, ask), Pin(dir)[w])
<1> DEFINE c == Pin(dir)[w]
<1>1. PWM[w] # IN1[w] /\ PWM[w] # IN2[w] /\ IN1[w] # IN2[w]
      BY DEF PWM, IN1, IN2, Wheels
<1>2. c = IF dir = FORWARD THEN IN2[w] ELSE IN1[w]
      BY DEF Pin
<1> HIDE DEF c
<1>3. \A pulse : ZerosOn(PCA9685_SetPwmDutyCycle(PWM[w], pulse), c)
  <2>1. \A off : On(PCA9685_SetPWM(PWM[w], 0, off), {PWM[w]})
        BY OneChannel
  <2>2. c \notin {PWM[w]}
        BY <1>1, <1>2
  <2> QED  BY <2>1, <2>2, ZerosElsewhere DEF PCA9685_SetPwmDutyCycle
<1>4. CASE ask.run
  <2> DEFINE p == PCA9685_SetPwmDutyCycle(PWM[w], Clamp(ask.duty))
             a == PCA9685_SetLevel(IN1[w], IF ask.dir = FORWARD THEN 0 ELSE 1)
             b == PCA9685_SetLevel(IN2[w], IF ask.dir = FORWARD THEN 1 ELSE 0)
  <2>1. ask.duty \in 1 .. 70 /\ ask.dir \in Directions /\ ask.dir # dir
    <3>1. ask # Stop
          BY <1>4 DEF Stop
    <3> QED  BY <1>4, <3>1 DEF SafeAsks, MAX_SPEED, Directions
  <2>2. p \in Seq(SafeWrites) /\ a \in Seq(SafeWrites) /\ b \in Seq(SafeWrites)
    <3>1. Clamp(ask.duty) \in 0 .. MAX_SPEED
          BY <2>1 DEF Clamp, MAX_SPEED
    <3> QED  BY <3>1, DutyCycleIsSafe, LevelIsSafe
  <2>3. \A v : /\ On(PCA9685_SetLevel(IN1[w], v), {IN1[w]})
               /\ On(PCA9685_SetLevel(IN2[w], v), {IN2[w]})
        BY OneChannel DEF PCA9685_SetLevel
  <2>4. ZerosOn(p, c)
        BY <1>3
  <2>5. ZerosOn(a, c) /\ ZerosOn(b, c)
    <3>1. CASE dir = FORWARD
      <4>1. b = PCA9685_SetLevel(IN2[w], 0) /\ c \notin {IN1[w]}
            BY <1>1, <1>2, <2>1, <3>1
      <4> QED  BY <2>3, <4>1, ZeroLevel, ZerosElsewhere
    <3>2. CASE dir # FORWARD
      <4>1. ask.dir = FORWARD
            BY <2>1, <3>2 DEF Directions
      <4>2. a = PCA9685_SetLevel(IN1[w], 0) /\ c \notin {IN2[w]}
            BY <1>1, <1>2, <3>2, <4>1
      <4> QED  BY <2>3, <4>2, ZeroLevel, ZerosElsewhere
    <3> QED  BY <3>1, <3>2
  <2>6. WheelWrites(w, ask) = (p \o a) \o b
        BY <1>4 DEF WheelWrites, Motor_Run
  <2> HIDE DEF p, a, b
  <2>7. p \o a \in Seq(SafeWrites) /\ ZerosOn(p \o a, c)
        BY <2>2, <2>4, <2>5, ZerosJoined, ConcatProperties
  <2>8. ZerosOn((p \o a) \o b, c)
        BY <2>2, <2>5, <2>7, ZerosJoined
  <2> QED  BY <2>6, <2>8 DEF c
<1>5. CASE ~ask.run
      BY <1>3, <1>5 DEF WheelWrites, Motor_Stop, c
<1> QED  BY <1>4, <1>5

LEMMA CallQuiet ==
    ASSUME NEW a \in [Wheels -> SafeAsks], NEW w \in Wheels, NEW dir \in Directions,
           ~(a[w].run /\ a[w].dir = dir)
    PROVE  ZerosOn(Writes(a), Pin(dir)[w])
<1> DEFINE r == WheelWrites("R", a["R"])
           l == WheelWrites("L", a["L"])
           c == Pin(dir)[w]
<1>1. "R" \in Wheels /\ "L" \in Wheels /\ a["R"] \in SafeAsks /\ a["L"] \in SafeAsks
      BY DEF Wheels
<1>2. r \in Seq(SafeWrites) /\ l \in Seq(SafeWrites)
      BY <1>1, WheelIsSafe
<1>3. On(r, ChannelsOf("R")) /\ On(l, ChannelsOf("L"))
      BY <1>1, WheelCarries
<1>4. c \in ChannelsOf(w)
      BY DEF Pin, ChannelsOf
<1>5. ChannelsOf("R") \cap ChannelsOf("L") = {}
      BY DEF ChannelsOf, PWM, IN1, IN2
<1>6. ZerosOn(r, c) /\ ZerosOn(l, c)
  <2>1. CASE w = "R"
    <3>1. c \notin ChannelsOf("L")
          BY <1>4, <1>5, <2>1
    <3>2. ZerosOn(l, c)
          BY <1>3, <3>1, ZerosElsewhere
    <3> QED  BY <1>1, <2>1, <3>2, WheelQuiet
  <2>2. CASE w = "L"
    <3>1. c \notin ChannelsOf("R")
          BY <1>4, <1>5, <2>2
    <3>2. ZerosOn(r, c)
          BY <1>3, <3>1, ZerosElsewhere
    <3> QED  BY <1>1, <2>2, <3>2, WheelQuiet
  <2> QED  BY <2>1, <2>2 DEF Wheels
<1> HIDE DEF r, l, c
<1>7. ZerosOn(r \o l, c)
      BY <1>2, <1>6, ZerosJoined
<1> QED  BY <1>7 DEF Writes, r, l, c

(* A whole call has lowered the pin of the direction it did not ask for.   *)
OthersLow ==
    settled => \A w \in Wheels, dir \in Directions :
                   asked[w].run /\ asked[w].dir # dir => Low(Pin(dir)[w])

LEMMA OtherPinLow == TypeOK /\ Landing => OthersLow
<1> SUFFICES ASSUME TypeOK, Landing, settled, NEW w \in Wheels,
                    NEW dir \in Directions, asked[w].run, asked[w].dir # dir
             PROVE  Low(Pin(dir)[w])
    BY DEF OthersLow
<1>1. asked \in [Wheels -> SafeAsks]
      BY DEF Landing
<1>2. asked[w] \in SafeAsks /\ Carries(Writes(asked), w, asked[w])
      BY <1>1, CallCarries
<1>3. asked[w].dir \in Directions
      BY <1>2, SafeIsTyped, AskHasDirection DEF Directions
<1>4. SetsTo(Writes(asked), Pin(dir)[w], 0)
      BY <1>2, <1>3 DEF Carries, Pin, In1Time, In2Time, Directions
<1>5. Pin(dir)[w] \in Channels
      BY DEF Pin, IN1, IN2, Wheels, Channels
<1> DEFINE c == Pin(dir)[w]
<1> HIDE DEF c
<1>6. OFF(c) = 0 /\ regs[c].OFF_H = 0 \div 256
      BY <1>4, <1>5, Landed DEF c
<1>7. regs[c].OFF_H = 0
      BY <1>6
<1>8. regs[c].OFF_L \in 0 .. 255
      BY <1>5 DEF TypeOK, Bytes, c
<1>9. regs[c].OFF_L = 0
      BY <1>6, <1>7, <1>8 DEF OFF
<1> QED  BY <1>7, <1>9 DEF Low, c

LEMMA PinIsChannel ==
    ASSUME NEW w \in Wheels, NEW dir \in Directions
    PROVE  Pin(dir)[w] \in Channels
BY DEF Pin, IN1, IN2, Wheels, Channels

LEMMA QuietCall ==
    ASSUME TypeOK, Quiet, NEW f \in Functions, NEW speed \in Speeds,
           Call(f, speed)
    PROVE  Quiet'
<1> SUFFICES ASSUME NEW w \in Wheels, NEW dir \in Directions,
                    dir \notin mayTurn'[w]
             PROVE  (Low(Pin(dir)[w]) /\ ZerosOn(todo, Pin(dir)[w]))'
    BY DEF Quiet
<1>1. asked' \in [Wheels -> SafeAsks]
      BY CallIsSafe
<1>2. todo' = Writes(asked') /\ regs' = regs
      BY DEF Call, Writes
<1>3. dir \notin mayTurn[w] /\ ~(asked'[w].run /\ asked'[w].dir = dir)
      BY DEF Call
<1>4. Low(Pin(dir)[w])
      BY <1>3 DEF Quiet
<1>5. ZerosOn(Writes(asked'), Pin(dir)[w])
      BY <1>1, <1>3, CallQuiet
<1> QED  BY <1>2, <1>4, <1>5 DEF Low, ZerosOn

LEMMA QuietWrite ==
    ASSUME TypeOK, Limits, Landing, Quiet, DEV_I2C_WriteByte
    PROVE  Quiet'
<1> DEFINE x == Head(todo)
<1>1. /\ todo \in Seq(SafeWrites) /\ todo # <<>> /\ todo' = Tail(todo)
      /\ asked' = asked /\ settled' = (todo' = <<>>)
      /\ regs' = [regs EXCEPT ![x.channel][x.reg] = x.value]
      BY DEF Limits, DEV_I2C_WriteByte
<1>2. /\ Len(todo) \in Nat /\ Len(todo) >= 1 /\ x = todo[1] /\ x \in SafeWrites
      /\ Len(todo') = Len(todo) - 1
      /\ \A j \in 1 .. Len(todo') : todo'[j] = todo[j + 1]
      BY <1>1, HeadTailProperties, EmptySeq
<1>3. x.channel \in Channels /\ x.reg \in Registers
      BY <1>2 DEF SafeWrites, AnyWrite
<1>4. regs \in [Channels -> RegisterBytes]
      BY DEF TypeOK, RegisterBytes
<1> HIDE DEF x
<1>5. ASSUME NEW c \in Channels, Low(c), ZerosOn(todo, c)
      PROVE  (Low(c) /\ ZerosOn(todo, c))'
  <2>1. \A j \in 1 .. Len(todo') : j + 1 \in 1 .. Len(todo)
        BY <1>2
  <2>2. ZerosOn(todo', c)
        BY <1>2, <1>5, <2>1 DEF ZerosOn
  <2>3. x.channel = c => x.value = 0
    <3>1. 1 \in 1 .. Len(todo)
          BY <1>2
    <3> QED  BY <1>2, <1>5, <3>1 DEF ZerosOn
  <2>4. \A r \in Registers :
            regs'[c][r] = IF x.channel = c /\ x.reg = r THEN 0 ELSE regs[c][r]
    <3>1. CASE x.channel # c
          BY <1>1, <1>4, <3>1
    <3>2. CASE x.channel = c
      <4>1. regs'[c] = [regs[c] EXCEPT ![x.reg] = 0]
            BY <1>1, <1>4, <2>3, <3>2
      <4>2. regs[c] \in RegisterBytes
            BY <1>4
      <4> QED  BY <1>3, <3>2, <4>1, <4>2 DEF RegisterBytes, Registers
    <3> QED  BY <3>1, <3>2
  <2>5. /\ regs'[c]["OFF_L"] = 0 /\ regs'[c]["OFF_H"] \in {0, 16}
        BY <1>5, <2>4 DEF Low, Registers
  <2> QED  BY <2>2, <2>5 DEF Low
<1> SUFFICES ASSUME NEW w \in Wheels, NEW dir \in Directions,
                    dir \notin mayTurn'[w]
             PROVE  (Low(Pin(dir)[w]) /\ ZerosOn(todo, Pin(dir)[w]))'
    BY DEF Quiet
<1>6. CASE dir \notin mayTurn[w]
  <2>1. Low(Pin(dir)[w]) /\ ZerosOn(todo, Pin(dir)[w])
        BY <1>6 DEF Quiet
  <2> QED  BY <1>5, <2>1, PinIsChannel
<1>7. CASE dir \in mayTurn[w]
  <2>1. todo' = <<>> /\ asked[w].run /\ asked[w].dir # dir
        BY <1>7 DEF DEV_I2C_WriteByte
  <2>2. TypeOK' /\ Landing'
    <3>1. [Next]_vars
          BY DEF Next
    <3> QED  BY <3>1, Continues, LandingKept
  <2>3. TypeOK' /\ Landing' => OthersLow'
        BY OtherPinLow, PTL
  <2>4. settled' /\ asked'[w].run /\ asked'[w].dir # dir
        BY <1>1, <2>1
  <2>5. Low(Pin(dir)[w])'
        BY <2>2, <2>3, <2>4 DEF OthersLow
  <2>6. ZerosOn(todo, Pin(dir)[w])'
        BY <2>1 DEF ZerosOn
  <2> QED  BY <2>5, <2>6
<1> QED  BY <1>6, <1>7

(* At power-on every output is off.                                        *)
LEMMA PowerOnLow ==
    ASSUME NEW c \in Channels
    PROVE  PowerOn[c].OFF_L = 0 /\ PowerOn[c].OFF_H = 16
BY DEF PowerOn

LEMMA QuietAtFirst == Init => Quiet
<1> SUFFICES ASSUME Init, NEW w \in Wheels, NEW dir \in Directions
             PROVE  Low(Pin(dir)[w]) /\ ZerosOn(todo, Pin(dir)[w])
    BY DEF Quiet
<1>1. regs = PowerOn /\ todo = <<>>
      BY DEF Init
<1> QED  BY <1>1, PinIsChannel, PowerOnLow DEF Low, ZerosOn

LEMMA QuietKept ==
    ASSUME TypeOK, Limits, Landing, Quiet, [Next]_vars
    PROVE  Quiet'
<1>1. ASSUME NEW f \in Functions, NEW speed \in Speeds, Call(f, speed)
      PROVE  Quiet'
      BY <1>1, QuietCall
<1>2. CASE DEV_I2C_WriteByte
      BY <1>2, QuietWrite
<1>3. CASE Crash
  <2> SUFFICES ASSUME NEW w \in Wheels, NEW dir \in Directions,
                      dir \notin mayTurn'[w]
               PROVE  (Low(Pin(dir)[w]) /\ ZerosOn(todo, Pin(dir)[w]))'
      BY DEF Quiet
  <2>1. regs' \in {regs, PowerOn} /\ todo' = <<>> /\ mayTurn' = mayTurn
        BY <1>3 DEF Crash
  <2>2. Low(Pin(dir)[w])
        BY <2>1 DEF Quiet
  <2>3. Low(Pin(dir)[w])'
        BY <2>1, <2>2, PinIsChannel, PowerOnLow DEF Low
  <2> QED  BY <2>1, <2>3 DEF ZerosOn
<1>4. CASE motorInit
      BY <1>4 DEF motorInit, Quiet, Low, ZerosOn
<1>5. CASE UNCHANGED vars
      BY <1>5 DEF vars, Quiet, Low, ZerosOn
<1> QED  BY <1>1, <1>2, <1>3, <1>4, <1>5 DEF Next

(* A pin that is low keeps the bridge from its direction.                  *)
LEMMA QuietIsEnough == Quiet => DrivenOnlyAsAsked
<1> SUFFICES ASSUME Quiet, NEW w \in Wheels, NEW dir \in Directions,
                    dir \in Driven(w), dir \notin mayTurn[w]
             PROVE  FALSE
    BY DEF DrivenOnlyAsAsked, Driven, Directions
<1> DEFINE c == Pin(dir)[w]
<1>1. Low(c)
      BY DEF Quiet
<1>2. 1 \in LevelsOf(c)
      BY DEF Driven, Pin, FORWARD, BACKWARD, Directions
<1> HIDE DEF c
<1>3. HighSteps(c) = 0
  <2>1. CASE regs[c].OFF_H = 16
    <3>1. (16 \div 16) % 2 = 1
          OBVIOUS
    <3> QED  BY <2>1, <3>1 DEF HighSteps, FullOff
  <2>2. CASE regs[c].OFF_H = 0
    <3>1. OFF(c) = 0 /\ 0 % 4096 = 0
          BY <1>1, <2>2 DEF OFF, Low
    <3> QED  BY <3>1 DEF HighSteps
  <2> QED  BY <1>1, <2>1, <2>2 DEF Low
<1>4. LevelsOf(c) = {0}
      BY <1>3 DEF LevelsOf
<1> QED  BY <1>2, <1>4

----------------------------------------------------------------------------
(* The bytes implement the abstract drive train.                           *)

Way(ask) == IF ask.run THEN {ask.dir} ELSE {}

(* What DriveTrain makes of what is asked.                                 *)
LEMMA TrainOrders ==
    ASSUME NEW ask \in SafeAsks
    PROVE  LET order == IF ask.run THEN ask.dir ELSE "rest"
           IN  /\ order \in Directions \cup {"rest"}
               /\ Train!Way(order) = Way(ask)
               /\ order = "rest" <=> ~ask.run
<1>1. ask.run => ask.dir \in Directions
      BY SafeIsTyped, AskHasDirection DEF Directions
<1> QED  BY <1>1 DEF Train!Way, Train!Rest, Way, Directions, FORWARD, BACKWARD

LEMMA CallWrites ==
    ASSUME NEW a \in [Wheels -> SafeAsks]
    PROVE  Writes(a) # <<>>
<1>1. Carries(Writes(a), "R", a["R"])
      BY CallCarries DEF Wheels
<1>2. \E i \in 1 .. Len(Writes(a)) : TRUE
      BY <1>1 DEF Carries, SetsTo, Has
<1> QED  BY <1>2

(* A wheel has its channels for itself, and only they drive it.            *)
LEMMA ChannelsApart ==
    /\ \A c \in Channels : \E w \in Wheels : c \in ChannelsOf(w)
    /\ \A v, w \in Wheels : v # w => ChannelsOf(v) \cap ChannelsOf(w) = {}
BY DEF Channels, Wheels, ChannelsOf, PWM, IN1, IN2

LEMMA OthersGoOn ==
    ASSUME NEW w \in Wheels, \A c \in ChannelsOf(w) : regs'[c] = regs[c]
    PROVE  Driven(w)' = Driven(w)
<1>1. \A c \in ChannelsOf(w) :
          HighSteps(c)' = HighSteps(c) /\ LevelsOf(c)' = LevelsOf(c)
      BY DEF HighSteps, LevelsOf, FullOff, OFF
<1>2. {PWM[w], IN1[w], IN2[w]} \subseteq ChannelsOf(w)
      BY DEF ChannelsOf
<1> QED  BY <1>1, <1>2 DEF Driven

LEMMA OffAtPowerOn ==
    ASSUME regs = PowerOn
    PROVE  \A w \in Wheels : Driven(w) = {}
<1> SUFFICES ASSUME NEW w \in Wheels PROVE Driven(w) = {}
    OBVIOUS
<1>1. PWM[w] \in Channels /\ (16 \div 16) % 2 = 1
      BY DEF PWM, Wheels, Channels
<1>2. HighSteps(PWM[w]) = 0
      BY <1>1, PowerOnLow DEF HighSteps, FullOff
<1> QED  BY <1>2 DEF Driven

LEMMA TrainTells ==
    ASSUME TypeOK, Landing, NEW f \in Functions, NEW speed \in Speeds,
           Call(f, speed)
    PROVE  Train!Tell
<1>1. asked' \in [Wheels -> SafeAsks]
      BY CallIsSafe
<1>2. /\ alive /\ todo = <<>> /\ alive' = alive /\ regs' = regs
      /\ settled' = FALSE /\ todo' = Writes(asked')
      /\ mayTurn' = [w \in Wheels |-> mayTurn[w] \cup Way(asked'[w])]
      BY DEF Call, Writes, Way
<1>3. todo' # <<>>
      BY <1>1, <1>2, CallWrites
<1>4. \A w \in Wheels : Driven(w)' = Driven(w)
      BY <1>2, OthersGoOn
<1>5. \A w \in Wheels :
          LET order == IF asked'[w].run THEN asked'[w].dir ELSE "rest"
          IN  /\ order \in Directions \cup {"rest"}
              /\ Train!Way(order) = Way(asked'[w])
      BY <1>1, TrainOrders
<1> QED  BY <1>2, <1>3, <1>4, <1>5 DEF Train!Tell, Train!Rest, Directions

LEMMA TrainShifts ==
    ASSUME TypeOK, Limits, Landing, DrivenOnlyAsAsked', DEV_I2C_WriteByte,
           todo' # <<>>
    PROVE  Train!Shift
<1> DEFINE x == Head(todo)
<1>1. /\ todo \in Seq(SafeWrites) /\ todo # <<>> /\ alive /\ alive' = alive
      /\ regs' = [regs EXCEPT ![x.channel][x.reg] = x.value]
      /\ settled' = FALSE /\ mayTurn' = mayTurn /\ asked' = asked
      BY DEF Limits, DEV_I2C_WriteByte
<1>2. ~settled
      BY <1>1 DEF Landing
<1>3. x.channel \in Channels
      BY <1>1, HeadTailProperties DEF SafeWrites, AnyWrite
<1>4. regs \in [Channels -> RegisterBytes]
      BY DEF TypeOK, RegisterBytes
<1> HIDE DEF x
<1>5. PICK w \in Wheels : x.channel \in ChannelsOf(w)
      BY <1>3, ChannelsApart
<1>6. \A v \in Wheels : v # w => Driven(v)' = Driven(v)
  <2> SUFFICES ASSUME NEW v \in Wheels, v # w PROVE Driven(v)' = Driven(v)
      OBVIOUS
  <2>1. x.channel \notin ChannelsOf(v)
        BY <1>5, ChannelsApart
  <2>2. ChannelsOf(v) \subseteq Channels
        BY DEF ChannelsOf, Channels, Wheels, PWM, IN1, IN2
  <2>3. \A c \in ChannelsOf(v) : regs'[c] = regs[c]
        BY <1>1, <1>4, <2>1, <2>2
  <2> QED  BY <2>3, OthersGoOn
<1>7. Driven(w)' \in SUBSET mayTurn[w]
      BY <1>1 DEF DrivenOnlyAsAsked
<1>8. [v \in Wheels |-> Driven(v)]' =
          [[v \in Wheels |-> Driven(v)] EXCEPT ![w] = Driven(w)']
      BY <1>6
<1> QED  BY <1>1, <1>2, <1>7, <1>8 DEF Train!Shift

LEMMA TrainObeys ==
    ASSUME TypeOK, Limits, Landing, SettledAsAsked', DEV_I2C_WriteByte,
           todo' = <<>>
    PROVE  Train!Obey
<1>1. /\ todo # <<>> /\ alive /\ alive' = alive /\ asked' = asked /\ settled'
      /\ mayTurn' = [w \in Wheels |->
                       IF asked[w].run THEN {asked[w].dir} ELSE mayTurn[w]]
      BY DEF DEV_I2C_WriteByte
<1>2. ~settled
      BY <1>1 DEF Landing
<1>3. \A w \in Wheels :
          LET order == IF asked[w].run THEN asked[w].dir ELSE "rest"
          IN  /\ order = "rest" <=> ~asked[w].run
              /\ Train!Way(order) = Way(asked[w])
      BY TrainOrders DEF Landing
<1>4. \A w \in Wheels : Driven(w)' = Way(asked[w])
      BY <1>1 DEF SettledAsAsked, Way
<1> QED  BY <1>1, <1>2, <1>3, <1>4 DEF Train!Obey, Train!Rest, Way

LEMMA TrainDies ==
    ASSUME Crash
    PROVE  Train!Die
<1>1. /\ alive /\ alive' = FALSE /\ todo' = <<>> /\ settled' = FALSE
      /\ asked' = asked /\ mayTurn' = mayTurn
      BY DEF Crash
<1>2. CASE regs' = regs
  <2>1. \A w \in Wheels : Driven(w)' = Driven(w)
        BY <1>2, OthersGoOn
  <2> QED  BY <1>1, <2>1 DEF Train!Die
<1>3. CASE regs' = PowerOn
  <2>1. (regs = PowerOn => \A w \in Wheels : Driven(w) = {})'
        BY OffAtPowerOn, PTL
  <2> QED  BY <1>1, <1>3, <2>1 DEF Train!Die, Train!Still
<1> QED  BY <1>2, <1>3 DEF Crash

----------------------------------------------------------------------------
(* The theorems.                                                           *)

(* Bytes stay bytes, the high bytes of the OFF times stay within their     *)
(* limit, what a call writes stays written until the next call, and no pin *)
(* of a direction that nobody asked for is raised.                         *)
THEOREM Invariance == Spec => [](TypeOK /\ Limits /\ Landing /\ Named /\ Quiet)
<1>1. Init => TypeOK /\ Limits /\ Landing /\ Named /\ Quiet
  <2>1. Init => Landing /\ Named
        BY DEF Init, Landing, Named, Once, SafeAsks
  <2> QED  BY <2>1, Begins, QuietAtFirst
<1>2. TypeOK /\ Limits /\ Landing /\ Named /\ Quiet /\ [Next]_vars
          => (TypeOK /\ Limits /\ Landing /\ Named /\ Quiet)'
      BY Continues, LandingKept, NamedKept, QuietKept
<1> QED  BY <1>1, <1>2, PTL DEF Spec

(* Every register holds a byte, and every call asks for a duty of a byte.  *)
THEOREM TypeCorrect == Spec => []TypeOK
BY Invariance, PTL

(* "To prevent overvoltage of motors": no mixture of bytes of the OFF time *)
(* exceeds MAX_SPEED hundredths of the period.                             *)
THEOREM NoWheelOvervoltage == Spec => []NoOvervoltage
<1>1. TypeOK /\ Limits => NoOvervoltage
  <2> SUFFICES ASSUME TypeOK, Limits, NEW w \in Wheels
               PROVE  HighSteps(PWM[w]) * 100 <= MAX_SPEED * 4096
      BY DEF NoOvervoltage
  <2> DEFINE high == regs[PWM[w]].OFF_H
             low == regs[PWM[w]].OFF_L
  <2>1. PWM[w] \in Channels /\ PWM[w] \in PWMChannels
        BY DEF PWMChannels, PWM, Wheels, Channels
  <2>2. high \in SafeHigh \cup {16} /\ low \in 0 .. 255
    <3>1. regs[PWM[w]] \in RegisterBytes
          BY <2>1 DEF TypeOK, RegisterBytes
    <3> QED  BY <2>1, <3>1 DEF Limits, RegisterBytes, Bytes
  <2> HIDE DEF high, low
  <2>3. HighSteps(PWM[w]) = IF (high \div 16) % 2 = 1 THEN 0
                            ELSE (high * 256 + low) % 4096
        BY DEF HighSteps, FullOff, OFF, high, low
  <2>4. CASE high \in {16, 255}
    <3>1. 16 \div 16 = 1 /\ 255 \div 16 = 15
          OBVIOUS
    <3>2. (high \div 16) % 2 = 1
          BY <2>4, <3>1
    <3> QED  BY <2>3, <3>2 DEF MAX_SPEED
  <2>5. CASE high \in 0 .. 10
    <3>1. /\ high * 256 + low \in Int /\ high * 256 + low >= 0
          /\ high * 256 + low <= 2815
          BY <2>2, <2>5
    <3>2. (high * 256 + low) % 4096 = high * 256 + low
          BY <3>1
    <3>3. HighSteps(PWM[w]) <= 2815 /\ HighSteps(PWM[w]) \in Int
          BY <2>3, <3>1, <3>2
    <3> QED  BY <3>3 DEF MAX_SPEED
  <2> QED  BY <2>2, <2>4, <2>5 DEF SafeHigh
<1> QED  BY <1>1, Invariance, PTL

(* After a whole call, of any function with any speed, both wheels do what *)
(* it asked, whatever earlier calls and crashes left in the registers.     *)
THEOREM SettlesAsAsked == Spec => []SettledAsAsked
<1>1. TypeOK /\ Landing => SettledAsAsked
      BY WheelDoes DEF SettledAsAsked
<1> QED  BY <1>1, Invariance, PTL

(* Both wheels turn in the sense of the movement's name at every speed and *)
(* whatever the cast does, with equal steps when it is straight or on the  *)
(* spot, and from speed 16 on with fewer on the side that is turned to.    *)
THEOREM MovesByName == Spec => []MovesAsNamed
<1>1. TypeOK /\ Landing /\ Named => MovesAsNamed
      BY MovesRight DEF MovesAsNamed
<1> QED  BY <1>1, Invariance, PTL

(* Between any two bytes, before, during and after a crash: a wheel turns  *)
(* only as the call in progress or the last whole one that ran it asks.    *)
THEOREM DrivenAsAsked == Spec => []DrivenOnlyAsAsked
BY Invariance, QuietIsEnough, PTL

(* Every step of the bytes is one of the drive train, or changes nothing   *)
(* in it: a wheel changes only during a call, one wheel at a time, and     *)
(* only as this call or the last whole one that ran it asks.               *)
THEOREM TrainRefinement == Spec => ImplementsTrain
<1> DEFINE Inv == /\ TypeOK /\ Limits /\ Landing
                  /\ DrivenOnlyAsAsked /\ SettledAsAsked
<1>1. Spec => []Inv
      BY Invariance, SettlesAsAsked, DrivenAsAsked, PTL
<1>2. Init => Train!Init
  <2> SUFFICES ASSUME Init PROVE Train!Init
      OBVIOUS
  <2>1. \A w \in Wheels : Driven(w) = {}
        BY OffAtPowerOn DEF Init
  <2> QED  BY <2>1 DEF Init, Train!Init, Train!Still, Train!Rest, Stop
<1>3. Inv /\ Inv' /\ [Next]_vars => [Train!Next]_(Train!vars)
  <2> SUFFICES ASSUME Inv, Inv', [Next]_vars PROVE [Train!Next]_(Train!vars)
      OBVIOUS
  <2>1. ASSUME NEW f \in Functions, NEW speed \in Speeds, Call(f, speed)
        PROVE  Train!Next
        BY <2>1, TrainTells DEF Train!Next
  <2>2. CASE DEV_I2C_WriteByte
        BY <2>2, TrainShifts, TrainObeys DEF Train!Next
  <2>3. CASE Crash
        BY <2>3, TrainDies DEF Train!Next
  <2>4. CASE motorInit \/ UNCHANGED vars
    <3>1. \A w \in Wheels : Driven(w)' = Driven(w)
          BY <2>4, OthersGoOn DEF motorInit, vars
    <3>2. CASE motorInit
          BY <3>1, <3>2 DEF motorInit, Train!Next, Train!Begin
    <3>3. CASE UNCHANGED vars
          BY <3>1, <3>3 DEF vars, Train!vars
    <3> QED  BY <2>4, <3>2, <3>3
  <2> QED  BY <2>1, <2>2, <2>3, <2>4 DEF Next
<1> QED  BY <1>1, <1>2, <1>3, PTL DEF Spec, ImplementsTrain, Train!Spec
=============================================================================
