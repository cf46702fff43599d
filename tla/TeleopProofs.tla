---------------------------- MODULE TeleopProofs ----------------------------
(***************************************************************************)
(* Driving the rover.  For every report of the stick and any number of     *)
(* sessions, what a session brings the driver stays in order; for every    *)
(* set of datagrams it may be sent, the driver's arithmetic stays in       *)
(* range, its four channels end each round on one datagram's pulses, and   *)
(* it is the Actuator that the command path needs.                         *)
(***************************************************************************)
EXTENDS Driver, Teleop, SequenceTheorems, TLAPS

USE DEF CAM_X, CAM_Y, LEFT_MOTOR, RIGHT_MOTOR, ON_L, ON_H, OFF_L, OFF_H

-----------------------------------------------------------------------------
(* Arithmetic *)

LEMMA Low ==
  ASSUME NEW h \in Int, 0 <= h, h < 256
  PROVE  h % 256 = h
  OBVIOUS

LEMMA LowOfNegative ==
  ASSUME NEW h \in Int, -256 <= h, h < 0
  PROVE  h % 256 = h + 256
  OBVIOUS

LEMMA Divided ==
  ASSUME NEW n \in Int
  PROVE  /\ n = 4 * (n \div 4) + (n % 4) /\ n % 4 \in 0..3
         /\ n = 256 * (n \div 256) + (n % 256) /\ n % 256 \in 0..255
  OBVIOUS

(* The byte that the controller makes of an axis (joystick.go:102-107) is  *)
(* read by the driver (drive.py:44-47) as the axis's high byte, with its   *)
(* sign, for each of the 65536 values of an axis.                          *)
THEOREM StickByteKeepsSign ==
  ASSUME NEW axis \in -32768..32767
  PROVE  /\ StickByte(axis) \in Byte
         /\ Signed(StickByte(axis)) = axis \div 256
<1> DEFINE high == axis \div 256
<1>1. high \in -128..127
  <2>1. axis = 256 * high + (axis % 256) /\ axis % 256 \in 0..255 /\ high \in Int
    BY Divided
  <2> QED
    BY <2>1
<1> HIDE DEF high
<1>2. CASE high < 0
  <2>1. high % 256 = high + 256
    BY <1>1, <1>2, LowOfNegative
  <2>2. StickByte(axis) = high + 256
    BY <2>1 DEF StickByte, high
  <2> QED
    BY <1>1, <1>2, <2>2 DEF Signed, Byte, high
<1>3. CASE high >= 0
  <2>1. high % 256 = high
    BY <1>1, <1>3, Low
  <2>2. StickByte(axis) = high
    BY <2>1 DEF StickByte, high
  <2> QED
    BY <1>1, <1>3, <2>2 DEF Signed, Byte, high
<1> QED
  BY <1>1, <1>2, <1>3

LEMMA SignedRange ==
  ASSUME NEW b \in Byte
  PROVE  Signed(b) \in -128..127
  BY DEF Signed, Byte

(* Every stick position gives pulses within the frame and angles that      *)
(* setRotationAngle accepts (drive.py:16-20, 44-56, PCA9685.py:83-93), and *)
(* motor pulses that differ from straight ahead by the turn alone.         *)
THEOREM PulsesInRange ==
  ASSUME NEW d \in [1..4 -> Byte]
  PROVE  /\ \A ch \in Channel : Counts(d)[ch] \in 0..767 /\ ~Rejected(d, ch)
         /\ Counts(d)[LEFT_MOTOR] + Counts(d)[RIGHT_MOTOR] - 614 \in -83..83
<1> DEFINE lx == Signed(d[1])
           ly == Signed(d[2])
           rx == Signed(d[3])
           ry == Signed(d[4])
<1>1. lx \in -128..127 /\ ly \in -128..127 /\ rx \in -128..127 /\ ry \in -128..127
  BY SignedRange
<1> HIDE DEF lx, ly, rx, ry
<1>2. ServoCounts(3000 * 128 - LeftPulse(lx, ly)) \in 0..767
  BY <1>1 DEF ServoCounts, LeftPulse
<1>3. ServoCounts(RightPulse(lx, ly)) \in 0..767
  BY <1>1 DEF ServoCounts, RightPulse
<1>4. AngleInRange(CamXAngle(rx)) /\ AngleCounts(CamXAngle(rx)) \in 0..767
  BY <1>1 DEF AngleInRange, AngleCounts, CamXAngle
<1>5. AngleInRange(CamYAngle(ry)) /\ AngleCounts(CamYAngle(ry)) \in 0..767
  BY <1>1 DEF AngleInRange, AngleCounts, CamYAngle
<1>6. ServoCounts(3000 * 128 - LeftPulse(lx, ly)) + ServoCounts(RightPulse(lx, ly)) - 614
        \in -83..83
  BY <1>1 DEF ServoCounts, LeftPulse, RightPulse
<1>7. /\ Counts(d)[LEFT_MOTOR] = ServoCounts(3000 * 128 - LeftPulse(lx, ly))
      /\ Counts(d)[RIGHT_MOTOR] = ServoCounts(RightPulse(lx, ly))
      /\ Counts(d)[CAM_X] = AngleCounts(CamXAngle(rx))
      /\ Counts(d)[CAM_Y] = AngleCounts(CamYAngle(ry))
  BY DEF Counts, Channel, lx, ly, rx, ry
<1>8. Channel = {CAM_X, CAM_Y, LEFT_MOTOR, RIGHT_MOTOR}
  BY DEF Channel
<1>9. \A ch \in Channel : ~Rejected(d, ch)
  BY <1>4, <1>5 DEF Rejected, rx, ry
<1> QED
  BY <1>2, <1>3, <1>4, <1>5, <1>6, <1>7, <1>8, <1>9

LEMMA BootInRange ==
  /\ \A ch \in Channel : BootCounts[ch] \in 0..767
  /\ BootCounts[LEFT_MOTOR] + BootCounts[RIGHT_MOTOR] - 614 \in -83..83
<1>1. AngleCounts(180 * 128) = 512
  BY DEF AngleCounts
<1>2. ServoCounts(1501 * 128) = 307
  BY DEF ServoCounts
<1> QED
  BY <1>1, <1>2 DEF BootCounts, Channel

-----------------------------------------------------------------------------
(* The invariant.  Settled is not inductive: what a round has written so   *)
(* far must be said register by register.                                  *)

(* Where in a round the four registers of a channel are written. *)
Pos(ph, ch) == IF ph = "boot" THEN ch ELSE (ch + 2) % 4

Writing == phase \in {"boot", "write"}

(* The high byte is the last of the four. *)
Progress(ch) ==
  Writing =>
    /\ step > 4 * Pos(phase, ch) + 2 => regs[ch][OFF_L] = Wanted(ch) % 256
    /\ step > 4 * Pos(phase, ch) + 3 => regs[ch][OFF_H] = Wanted(ch) \div 256

Rounds ==
  /\ data # None => phase \in {"recv", "write"}
  /\ Writing => step < 16

DriverInv ==
  /\ DriverTypeOK
  /\ Rounds
  /\ PulseBounded
  /\ \A ch \in Channel : Progress(ch)
  /\ Settled

LEMMA WantedRange ==
  ASSUME DriverTypeOK
  PROVE  /\ \A ch \in Channel :
              /\ Wanted(ch) \in 0..767
              /\ Wanted(ch) % 256 \in Byte
              /\ Wanted(ch) \div 256 \in 0..2
              /\ 256 * (Wanted(ch) \div 256) + (Wanted(ch) % 256) = Wanted(ch)
              /\ data # None => ~Rejected(data, ch)
         /\ Wanted(LEFT_MOTOR) + Wanted(RIGHT_MOTOR) - 614 \in -83..83
<1>1. data # None => data \in [1..4 -> Byte]
  BY DatagramAssumption DEF DriverTypeOK
<1>2. /\ \A ch \in Channel : Wanted(ch) \in 0..767
      /\ Wanted(LEFT_MOTOR) + Wanted(RIGHT_MOTOR) - 614 \in -83..83
  <2>1. CASE data = None
    BY <2>1, BootInRange DEF Wanted
  <2>2. CASE data # None
    BY <2>2, <1>1, PulsesInRange DEF Wanted
  <2> QED
    BY <2>1, <2>2
<1>3. ASSUME NEW w \in 0..767
      PROVE  /\ w % 256 \in Byte
             /\ w \div 256 \in 0..2
             /\ 256 * (w \div 256) + (w % 256) = w
  BY Divided DEF Byte
<1>4. \A ch \in Channel : data # None => ~Rejected(data, ch)
  BY <1>1, PulsesInRange
<1> QED
  BY <1>2, <1>3, <1>4

LEMMA Schedule ==
  ASSUME NEW n \in 0..15, NEW ph \in {"boot", "write"}
  PROVE  /\ ChannelOf(ph, n) \in Channel
         /\ RegisterOf(n) \in Register
         /\ n = 4 * Pos(ph, ChannelOf(ph, n)) + RegisterOf(n)
         /\ \A ch \in Channel :
              /\ Pos(ph, ch) \in 0..3
              /\ ch # ChannelOf(ph, n) => Pos(ph, ch) # n \div 4
<1> DEFINE q == n \div 4
<1>1. q \in 0..3 /\ n % 4 \in 0..3 /\ n = 4 * q + (n % 4)
  BY Divided
<1> HIDE DEF q
<1>2. \A i \in 0..3 : (i + 2) % 4 = (IF i < 2 THEN i + 2 ELSE i - 2)
  OBVIOUS
<1>3. CASE ph = "boot"
  BY <1>1, <1>3 DEF ChannelOf, RegisterOf, Pos, Channel, Register, q
<1>4. CASE ph = "write"
  <2>1. ChannelOf(ph, n) = (IF q < 2 THEN q + 2 ELSE q - 2)
    BY <1>1, <1>2, <1>4 DEF ChannelOf, q
  <2>2. \A ch \in Channel : Pos(ph, ch) = (IF ch < 2 THEN ch + 2 ELSE ch - 2)
    BY <1>2, <1>4 DEF Pos, Channel
  <2> QED
    BY <1>1, <2>1, <2>2 DEF RegisterOf, Channel, Register, q
<1> QED
  BY <1>3, <1>4

LEMMA InitInv == DriverInit => DriverInv
<1> SUFFICES ASSUME DriverInit PROVE DriverInv
  OBVIOUS
<1>1. DriverTypeOK
  BY DEF DriverInit, DriverTypeOK, PowerUp, Byte, Register
<1>2. PulseBounded
  BY DEF DriverInit, PulseBounded, PowerUp, Register
<1> QED
  BY <1>1, <1>2 DEF DriverInit, DriverInv, Rounds, Writing, Progress, Settled

(* What one register write does, channel by channel. *)
LEMMA WriteEffect ==
  ASSUME DriverInv, WriteRegister
  PROVE  LET c == ChannelOf(phase, step)
             r == RegisterOf(step)
         IN  /\ c \in Channel /\ r \in Register
             /\ step = 4 * Pos(phase, c) + r
             /\ regs' = [regs EXCEPT ![c][r] = RegisterValue(r, Wanted(c))]
             /\ \A ch \in Channel \ {c} : regs'[ch] = regs[ch]
             /\ regs'[c] = [regs[c] EXCEPT ![r] = RegisterValue(r, Wanted(c))]
<1> DEFINE c == ChannelOf(phase, step)
           r == RegisterOf(step)
<1>1. step \in 0..15 /\ phase \in {"boot", "write"}
  BY DEF DriverInv, DriverTypeOK, Rounds, Writing, WriteRegister
<1>2. c \in Channel /\ r \in Register /\ step = 4 * Pos(phase, c) + r
  BY <1>1, Schedule
<1>3. ~(data # None /\ Rejected(data, c))
  BY <1>2, WantedRange DEF DriverInv
<1>4. regs' = [regs EXCEPT ![c][r] = RegisterValue(r, Wanted(c))]
  BY <1>3 DEF WriteRegister
<1>5. regs \in [Channel -> [Register -> Byte]]
  BY DEF DriverInv, DriverTypeOK
<1> QED
  BY <1>2, <1>4, <1>5

LEMMA WriteInv ==
  ASSUME DriverInv, WriteRegister
  PROVE  DriverInv'
<1> DEFINE c == ChannelOf(phase, step)
           r == RegisterOf(step)
           v == RegisterValue(r, Wanted(c))
           last == step = 15
<1>1. /\ c \in Channel /\ r \in Register
      /\ step = 4 * Pos(phase, c) + r
      /\ regs' = [regs EXCEPT ![c][r] = v]
      /\ \A ch \in Channel \ {c} : regs'[ch] = regs[ch]
      /\ regs'[c] = [regs[c] EXCEPT ![r] = v]
  BY WriteEffect
<1>2. /\ DriverTypeOK /\ PulseBounded /\ \A ch \in Channel : Progress(ch)
      /\ step \in 0..15 /\ phase \in {"boot", "write"} /\ Rounds
  BY DEF DriverInv, DriverTypeOK, Rounds, Writing, WriteRegister
<1>3. /\ data' = data /\ step' = step + 1
      /\ phase' = IF last THEN "recv" ELSE phase
  BY DEF WriteRegister, NextWrite
<1>4. \A ch \in Channel : Wanted(ch)' = Wanted(ch)
  BY <1>3 DEF Wanted
<1>5. /\ r = OFF_L => v = Wanted(c) % 256
      /\ r = OFF_H => v = Wanted(c) \div 256
      /\ r \in {ON_L, ON_H} => v = 0
  BY DEF RegisterValue
<1>6. /\ \A ch \in Channel : Wanted(ch) % 256 \in Byte /\ Wanted(ch) \div 256 \in 0..2
  BY <1>2, WantedRange
<1> HIDE DEF c, r, v, last
<1>7. v \in Byte
  BY <1>1, <1>5, <1>6 DEF Register, Byte
<1>8. DriverTypeOK'
  BY <1>1, <1>2, <1>3, <1>7 DEF DriverTypeOK
<1>9. Rounds'
  BY <1>2, <1>3 DEF Rounds, Writing, last
<1>10. \A ch \in Channel : /\ step' > 4 * Pos(phase, ch) + 2 => regs'[ch][OFF_L] = Wanted(ch) % 256
                           /\ step' > 4 * Pos(phase, ch) + 3 => regs'[ch][OFF_H] = Wanted(ch) \div 256
  <2> SUFFICES ASSUME NEW ch \in Channel
               PROVE  /\ step' > 4 * Pos(phase, ch) + 2 => regs'[ch][OFF_L] = Wanted(ch) % 256
                      /\ step' > 4 * Pos(phase, ch) + 3 => regs'[ch][OFF_H] = Wanted(ch) \div 256
    OBVIOUS
  <2>1. /\ step > 4 * Pos(phase, ch) + 2 => regs[ch][OFF_L] = Wanted(ch) % 256
        /\ step > 4 * Pos(phase, ch) + 3 => regs[ch][OFF_H] = Wanted(ch) \div 256
    BY <1>2 DEF Progress, Writing
  <2>2. Pos(phase, ch) \in 0..3 /\ Pos(phase, c) \in 0..3
    BY <1>1, <1>2, Schedule
  <2>3. CASE ch # c
    <3>1. Pos(phase, ch) # Pos(phase, c)
      <4>1. Pos(phase, ch) # step \div 4
        BY <1>2, <2>3, Schedule DEF c
      <4>2. Pos(phase, c) = step \div 4
        BY <1>1, <1>2, <2>2, Divided DEF Register
      <4> QED
        BY <4>1, <4>2
    <3> QED
      BY <1>1, <1>2, <1>3, <2>1, <2>2, <2>3, <3>1 DEF Register
  <2>4. CASE ch = c
    <3>1. regs[c] \in [Register -> Byte]
      BY <1>1, <1>2 DEF DriverTypeOK
    <3> QED
      BY <1>1, <1>2, <1>3, <1>5, <2>1, <2>2, <2>4, <3>1 DEF Register
  <2> QED
    BY <2>3, <2>4
<1>11. \A ch \in Channel : Progress(ch)'
  BY <1>3, <1>4, <1>10 DEF Progress, Writing, Pos
<1>12. Settled'
  <2>1. CASE last
    <3>1. \A ch \in Channel : Pos(phase, ch) \in 0..3
      BY <1>2, Schedule
    <3>2. \A ch \in Channel : regs'[ch][OFF_L] = Wanted(ch) % 256 /\ regs'[ch][OFF_H] = Wanted(ch) \div 256
      BY <1>3, <1>10, <2>1, <3>1 DEF last
    <3>3. \A ch \in Channel : Written(ch)' = Wanted(ch)
      BY <1>2, <3>2, WantedRange DEF Written
    <3> QED
      BY <1>4, <3>3 DEF Settled
  <2>2. CASE ~last
    BY <1>2, <1>3, <2>2 DEF Settled
  <2> QED
    BY <2>1, <2>2
<1>13. PulseBounded'
  <2> SUFFICES ASSUME NEW ch \in Channel
               PROVE  /\ regs'[ch][ON_L] = 0 /\ regs'[ch][ON_H] = 0
                      /\ \/ regs'[ch][OFF_H] \in 0..2
                         \/ regs'[ch][OFF_H] = 16 /\ phase' \in {"off", "boot"}
    BY DEF PulseBounded
  <2>1. regs[ch] \in [Register -> Byte] /\ regs[c] \in [Register -> Byte]
    BY <1>1, <1>2 DEF DriverTypeOK
  <2>2. regs'[ch][ON_L] = 0 /\ regs'[ch][ON_H] = 0
    BY <1>1, <1>2, <1>5, <2>1 DEF PulseBounded, Register
  <2>3. CASE last
    <3>1. Pos(phase, ch) \in 0..3
      BY <1>2, Schedule
    <3> QED
      BY <1>3, <1>6, <1>10, <2>2, <2>3, <3>1 DEF last
  <2>4. CASE ~last
    BY <1>1, <1>2, <1>3, <1>5, <1>6, <2>1, <2>2, <2>4 DEF PulseBounded, Register
  <2> QED
    BY <2>3, <2>4
<1> QED
  BY <1>8, <1>9, <1>11, <1>12, <1>13 DEF DriverInv

LEMMA StepInv ==
  ASSUME DriverInv, [DriverNext]_driverVars
  PROVE  DriverInv'
<1> USE DEF DriverInv
<1>1. CASE DriverBoot
  <2>1. DriverTypeOK' /\ Rounds' /\ PulseBounded' /\ Settled'
    BY <1>1 DEF DriverBoot, DriverTypeOK, Rounds, Writing, PulseBounded, Settled
  <2>2. \A ch \in Channel : Progress(ch)'
    BY <1>1 DEF DriverBoot, Progress, Pos, Channel
  <2> QED
    BY <2>1, <2>2
<1>2. ASSUME NEW d \in StickData, Receive(d)
      PROVE  DriverInv'
  <2>1. DriverTypeOK' /\ Rounds' /\ PulseBounded' /\ Settled'
    BY <1>2 DEF Receive, DriverTypeOK, Rounds, Writing, PulseBounded, Settled
  <2>2. \A ch \in Channel : Progress(ch)'
    <3>1. \A ch \in Channel : Pos("write", ch) \in 0..3
      BY Schedule
    <3> QED
      BY <1>2, <3>1 DEF Receive, Progress
  <2> QED
    BY <2>1, <2>2
<1>3. CASE WriteRegister
  BY <1>3, WriteInv
<1>4. CASE DriverDies
  <2>1. DriverTypeOK' /\ Rounds' /\ PulseBounded' /\ Settled'
    BY <1>4 DEF DriverDies, DriverTypeOK, Rounds, Writing, PulseBounded, Settled
  <2>2. \A ch \in Channel : Progress(ch)'
    BY <1>4 DEF DriverDies, Progress, Writing
  <2> QED
    BY <2>1, <2>2
<1>5. CASE UNCHANGED driverVars
  BY <1>5 DEF driverVars, DriverTypeOK, Rounds, Writing, PulseBounded, Settled,
              Progress, Written, Wanted
<1> QED
  BY <1>1, <1>2, <1>3, <1>4, <1>5 DEF DriverNext

-----------------------------------------------------------------------------
(* What holds of every run *)

LEMMA InvariantHolds == DriverSpec => []DriverInv
<1>1. DriverInit => DriverInv
  BY InitInv
<1>2. DriverInv /\ [DriverNext]_driverVars => DriverInv'
  BY StepInv
<1> QED
  BY <1>1, <1>2, PTL DEF DriverSpec

(* Every variable keeps its type; what is written to a register is a byte  *)
(* (driver/PCA9685.py:74-79).                                              *)
THEOREM TypeCorrect == DriverSpec => []DriverTypeOK
<1>1. DriverInv => DriverTypeOK
  BY DEF DriverInv
<1> QED
  BY <1>1, InvariantHolds, PTL

(* While the driver waits for a datagram all four channels show what the   *)
(* last one asks for (driver/drive.py:42-56).                              *)
THEOREM SettledHolds == DriverSpec => []Settled
<1>1. DriverInv => Settled
  BY DEF DriverInv
<1> QED
  BY <1>1, InvariantHolds, PTL

(* No pulse, torn or whole, is longer than 768 counts, and none is         *)
(* displaced or switched full on or off (driver/PCA9685.py:74-86).         *)
THEOREM PulsesBounded == DriverSpec => []PulseBounded
<1>1. DriverInv => PulseBounded
  BY DEF DriverInv
<1> QED
  BY <1>1, InvariantHolds, PTL

(* Full speed never adds to a turn: the motors' pulses stay within 83      *)
(* counts of a pair symmetric about 1500 us (driver/drive.py:16-20).       *)
THEOREM TurnsBounded == DriverSpec => []TurnBounded
<1>1. ASSUME DriverInv PROVE TurnBounded
  <2>1. Wanted(LEFT_MOTOR) + Wanted(RIGHT_MOTOR) - 614 \in -83..83
    BY <1>1, WantedRange DEF DriverInv
  <2> QED
    BY <1>1, <2>1 DEF DriverInv, Settled, TurnBounded, Channel
<1> QED
  BY <1>1, InvariantHolds, PTL

LEMMA LowByteNear ==
  ASSUME NEW high \in Byte, NEW low1 \in Byte, NEW low2 \in Byte
  PROVE  (256 * high + low1) - (256 * high + low2) \in -255..255
  BY DEF Byte

LEMMA StepNear ==
  ASSUME DriverInv, [DriverNext]_driverVars, NEW ch \in Channel
  PROVE  LET before == Written(ch)
             after  == 256 * regs'[ch][OFF_H] + regs'[ch][OFF_L]
         IN  \/ before - after \in -255..255
             \/ after = Wanted(ch)
<1>1. regs[ch][OFF_H] \in Byte /\ regs[ch][OFF_L] \in Byte
  BY DEF DriverInv, DriverTypeOK, Register
<1>2. CASE regs'[ch] = regs[ch]
  BY <1>1, <1>2, LowByteNear DEF Written
<1>3. CASE WriteRegister /\ ch = ChannelOf(phase, step)
  <2> DEFINE r == RegisterOf(step)
             v == RegisterValue(r, Wanted(ch))
  <2>1. /\ r \in Register
        /\ step = 4 * Pos(phase, ch) + r
        /\ regs'[ch] = [regs[ch] EXCEPT ![r] = v]
    BY <1>3, WriteEffect
  <2>2. regs[ch] \in [Register -> Byte]
    BY DEF DriverInv, DriverTypeOK
  <2>3. /\ Wanted(ch) % 256 \in Byte
        /\ 256 * (Wanted(ch) \div 256) + (Wanted(ch) % 256) = Wanted(ch)
    BY WantedRange DEF DriverInv
  <2>4. /\ r = OFF_L => v = Wanted(ch) % 256
        /\ r = OFF_H => v = Wanted(ch) \div 256
    BY DEF RegisterValue
  <2>5. Pos(phase, ch) \in 0..3
    BY <1>3, Schedule DEF DriverInv, DriverTypeOK, Rounds, Writing, WriteRegister
  <2> HIDE DEF r, v
  <2>6. CASE r = OFF_L
    <3>1. regs'[ch][OFF_H] = regs[ch][OFF_H] /\ regs'[ch][OFF_L] \in Byte
      BY <2>1, <2>2, <2>3, <2>4, <2>6 DEF Register
    <3> QED
      BY <1>1, <3>1, LowByteNear DEF Written
  <2>7. CASE r = OFF_H
    <3>1. regs[ch][OFF_L] = Wanted(ch) % 256
      BY <1>3, <2>1, <2>5, <2>7 DEF DriverInv, Progress, Writing, WriteRegister
    <3>2. regs'[ch][OFF_H] = Wanted(ch) \div 256 /\ regs'[ch][OFF_L] = regs[ch][OFF_L]
      BY <2>1, <2>2, <2>4, <2>7 DEF Register
    <3> QED
      BY <2>3, <3>1, <3>2
  <2>8. CASE r \in {ON_L, ON_H}
    <3>1. regs'[ch][OFF_H] = regs[ch][OFF_H] /\ regs'[ch][OFF_L] = regs[ch][OFF_L]
      BY <2>1, <2>2, <2>8 DEF Register
    <3> QED
      BY <1>1, <3>1, LowByteNear DEF Written
  <2> QED
    BY <2>1, <2>6, <2>7, <2>8 DEF Register
<1>4. CASE WriteRegister /\ ch # ChannelOf(phase, step)
  <2>1. regs'[ch] = regs[ch]
    BY <1>4, WriteEffect
  <2> QED
    BY <1>2, <2>1
<1>5. CASE ~WriteRegister
  BY <1>2, <1>5 DEF DriverNext, DriverBoot, Receive, DriverDies, driverVars
<1> QED
  BY <1>3, <1>4, <1>5

(* A torn pulse is less than 256 counts from the one before it: each       *)
(* register write moves the pulse by less than that or completes it        *)
(* (driver/PCA9685.py:74-79).                                              *)
THEOREM TornPulsesNear == DriverSpec => TornPulseNear
<1>1. DriverInv /\ [DriverNext]_driverVars =>
        [\A ch \in Channel :
           LET before == Written(ch)
               after  == 256 * regs'[ch][OFF_H] + regs'[ch][OFF_L]
           IN  \/ before - after \in -255..255
               \/ after = Wanted(ch)]_driverVars
  BY StepNear
<1> QED
  BY <1>1, InvariantHolds, PTL DEF DriverSpec, TornPulseNear

(* The driver implements Actuator: nothing is taken before the boot's      *)
(* writes are done or while a round is being written                       *)
(* (driver/drive.py:23-56).                                                *)
THEOREM DriverIsActuator == DriverSpec => Actuates
<1> USE DEF Promise!actuatorVars, Promise!ActuatorInit, Promise!ActuatorNext,
            Promise!ActuatorStarts, Promise!ActuatorTakes, Promise!ActuatorStops
<1>1. DriverInit => Promise!ActuatorInit
  BY DEF DriverInit
<1>2. DriverInv /\ [DriverNext]_driverVars => [Promise!ActuatorNext]_(Promise!actuatorVars)
  <2> SUFFICES ASSUME DriverInv, [DriverNext]_driverVars
               PROVE  [Promise!ActuatorNext]_(Promise!actuatorVars)
    OBVIOUS
  <2>1. data # None => phase \in {"recv", "write"}
    BY DEF DriverInv, Rounds
  <2>2. CASE DriverBoot
    BY <2>2 DEF DriverBoot
  <2>3. ASSUME NEW d \in StickData, Receive(d)
        PROVE  [Promise!ActuatorNext]_(Promise!actuatorVars)
    <3>1. Promise!ActuatorTakes(d)
      BY <2>3 DEF Receive
    <3> QED
      BY <3>1
  <2>4. CASE WriteRegister
    <3>1. data' = data
      BY <2>4 DEF WriteRegister, NextWrite
    <3>2. phase' = phase \/ phase' = "recv"
      BY <2>4 DEF WriteRegister, NextWrite
    <3>3. phase \in {"boot", "write"}
      BY <2>4 DEF WriteRegister
    <3> QED
      BY <3>1, <3>2, <3>3
  <2>5. CASE DriverDies
    <3>1. CASE phase \in {"recv", "write"}
      BY <2>5, <3>1 DEF DriverDies
    <3>2. CASE phase \notin {"recv", "write"}
      BY <2>1, <2>5, <3>2 DEF DriverDies
    <3> QED
      BY <3>1, <3>2
  <2>6. CASE UNCHANGED driverVars
    BY <2>6 DEF driverVars
  <2> QED
    BY <2>2, <2>3, <2>4, <2>5, <2>6 DEF DriverNext
<1> QED
  BY <1>1, <1>2, InvariantHolds, PTL DEF DriverSpec, Actuates, Promise!ActuatorSpec

-----------------------------------------------------------------------------
(* The command path: types *)

LEMMA PositionType ==
  /\ Position \subseteq Nat /\ 1 \in Position
  /\ \A p \in Position : p < Len(Report) => p + 1 \in Position
<1>2. Len(Report) \in Nat \ {0}
  BY PathAssumption
<1> QED
  BY <1>2 DEF Position

LEMMA PrefixType ==
  ASSUME NEW S, NEW q \in Seq(S), NEW n \in 0..Len(q)
  PROVE  /\ SubSeq(q, 1, n) \in Seq(S) /\ Len(SubSeq(q, 1, n)) = n
         /\ \A i \in 1..n : i \in 1..Len(q) /\ SubSeq(q, 1, n)[i] = q[i]
OBVIOUS

LEMMA HeadTail ==
  ASSUME NEW S, NEW q \in Seq(S), q # <<>>
  PROVE  /\ Head(q) \in S /\ Tail(q) \in Seq(S) /\ Len(Tail(q)) = Len(q) - 1
         /\ Len(q) \in Nat \ {0}
         /\ \A i \in 1..(Len(q) - 1) : i + 1 \in 1..Len(q) /\ Tail(q)[i] = q[i + 1]
OBVIOUS

LEMMA Short ==
  ASSUME NEW S
  PROVE  /\ <<>> \in Seq(S) /\ Len(<<>>) = 0
         /\ \A x \in S : <<x>> \in Seq(S) /\ Len(<<x>>) = 1 /\ <<x>>[1] = x
         /\ \A q, r \in Seq(S) : Len(q) < 1 => q = <<>> /\ q \o r = r
OBVIOUS

(* Whatever carries a message knows its session. *)
Labelled ==
  \A s \in Session :
    /\ \A i \in DOMAIN wire[s] : wire[s][i].from = s
    /\ \A i \in DOMAIN handler[s] : handler[s][i].from = s

LEMMA PathTypeInit == Init => TypeOK /\ Labelled
<1> SUFFICES ASSUME Init PROVE TypeOK /\ Labelled
  OBVIOUS
<1> USE DEF Init, PathInit, ActuatorInit
<1> USE PathAssumption, PositionType DEF TypeOK, ChanCap
<1>1. TypeOK
  <2>1. /\ on \in BOOLEAN /\ asked \in StickData \cup {None}
        /\ {controllerUp, roverUp, refused} \subseteq BOOLEAN
        /\ {stick, reported} \subseteq Position
    OBVIOUS
  <2>2. /\ reading \in Seq(Position) /\ Len(reading) <= 1
        /\ joystickData \in Seq(Position) /\ Len(joystickData) <= ChanCap
        /\ joystickDataCh \in Seq(Message) /\ Len(joystickDataCh) <= ChanCap
        /\ udp \in Seq(Message) /\ Len(udp) <= UdpCap
    OBVIOUS
  <2>3. channel \in [Session -> {"none", "open", "closed"}]
    OBVIOUS
  <2>4. /\ loop \in [Session -> Seq(Position)] /\ \A s \in Session : Len(loop[s]) <= 1
        /\ wire \in [Session -> Seq(Message)] /\ \A s \in Session : Len(wire[s]) <= WireCap
        /\ handler \in [Session -> Seq(Message)] /\ \A s \in Session : Len(handler[s]) <= 1
    OBVIOUS
  <2> QED
    BY <2>1, <2>2, <2>3, <2>4
<1>2. Labelled
  BY DEF Labelled
<1> QED
  BY <1>1, <1>2

(* TypeOK in parts. *)
Flags ==
  /\ on \in BOOLEAN /\ asked \in StickData \cup {None}
  /\ {controllerUp, roverUp, refused} \subseteq BOOLEAN /\ {stick, reported} \subseteq Position
  /\ channel \in [Session -> {"none", "open", "closed"}]

Queues ==
  /\ reading \in Seq(Position) /\ Len(reading) <= 1
  /\ joystickData \in Seq(Position) /\ Len(joystickData) <= 1
  /\ joystickDataCh \in Seq(Message) /\ Len(joystickDataCh) <= 1
  /\ udp \in Seq(Message) /\ Len(udp) <= UdpCap

PerSession ==
  /\ loop \in [Session -> Seq(Position)] /\ \A s \in Session : Len(loop[s]) <= 1
  /\ wire \in [Session -> Seq(Message)] /\ \A s \in Session : Len(wire[s]) <= WireCap
  /\ handler \in [Session -> Seq(Message)] /\ \A s \in Session : Len(handler[s]) <= 1

LEMMA InParts == TypeOK <=> Flags /\ Queues /\ PerSession
BY DEF TypeOK, Flags, Queues, PerSession, ChanCap

LEMMA InPartsNext == TypeOK' <=> Flags' /\ Queues' /\ PerSession'
BY DEF TypeOK, Flags, Queues, PerSession, ChanCap

LEMMA EndGoal ==
  ASSUME Flags, Queues, PerSession, Labelled, ControllerEnds, UNCHANGED actuatorVars
  PROVE  Flags' /\ Queues' /\ PerSession' /\ Labelled'
<1>1. Flags' /\ Labelled'
  BY DEF ControllerEnds, roverVars, stickVars, actuatorVars, Flags, Labelled
<1>2. Queues'
  BY Short DEF ControllerEnds, roverVars, stickVars, Queues
<1>3. PerSession'
  BY Short DEF ControllerEnds, roverVars, stickVars, PerSession
<1> QED
  BY <1>1, <1>2, <1>3

LEMMA PathTypeNext ==
  ASSUME TypeOK, Labelled, [Next]_vars
  PROVE  TypeOK' /\ Labelled'
<1> DEFINE Goal == Flags' /\ Queues' /\ PerSession' /\ Labelled'
<1> SUFFICES Goal
  BY InPartsNext
<1>0. Flags /\ Queues /\ PerSession
  BY InParts
<1> USE <1>0 DEF ChanCap
<1>1. CASE MoveStick /\ UNCHANGED actuatorVars
  <2> USE <1>1 DEF MoveStick, roverVars, stickVars, actuatorVars
  <2>1. Flags'
    BY PositionType, PathAssumption DEF Flags, Position
  <2> QED
    BY <2>1 DEF Queues, PerSession, Labelled
<1>2. CASE (ReadStick \/ PutStick) /\ UNCHANGED actuatorVars
  <2>1. Flags' /\ PerSession' /\ Labelled'
    <3>1. reported' \in Position /\ stick' = stick
      BY <1>2, PathAssumption
      DEF ReadStick, PutStick, stickVars, Flags, Position
    <3> QED
      BY <1>2, <3>1
      DEF ReadStick, PutStick, roverVars, stickVars, actuatorVars, Flags, PerSession, Labelled
  <2>2. ASSUME ReadStick PROVE Queues'
    <3>1. reading' \in Seq(Position) /\ Len(reading') <= 1
      BY <2>2, PathAssumption, Short DEF ReadStick, Flags, Position
    <3> QED
      BY <2>2, <3>1 DEF ReadStick, roverVars, stickVars, Queues
  <2>3. ASSUME PutStick PROVE Queues'
    <3>1. joystickData' = reading /\ reading' = <<>>
      BY <2>3, Short DEF PutStick, Queues
    <3> QED
      BY <2>3, <3>1, Short DEF PutStick, roverVars, stickVars, Queues
  <2> QED
    BY <1>2, <2>1, <2>2, <2>3
<1>3. ASSUME NEW s \in Session, SessionStep(s), UNCHANGED actuatorVars
      PROVE  Goal
  <2>1. CASE LoopTakes(s)
    <3> USE <1>3, <2>1 DEF LoopTakes, roverVars, stickVars, actuatorVars
    <3>1. Flags' /\ Labelled'
      BY DEF Flags, Labelled
    <3>2. Queues'
      BY DEF Queues
    <3>3. PerSession'
      BY DEF Queues, PerSession
    <3> QED
      BY <3>1, <3>2, <3>3
  <2>2. CASE LoopSends(s)
    <3> USE <1>3, <2>2 DEF LoopSends, roverVars, stickVars, actuatorVars
    <3>1. [pos |-> Head(loop[s]), from |-> s] \in Message
      BY DEF Message, PerSession
    <3> DEFINE m == [pos |-> Head(loop[s]), from |-> s]
    <3>2. m \in Message /\ m.from = s /\ wire' = [wire EXCEPT ![s] = Append(@, m)]
      BY <3>1
    <3> HIDE DEF m
    <3>3. Flags' /\ Queues'
      BY DEF Flags, Queues
    <3>4. PerSession'
      BY <3>2, PathAssumption DEF PerSession
    <3>5. Labelled'
      BY <3>2 DEF Labelled, PerSession
    <3> QED
      BY <3>3, <3>4, <3>5
  <2>3. CASE LoopPanics(s)
    BY <1>3, <2>3, EndGoal DEF LoopPanics
  <2>4. CASE ChannelOpens(s)
    BY <1>3, <2>4
    DEF ChannelOpens, controllerVars, roverVars, stickVars, actuatorVars, Flags, Queues,
        PerSession, Labelled
  <2>5. CASE ChannelCloses(s)
    <3> USE <1>3, <2>5 DEF ChannelCloses, controllerVars, roverVars, stickVars, actuatorVars
    <3>1. PICK n \in 0..Len(wire[s]) : wire' = [wire EXCEPT ![s] = SubSeq(@, 1, n)]
      OBVIOUS
    <3>2. Flags' /\ Queues'
      BY DEF Flags, Queues
    <3>3. /\ SubSeq(wire[s], 1, n) \in Seq(Message) /\ Len(SubSeq(wire[s], 1, n)) = n
          /\ \A i \in 1..n : i \in 1..Len(wire[s]) /\ SubSeq(wire[s], 1, n)[i] = wire[s][i]
          /\ n <= WireCap
      BY <3>1, PrefixType, PathAssumption DEF PerSession
    <3>4. PerSession'
      BY <3>1, <3>3 DEF PerSession
    <3>5. Labelled'
      BY <3>1, <3>3 DEF PerSession, Labelled
    <3> QED
      BY <3>2, <3>4, <3>5
  <2>6. CASE OnMessage(s)
    <3> USE <1>3, <2>6 DEF OnMessage, controllerVars, roverVars, stickVars, actuatorVars
    <3>1. Flags' /\ Queues'
      BY DEF Flags, Queues
    <3>2. /\ Head(wire[s]) \in Message /\ Tail(wire[s]) \in Seq(Message)
          /\ Len(Tail(wire[s])) <= WireCap
      BY HeadTail, PathAssumption DEF PerSession
    <3>4. <<Head(wire[s])>> \in Seq(Message) /\ Len(<<Head(wire[s])>>) <= 1
      BY <3>2, Short
    <3>5. PerSession'
      BY <3>2, <3>4 DEF PerSession
    <3>3. Labelled'
      BY DEF PerSession, Labelled
    <3> QED
      BY <3>1, <3>5, <3>3
  <2>7. CASE OnMessageDone(s)
    <3> USE <1>3, <2>7 DEF OnMessageDone, controllerVars, roverVars, stickVars, actuatorVars
    <3>1. Flags' /\ Labelled'
      BY DEF Flags, Labelled, PerSession
    <3>2. Queues'
      BY DEF Queues, PerSession
    <3>3. PerSession'
      BY DEF PerSession
    <3> QED
      BY <3>1, <3>2, <3>3
  <2> QED
    BY <1>3, <2>1, <2>2, <2>3, <2>4, <2>5, <2>6, <2>7 DEF SessionStep
<1>4. CASE CmdService(on) /\ UNCHANGED actuatorVars
  <2> USE <1>4 DEF CmdService, controllerVars, stickVars, actuatorVars
  <2>1. Queues'
    BY PathAssumption DEF Queues
  <2> QED
    BY <2>1 DEF Flags, PerSession, Labelled
<1>5. CASE (ControllerEnds \/ RoverEnds) /\ UNCHANGED actuatorVars
  <2>1. ControllerEnds => Goal
    BY <1>5, EndGoal DEF Labelled
  <2>2. ASSUME RoverEnds PROVE Goal
    <3> USE <1>5, <2>2 DEF RoverEnds, controllerVars, stickVars, actuatorVars
    <3>1. Flags'
      BY DEF Flags
    <3>2. Queues'
      BY Short DEF Queues
    <3>3. PerSession'
      BY Short DEF PerSession
    <3>4. Labelled'
      BY DEF Labelled
    <3> QED
      BY <3>1, <3>2, <3>3, <3>4
  <2> QED
    BY <1>5, <2>1, <2>2
<1>6. CASE Obey
  <2> USE <1>6 DEF Obey, ActuatorTakes, controllerVars, roverVars, stickVars
  <2>1. Head(udp) \in Message
    BY DEF Queues
  <2>2. ReadOnce(Head(udp).pos) \in StickData
    BY <2>1, TeleopAssumption DEF Message
  <2>3. Flags' /\ PerSession' /\ Labelled'
    BY <2>2 DEF Flags, PerSession, Labelled
  <2>4. Queues'
    BY PathAssumption DEF Queues
  <2> QED
    BY <2>3, <2>4
<1>7. CASE DriverStarts \/ DriverStops
  <2> USE <1>7 DEF DriverStarts, DriverStops, ActuatorStarts, ActuatorStops, pathVars,
                   controllerVars, roverVars, stickVars
  <2>1. Flags' /\ PerSession' /\ Labelled'
    BY DEF Flags, PerSession, Labelled
  <2>2. udp' = udp \/ udp' = <<>>
    OBVIOUS
  <2>4. udp' \in Seq(Message) /\ Len(udp') <= UdpCap
    <3>1. UdpCap >= 0
      BY PathAssumption
    <3> QED
      BY <2>2, <3>1, Short DEF Queues
  <2>3. Queues'
    BY <2>4 DEF Queues
  <2> QED
    BY <2>1, <2>3
<1>8. CASE UNCHANGED vars
  BY <1>8 DEF vars, pathVars, actuatorVars, controllerVars, roverVars, stickVars, Flags, Queues,
              PerSession, Labelled
<1> QED
  BY <1>1, <1>2, <1>3, <1>4, <1>5, <1>6, <1>7, <1>8 DEF Next, PathStep

-----------------------------------------------------------------------------
(* The command path: order *)

(* The positions of session s in a sequence of messages. *)
Vals(q, s) == {q[i].pos : i \in {j \in DOMAIN q : q[j].from = s}}

Sorted(q, s) ==
  \A i, j \in DOMAIN q :
    i < j /\ q[i].from = s /\ q[j].from = s => q[i].pos <= q[j].pos

UpTo(A, B) == \A a \in A, b \in B : a <= b

LEMMA ValsShort ==
  ASSUME NEW s
  PROVE  /\ Vals(<<>>, s) = {} /\ Sorted(<<>>, s)
         /\ \A m \in Message :
              Sorted(<<m>>, s) /\ Vals(<<m>>, s) = IF m.from = s THEN {m.pos} ELSE {}
<1>1. Vals(<<>>, s) = {} /\ Sorted(<<>>, s)
  BY DEF Vals, Sorted
<1>2. ASSUME NEW m \in Message
      PROVE  Sorted(<<m>>, s) /\ Vals(<<m>>, s) = IF m.from = s THEN {m.pos} ELSE {}
  <2>1. DOMAIN <<m>> = {1} /\ <<m>>[1] = m
    OBVIOUS
  <2> QED
    BY <2>1 DEF Vals, Sorted
<1> QED
  BY <1>1, <1>2

LEMMA ValsCat ==
  ASSUME NEW s, NEW p \in Seq(Message), NEW q \in Seq(Message)
  PROVE  /\ Vals(p \o q, s) = Vals(p, s) \cup Vals(q, s)
         /\ Sorted(p, s) /\ Sorted(q, s) /\ UpTo(Vals(p, s), Vals(q, s))
              => Sorted(p \o q, s)
<1> DEFINE pq == p \o q
<1>1. /\ pq \in Seq(Message) /\ Len(pq) = Len(p) + Len(q)
      /\ \A i \in 1..Len(p) : pq[i] = p[i]
      /\ \A i \in 1..Len(q) : pq[Len(p) + i] = q[i]
      /\ \A k \in 1..Len(pq) : k \in 1..Len(p) \/ (k - Len(p) \in 1..Len(q) /\ pq[k] = q[k - Len(p)])
  OBVIOUS
<1>2. /\ DOMAIN pq = 1..Len(pq) /\ DOMAIN p = 1..Len(p) /\ DOMAIN q = 1..Len(q)
      /\ Len(p) \in Nat /\ Len(q) \in Nat
  BY <1>1
<1> HIDE DEF pq
<1>3. ASSUME NEW v
      PROVE  v \in Vals(pq, s) <=> v \in Vals(p, s) \/ v \in Vals(q, s)
  <2>1. ASSUME v \in Vals(pq, s) PROVE v \in Vals(p, s) \/ v \in Vals(q, s)
    BY <1>1, <1>2, <2>1 DEF Vals
  <2>2. ASSUME v \in Vals(p, s) PROVE v \in Vals(pq, s)
    BY <1>1, <1>2, <2>2 DEF Vals
  <2>3. ASSUME v \in Vals(q, s) PROVE v \in Vals(pq, s)
    <3>1. PICK i \in 1..Len(q) : q[i].from = s /\ q[i].pos = v
      BY <1>2, <2>3 DEF Vals
    <3>2. Len(p) + i \in DOMAIN pq /\ pq[Len(p) + i] = q[i]
      BY <1>1, <1>2
    <3> QED
      BY <3>1, <3>2 DEF Vals
  <2> QED
    BY <2>1, <2>2, <2>3
<1>4. ASSUME Sorted(p, s), Sorted(q, s), UpTo(Vals(p, s), Vals(q, s)),
             NEW i \in DOMAIN pq, NEW j \in DOMAIN pq,
             i < j, pq[i].from = s, pq[j].from = s
      PROVE  pq[i].pos <= pq[j].pos
  <2>1. CASE j \in 1..Len(p)
    BY <1>1, <1>2, <1>4, <2>1 DEF Sorted
  <2>2. CASE i \notin 1..Len(p)
    <3>1. /\ i - Len(p) \in DOMAIN q /\ j - Len(p) \in DOMAIN q /\ i - Len(p) < j - Len(p)
          /\ pq[i] = q[i - Len(p)] /\ pq[j] = q[j - Len(p)]
      BY <1>1, <1>2, <1>4, <2>2
    <3> QED
      BY <1>4, <3>1 DEF Sorted
  <2>3. CASE i \in 1..Len(p) /\ j \notin 1..Len(p)
    <3>1. pq[i] = p[i] /\ i \in DOMAIN p /\ j - Len(p) \in DOMAIN q /\ pq[j] = q[j - Len(p)]
      BY <1>1, <1>2, <1>4, <2>3
    <3>2. pq[i].pos \in Vals(p, s) /\ pq[j].pos \in Vals(q, s)
      BY <1>4, <3>1 DEF Vals
    <3> QED
      BY <1>4, <3>2 DEF UpTo
  <2> QED
    BY <2>1, <2>2, <2>3
<1> QED
  BY <1>3, <1>4 DEF Sorted, pq

(* What is left when the first message is taken. *)
LEMMA ValsTail ==
  ASSUME NEW s, NEW q \in Seq(Message), q # <<>>
  PROVE  /\ Vals(Tail(q), s) \subseteq Vals(q, s)
         /\ Head(q).from = s => Head(q).pos \in Vals(q, s)
         /\ Sorted(q, s) =>
              /\ Sorted(Tail(q), s)
              /\ Head(q).from = s => UpTo({Head(q).pos}, Vals(Tail(q), s))
<1> DEFINE r == Tail(q)
<1>1. /\ DOMAIN r = 1..(Len(q) - 1) /\ DOMAIN q = 1..Len(q) /\ Len(q) \in Nat
      /\ 1 \in DOMAIN q /\ Head(q) = q[1]
  OBVIOUS
<1>2. \A i \in DOMAIN r : i + 1 \in DOMAIN q /\ r[i] = q[i + 1] /\ 1 < i + 1
  BY HeadTail, <1>1
<1> HIDE DEF r
<1>3. Vals(r, s) \subseteq Vals(q, s)
  BY <1>2 DEF Vals
<1>4. Head(q).from = s => Head(q).pos \in Vals(q, s)
  BY <1>1 DEF Vals
<1>5. ASSUME Sorted(q, s) PROVE Sorted(r, s)
  <2>1. \A i, j \in DOMAIN r : i < j => i + 1 < j + 1
    BY <1>1
  <2> QED
    BY <1>2, <1>5, <2>1 DEF Sorted
<1>6. ASSUME Sorted(q, s), Head(q).from = s PROVE UpTo({Head(q).pos}, Vals(r, s))
  BY <1>1, <1>2, <1>6 DEF Sorted, UpTo, Vals
<1> QED
  BY <1>3, <1>4, <1>5, <1>6 DEF r

LEMMA ValsPrefix ==
  ASSUME NEW s, NEW q \in Seq(Message), NEW n \in 0..Len(q)
  PROVE  /\ Vals(SubSeq(q, 1, n), s) \subseteq Vals(q, s)
         /\ Sorted(q, s) => Sorted(SubSeq(q, 1, n), s)
<1>1. DOMAIN SubSeq(q, 1, n) = 1..n /\ DOMAIN q = 1..Len(q)
  OBVIOUS
<1> QED
  BY <1>1, PrefixType DEF Vals, Sorted

LEMMA HeldIs ==
  ASSUME NEW s \in Session
  PROVE  /\ Held(<<>>, s) = <<>>
         /\ \A x \in Position : Held(<<x>>, s) = << [pos |-> x, from |-> s] >>
         /\ \A p \in Seq(Position) : Held(p, s) \in Seq(Message)
         /\ \A p, q \in Seq(Position) : Held(p \o q, s) = Held(p, s) \o Held(q, s)
<1>1. Held(<<>>, s) = <<>>
  BY DEF Held
<1>2. ASSUME NEW x \in Position
      PROVE  Held(<<x>>, s) = << [pos |-> x, from |-> s] >>
  BY DEF Held
<1>3. ASSUME NEW p \in Seq(Position)
      PROVE  Held(p, s) \in Seq(Message)
  <2>1. DOMAIN p = 1..Len(p) /\ Len(p) \in Nat /\ \A i \in 1..Len(p) : p[i] \in Position
    OBVIOUS
  <2>2. \A i \in 1..Len(p) : [pos |-> p[i], from |-> s] \in Message
    BY <2>1 DEF Message
  <2>3. Held(p, s) = [i \in 1..Len(p) |-> [pos |-> p[i], from |-> s]]
    BY <2>1 DEF Held
  <2>4. Held(p, s) \in [1..Len(p) -> Message]
    BY <2>2, <2>3
  <2> QED
    BY <2>1, <2>4
<1>4. ASSUME NEW p \in Seq(Position), NEW q \in Seq(Position)
      PROVE  Held(p \o q, s) = Held(p, s) \o Held(q, s)
  <2>1. ASSUME NEW r \in Seq(Position)
        PROVE  Held(r, s) \in Seq(Message) /\ Len(Held(r, s)) = Len(r)
               /\ \A i \in 1..Len(r) : Held(r, s)[i] = [pos |-> r[i], from |-> s]
    BY <1>3 DEF Held
  <2> DEFINE P == Held(p, s)
             Q == Held(q, s)
             pq == p \o q
             H == Held(pq, s)
  <2>2. /\ P \in Seq(Message) /\ Len(P) = Len(p)
        /\ \A i \in 1..Len(p) : P[i] = [pos |-> p[i], from |-> s]
    BY <2>1
  <2>3. /\ Q \in Seq(Message) /\ Len(Q) = Len(q)
        /\ \A i \in 1..Len(q) : Q[i] = [pos |-> q[i], from |-> s]
    BY <2>1
  <2>4. /\ pq \in Seq(Position) /\ Len(pq) = Len(p) + Len(q)
        /\ \A i \in 1..(Len(p) + Len(q)) : pq[i] = IF i <= Len(p) THEN p[i] ELSE q[i - Len(p)]
    BY ConcatProperties
  <2>5. /\ H \in Seq(Message) /\ Len(H) = Len(pq)
        /\ \A i \in 1..Len(pq) : H[i] = [pos |-> pq[i], from |-> s]
    BY <2>1, <2>4
  <2>6. Len(p) \in Nat /\ Len(q) \in Nat
    OBVIOUS
  <2> HIDE DEF P, Q, pq, H
  <2>7. /\ P \o Q \in Seq(Message) /\ Len(P \o Q) = Len(P) + Len(Q)
        /\ \A i \in 1..(Len(P) + Len(Q)) :
             (P \o Q)[i] = IF i <= Len(P) THEN P[i] ELSE Q[i - Len(P)]
    <3>1. P \in Seq(Message) /\ Q \in Seq(Message)
      BY <2>2, <2>3
    <3> QED
      BY <3>1, ConcatProperties
  <2>8. ASSUME NEW i \in 1..Len(H) PROVE H[i] = (P \o Q)[i]
    <3>1. i \in 1..(Len(p) + Len(q))
      BY <2>4, <2>5
    <3>2. i <= Len(p) => i \in 1..Len(p)
      BY <2>6, <3>1
    <3>3. ~(i <= Len(p)) => i - Len(p) \in 1..Len(q)
      BY <2>6, <3>1
    <3> QED
      BY <2>2, <2>3, <2>4, <2>5, <2>7, <3>1, <3>2, <3>3
  <2>9. H = P \o Q
    BY <2>2, <2>3, <2>4, <2>5, <2>7, <2>8, SeqEqual
  <2> QED
    BY <2>9 DEF P, Q, pq, H
<1> QED
  BY <1>1, <1>2, <1>3, <1>4

(* Sets of positions, each up to all that come after it. *)
Ladder(U, J, H, W, L, D, R, X) ==
  /\ UpTo(U, J) /\ UpTo(U, H) /\ UpTo(U, W) /\ UpTo(U, L) /\ UpTo(U, D) /\ UpTo(U, R)
  /\ UpTo(J, H) /\ UpTo(J, W) /\ UpTo(J, L) /\ UpTo(J, D) /\ UpTo(J, R)
  /\ UpTo(H, W) /\ UpTo(H, L) /\ UpTo(H, D) /\ UpTo(H, R)
  /\ UpTo(W, L) /\ UpTo(W, D) /\ UpTo(W, R)
  /\ UpTo(L, D) /\ UpTo(L, R)
  /\ UpTo(D, R)
  /\ UpTo(U \cup J \cup H \cup W \cup L \cup D \cup R, X)

(* SessionOrder, container by container. *)
Ordered(s) ==
  /\ Sorted(udp, s) /\ Sorted(wire[s], s)
  /\ Ladder(Vals(udp, s), Vals(joystickDataCh, s), Vals(handler[s], s), Vals(wire[s], s),
            Vals(Held(loop[s], s), s), Vals(Held(joystickData, s), s),
            Vals(Held(reading, s), s), {reported})

Types == Flags /\ Queues /\ PerSession /\ Labelled

(* Nothing is reported before the stick has been there. *)
ReportsPast == reported <= stick

LEMMA OnlyOne ==
  ASSUME NEW S, NEW q \in Seq(S), Len(q) <= 1, q # <<>>
  PROVE  q = <<Head(q)>> /\ Head(q) \in S /\ Tail(q) = <<>>
<1>1. Len(q) \in Nat \ {0} /\ Head(q) \in S /\ Tail(q) \in Seq(S)
      /\ Len(Tail(q)) = Len(q) - 1
  BY HeadTail
<1>2. Len(q) = 1
  <2> DEFINE n == Len(q)
  <2>1. n \in Nat \ {0} /\ n <= 1
    BY <1>1
  <2> HIDE DEF n
  <2>2. n = 1
    BY <2>1
  <2> QED
    BY <2>2 DEF n
<1>3. Head(q) = q[1]
  OBVIOUS
<1>4. <<Head(q)>> \in Seq(S) /\ Len(<<Head(q)>>) = 1 /\ <<Head(q)>>[1] = Head(q)
  BY <1>1, Short
<1>5. q = <<Head(q)>>
  <2>1. q = <<q[1]>>
    BY <1>2
  <2> QED
    BY <1>3, <2>1
<1>6. Tail(q) = <<>>
  <2>1. Len(Tail(q)) = 0
    BY <1>1, <1>2
  <2> QED
    BY <1>1, <2>1, EmptySeq
<1> QED
  BY <1>1, <1>5, <1>6

LEMMA HeldOne ==
  ASSUME NEW s \in Session, NEW x \in Position
  PROVE  Vals(Held(<<x>>, s), s) = {x}
<1>1. [pos |-> x, from |-> s] \in Message
  BY DEF Message
<1>2. Vals(<< [pos |-> x, from |-> s] >>, s) = {x}
  BY <1>1, ValsShort
<1> QED
  BY <1>2, HeldIs

LEMMA SortedShort ==
  ASSUME NEW s, NEW q \in Seq(Message), Len(q) <= 1
  PROVE  Sorted(q, s)
BY DEF Sorted

LEMMA PositionsOnly ==
  ASSUME Types, NEW s \in Session
  PROVE  Vals(udp, s) \cup Vals(joystickDataCh, s) \cup Vals(handler[s], s)
         \cup Vals(wire[s], s) \cup Vals(Held(loop[s], s), s)
         \cup Vals(Held(joystickData, s), s) \cup Vals(Held(reading, s), s) \subseteq Nat
<1>1. \A q \in Seq(Message) : Vals(q, s) \subseteq Nat
  <2> SUFFICES ASSUME NEW q \in Seq(Message), NEW i \in DOMAIN q PROVE q[i].pos \in Nat
    BY DEF Vals
  <2>1. q[i] \in Message
    OBVIOUS
  <2> QED
    BY <2>1, PositionType DEF Message
<1>2. \A q \in Seq(Position) : Vals(Held(q, s), s) \subseteq Nat
  BY <1>1, HeldIs
<1> QED
  BY <1>1, <1>2 DEF Types, Queues, PerSession

LEMMA OrderedIsOrder ==
  ASSUME Types, ReportsPast, NEW s \in Session, Ordered(s)
  PROVE  Sorted(Way(s), s)
<1> DEFINE H == Held(loop[s], s)
           D == Held(joystickData, s)
           R == Held(reading, s)
           Y == Held(<<reported>>, s)
           Z == Held(<<stick>>, s)
           X == Held(<<reported, stick>>, s)
<1>1. /\ udp \in Seq(Message) /\ joystickDataCh \in Seq(Message)
      /\ handler[s] \in Seq(Message) /\ wire[s] \in Seq(Message)
      /\ loop[s] \in Seq(Position) /\ joystickData \in Seq(Position)
      /\ reading \in Seq(Position) /\ stick \in Position /\ reported \in Position
      /\ Len(joystickDataCh) <= 1 /\ Len(handler[s]) <= 1
      /\ Len(loop[s]) <= 1 /\ Len(joystickData) <= 1 /\ Len(reading) <= 1
  BY DEF Types, Flags, Queues, PerSession
<1>2. /\ <<stick>> \in Seq(Position) /\ Len(<<stick>>) <= 1
      /\ <<reported>> \in Seq(Position) /\ Len(<<reported>>) <= 1
      /\ <<reported, stick>> \in Seq(Position)
      /\ <<reported, stick>> = <<reported>> \o <<stick>>
  BY <1>1, Short
<1>3. /\ H \in Seq(Message) /\ D \in Seq(Message) /\ R \in Seq(Message) /\ X \in Seq(Message)
      /\ Y \in Seq(Message) /\ Z \in Seq(Message)
      /\ Len(H) <= 1 /\ Len(D) <= 1 /\ Len(R) <= 1 /\ Len(Y) <= 1 /\ Len(Z) <= 1
      /\ X = Y \o Z
  <2>1. \A p \in Seq(Position) : Len(Held(p, s)) = Len(p)
    BY DEF Held
  <2>2. X = Y \o Z
    BY <1>2, HeldIs
  <2>3. /\ H \in Seq(Message) /\ D \in Seq(Message) /\ R \in Seq(Message) /\ X \in Seq(Message)
        /\ Y \in Seq(Message) /\ Z \in Seq(Message)
    BY <1>1, <1>2, HeldIs
  <2>4. Len(H) <= 1 /\ Len(D) <= 1 /\ Len(R) <= 1 /\ Len(Y) <= 1 /\ Len(Z) <= 1
    BY <1>1, <1>2, <2>1
  <2> QED
    BY <2>2, <2>3, <2>4
<1>4. Held(loop[s] \o joystickData \o reading \o <<reported, stick>>, s) = H \o D \o R \o X
  <2>1. loop[s] \o joystickData \in Seq(Position)
        /\ loop[s] \o joystickData \o reading \in Seq(Position)
    BY <1>1, ConcatProperties
  <2>2. Held(loop[s] \o joystickData, s) = H \o D
    BY <1>1, HeldIs
  <2>3. Held(loop[s] \o joystickData \o reading, s) = H \o D \o R
    <3> DEFINE p == loop[s] \o joystickData
    <3>1. p \in Seq(Position) /\ reading \in Seq(Position)
      BY <1>1, <2>1
    <3> HIDE DEF p
    <3>2. Held(p \o reading, s) = Held(p, s) \o Held(reading, s)
      BY <3>1, HeldIs
    <3> QED
      BY <2>2, <3>2 DEF p
  <2> QED
    BY <1>2, <2>1, <2>3, HeldIs
<1>5. Vals(Y, s) = {reported} /\ Vals(Z, s) = {stick}
  BY <1>1, HeldOne
<1>6. /\ Sorted(joystickDataCh, s) /\ Sorted(handler[s], s)
      /\ Sorted(H, s) /\ Sorted(D, s) /\ Sorted(R, s) /\ Sorted(Y, s) /\ Sorted(Z, s)
  BY <1>1, <1>3, SortedShort
<1>16. Sorted(X, s) /\ Vals(X, s) = {reported, stick}
  <2>1. UpTo(Vals(Y, s), Vals(Z, s))
    BY <1>5 DEF UpTo, ReportsPast
  <2> HIDE DEF X, Y, Z
  <2>2. Sorted(Y \o Z, s) /\ Vals(Y \o Z, s) = Vals(Y, s) \cup Vals(Z, s)
    BY <1>3, <1>6, <2>1, ValsCat
  <2> QED
    BY <1>3, <1>5, <2>2
<1>17. \A A : A \subseteq Nat /\ UpTo(A, {reported}) => UpTo(A, {reported, stick})
  <2>1. reported \in Nat /\ stick \in Nat /\ reported <= stick
    BY <1>1, PositionType DEF ReportsPast
  <2> QED
    BY <2>1 DEF UpTo
<1>18. Vals(udp, s) \cup Vals(joystickDataCh, s) \cup Vals(handler[s], s)
         \cup Vals(wire[s], s) \cup Vals(H, s) \cup Vals(D, s) \cup Vals(R, s) \subseteq Nat
  BY PositionsOnly
<1> HIDE DEF H, D, R, X, Y, Z
<1>7. /\ Sorted(udp, s) /\ Sorted(wire[s], s)
      /\ Ladder(Vals(udp, s), Vals(joystickDataCh, s), Vals(handler[s], s),
                Vals(wire[s], s), Vals(H, s), Vals(D, s), Vals(R, s), Vals(X, s))
  <2>1. Ladder(Vals(udp, s), Vals(joystickDataCh, s), Vals(handler[s], s),
                Vals(wire[s], s), Vals(H, s), Vals(D, s), Vals(R, s), {reported})
    BY DEF Ordered, H, D, R
  <2> QED
    BY <1>16, <1>17, <1>18, <2>1 DEF Ordered, Ladder
<1> DEFINE a == udp \o joystickDataCh
           b == a \o handler[s]
           c == b \o wire[s]
           d == H \o D
           e == d \o R
           f == e \o X
<1>8. a \in Seq(Message) /\ Sorted(a, s) /\ Vals(a, s) = Vals(udp, s) \cup Vals(joystickDataCh, s)
  BY <1>1, <1>6, <1>7, ValsCat, ConcatProperties DEF Ladder
<1>9. d \in Seq(Message) /\ Sorted(d, s) /\ Vals(d, s) = Vals(H, s) \cup Vals(D, s)
  BY <1>3, <1>6, <1>7, ValsCat, ConcatProperties DEF Ladder
<1> HIDE DEF a, d
<1>10. b \in Seq(Message) /\ Sorted(b, s) /\ Vals(b, s) = Vals(a, s) \cup Vals(handler[s], s)
  <2>1. UpTo(Vals(a, s), Vals(handler[s], s))
    BY <1>7, <1>8 DEF Ladder, UpTo
  <2> QED
    BY <1>1, <1>6, <1>8, <2>1, ValsCat, ConcatProperties
<1>11. e \in Seq(Message) /\ Sorted(e, s) /\ Vals(e, s) = Vals(d, s) \cup Vals(R, s)
  <2>1. UpTo(Vals(d, s), Vals(R, s))
    BY <1>7, <1>9 DEF Ladder, UpTo
  <2> QED
    BY <1>3, <1>6, <1>9, <2>1, ValsCat, ConcatProperties
<1> HIDE DEF b, e
<1>12. c \in Seq(Message) /\ Sorted(c, s) /\ Vals(c, s) = Vals(b, s) \cup Vals(wire[s], s)
  <2>1. UpTo(Vals(b, s), Vals(wire[s], s))
    BY <1>7, <1>8, <1>10 DEF Ladder, UpTo
  <2> QED
    BY <1>1, <1>7, <1>10, <2>1, ValsCat, ConcatProperties
<1>13. f \in Seq(Message) /\ Sorted(f, s) /\ Vals(f, s) = Vals(e, s) \cup Vals(X, s)
  <2>1. UpTo(Vals(e, s), Vals(X, s))
    BY <1>7, <1>9, <1>11 DEF Ladder, UpTo
  <2> QED
    BY <1>3, <1>11, <1>16, <2>1, ValsCat, ConcatProperties
<1> HIDE DEF c, f
<1>14. UpTo(Vals(c, s), Vals(f, s))
  BY <1>7, <1>8, <1>9, <1>10, <1>11, <1>12, <1>13 DEF Ladder, UpTo
<1>15. Sorted(c \o f, s)
  BY <1>12, <1>13, <1>14, ValsCat
<1> QED
  BY <1>4, <1>15 DEF Way, a, b, c, d, e, f

LEMMA OrderedInit ==
  ASSUME Init, NEW s \in Session PROVE Ordered(s)
<1>1. /\ udp = <<>> /\ joystickDataCh = <<>> /\ handler[s] = <<>> /\ wire[s] = <<>>
      /\ loop[s] = <<>> /\ joystickData = <<>> /\ reading = <<>>
  BY DEF Init, PathInit
<1>2. Held(<<>>, s) = <<>> /\ Vals(<<>>, s) = {} /\ Sorted(<<>>, s)
  BY HeldIs, ValsShort
<1> QED
  BY <1>1, <1>2 DEF Ordered, Ladder, UpTo

-----------------------------------------------------------------------------
(* Steps *)

LEMMA OrderedControllerEnds ==
  ASSUME ControllerEnds, NEW s \in Session, Ordered(s)
  PROVE  Ordered(s)'
<1>1. /\ udp' = udp /\ joystickDataCh' = joystickDataCh /\ handler' = handler
      /\ wire' = wire /\ loop' = [t \in Session |-> <<>>] /\ joystickData' = <<>>
      /\ reading' = <<>> /\ reported' = reported
  BY DEF ControllerEnds, stickVars, roverVars
<1>2. Vals(Held(<<>>, s), s) = {}
  BY HeldIs, ValsShort
<1> QED
  BY <1>1, <1>2 DEF Ordered, Ladder, UpTo

(* A step of session t, as session s sees it. *)
LEMMA OrderedSession ==
  ASSUME Types, NEW s \in Session, Ordered(s), NEW t \in Session, SessionStep(t)
  PROVE  Ordered(s)'
<1>0. /\ joystickData \in Seq(Position) /\ Len(joystickData) <= 1
      /\ joystickDataCh \in Seq(Message) /\ Len(joystickDataCh) <= 1
      /\ loop \in [Session -> Seq(Position)] /\ Len(loop[t]) <= 1
      /\ wire \in [Session -> Seq(Message)]
      /\ handler \in [Session -> Seq(Message)] /\ Len(handler[t]) <= 1
  BY DEF Types, Queues, PerSession
<1>E. Vals(Held(<<>>, s), s) = {} /\ Vals(<<>>, s) = {} /\ Sorted(<<>>, s)
  BY HeldIs, ValsShort
<1>1. CASE LoopTakes(t)
  <2>1. /\ loop[t] = <<>> /\ joystickData # <<>>
        /\ loop' = [loop EXCEPT ![t] = <<Head(joystickData)>>]
        /\ joystickData' = Tail(joystickData)
        /\ udp' = udp /\ joystickDataCh' = joystickDataCh /\ handler' = handler
        /\ wire' = wire /\ reading' = reading /\ reported' = reported
    BY <1>1 DEF LoopTakes, stickVars, roverVars
  <2>2. joystickData = <<Head(joystickData)>> /\ Tail(joystickData) = <<>>
    BY <1>0, <2>1, OnlyOne
  <2>3. loop'[s] = loop[s] \/ (loop[s] = <<>> /\ loop'[s] = joystickData)
    BY <1>0, <2>1, <2>2
  <2> QED
    BY <1>E, <2>1, <2>2, <2>3 DEF Ordered, Ladder, UpTo
<1>2. CASE LoopSends(t)
  <2>1. /\ loop[t] # <<>> /\ loop' = [loop EXCEPT ![t] = <<>>]
        /\ wire' = [wire EXCEPT ![t] = Append(@, [pos |-> Head(loop[t]), from |-> t])]
        /\ udp' = udp /\ joystickDataCh' = joystickDataCh /\ handler' = handler
        /\ joystickData' = joystickData /\ reading' = reading /\ reported' = reported
    BY <1>2 DEF LoopSends, stickVars, roverVars
  <2>2. CASE s # t
    BY <1>0, <2>1, <2>2 DEF Ordered, Ladder
  <2>3. CASE s = t
    <3>1. loop[s] = <<Head(loop[s])>> /\ Head(loop[s]) \in Position
      BY <1>0, <2>1, <2>3, OnlyOne
    <3> DEFINE m == [pos |-> Head(loop[s]), from |-> s]
    <3>2. m \in Message /\ Held(loop[s], s) = <<m>>
      BY <3>1, HeldIs DEF Message
    <3> HIDE DEF m
    <3>3. wire'[s] = wire[s] \o <<m>> /\ loop'[s] = <<>>
      BY <1>0, <2>1, <2>3 DEF m
    <3>4. <<m>> \in Seq(Message) /\ Sorted(<<m>>, s)
      BY <3>2, ValsShort, Short
    <3>5. Vals(wire'[s], s) = Vals(wire[s], s) \cup Vals(Held(loop[s], s), s)
      BY <1>0, <3>2, <3>3, <3>4, ValsCat
    <3>6. Sorted(wire'[s], s)
      BY <1>0, <3>2, <3>3, <3>4, ValsCat DEF Ordered, Ladder
    <3> QED
      BY <1>E, <2>1, <3>3, <3>5, <3>6 DEF Ordered, Ladder, UpTo
  <2> QED
    BY <2>2, <2>3
<1>3. CASE LoopPanics(t)
  BY <1>3, OrderedControllerEnds DEF LoopPanics
<1>4. CASE ChannelOpens(t)
  BY <1>4 DEF ChannelOpens, controllerVars, stickVars, roverVars, Ordered, Ladder
<1>5. CASE ChannelCloses(t)
  <2>1. PICK n \in 0..Len(wire[t]) : wire' = [wire EXCEPT ![t] = SubSeq(@, 1, n)]
    BY <1>5 DEF ChannelCloses
  <2>2. /\ udp' = udp /\ joystickDataCh' = joystickDataCh /\ handler' = handler
        /\ loop' = loop /\ joystickData' = joystickData /\ reading' = reading
        /\ reported' = reported
    BY <1>5 DEF ChannelCloses, controllerVars, stickVars, roverVars
  <2>3. Vals(wire'[s], s) \subseteq Vals(wire[s], s) /\ Sorted(wire'[s], s)
    BY <1>0, <2>1, ValsPrefix DEF Ordered
  <2> QED
    BY <2>2, <2>3 DEF Ordered, Ladder, UpTo
<1>6. CASE OnMessage(t)
  <2>1. /\ handler[t] = <<>> /\ wire[t] # <<>>
        /\ handler' = [handler EXCEPT ![t] = <<Head(wire[t])>>]
        /\ wire' = [wire EXCEPT ![t] = Tail(@)]
        /\ udp' = udp /\ joystickDataCh' = joystickDataCh
        /\ loop' = loop /\ joystickData' = joystickData /\ reading' = reading
        /\ reported' = reported
    BY <1>6 DEF OnMessage, controllerVars, stickVars
  <2>2. CASE s # t
    BY <1>0, <2>1, <2>2 DEF Ordered, Ladder
  <2>3. CASE s = t
    <3> DEFINE m == Head(wire[s])
    <3>1. /\ m \in Message /\ handler'[s] = <<m>> /\ wire'[s] = Tail(wire[s])
          /\ wire[s] \in Seq(Message) /\ wire[s] # <<>> /\ handler[s] = <<>>
      BY <1>0, <2>1, <2>3, HeadTail
    <3>2. m.from = s
      BY <1>0, <2>1, <2>3 DEF Types, Labelled
    <3>3. /\ m.pos \in Vals(wire[s], s) /\ Vals(wire'[s], s) \subseteq Vals(wire[s], s)
          /\ Sorted(wire'[s], s) /\ UpTo({m.pos}, Vals(wire'[s], s))
      BY <3>1, <3>2, ValsTail DEF Ordered
    <3> HIDE DEF m
    <3>4. Vals(handler'[s], s) = {m.pos}
      BY <3>1, <3>2, ValsShort
    <3> QED
      BY <2>1, <3>3, <3>4 DEF Ordered, Ladder, UpTo
  <2> QED
    BY <2>2, <2>3
<1>7. CASE OnMessageDone(t)
  <2>1. /\ Len(joystickDataCh) < 1 /\ handler' = [handler EXCEPT ![t] = <<>>]
        /\ joystickDataCh' = joystickDataCh \o handler[t]
        /\ udp' = udp /\ wire' = wire /\ loop' = loop /\ joystickData' = joystickData
        /\ reading' = reading /\ reported' = reported
    BY <1>7 DEF OnMessageDone, controllerVars, stickVars, ChanCap
  <2>2. joystickDataCh = <<>> /\ joystickDataCh' = handler[t]
    BY <1>0, <2>1, Short
  <2>3. CASE s # t
    <3>1. Vals(handler[t], s) = {}
      BY <2>3 DEF Vals, Types, Labelled
    <3> QED
      BY <1>0, <2>1, <2>2, <2>3, <3>1 DEF Ordered, Ladder, UpTo
  <2>4. CASE s = t
    <3>1. joystickDataCh' = handler[s] /\ handler'[s] = <<>>
      BY <1>0, <2>1, <2>2, <2>4
    <3> QED
      BY <1>E, <2>1, <3>1 DEF Ordered, Ladder, UpTo
  <2> QED
    BY <2>3, <2>4
<1> QED
  BY <1>1, <1>2, <1>3, <1>4, <1>5, <1>6, <1>7 DEF SessionStep

(* Moving on never disturbs the order. *)
LEMMA OrderedNext ==
  ASSUME Types, [Next]_vars, NEW s \in Session, Ordered(s)
  PROVE  Ordered(s)'
<1>1. CASE MoveStick
  BY <1>1 DEF MoveStick, roverVars, Ordered, Ladder
<1>2. CASE ReadStick
  <2>1. PICK p \in reported..stick : reported' = p /\ reading' = <<p>>
    BY <1>2 DEF ReadStick
  <2>2. /\ reading = <<>>
        /\ udp' = udp /\ joystickDataCh' = joystickDataCh /\ handler' = handler
        /\ wire' = wire /\ loop' = loop /\ joystickData' = joystickData
    BY <1>2 DEF ReadStick, roverVars
  <2>3. /\ p \in Position /\ Vals(Held(<<p>>, s), s) = {p}
        /\ reported \in Nat /\ p \in Nat /\ reported <= p
    BY <2>1, PositionType, HeldOne DEF Types, Flags, Position
  <2> DEFINE V == Vals(udp, s) \cup Vals(joystickDataCh, s) \cup Vals(handler[s], s)
         \cup Vals(wire[s], s) \cup Vals(Held(loop[s], s), s)
         \cup Vals(Held(joystickData, s), s) \cup Vals(Held(reading, s), s)
  <2>4. V \subseteq Nat /\ UpTo(V, {reported})
    BY PositionsOnly DEF Ordered, Ladder
  <2> HIDE DEF V
  <2>5. UpTo(V, {p}) /\ UpTo({p}, {p})
    BY <2>3, <2>4 DEF UpTo
  <2> QED
    BY <2>1, <2>2, <2>3, <2>5 DEF Ordered, Ladder, UpTo, V
<1>3. CASE PutStick
  <2>1. joystickData' = reading /\ reading' = <<>> /\ joystickData = <<>>
    <3>1. /\ joystickData \in Seq(Position) /\ reading \in Seq(Position)
          /\ Len(joystickData) < 1
          /\ joystickData' = joystickData \o reading /\ reading' = <<>>
      BY <1>3 DEF PutStick, Types, Queues, ChanCap
    <3> QED
      BY <3>1, Short
  <2>2. /\ udp' = udp /\ joystickDataCh' = joystickDataCh /\ handler' = handler
        /\ wire' = wire /\ loop' = loop /\ reported' = reported
    BY <1>3 DEF PutStick, stickVars, roverVars
  <2>3. Vals(Held(<<>>, s), s) = {}
    BY HeldIs, ValsShort
  <2> QED
    BY <2>1, <2>2, <2>3 DEF Ordered, Ladder, UpTo
<1>4. ASSUME NEW t \in Session, SessionStep(t)
      PROVE  Ordered(s)'
  BY <1>4, OrderedSession
<1>5. CASE CmdService(on)
  <2>1. /\ udp' = udp \/ udp' = udp \o joystickDataCh
        /\ joystickDataCh' = <<>>
        /\ handler' = handler /\ wire' = wire /\ loop' = loop
        /\ joystickData' = joystickData /\ reading' = reading /\ reported' = reported
    BY <1>5 DEF CmdService, controllerVars, stickVars
  <2>2. /\ udp \in Seq(Message) /\ joystickDataCh \in Seq(Message)
        /\ Len(joystickDataCh) <= 1
    BY DEF Types, Queues
  <2>3. /\ Vals(udp', s) \subseteq Vals(udp, s) \cup Vals(joystickDataCh, s)
        /\ Sorted(udp', s)
    <3>1. UpTo(Vals(udp, s), Vals(joystickDataCh, s)) /\ Sorted(udp, s)
      BY DEF Ordered, Ladder
    <3>2. Sorted(joystickDataCh, s)
      BY <2>2, SortedShort
    <3>3. Vals(udp \o joystickDataCh, s) = Vals(udp, s) \cup Vals(joystickDataCh, s)
          /\ Sorted(udp \o joystickDataCh, s)
      BY <2>2, <3>1, <3>2, ValsCat
    <3> QED
      BY <2>1, <3>1, <3>3
  <2>4. Vals(joystickDataCh', s) = {}
    BY <2>1, ValsShort
  <2> QED
    BY <2>1, <2>3, <2>4 DEF Ordered, Ladder, UpTo
<1>6. CASE ControllerEnds
  BY <1>6, OrderedControllerEnds
<1>7. CASE RoverEnds
  <2>1. /\ udp' = udp /\ joystickDataCh' = <<>> /\ handler' = [t \in Session |-> <<>>]
        /\ wire' = wire /\ loop' = loop /\ joystickData' = joystickData
        /\ reading' = reading /\ reported' = reported
    BY <1>7 DEF RoverEnds, controllerVars, stickVars
  <2>2. Vals(joystickDataCh', s) = {} /\ Vals(handler'[s], s) = {}
    BY <2>1, ValsShort
  <2> QED
    BY <2>1, <2>2 DEF Ordered, Ladder, UpTo
<1>8. CASE Obey \/ DriverStops
  <2>1. /\ joystickDataCh' = joystickDataCh /\ handler' = handler /\ wire' = wire
        /\ loop' = loop /\ joystickData' = joystickData /\ reading' = reading
        /\ reported' = reported
        /\ udp' = <<>> \/ (udp # <<>> /\ udp' = Tail(udp))
    <3>1. CASE Obey
      BY <3>1 DEF Obey, controllerVars, stickVars, roverVars
    <3>2. CASE DriverStops
      BY <3>2 DEF DriverStops, controllerVars, stickVars, roverVars
    <3> QED
      BY <1>8, <3>1, <3>2
  <2>2. udp \in Seq(Message)
    BY DEF Types, Queues
  <2>3. Vals(udp', s) \subseteq Vals(udp, s) /\ Sorted(udp', s)
    <3>1. CASE udp' = <<>>
      BY <3>1, ValsShort
    <3>2. CASE udp # <<>> /\ udp' = Tail(udp)
      BY <2>2, <3>2, ValsTail DEF Ordered
    <3> QED
      BY <2>1, <3>1, <3>2
  <2> QED
    BY <2>1, <2>3 DEF Ordered, Ladder, UpTo
<1>9. CASE DriverStarts \/ UNCHANGED vars
  BY <1>9 DEF DriverStarts, vars, pathVars, controllerVars, stickVars, roverVars, Ordered, Ladder
<1> QED
  BY <1>1, <1>2, <1>3, <1>4, <1>5, <1>6, <1>7, <1>8, <1>9 DEF Next, PathStep

(* What is left alone but by MoveStick and ReadStick. *)
LEMMA ReportsPastNext ==
  ASSUME Types, ReportsPast, [Next]_vars
  PROVE  ReportsPast'
<1>1. stick \in Nat /\ reported \in Nat
  BY PositionType DEF Types, Flags
<1>2. CASE MoveStick \/ ReadStick
  BY <1>1, <1>2 DEF MoveStick, ReadStick, ReportsPast
<1>3. ASSUME NEW s \in Session, SessionStep(s) PROVE UNCHANGED stickVars
  BY <1>3 DEF SessionStep, LoopTakes, LoopSends, LoopPanics, ControllerEnds, ChannelOpens,
     ChannelCloses, OnMessage, OnMessageDone, controllerVars, stickVars
<1>4. CASE \/ PutStick \/ CmdService(on) \/ ControllerEnds \/ RoverEnds
           \/ Obey \/ DriverStarts \/ DriverStops \/ UNCHANGED vars
  <2>1. UNCHANGED stickVars
    BY <1>4 DEF PutStick, CmdService, ControllerEnds, RoverEnds, Obey, DriverStarts,
       DriverStops, vars, pathVars, controllerVars, stickVars
  <2> QED
    BY <2>1 DEF stickVars, ReportsPast
<1> QED
  BY <1>2, <1>3, <1>4 DEF Next, PathStep, stickVars, ReportsPast

PathInv == TypeOK /\ Labelled /\ ReportsPast /\ \A s \in Session : Ordered(s)

LEMMA PathInvHolds == Spec => []PathInv
<1>1. Init => PathInv
  <2>1. Init => ReportsPast
    BY DEF Init, PathInit, ReportsPast
  <2> QED
    BY <2>1, PathTypeInit, OrderedInit DEF PathInv
<1>2. PathInv /\ [Next]_vars => PathInv'
  <2> SUFFICES ASSUME PathInv, [Next]_vars PROVE PathInv'
    OBVIOUS
  <2>1. TypeOK' /\ Labelled'
    BY PathTypeNext DEF PathInv
  <2>2. ASSUME NEW s \in Session PROVE Ordered(s)'
    BY OrderedNext, InParts DEF PathInv, Types
  <2>3. ReportsPast'
    BY ReportsPastNext, InParts DEF PathInv, Types
  <2> QED
    BY <2>1, <2>2, <2>3 DEF PathInv
<1> QED
  BY <1>1, <1>2, PTL DEF Spec

(* Every variable of the command path has its type and no Go channel of it *)
(* holds more than one element (main/controllerd.go:28,                    *)
(* rover/service.go:28).                                                   *)
THEOREM PathTypeCorrect == Spec => []TypeOK
<1>1. PathInv => TypeOK
  BY DEF PathInv
<1> QED
  BY <1>1, PathInvHolds, PTL

(* A session never brings the driver an older position after a newer one,  *)
(* for every number of sessions and reports and every capacity, whoever    *)
(* shares the channels, whatever closes and whatever ends                  *)
(* (joystick/joystick.go:119, controller/service.go:123,                   *)
(* rover/service.go:78, 129).                                              *)
THEOREM SessionOrderHolds == Spec => []SessionOrder
<1>1. PathInv => SessionOrder
  <2> SUFFICES ASSUME PathInv, NEW s \in Session PROVE Sorted(Way(s), s)
    BY DEF SessionOrder, Sorted
  <2> QED
    BY OrderedIsOrder, InParts DEF PathInv, Types
<1> QED
  BY <1>1, PathInvHolds, PTL

=============================================================================
