------------------------------- MODULE Driver -------------------------------
(***************************************************************************)
(* The device driver: driver/drive.py turns each datagram of stick bytes   *)
(* into pulses on four channels of a PCA9685 (driver/PCA9685.py), which it *)
(* writes one register at a time while the chip keeps generating pulses.   *)
(*                                                                         *)
(* Python's floating point is exact here up to the last division, so the   *)
(* model computes in integers: motor pulses in 1/128 us, camera angles in  *)
(* 1/128 degree.  A pulse in the registers is in counts of 20000/4096 us.  *)
(***************************************************************************)
EXTENDS Datagrams

VARIABLES
  regs,     \* the chip's four registers of each channel
  data,     \* the last datagram received since the start, or None
  phase,    \* "off", "boot", "recv" (in recvfrom) or "write"
  step      \* register writes done for data

driverVars == <<regs, data, phase, step>>

CAM_X == 0
CAM_Y == 1
LEFT_MOTOR == 2
RIGHT_MOTOR == 3
Channel == CAM_X..RIGHT_MOTOR

(* The registers of a channel in address order. *)
ON_L == 0
ON_H == 1
OFF_L == 2
OFF_H == 3
Register == ON_L..OFF_H

-----------------------------------------------------------------------------
(* Arithmetic *)

(* int.from_bytes(.., signed=True) of one byte *)
Signed(b) == IF b < 128 THEN b ELSE b - 256

(* In 1/128 us: y / 128.0 * 1000 + 1500, minus and plus x / 128.0 * 200. *)
LeftPulse(x, y) == 1000 * y + 192000 - 200 * x

RightPulse(x, y) == 1000 * y + 192000 + 200 * x

(* Mutant: counts for 100 Hz. *)
ServoCountsFast(pulse) == (2 * pulse) \div 625

(* int(pulse * 4096 / 20000) for a positive pulse in 1/128 us *)
ServoCounts(pulse) == pulse \div 625

(* The counts of angle * (2000 / 180) + 501 us, for 1/128 degree. *)
AngleCounts(angle) == (100 * angle + 577152) \div 5625

AngleInRange(angle) == 0 <= angle /\ angle <= 180 * 128

CamXAngle(x) == 160 * 128 - (70 * x + 90 * 128)

(* Mutant: without min(.., 180). *)
CamYAngleFree(y) == 70 * y + 120 * 128

CamYAngle(y) ==
  LET angle == 70 * y + 120 * 128
  IN  IF angle < 180 * 128 THEN angle ELSE 180 * 128

(* Mutant: the left motor is not reversed. *)
CountsUnreversed(d) ==
  [ch \in Channel |->
     CASE ch = LEFT_MOTOR  -> ServoCounts(LeftPulse(Signed(d[1]), Signed(d[2])))
       [] ch = RIGHT_MOTOR -> ServoCounts(RightPulse(Signed(d[1]), Signed(d[2])))
       [] ch = CAM_X       -> AngleCounts(CamXAngle(Signed(d[3])))
       [] ch = CAM_Y       -> AngleCounts(CamYAngle(Signed(d[4])))]

(* What the body of the loop asks of the channels.  A datagram is left x,  *)
(* left y, right x, right y; the left motor is mounted in reverse.         *)
Counts(d) ==
  [ch \in Channel |->
     CASE ch = LEFT_MOTOR  -> ServoCounts(3000 * 128 - LeftPulse(Signed(d[1]), Signed(d[2])))
       [] ch = RIGHT_MOTOR -> ServoCounts(RightPulse(Signed(d[1]), Signed(d[2])))
       [] ch = CAM_X       -> AngleCounts(CamXAngle(Signed(d[3])))
       [] ch = CAM_Y       -> AngleCounts(CamYAngle(Signed(d[4])))]

(* setRotationAngle prints "Angle out of range" and writes nothing. *)
Rejected(d, ch) ==
  \/ ch = CAM_X /\ ~AngleInRange(CamXAngle(Signed(d[3])))
  \/ ch = CAM_Y /\ ~AngleInRange(CamYAngle(Signed(d[4])))

(* What drive() asks of them before it listens. *)
BootCounts ==
  [ch \in Channel |-> IF ch \in {CAM_X, CAM_Y} THEN AngleCounts(180 * 128)
                                               ELSE ServoCounts(1501 * 128)]

Wanted(ch) == IF data = None THEN BootCounts[ch] ELSE Counts(data)[ch]

-----------------------------------------------------------------------------
(* Registers *)

(* The channel that write number n of a round goes to: drive() starts with *)
(* the cameras, the loop with the motors.                                  *)
ChannelOf(ph, n) == IF ph = "boot" THEN n \div 4 ELSE (n \div 4 + 2) % 4

RegisterOf(n) == n % 4

(* Mutant: the low byte is not masked. *)
RegisterValueUnmasked(reg, off) ==
  CASE reg = OFF_L -> off
    [] reg = OFF_H -> off \div 256
    [] OTHER       -> 0

(* setPWM(channel, 0, off) *)
RegisterValue(reg, off) ==
  CASE reg = OFF_L -> off % 256
    [] reg = OFF_H -> off \div 256
    [] OTHER       -> 0

Written(ch) == 256 * regs[ch][OFF_H] + regs[ch][OFF_L]

(* The chip powers up with bit 4 of every OFF_H set: fully off. *)
PowerUp == [ch \in Channel |-> [reg \in Register |-> IF reg = OFF_H THEN 16 ELSE 0]]

-----------------------------------------------------------------------------
DriverInit ==
  /\ regs = PowerUp
  /\ data = None
  /\ phase = "off"
  /\ step = 0

(* drive() up to the loop.  The socket is bound once the writes are done. *)
DriverBoot ==
  /\ phase = "off"
  /\ phase' = "boot"
  /\ step' = 0
  /\ UNCHANGED <<regs, data>>

(* Mutant: the socket is bound and read before the first writes are done. *)
ReceiveEarly(d) ==
  /\ phase \in {"boot", "recv"}
  /\ phase' = "write"
  /\ data' = d
  /\ step' = 0
  /\ UNCHANGED regs

(* conn.recvfrom returns d *)
Receive(d) ==
  /\ phase = "recv"
  /\ phase' = "write"
  /\ data' = d
  /\ step' = 0
  /\ UNCHANGED regs

NextWrite(last) ==
  /\ step' = step + 1
  /\ phase' = IF step = last THEN "recv" ELSE phase
  /\ UNCHANGED data

(* Mutant: the high byte of a value is written before its low byte. *)
WriteHighFirst ==
  /\ phase \in {"boot", "write"}
  /\ LET ch  == ChannelOf(phase, step)
         reg == (<<ON_L, ON_H, OFF_H, OFF_L>>)[RegisterOf(step) + 1]
     IN  regs' = [regs EXCEPT ![ch][reg] = RegisterValue(reg, Wanted(ch))]
  /\ NextWrite(15)

(* One bus.write_byte_data, or the turn of a rejected one. *)
WriteRegister ==
  /\ phase \in {"boot", "write"}
  /\ LET ch  == ChannelOf(phase, step)
         reg == RegisterOf(step)
     IN  IF data # None /\ Rejected(data, ch)
         THEN UNCHANGED regs
         ELSE regs' = [regs EXCEPT ![ch][reg] = RegisterValue(reg, Wanted(ch))]
  /\ NextWrite(15)

(* A bus error ends the process, or someone does.  The chip goes on with   *)
(* what its registers hold.                                                *)
DriverDies ==
  /\ phase # "off"
  /\ phase' = "off"
  /\ data' = None
  /\ UNCHANGED <<regs, step>>

DriverNext ==
  \/ DriverBoot
  \/ \E d \in StickData : Receive(d)
  \/ WriteRegister
  \/ DriverDies

DriverSpec == DriverInit /\ [][DriverNext]_driverVars

-----------------------------------------------------------------------------
(* Every variable has its type; a register holds a byte. *)
DriverTypeOK ==
  /\ regs \in [Channel -> [Register -> Byte]]
  /\ data \in StickData \cup {None}
  /\ phase \in {"off", "boot", "recv", "write"}
  /\ step \in 0..16

(* When the driver waits for the next datagram, all four channels show the *)
(* pulses of one and the same stick position, the last one it received:    *)
(* no register is left over from an earlier one, and no angle is ever out  *)
(* of range (driver/drive.py:42-56, driver/PCA9685.py:74-93).              *)
Settled == phase = "recv" => \A ch \in Channel : Written(ch) = Wanted(ch)

(* Between the writes of OFF_L and OFF_H a channel shows a pulse nobody    *)
(* asked for, made of the high byte of one and the low byte of another.    *)
(* It is less than 256 counts (1.25 ms) away from the one shown before:    *)
(* every single write moves a pulse by less than that or completes it      *)
(* (driver/PCA9685.py:74-79).                                              *)
TornPulseNear ==
  [][\A ch \in Channel :
       LET before == Written(ch)
           after  == 256 * regs'[ch][OFF_H] + regs'[ch][OFF_L]
       IN  \/ before - after \in -255..255
           \/ after = Wanted(ch)]_driverVars

(* Torn or whole, once written a pulse is below 768 counts (3.75 of the    *)
(* 20 ms), it starts with the frame, and the full-on and full-off bits of  *)
(* the chip are never set by a write (driver/PCA9685.py:74-86).            *)
PulseBounded ==
  \A ch \in Channel :
    /\ regs[ch][ON_L] = 0 /\ regs[ch][ON_H] = 0
    /\ \/ regs[ch][OFF_H] \in 0..2
       \/ regs[ch][OFF_H] = 16 /\ phase \in {"off", "boot"}

(* The motors are mounted mirrored, so equal speeds are pulses that lie    *)
(* symmetric about 1500 us.  However hard the stick is pulled, the driver  *)
(* never leaves them further from that than twice max_difference (400 us,  *)
(* 82 counts): full speed adds nothing to a turn (driver/drive.py:16-20,   *)
(* 49-53).                                                                 *)
TurnBounded ==
  phase = "recv" => Written(LEFT_MOTOR) + Written(RIGHT_MOTOR) - 614 \in -83..83

(* The driver is the Actuator that the command path counts on: it listens  *)
(* only once all four channels are set, takes nothing while it writes, and *)
(* starts afresh after a crash (driver/drive.py:23-56).                    *)
Promise == INSTANCE Actuator WITH
  on <- phase \in {"recv", "write"},
  asked <- data

Actuates == Promise!ActuatorSpec

=============================================================================
