---------------------------- MODULE CommandPath ----------------------------
(***************************************************************************)
(* The way of a stick position from joystick.Run in the controller to the  *)
(* driver's UDP socket on the rover:                                       *)
(*                                                                         *)
(*   Run -> joystickData -> OnOpen loop -> data channel -> OnMessage       *)
(*       -> joystickDataCh -> cmdService -> UDP                            *)
(*                                                                         *)
(* There is one Run, one cmdService and one of each Go channel, but one    *)
(* OnOpen loop, data channel and OnMessage handler per WebRTC session, and *)
(* sessions overlap.  An OnOpen loop has no way to end but the end of the  *)
(* process.                                                                *)
(*                                                                         *)
(* Positions are numbered in the order the stick takes them; what is read  *)
(* and sent is such a number, Report maps it to the device's report.       *)
(***************************************************************************)
EXTENDS Integers, Sequences

CONSTANTS
  Report,      \* the reports of the stick, one per position, four axes each
  Sessions,    \* bound: how many sessions open a data channel
  WireCap,     \* bound: messages under way in a data channel
  UdpCap       \* datagrams the kernel holds for the driver

(* Four signed 16 bit values. *)
Axes == [1..4 -> -32768..32767]

ASSUME PathAssumption ==
  /\ Report \in Seq(Axes) /\ Report # <<>>
  /\ Sessions \in Nat \ {0}
  /\ WireCap \in Nat \ {0}
  /\ UdpCap \in Nat \ {0}

VARIABLES
  controllerUp,    \* the controller's process
  roverUp,         \* the rover's process
  stick,           \* the position the stick is in
  reported,        \* the newest position Run has read
  reading,         \* what Run has read and not yet put into joystickData
  joystickData,    \* the controller's channel
  channel,         \* per session: "none", "open" or "closed"
  loop,            \* what an OnOpen loop has received and not yet sent
  wire,            \* what is under way in a data channel
  handler,         \* the message an OnMessage call has not yet handed over
  joystickDataCh,  \* the rover's channel
  refused,         \* the kernel holds a refusal for cmdService's socket
  udp              \* the driver's socket buffer

stickVars == <<stick, reported>>
controllerVars == <<stickVars, reading, joystickData, loop>>
roverVars == <<handler, joystickDataCh, refused>>
pathVars == <<controllerUp, roverUp, channel, wire, udp, controllerVars, roverVars>>

Session == 1..Sessions
Position == 1..Len(Report)

-----------------------------------------------------------------------------
(* ReadOnce: the high bytes of four little-endian 16 bit axes, as bytes.   *)
StickByte(axis) == (axis \div 256) % 256

ReadOnce(p) == [i \in 1..4 |-> StickByte(Report[p][i])]

ChanCap == 1

(* What is under way carries its session, so that properties can tell. *)
Message == [pos : Position, from : Session]

-----------------------------------------------------------------------------
PathInit ==
  /\ controllerUp = TRUE
  /\ roverUp = TRUE
  /\ stick = 1
  /\ reported = 1
  /\ reading = <<>>
  /\ joystickData = <<>>
  /\ channel = [s \in Session |-> "none"]
  /\ loop = [s \in Session |-> <<>>]
  /\ wire = [s \in Session |-> <<>>]
  /\ handler = [s \in Session |-> <<>>]
  /\ joystickDataCh = <<>>
  /\ refused = FALSE
  /\ udp = <<>>

(* Somebody moves the stick. *)
MoveStick ==
  /\ stick < Len(Report)
  /\ stick' = stick + 1
  /\ UNCHANGED <<controllerUp, roverUp, channel, wire, udp, reported,
                 reading, joystickData, loop, roverVars>>

-----------------------------------------------------------------------------
(* Controller *)

(* A tick: ReadOnce.  It blocks until the device has a report, takes the   *)
(* next of those queued, and a reading that fails changes nothing; ticks   *)
(* that come meanwhile are lost.  A stick at rest may report its position  *)
(* again or not at all.                                                    *)
ReadStick ==
  /\ controllerUp
  /\ reading = <<>>
  /\ \E p \in reported..stick :
       /\ reported' = p
       /\ reading' = <<p>>
  /\ UNCHANGED <<controllerUp, roverUp, channel, wire, udp, stick,
                 joystickData, loop, roverVars>>

(* js.Data <- deviceData *)
PutStick ==
  /\ reading # <<>>
  /\ Len(joystickData) < ChanCap
  /\ joystickData' = joystickData \o reading
  /\ reading' = <<>>
  /\ UNCHANGED <<controllerUp, roverUp, channel, wire, udp, stickVars, loop,
                 roverVars>>

(* <-s.joystickData, in the loop of any session whose data channel has     *)
(* opened, whatever became of it since.                                    *)
LoopTakes(s) ==
  /\ controllerUp
  /\ channel[s] # "none"
  /\ loop[s] = <<>>
  /\ joystickData # <<>>
  /\ loop' = [loop EXCEPT ![s] = <<Head(joystickData)>>]
  /\ joystickData' = Tail(joystickData)
  /\ UNCHANGED <<controllerUp, roverUp, channel, wire, udp, stickVars, reading,
                 roverVars>>

(* d.Send queues the message; pion holds any number of them. *)
LoopSends(s) ==
  /\ loop[s] # <<>>
  /\ channel[s] = "open"
  /\ Len(wire[s]) < WireCap
  /\ wire' = [wire EXCEPT ![s] = Append(@, [pos |-> Head(loop[s]), from |-> s])]
  /\ loop' = [loop EXCEPT ![s] = <<>>]
  /\ UNCHANGED <<controllerUp, roverUp, channel, udp, stickVars, reading,
                 joystickData, roverVars>>

(* Mutant: the loop gives up its message and goes on. *)
LoopSkips(s) ==
  /\ loop[s] # <<>>
  /\ channel[s] = "closed"
  /\ loop' = [loop EXCEPT ![s] = <<>>]
  /\ UNCHANGED <<controllerUp, roverUp, channel, wire, udp, stickVars, reading,
                 joystickData, roverVars>>

(* The process ends, and with it what its goroutines hold. *)
ControllerEnds ==
  /\ controllerUp
  /\ controllerUp' = FALSE
  /\ reading' = <<>>
  /\ joystickData' = <<>>
  /\ loop' = [s \in Session |-> <<>>]
  /\ UNCHANGED <<roverUp, channel, wire, udp, stickVars, roverVars>>

(* d.Send on a closed data channel: panic(sendErr) *)
LoopPanics(s) ==
  /\ loop[s] # <<>>
  /\ channel[s] = "closed"
  /\ ControllerEnds

-----------------------------------------------------------------------------
(* Data channels *)

(* The next session's data channel opens, whatever became of the others.   *)
ChannelOpens(s) ==
  /\ controllerUp /\ roverUp
  /\ channel[s] = "none"
  /\ \A t \in 1..(s - 1) : channel[t] # "none"
  /\ channel' = [channel EXCEPT ![s] = "open"]
  /\ UNCHANGED <<controllerUp, roverUp, wire, udp, controllerVars, roverVars>>

(* peerConnection.Close in either process, or the end of one.  Of what is  *)
(* under way only a first part still arrives.                              *)
ChannelCloses(s) ==
  /\ channel[s] = "open"
  /\ channel' = [channel EXCEPT ![s] = "closed"]
  /\ \E n \in 0..Len(wire[s]) : wire' = [wire EXCEPT ![s] = SubSeq(@, 1, n)]
  /\ UNCHANGED <<controllerUp, roverUp, udp, controllerVars, roverVars>>

-----------------------------------------------------------------------------
(* Rover *)

(* Mutant: OnMessage hands over in a goroutine of its own for each message *)
(* (go func), and the newest goes first.                                   *)
OnMessageAsync(s) ==
  /\ roverUp
  /\ Len(handler[s]) < 2
  /\ wire[s] # <<>>
  /\ handler' = [handler EXCEPT ![s] = <<Head(wire[s])>> \o @]
  /\ wire' = [wire EXCEPT ![s] = Tail(@)]
  /\ UNCHANGED <<controllerUp, roverUp, channel, udp, controllerVars,
                 joystickDataCh, refused>>

(* The channel's read loop calls OnMessage and waits for it to return. *)
OnMessage(s) ==
  /\ roverUp
  /\ handler[s] = <<>>
  /\ wire[s] # <<>>
  /\ handler' = [handler EXCEPT ![s] = <<Head(wire[s])>>]
  /\ wire' = [wire EXCEPT ![s] = Tail(@)]
  /\ UNCHANGED <<controllerUp, roverUp, channel, udp, controllerVars,
                 joystickDataCh, refused>>

(* Mutant: joystickDataCh is made without a bound. *)
OnMessageNeverWaits(s) ==
  /\ handler[s] # <<>>
  /\ Len(joystickDataCh) <= ChanCap
  /\ joystickDataCh' = joystickDataCh \o handler[s]
  /\ handler' = [handler EXCEPT ![s] = <<>>]
  /\ UNCHANGED <<controllerUp, roverUp, channel, wire, udp, controllerVars,
                 refused>>

(* s.joystickDataCh <- msg.Data *)
OnMessageDone(s) ==
  /\ handler[s] # <<>>
  /\ Len(joystickDataCh) < ChanCap
  /\ joystickDataCh' = joystickDataCh \o handler[s]
  /\ handler' = [handler EXCEPT ![s] = <<>>]
  /\ UNCHANGED <<controllerUp, roverUp, channel, wire, udp, controllerVars,
                 refused>>

(* Mutant: cmdService leaves its loop when a Write fails. *)
CmdServiceGivesUp(bound) ==
  /\ joystickDataCh # <<>>
  /\ ~refused
  /\ udp' = IF bound /\ Len(udp) < UdpCap THEN udp \o joystickDataCh ELSE udp
  /\ refused' = ~bound
  /\ joystickDataCh' = <<>>
  /\ UNCHANGED <<controllerUp, roverUp, channel, wire, controllerVars,
                 handler>>

(* cmdServiceConn.Write: a datagram for a socket that is bound and has     *)
(* room, or one that is lost.  Nobody bound shows in the next Write, which *)
(* fails and sends nothing (an error is logged).                           *)
CmdService(bound) ==
  /\ joystickDataCh # <<>>
  /\ udp' = IF bound /\ ~refused /\ Len(udp) < UdpCap
             THEN udp \o joystickDataCh ELSE udp
  /\ refused' = (~refused /\ ~bound)
  /\ joystickDataCh' = <<>>
  /\ UNCHANGED <<controllerUp, roverUp, channel, wire, controllerVars,
                 handler>>

(* The process ends: the relay is lost, or something panics.  One such     *)
(* panic is cmdService's own: when its dial fails it logs the error and    *)
(* writes the first reading to a nil connection.                           *)
RoverEnds ==
  /\ roverUp
  /\ roverUp' = FALSE
  /\ handler' = [s \in Session |-> <<>>]
  /\ joystickDataCh' = <<>>
  /\ refused' = FALSE
  /\ UNCHANGED <<controllerUp, channel, wire, udp, controllerVars>>

=============================================================================
