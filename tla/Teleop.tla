------------------------------- MODULE Teleop -------------------------------
(***************************************************************************)
(* Driving the rover: the command path feeds the driver, of which it needs *)
(* to know no more than Actuator says (Driver!Actuates).  The WebRTC       *)
(* sessions, whose beginnings and ends are the other modules' matter, open *)
(* and close data channels at any time; either process may end, and so may *)
(* the driver, which can be started again.                                 *)
(***************************************************************************)
EXTENDS CommandPath, Actuator

ASSUME TeleopAssumption == \A p \in Position : ReadOnce(p) \in StickData

vars == <<pathVars, actuatorVars>>

Init == PathInit /\ ActuatorInit

(* A datagram is read from the socket. *)
Obey ==
  /\ udp # <<>>
  /\ ActuatorTakes(ReadOnce(Head(udp).pos))
  /\ udp' = Tail(udp)
  /\ UNCHANGED <<controllerUp, roverUp, channel, wire, controllerVars, roverVars>>

DriverStarts ==
  /\ ActuatorStarts
  /\ UNCHANGED pathVars

(* The socket and what it holds go with the driver's process. *)
DriverStops ==
  /\ ActuatorStops
  /\ udp' = <<>>
  /\ UNCHANGED <<controllerUp, roverUp, channel, wire, controllerVars, roverVars>>

SessionStep(s) ==
  \/ LoopTakes(s)
  \/ LoopSends(s)
  \/ LoopPanics(s)
  \/ ChannelOpens(s)
  \/ ChannelCloses(s)
  \/ OnMessage(s)
  \/ OnMessageDone(s)

PathStep ==
  \/ MoveStick
  \/ ReadStick
  \/ PutStick
  \/ \E s \in Session : SessionStep(s)
  \/ CmdService(on)
  \/ ControllerEnds
  \/ RoverEnds

Next ==
  \/ PathStep /\ UNCHANGED actuatorVars
  \/ Obey
  \/ DriverStarts
  \/ DriverStops

Spec == Init /\ [][Next]_vars

(* Goroutines and the driver go on when they can.  Loops that wait on one  *)
(* channel are served first come first served, so none is passed over for  *)
(* ever.  Nobody need move the stick, end a process or start the driver,   *)
(* and the device owes no report: ReadOnce may block or fail for ever.     *)
Fairness ==
  /\ WF_vars(PutStick /\ UNCHANGED actuatorVars)
  /\ \A s \in Session :
       /\ SF_vars(LoopTakes(s) /\ UNCHANGED actuatorVars)
       /\ WF_vars((LoopSends(s) \/ LoopPanics(s)) /\ UNCHANGED actuatorVars)
       /\ WF_vars((OnMessage(s) \/ OnMessageDone(s)) /\ UNCHANGED actuatorVars)
  /\ WF_vars(CmdService(on) /\ UNCHANGED actuatorVars)
  /\ WF_vars(Obey)

FairSpec == Spec /\ Fairness

-----------------------------------------------------------------------------
(* Every variable has its type, and no Go channel holds more than it is    *)
(* made for (main/controllerd.go:28, rover/service.go:28).                 *)
TypeOK ==
  /\ on \in BOOLEAN
  /\ asked \in StickData \cup {None}
  /\ {controllerUp, roverUp, refused} \subseteq BOOLEAN
  /\ {stick, reported} \subseteq Position
  /\ reading \in Seq(Position) /\ Len(reading) <= 1
  /\ joystickData \in Seq(Position) /\ Len(joystickData) <= ChanCap
  /\ joystickDataCh \in Seq(Message) /\ Len(joystickDataCh) <= ChanCap
  /\ udp \in Seq(Message) /\ Len(udp) <= UdpCap
  /\ channel \in [Session -> {"none", "open", "closed"}]
  /\ loop \in [Session -> Seq(Position)] /\ \A s \in Session : Len(loop[s]) <= 1
  /\ wire \in [Session -> Seq(Message)] /\ \A s \in Session : Len(wire[s]) <= WireCap
  /\ handler \in [Session -> Seq(Message)] /\ \A s \in Session : Len(handler[s]) <= 1

(* Positions on their way by session s that are not yet messages. *)
Held(q, s) == [i \in DOMAIN q |-> [pos |-> q[i], from |-> s]]

(* Everything that session s may still bring the driver, next to it first, *)
(* and in the driver's socket and the rover's channel what others bring.   *)
Way(s) ==
  udp \o joystickDataCh \o handler[s] \o wire[s]
    \o Held(loop[s] \o joystickData \o reading \o <<reported, stick>>, s)

(* By whatever loops, handlers and buffers its readings travel, a session  *)
(* never brings the driver an older stick position after a newer one, even *)
(* while other sessions take readings from the same channel and after its  *)
(* data channel has closed (joystick/joystick.go:119,                      *)
(* controller/service.go:123, rover/service.go:129, 78).  Two sessions     *)
(* together may: each waits for the others' channels on its own.           *)
SessionOrder ==
  \A s \in Session : \A i, j \in DOMAIN Way(s) :
    i < j /\ Way(s)[i].from = s /\ Way(s)[j].from = s
      => Way(s)[i].pos <= Way(s)[j].pos

Connected ==
  controllerUp /\ roverUp /\ on /\ \E s \in Session : channel[s] = "open"

(* The driver follows the stick.  If from some point on a data channel is  *)
(* open, both processes are up and the driver runs, and if the device      *)
(* reports the position the stick has come to rest in again and again,     *)
(* then in the end the driver does what that position asks for, however    *)
(* much old data was waiting when the channel opened, however sessions     *)
(* overlap, and whatever datagrams were lost                               *)
(* (joystick/joystick.go:114-119, rover/service.go:77-82,                  *)
(* driver/drive.py:42-56).  A last report that comes only once can be lost *)
(* for good.                                                               *)
DriverFollows ==
  <>[]Connected /\ []<>(reading = <<stick>>) => <>[](asked = ReadOnce(stick))

(* A loop outlives its session, takes readings meant for other sessions    *)
(* and ends the process when it finds its data channel closed: as long as  *)
(* the stick is read again and again, the end of any session, on either    *)
(* side, in the end is the end of the controller, and no other session     *)
(* saves it (controller/service.go:121-127, 293-299).                      *)
EndOfSessionIsFatal ==
  []<>(reading # <<>>) =>
    ((\E s \in Session : channel[s] = "closed") ~> ~controllerUp)

=============================================================================
