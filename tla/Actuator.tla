------------------------------ MODULE Actuator ------------------------------
(***************************************************************************)
(* What the device driver promises the command path, without a word on     *)
(* registers: once it runs it takes datagrams one at a time, and what it   *)
(* makes the hardware do is what the last one asks for.                    *)
(***************************************************************************)
EXTENDS Datagrams

VARIABLES
  on,     \* the driver listens
  asked   \* the last datagram it has taken since it started, or None

actuatorVars == <<on, asked>>

ActuatorInit == on = FALSE /\ asked = None

ActuatorStarts ==
  /\ on = FALSE
  /\ on' = TRUE
  /\ UNCHANGED asked

ActuatorTakes(data) ==
  /\ on
  /\ asked' = data
  /\ UNCHANGED on

ActuatorStops ==
  /\ on
  /\ on' = FALSE
  /\ asked' = None

ActuatorNext ==
  \/ ActuatorStarts
  \/ \E data \in StickData : ActuatorTakes(data)
  \/ ActuatorStops

ActuatorSpec == ActuatorInit /\ [][ActuatorNext]_actuatorVars

=============================================================================
