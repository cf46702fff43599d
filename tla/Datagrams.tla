----------------------------- MODULE Datagrams -----------------------------
(***************************************************************************)
(* What the rover sends the driver: four bytes, one per axis of the stick. *)
(***************************************************************************)
EXTENDS Integers

CONSTANTS
  StickData,   \* the datagrams the driver may be sent
  None

Byte == 0..255

ASSUME DatagramAssumption ==
  /\ StickData \subseteq [1..4 -> Byte]
  /\ None \notin StickData

=============================================================================
