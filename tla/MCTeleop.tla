------------------------------ MODULE MCTeleop ------------------------------
EXTENDS Teleop

(* At rest, then full speed ahead in a turn with the camera at its stops. *)
MCReport == << <<0, 0, 0, 0>>, <<32767, 32767, -32768, 32767>> >>

MCStickData == {ReadOnce(p) : p \in Position}

=============================================================================
