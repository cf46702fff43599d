------------------------------ MODULE MCDriver ------------------------------
EXTENDS Driver

(* The stick's extremes, rest and next to rest, as bytes: 128 is -128.     *)
Extreme == {0, 1, 127, 128, 255}

(* The right stick mirrors the left one, so that motors and cameras meet   *)
(* every pairing of these on their axes.                                   *)
MCStickData == {<<x, y, y, x>> : x, y \in Extreme}

=============================================================================
