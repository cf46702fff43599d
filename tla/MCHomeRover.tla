---------------------------- MODULE MCHomeRover ----------------------------
EXTENDS HomeRover

CONSTANTS r1, c1, c2, c3   \* model values

MCEarlier == {<<c1, c2>>, <<c1, c3>>, <<c2, c3>>} \cap (Client \X Client)
=============================================================================
