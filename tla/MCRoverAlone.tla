---------------------------- MODULE MCRoverAlone ----------------------------
EXTENDS RoverAlone

CONSTANTS r1, r2   \* model values

MCEarlier == {<<r1, r2>>} \cap (Client \X Client)
=============================================================================
