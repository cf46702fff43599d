------------------------- MODULE MCControllerAlone -------------------------
EXTENDS ControllerAlone
=============================================================================
