---------------------------- MODULE MCRelayAlone ----------------------------
EXTENDS RelayAlone
=============================================================================
