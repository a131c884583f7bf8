--------------------------- MODULE MCNalPortLogic ---------------------------
EXTENDS NalPortLogic

MCFmcPorts == {8803, 8804}
=============================================================================
