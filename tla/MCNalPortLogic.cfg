CONSTANTS
  PortBits = 2
  MinPort = 2718
  FmcPorts <- MCFmcPorts
  StabTime = 1
  Depth = 2
  MaxEnvOps = 1
  MaxNacks = 1
SPECIFICATION Spec
INVARIANTS TypeOK BitPosCorrect InFlightMatchesRecord
PROPERTIES RequestedPortsOpen
