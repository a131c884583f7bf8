CONSTANTS
  MrtSize = 3
  NumConfig = 3
  NumStatus = 4
  CfgOwnRank = 0
  CfgMrtVersion = 1
  CfgSavedPorts <- MCSavedPorts
  StOwnRank = 0
  StMrtVersion = 1
  StUdpPorts = 2
  StPacketCntRx = 3
  IpChannels <- MCIpChannels
  NidChannels <- MCNidChannels
  InvalidNid = 255
  Values = {1}
  Depth = 1
  Budget <- MCBudget
SPECIFICATION Spec
INVARIANT TypeOK
PROPERTIES StatusReachesHost
