CONSTANTS
  MaxSessions = 2
  ACKD_64us = 2
  AckTableBits = 12
  TxeDepth = 2
  SigDepth = 2
  AkdDepth = 1
  CntBits = 8
  SrcDepth = 1
  MaxEvents = 4
  RxeTypes = {"ACK"}
  TimTypes <- MCTimTypes
  TaiTypes <- MCTaiTypes

SPECIFICATION Spec

INVARIANT TypeOK
INVARIANT PerSessionOrder
INVARIANT AtMostTwoLowPriorityInFlight
PROPERTY NoEventLost
