CONSTANTS
  Ports = {p80, p8803}
  Depth = 2
  MaxLsn = 3
  MaxNotifs = 3

SPECIFICATION Spec

\* Lai and Nmx idle once the application, RXe and TIm stop sending.
CHECK_DEADLOCK FALSE

INVARIANT TypeOK
INVARIANT OneListenInFlight
PROPERTY ListenAnswered
PROPERTY NotifsDelivered
