CONSTANTS
  Peers = {p1}
  Fpga = fpga
  Depth = 2
  MinWords = 2
  MaxWords = 2
  LastBytes = {3, 8}
  MaxDatagrams = 3
  OpenWait = 10

SPECIFICATION Spec

\* The processes idle once UDMX stops delivering.
CHECK_DEADLOCK FALSE

INVARIANT TypeOK
INVARIANT PLenMatches
INVARIANT EchoedInOrder
PROPERTY AllEchoed
PROPERTY EchoRefined
