CONSTANTS
  Sessions = {1}
  NumEntries = 2
  NoSession = 65535
  Depth = 2
  MaxSegments = 2
  MaxWords = 2
  MaxNacks = 1
  MaxOpens = 1

SPECIFICATION Spec

\* The processes idle once the TOE stops receiving and reporting.
CHECK_DEADLOCK FALSE

INVARIANT TypeOK
INVARIANT EchoedInOrder
PROPERTY AllEchoed
PROPERTY EchoRefined
