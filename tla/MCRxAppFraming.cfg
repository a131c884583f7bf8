CONSTANTS
  NumSessions = 1
  PtrBits = 4
  WindowBits = 4
  BufSize = 16
  MaxLen = 16
  MaxReqs = 3
  Depth = 2
  InitPtrs = {0}

SPECIFICATION Spec

\* The path idles once the application stops asking for data.
CHECK_DEADLOCK FALSE

INVARIANT SegmentsFramed
