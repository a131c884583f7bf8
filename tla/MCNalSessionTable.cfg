CONSTANTS
  NumRows = 3
  Sids = {0, 1}
  Triples = {0, 1}
  NoSid = NoSid
  Depth = 1
  MaxOps = 8

SPECIFICATION Spec

 
INVARIANT ReapCompleteness
INVARIANT TripleRoundTrip
INVARIANT ByteCntOfKeep
INVARIANT ReapRequestsKept
