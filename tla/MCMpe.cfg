CONSTANTS
    OwnRank = 0
    MRT <- MCMRT
    Peer = 1
    Counts = {0, 3, 8}
    PayLens = {3, 8}
    ResetIn = {0, 1}
    MaxNet = 2
    MaxApp = 2
SPECIFICATION Spec
INVARIANT NoHeaderBytesToApp
CHECK_DEADLOCK FALSE
