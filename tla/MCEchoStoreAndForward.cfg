CONSTANTS
    Depth = 2
    IfDepth = 1
    MaxWords = 2
    LastKeeps = {15}
    MaxPackets = 2

SPECIFICATION Spec

\* The role stops when the network has delivered its datagrams.
CHECK_DEADLOCK FALSE

PROPERTY AllEchoed
