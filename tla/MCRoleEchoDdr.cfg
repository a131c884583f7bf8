SPECIFICATION Spec
INVARIANTS
    TypeOK
    Ddr3EchoedInOrder
    Ddr3CmdLenMatches
    AddrEchoedInOrder
    AddrStoredAtHeaderAddress
PROPERTIES
    AllEchoed
\* Both tops stop when the network has delivered its packets.
CHECK_DEADLOCK FALSE
