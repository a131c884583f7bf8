--------------------------- MODULE MCRoleEchoDdr ---------------------------
(***************************************************************************)
(* The two active DRAM echo tops of RoleEchoStoreAndForward.cpp, checked   *)
(* side by side: echo_app_with_ddr3 (EchoAppDdr3) and the variant that     *)
(* takes the DRAM address from the first word of every packet              *)
(* (EchoAppAddrInData).  They share no state; each step is a step of one   *)
(* of them, and each keeps its own network and DataMovers.                 *)
(***************************************************************************)
EXTENDS Naturals

VARIABLES
    d3_app_state, d3_fifo, d3_bytes, d3_dm, d3_rx, d3_tx, d3_sent,
    da_app_state, da_fifo, da_bytes, da_addr, da_switch, da_dm, da_rx,
    da_tx, da_sent, da_served

d3Vars == <<d3_app_state, d3_fifo, d3_bytes, d3_dm, d3_rx, d3_tx, d3_sent>>
daVars == <<da_app_state, da_fifo, da_bytes, da_addr, da_switch, da_dm,
            da_rx, da_tx, da_sent, da_served>>
vars == <<d3Vars, daVars>>

\* Internal FIFOs of two words, single-entry streams to the DataMovers,
\* two packets of one or two words (two or three with the header).
D3 == INSTANCE EchoAppDdr3
        WITH Depth <- 2, IfDepth <- 1, MaxWords <- 2, LastKeeps <- {15},
             MaxPackets <- 2,
             app_state <- d3_app_state, fifo <- d3_fifo,
             num_net_rx_data_bytes <- d3_bytes, dm <- d3_dm,
             iNetRxData <- d3_rx, oNetTxData <- d3_tx, sent <- d3_sent

DA == INSTANCE EchoAppAddrInData
        WITH Depth <- 3, IfDepth <- 1, MinWords <- 2, MaxWords <- 3,
             LastKeeps <- {15}, Headers <- {256, 65536}, MaxPackets <- 2,
             app_state <- da_app_state, fifo <- da_fifo,
             num_net_rx_data_bytes <- da_bytes, mem_wr_addr <- da_addr,
             port_switch <- da_switch, dm <- da_dm, iNetRxData <- da_rx,
             oNetTxData <- da_tx, sent <- da_sent, served <- da_served

Init == D3!Init /\ DA!Init

Next ==
    \/ D3!Next /\ UNCHANGED daVars
    \/ DA!Next /\ UNCHANGED d3Vars

Spec == Init /\ [][Next]_vars /\ D3!Fairness /\ DA!Fairness

\* Both tops stay within their kinds and depths.
TypeOK == D3!TypeOK /\ DA!TypeOK

\* echo_app_with_ddr3 sends back, word for word and in order, what the
\* network delivered, after two DRAM round trips through 512-bit beats.
Ddr3EchoedInOrder == D3!EchoedInOrder

\* echo_app_with_ddr3 posts every DRAM command with the byte count of the
\* packet in flight: the counter is reset only at the end of APP_NET_TX.
Ddr3CmdLenMatches == D3!CmdLenMatches

\* The address-in-data top sends each payload behind the tag of the port
\* it was read back from, in order and unaltered.
AddrEchoedInOrder == DA!EchoedInOrder

\* The address-in-data top stores each payload at the byte-reversed
\* address of its header word.
AddrStoredAtHeaderAddress == DA!StoredAtHeaderAddress

\* Both tops eventually send back every packet the network delivers.
AllEchoed == D3!AllEchoed /\ DA!AllEchoed
=============================================================================
