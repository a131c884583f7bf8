------------------------- MODULE EchoAppAddrInData -------------------------
(***************************************************************************)
(* echo_app_net_rx_ddr_wr_ddr_rd_net_tx_2_ports_mem_address_in_net_data   *)
(* of src/RoleEchoStoreAndForward_hls/hls/RoleEchoStoreAndForward.cpp     *)
(* (lines 751-960).  The first word of every packet carries, in network    *)
(* byte order, the DRAM address to store the rest of the packet at.  The   *)
(* packets alternate between DRAM port 1 and port 2 (port_switch); each is *)
(* written at that address, read back, and sent to the network behind a    *)
(* tag word whose data names the port (1 or 2).  One II=1 FSM (app_state)  *)
(* with the internal FIFOs net_rx_data and mem_rd_data; an action is one   *)
(* invocation in one case of the switch; each port is a DataMover.  The    *)
(* memory streams carry the 64-bit network words themselves.               *)
(***************************************************************************)
EXTENDS Naturals, Sequences, SequencesExt

CONSTANTS
    Depth,        \* depth of net_rx_data and mem_rd_data
    IfDepth,      \* depth of the AXI streams between the role and a port
    MinWords,     \* shortest packet the network delivers, header included
    MaxWords,     \* longest packet, header included
    LastKeeps,    \* keep masks the last word of a packet may carry
    Headers,      \* header data words (the address in network byte order)
    MaxPackets    \* packets the network delivers in a behaviour

VARIABLES
    app_state,              \* the FSM state (line 817)
    fifo,                   \* [net_rx_data, mem_rd_data] (lines 833-836)
    num_net_rx_data_bytes,  \* the byte count of the payload (line 839)
    mem_wr_addr,            \* the address taken from the header (line 840)
    port_switch,            \* TRUE: next packet to port 1 (line 841)
    dm,                     \* DRAM port 1 and 2 (DataMover.tla)
    iNetRxData,             \* words the network has delivered, not yet read
    oNetTxData,             \* words the role has sent, in order
    sent,                   \* packets the network has delivered, in order
    served                  \* ports whose DataMover completed a read, in order

vars == <<app_state, fifo, num_net_rx_data_bytes, mem_wr_addr, port_switch,
          dm, iNetRxData, oNetTxData, sent, served>>

DM == INSTANCE DataMover

Ports == {1, 2}

\* keep_to_len (lines 58-72).
keep_to_len(k) ==
    CASE k = 1 -> 1 [] k = 3 -> 2 [] k = 7 -> 3 [] k = 15 -> 4
      [] k = 31 -> 5 [] k = 63 -> 6 [] k = 127 -> 7 [] k = 255 -> 8
      [] OTHER -> 0

\* The byte reversal of line 848: byte i of data(31,0) becomes byte 3-i of
\* mem_wr_addr; only data(31,0) is read.
Byte(x, i) == (x \div 2^(8 * i)) % 256
\* Mutant: the bytes concatenated in their own order, no reversal.
ByteSwap32Identity(x) == Byte(x, 3) * 2^24 + Byte(x, 2) * 2^16 + Byte(x, 1) * 2^8 + Byte(x, 0)

ByteSwap32(x) == Byte(x, 0) * 2^24 + Byte(x, 1) * 2^16 + Byte(x, 2) * 2^8 + Byte(x, 3)

\* The addresses a header can name, and the initial 0x100 (line 840).
Addrs == {256} \cup {ByteSwap32(h) : h \in Headers} \cup Headers

\* The tag word written ahead of the payload (lines 849-853).
TagWord(p) == [data |-> p, keep |-> 255, last |-> FALSE]

\* The FSM states of the two ports' cases.
WrCmdSt == <<"APP_MEM_WR_CMD_1", "APP_MEM_WR_CMD_2">>
WrSt    == <<"APP_MEM_WR_1", "APP_MEM_WR_2">>
WrStsSt == <<"APP_MEM_WR_STS_1", "APP_MEM_WR_STS_2">>
RdCmdSt == <<"APP_MEM_RD_CMD_1", "APP_MEM_RD_CMD_2">>
RdSt    == <<"APP_MEM_RD_1", "APP_MEM_RD_2">>

Init ==
    /\ app_state = "APP_NET_RX_IDLE"
    /\ fifo = [net_rx_data |-> <<>>, mem_rd_data |-> <<>>]
    /\ num_net_rx_data_bytes = 0
    /\ mem_wr_addr = 256
    /\ port_switch = TRUE
    /\ dm = [p \in Ports |-> DM!PortInit(Addrs)]
    /\ iNetRxData = <<>>
    /\ oNetTxData = <<>>
    /\ sent = <<>>
    /\ served = <<>>

envVars == <<iNetRxData, oNetTxData, sent, served>>

\* case APP_NET_RX_IDLE (lines 845-856): the header word sets the address
\* and the tag of the port the packet will go to is queued for sending.
APP_NET_RX_IDLE ==
    /\ app_state = "APP_NET_RX_IDLE"
    /\ iNetRxData # <<>>
    /\ DM!NotFull(fifo.mem_rd_data, Depth)
    /\ iNetRxData' = Tail(iNetRxData)
    /\ mem_wr_addr' = ByteSwap32(Head(iNetRxData).data)
    /\ fifo' = [fifo EXCEPT !.mem_rd_data =
                   Append(@, TagWord(IF port_switch THEN 1 ELSE 2))]
    /\ app_state' = "APP_NET_RX_DATA"
    /\ UNCHANGED <<num_net_rx_data_bytes, port_switch, dm, oNetTxData, sent, served>>

\* Mutant: port_switch toggled before the port is chosen.
APP_NET_RX_DATASwitchFirst ==
    /\ app_state = "APP_NET_RX_DATA"
    /\ iNetRxData # <<>>
    /\ DM!NotFull(fifo.net_rx_data, Depth)
    /\ LET w == Head(iNetRxData) IN
       /\ iNetRxData' = Tail(iNetRxData)
       /\ fifo' = [fifo EXCEPT !.net_rx_data = Append(@, w)]
       /\ num_net_rx_data_bytes' = (num_net_rx_data_bytes + keep_to_len(w.keep)) % 2^16
       /\ app_state' = IF ~w.last THEN app_state
                       ELSE IF ~port_switch THEN WrCmdSt[1] ELSE WrCmdSt[2]
       /\ port_switch' = IF w.last THEN ~port_switch ELSE port_switch
    /\ UNCHANGED <<mem_wr_addr, dm, oNetTxData, sent, served>>

\* case APP_NET_RX_DATA (lines 857-873)
APP_NET_RX_DATA ==
    /\ app_state = "APP_NET_RX_DATA"
    /\ iNetRxData # <<>>
    /\ DM!NotFull(fifo.net_rx_data, Depth)
    /\ LET w == Head(iNetRxData) IN
       /\ iNetRxData' = Tail(iNetRxData)
       /\ fifo' = [fifo EXCEPT !.net_rx_data = Append(@, w)]
       /\ num_net_rx_data_bytes' = (num_net_rx_data_bytes + keep_to_len(w.keep)) % 2^16
       /\ app_state' = IF ~w.last THEN app_state
                       ELSE IF port_switch THEN WrCmdSt[1] ELSE WrCmdSt[2]
       /\ port_switch' = IF w.last THEN ~port_switch ELSE port_switch
    /\ UNCHANGED <<mem_wr_addr, dm, oNetTxData, sent, served>>

\* cases APP_MEM_WR_CMD_1/2 (lines 874-879, 912-917)
APP_MEM_WR_CMD(p) ==
    /\ app_state = WrCmdSt[p]
    /\ DM!NotFull(dm[p].wrCmd, IfDepth)
    /\ dm' = [dm EXCEPT ![p].wrCmd =
                 Append(@, [addr |-> mem_wr_addr, len |-> num_net_rx_data_bytes])]
    /\ app_state' = WrSt[p]
    /\ UNCHANGED <<fifo, num_net_rx_data_bytes, mem_wr_addr, port_switch, envVars>>

\* cases APP_MEM_WR_1/2 (lines 880-888, 918-926)
APP_MEM_WR(p) ==
    /\ app_state = WrSt[p]
    /\ fifo.net_rx_data # <<>>
    /\ DM!NotFull(dm[p].wrData, IfDepth)
    /\ LET w == Head(fifo.net_rx_data) IN
       /\ fifo' = [fifo EXCEPT !.net_rx_data = Tail(@)]
       /\ dm' = [dm EXCEPT ![p].wrData = Append(@, w)]
       /\ app_state' = IF w.last THEN WrStsSt[p] ELSE app_state
    /\ UNCHANGED <<num_net_rx_data_bytes, mem_wr_addr, port_switch, envVars>>

\* cases APP_MEM_WR_STS_1/2 (lines 889-894, 927-932)
APP_MEM_WR_STS(p) ==
    /\ app_state = WrStsSt[p]
    /\ dm[p].wrSts # <<>>
    /\ dm' = [dm EXCEPT ![p].wrSts = Tail(@)]
    /\ app_state' = RdCmdSt[p]
    /\ UNCHANGED <<fifo, num_net_rx_data_bytes, mem_wr_addr, port_switch, envVars>>

\* cases APP_MEM_RD_CMD_1/2 (lines 895-900, 933-938)
APP_MEM_RD_CMD(p) ==
    /\ app_state = RdCmdSt[p]
    /\ DM!NotFull(dm[p].rdCmd, IfDepth)
    /\ dm' = [dm EXCEPT ![p].rdCmd =
                 Append(@, [addr |-> mem_wr_addr, len |-> num_net_rx_data_bytes])]
    /\ app_state' = RdSt[p]
    /\ UNCHANGED <<fifo, num_net_rx_data_bytes, mem_wr_addr, port_switch, envVars>>

\* cases APP_MEM_RD_1/2 (lines 901-910, 939-948)
APP_MEM_RD(p) ==
    /\ app_state = RdSt[p]
    /\ dm[p].rdData # <<>>
    /\ DM!NotFull(fifo.mem_rd_data, Depth)
    /\ LET w == Head(dm[p].rdData) IN
       /\ dm' = [dm EXCEPT ![p].rdData = Tail(@)]
       /\ fifo' = [fifo EXCEPT !.mem_rd_data = Append(@, w)]
       /\ app_state' = IF w.last THEN "APP_NET_TX" ELSE app_state
    /\ UNCHANGED <<num_net_rx_data_bytes, mem_wr_addr, port_switch, envVars>>

\* case APP_NET_TX (lines 949-958); the network takes every word at once.
APP_NET_TX ==
    /\ app_state = "APP_NET_TX"
    /\ fifo.mem_rd_data # <<>>
    /\ LET w == Head(fifo.mem_rd_data) IN
       /\ fifo' = [fifo EXCEPT !.mem_rd_data = Tail(@)]
       /\ oNetTxData' = Append(oNetTxData, w)
       /\ app_state' = IF w.last THEN "APP_NET_RX_IDLE" ELSE app_state
       /\ num_net_rx_data_bytes' = IF w.last THEN 0 ELSE num_net_rx_data_bytes
    /\ UNCHANGED <<mem_wr_addr, port_switch, dm, iNetRxData, sent, served>>

echo_app_net_rx_ddr_wr_ddr_rd_net_tx_2_ports_mem_address_in_net_data ==
    \/ APP_NET_RX_IDLE
    \/ APP_NET_RX_DATA
    \/ \E p \in Ports : \/ APP_MEM_WR_CMD(p) \/ APP_MEM_WR(p) \/ APP_MEM_WR_STS(p)
                       \/ APP_MEM_RD_CMD(p) \/ APP_MEM_RD(p)
    \/ APP_NET_TX

(***************************************************************************)
(* Environment: the network delivers packets of MinWords..MaxWords words,  *)
(* a header word of Headers first; the two DataMovers serve the ports and  *)
(* served records the port of every completed read.                        *)
(***************************************************************************)
Packet(k, h, n, lk) ==
    [i \in 1..n |-> [data |-> IF i = 1 THEN h ELSE 10 * k + i,
                     keep |-> IF i = n THEN lk ELSE 255,
                     last |-> i = n]]

NetDeliver ==
    /\ Len(sent) < MaxPackets
    /\ \E h \in Headers, n \in MinWords..MaxWords, lk \in LastKeeps :
         LET pk == Packet(Len(sent) + 1, h, n, lk) IN
         /\ iNetRxData' = iNetRxData \o pk
         /\ sent' = Append(sent, pk)
    /\ UNCHANGED <<app_state, fifo, num_net_rx_data_bytes, mem_wr_addr,
                   port_switch, dm, oNetTxData, served>>

roleVars == <<app_state, fifo, num_net_rx_data_bytes, mem_wr_addr, port_switch>>

DmWrite(p) ==
    /\ DM!CanS2mm(dm[p], IfDepth)
    /\ dm' = [dm EXCEPT ![p] = DM!S2mm(@)]
    /\ UNCHANGED <<roleVars, envVars>>

DmRead(p) ==
    /\ DM!CanMm2s(dm[p], IfDepth, FALSE)
    /\ dm' = [dm EXCEPT ![p] = DM!Mm2s(@, FALSE)]
    /\ served' = IF dm'[p].rdCmd # dm[p].rdCmd THEN Append(served, p) ELSE served
    /\ UNCHANGED <<roleVars, iNetRxData, oNetTxData, sent>>

Next ==
    \/ echo_app_net_rx_ddr_wr_ddr_rd_net_tx_2_ports_mem_address_in_net_data
    \/ NetDeliver
    \/ \E p \in Ports : DmWrite(p) \/ DmRead(p)

Fairness ==
    /\ WF_vars(echo_app_net_rx_ddr_wr_ddr_rd_net_tx_2_ports_mem_address_in_net_data)
    /\ \A p \in Ports : WF_vars(DmWrite(p)) /\ WF_vars(DmRead(p))

Spec == Init /\ [][Next]_vars /\ Fairness

-----------------------------------------------------------------------------
Word == [data : Nat, keep : 0..255, last : BOOLEAN]
Cmd  == [addr : Addrs, len : 0..(2^16 - 1)]
States == {"APP_NET_RX_IDLE", "APP_NET_RX_DATA", "APP_NET_TX"} \cup
          {s[p] : s \in {WrCmdSt, WrSt, WrStsSt, RdCmdSt, RdSt}, p \in Ports}

\* The FSM, the FIFOs and the streams to the ports stay within their kinds
\* and depths.
TypeOK ==
    /\ app_state \in States
    /\ \A q \in {"net_rx_data", "mem_rd_data"} :
          fifo[q] \in Seq(Word) /\ Len(fifo[q]) <= Depth
    /\ num_net_rx_data_bytes \in 0..(2^16 - 1)
    /\ mem_wr_addr \in Addrs
    /\ port_switch \in BOOLEAN
    /\ \A p \in Ports :
          /\ \A c \in {"wrCmd", "rdCmd"} :
                dm[p][c] \in Seq(Cmd) /\ Len(dm[p][c]) <= IfDepth
          /\ \A c \in {"wrData", "rdData"} :
                dm[p][c] \in Seq(Word) /\ Len(dm[p][c]) <= IfDepth

Echoed == Len(SelectSeq(oNetTxData, LAMBDA w : w.last))

\* What the role sends is a prefix of: for each packet, in order, the tag
\* of the DRAM port its payload was read back from, then its payload (the
\* packet without its header), word for word.
EchoedInOrder ==
    IsPrefix(oNetTxData,
             FlattenSeq([k \in 1..Len(served) |->
                           <<TagWord(served[k])>> \o Tail(sent[k])]))

\* The address a header word names in network byte order: its first byte
\* on the wire (data(7,0)) is the most significant.
NetworkOrderAddr(h) ==
    FoldLeft(LAMBDA acc, i : acc * 256 + ((h \div 2^(8 * i)) % 256), 0, <<0, 1, 2, 3>>)

\* Whatever a port's memory holds at an address is the payload of a packet
\* whose header names that address in network byte order.
StoredAtHeaderAddress ==
    \A p \in Ports, a \in Addrs : dm[p].mem[a] # <<>> =>
        \E k \in 1..Len(sent) : /\ NetworkOrderAddr(sent[k][1].data) = a
                                /\ dm[p].mem[a] = Tail(sent[k])

\* Every packet the network delivers is eventually sent back whole.
AllEchoed == \A k \in 1..MaxPackets : Len(sent) >= k ~> Echoed >= k
=============================================================================
