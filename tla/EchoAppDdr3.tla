---------------------------- MODULE EchoAppDdr3 ----------------------------
(***************************************************************************)
(* echo_app_with_ddr3 of src/RoleEchoStoreAndForward_hls/hls/              *)
(* RoleEchoStoreAndForward.cpp (lines 134-322): a role that stores every   *)
(* received packet in DRAM port 1, reads it back, stores that copy in DRAM *)
(* port 2, reads it back again and sends it to the network.  The function *)
(* is one II=1 FSM (app_state) with two internal FIFOs, net_rx_data and    *)
(* mem_rd_data (depth 1024, here Depth); an action is one invocation in    *)
(* one case of the switch.  Each DRAM port is a DataMover (DataMover.tla). *)
(*                                                                         *)
(* A network word is [data, keep, last]; data is an identity chosen by the *)
(* environment, keep a byte mask.  A DRAM word (axiMemWord) is the network *)
(* word in the low 64 bits and byte lanes of a 512-bit beat, with the high *)
(* lanes zero (lines 232-234, 276-278); reading takes the low lanes back   *)
(* (lines 256-258, 300-302).                                               *)
(***************************************************************************)
EXTENDS Naturals, Sequences, SequencesExt

CONSTANTS
    Depth,        \* depth of net_rx_data and mem_rd_data (1024 in the code)
    IfDepth,      \* depth of the AXI streams between the role and a port
    MaxWords,     \* longest packet the network delivers, in words
    LastKeeps,    \* keep masks the last word of a packet may carry
    MaxPackets    \* packets the network delivers in a behaviour

VARIABLES
    app_state,              \* the FSM state (line 192)
    fifo,                   \* [net_rx_data, mem_rd_data] (lines 197-200)
    num_net_rx_data_bytes,  \* the byte count of the packet (line 204)
    dm,                     \* DRAM port 1 and 2 (DataMover.tla)
    iNetRxData,             \* words the network has delivered, not yet read
    oNetTxData,             \* words the role has sent, in order
    sent                    \* packets the network has delivered, in order

vars == <<app_state, fifo, num_net_rx_data_bytes, dm, iNetRxData, oNetTxData, sent>>

DM == INSTANCE DataMover

Ports == {1, 2}
mem_wr_addr == 256    \* 0x100 (line 205), never changed

\* keep_to_len (lines 58-72): the length of a contiguous low byte mask, 0
\* for any other mask.
keep_to_len(k) ==
    CASE k = 1 -> 1 [] k = 3 -> 2 [] k = 7 -> 3 [] k = 15 -> 4
      [] k = 31 -> 5 [] k = 63 -> 6 [] k = 127 -> 7 [] k = 255 -> 8
      [] OTHER -> 0

\* Mutant: the network word put in the high lanes of the 512-bit beat.
ToMemHighLanes(w) == [data |-> 0, hiData |-> w.data, keep |-> 0, hiKeep |-> w.keep, last |-> w.last]

\* The 64-to-512 widening of the write cases and the narrowing of the read
\* cases.
ToMem(w) == [data |-> w.data, hiData |-> 0, keep |-> w.keep, hiKeep |-> 0, last |-> w.last]

ToNet(m) == [data |-> m.data, keep |-> m.keep, last |-> m.last]

\* The FSM states of the two ports' cases, and where each goes next.
WrCmdSt == <<"APP_MEM_WR_CMD_P1", "APP_MEM_WR_CMD_P2">>
WrSt    == <<"APP_MEM_WR_P1", "APP_MEM_WR_P2">>
WrStsSt == <<"APP_MEM_WR_STS_P1", "APP_MEM_WR_STS_P2">>
RdCmdSt == <<"APP_MEM_RD_CMD_P1", "APP_MEM_RD_CMD_P2">>
RdSt    == <<"APP_MEM_RD_P1", "APP_MEM_RD_P2">>
AfterRd == <<"APP_MEM_WR_CMD_P2", "APP_NET_TX">>
\* Port 1 is written from net_rx_data, port 2 from the copy read back into
\* mem_rd_data.
WrSrc   == <<"net_rx_data", "mem_rd_data">>

Init ==
    /\ app_state = "APP_NET_RX_IDLE"
    /\ fifo = [net_rx_data |-> <<>>, mem_rd_data |-> <<>>]
    /\ num_net_rx_data_bytes = 0
    /\ dm = [p \in Ports |-> DM!PortInit({mem_wr_addr})]
    /\ iNetRxData = <<>>
    /\ oNetTxData = <<>>
    /\ sent = <<>>

roleVars == <<app_state, fifo, num_net_rx_data_bytes>>
envVars  == <<iNetRxData, oNetTxData, sent>>

\* case APP_NET_RX_IDLE (lines 211-221)
APP_NET_RX_IDLE ==
    /\ app_state = "APP_NET_RX_IDLE"
    /\ iNetRxData # <<>>
    /\ DM!NotFull(fifo.net_rx_data, Depth)
    /\ LET w == Head(iNetRxData) IN
       /\ iNetRxData' = Tail(iNetRxData)
       /\ fifo' = [fifo EXCEPT !.net_rx_data = Append(@, w)]
       /\ num_net_rx_data_bytes' = (num_net_rx_data_bytes + keep_to_len(w.keep)) % 2^16
       /\ app_state' = IF w.last THEN "APP_MEM_WR_CMD_P1" ELSE app_state
    /\ UNCHANGED <<dm, oNetTxData, sent>>

\* cases APP_MEM_WR_CMD_P1/P2 (lines 223-228, 267-272)
APP_MEM_WR_CMD(p) ==
    /\ app_state = WrCmdSt[p]
    /\ DM!NotFull(dm[p].wrCmd, IfDepth)
    /\ dm' = [dm EXCEPT ![p].wrCmd =
                 Append(@, [addr |-> mem_wr_addr, len |-> num_net_rx_data_bytes])]
    /\ app_state' = WrSt[p]
    /\ UNCHANGED <<fifo, num_net_rx_data_bytes, envVars>>

\* Mutant: the write data is posted without checking that the stream has room.
APP_MEM_WRNoFullCheck(p) ==
    LET q == WrSrc[p] IN
    /\ app_state = WrSt[p]
    /\ fifo[q] # <<>>
    /\ LET w == Head(fifo[q]) IN
       /\ fifo' = [fifo EXCEPT ![q] = Tail(@)]
       /\ dm' = [dm EXCEPT ![p].wrData = Append(@, ToMem(w))]
       /\ app_state' = IF w.last THEN WrStsSt[p] ELSE app_state
    /\ UNCHANGED <<num_net_rx_data_bytes, envVars>>

\* cases APP_MEM_WR_P1/P2 (lines 229-240, 273-284)
APP_MEM_WR(p) ==
    LET q == WrSrc[p] IN
    /\ app_state = WrSt[p]
    /\ fifo[q] # <<>>
    /\ DM!NotFull(dm[p].wrData, IfDepth)
    /\ LET w == Head(fifo[q]) IN
       /\ fifo' = [fifo EXCEPT ![q] = Tail(@)]
       /\ dm' = [dm EXCEPT ![p].wrData = Append(@, ToMem(w))]
       /\ app_state' = IF w.last THEN WrStsSt[p] ELSE app_state
    /\ UNCHANGED <<num_net_rx_data_bytes, envVars>>

\* Mutant: both ports' status cases read the status stream of port 1.
APP_MEM_WR_STSPort1(p) ==
    /\ app_state = WrStsSt[p]
    /\ dm[1].wrSts # <<>>
    /\ dm' = [dm EXCEPT ![1].wrSts = Tail(@)]
    /\ app_state' = RdCmdSt[p]
    /\ UNCHANGED <<fifo, num_net_rx_data_bytes, envVars>>

\* cases APP_MEM_WR_STS_P1/P2 (lines 241-246, 285-290)
APP_MEM_WR_STS(p) ==
    /\ app_state = WrStsSt[p]
    /\ dm[p].wrSts # <<>>
    /\ dm' = [dm EXCEPT ![p].wrSts = Tail(@)]
    /\ app_state' = RdCmdSt[p]
    /\ UNCHANGED <<fifo, num_net_rx_data_bytes, envVars>>

\* cases APP_MEM_RD_CMD_P1/P2 (lines 247-252, 291-296)
APP_MEM_RD_CMD(p) ==
    /\ app_state = RdCmdSt[p]
    /\ DM!NotFull(dm[p].rdCmd, IfDepth)
    /\ dm' = [dm EXCEPT ![p].rdCmd =
                 Append(@, [addr |-> mem_wr_addr, len |-> num_net_rx_data_bytes])]
    /\ app_state' = RdSt[p]
    /\ UNCHANGED <<fifo, num_net_rx_data_bytes, envVars>>

\* cases APP_MEM_RD_P1/P2 (lines 253-265, 297-309)
APP_MEM_RD(p) ==
    /\ app_state = RdSt[p]
    /\ dm[p].rdData # <<>>
    /\ DM!NotFull(fifo.mem_rd_data, Depth)
    /\ LET w == ToNet(Head(dm[p].rdData)) IN
       /\ dm' = [dm EXCEPT ![p].rdData = Tail(@)]
       /\ fifo' = [fifo EXCEPT !.mem_rd_data = Append(@, w)]
       /\ app_state' = IF w.last THEN AfterRd[p] ELSE app_state
    /\ UNCHANGED <<num_net_rx_data_bytes, envVars>>

\* Mutant: the byte count is not cleared at the end of a packet.
APP_NET_TXNoReset ==
    /\ app_state = "APP_NET_TX"
    /\ fifo.mem_rd_data # <<>>
    /\ LET w == Head(fifo.mem_rd_data) IN
       /\ fifo' = [fifo EXCEPT !.mem_rd_data = Tail(@)]
       /\ oNetTxData' = Append(oNetTxData, w)
       /\ app_state' = IF w.last THEN "APP_NET_RX_IDLE" ELSE app_state
    /\ UNCHANGED <<dm, iNetRxData, sent, num_net_rx_data_bytes>>

\* case APP_NET_TX (lines 311-320); the network takes every word at once.
APP_NET_TX ==
    /\ app_state = "APP_NET_TX"
    /\ fifo.mem_rd_data # <<>>
    /\ LET w == Head(fifo.mem_rd_data) IN
       /\ fifo' = [fifo EXCEPT !.mem_rd_data = Tail(@)]
       /\ oNetTxData' = Append(oNetTxData, w)
       /\ app_state' = IF w.last THEN "APP_NET_RX_IDLE" ELSE app_state
       /\ num_net_rx_data_bytes' = IF w.last THEN 0 ELSE num_net_rx_data_bytes
    /\ UNCHANGED <<dm, iNetRxData, sent>>

echo_app_with_ddr3 ==
    \/ APP_NET_RX_IDLE
    \/ \E p \in Ports : \/ APP_MEM_WR_CMD(p) \/ APP_MEM_WR(p) \/ APP_MEM_WR_STS(p)
                       \/ APP_MEM_RD_CMD(p) \/ APP_MEM_RD(p)
    \/ APP_NET_TX

(***************************************************************************)
(* Environment: the network delivers whole packets of full words ending in *)
(* a word with a mask of LastKeeps; the two DataMovers serve the ports.    *)
(***************************************************************************)
Packet(k, n, lk) ==
    [i \in 1..n |-> [data |-> 10 * k + i,
                     keep |-> IF i = n THEN lk ELSE 255,
                     last |-> i = n]]

NetDeliver ==
    /\ Len(sent) < MaxPackets
    /\ \E n \in 1..MaxWords, lk \in LastKeeps :
         LET pk == Packet(Len(sent) + 1, n, lk) IN
         /\ iNetRxData' = iNetRxData \o pk
         /\ sent' = Append(sent, pk)
    /\ UNCHANGED <<roleVars, dm, oNetTxData>>

DmWrite(p) ==
    /\ DM!CanS2mm(dm[p], IfDepth)
    /\ dm' = [dm EXCEPT ![p] = DM!S2mm(@)]
    /\ UNCHANGED <<roleVars, envVars>>

DmRead(p) ==
    /\ DM!CanMm2s(dm[p], IfDepth, FALSE)
    /\ dm' = [dm EXCEPT ![p] = DM!Mm2s(@, FALSE)]
    /\ UNCHANGED <<roleVars, envVars>>

Next ==
    \/ echo_app_with_ddr3
    \/ NetDeliver
    \/ \E p \in Ports : DmWrite(p) \/ DmRead(p)

\* The FSM is invoked on every clock cycle and the DataMovers are always
\* serving; the network need not deliver.
Fairness ==
    /\ WF_vars(echo_app_with_ddr3)
    /\ \A p \in Ports : WF_vars(DmWrite(p)) /\ WF_vars(DmRead(p))

Spec == Init /\ [][Next]_vars /\ Fairness

-----------------------------------------------------------------------------
Word    == [data : Nat, keep : 0..255, last : BOOLEAN]
MemWord == [data : Nat, hiData : {0}, keep : 0..255, hiKeep : {0}, last : BOOLEAN]
Cmd     == [addr : {mem_wr_addr}, len : 0..(2^16 - 1)]
States  == {"APP_NET_RX_IDLE", "APP_NET_TX"} \cup
           {s[p] : s \in {WrCmdSt, WrSt, WrStsSt, RdCmdSt, RdSt}, p \in Ports}

\* The FSM, the FIFOs and the streams to the ports stay within their kinds
\* and depths.
TypeOK ==
    /\ app_state \in States
    /\ \A q \in {"net_rx_data", "mem_rd_data"} :
          fifo[q] \in Seq(Word) /\ Len(fifo[q]) <= Depth
    /\ num_net_rx_data_bytes \in 0..(2^16 - 1)
    /\ \A p \in Ports :
          /\ \A c \in {"wrCmd", "rdCmd"} :
                dm[p][c] \in Seq(Cmd) /\ Len(dm[p][c]) <= IfDepth
          /\ dm[p].wrData \in Seq(MemWord) /\ Len(dm[p].wrData) <= IfDepth
          /\ dm[p].rdData \in Seq(MemWord) /\ Len(dm[p].rdData) <= IfDepth

\* Packets the role has sent back in full: the last words of oNetTxData.
Echoed == Len(SelectSeq(oNetTxData, LAMBDA w : w.last))

PacketBytes(pk) == FoldSeq(LAMBDA w, acc : acc + keep_to_len(w.keep), 0, pk)

\* After both DRAM round trips, what the role sends is, word for word, a
\* prefix of what the network delivered: no word is lost, duplicated,
\* reordered or altered by the widening to 512 bits and back.
EchoedInOrder == IsPrefix(oNetTxData, FlattenSeq(sent))

\* Every command posted to a port, write or read, carries the byte count
\* of the packet the FSM is storing, the one after those already echoed:
\* num_net_rx_data_bytes is accumulated over the packet in
\* APP_NET_RX_IDLE and cleared only by the last word of APP_NET_TX.
CmdLenMatches ==
    \A p \in Ports : \A c \in {"wrCmd", "rdCmd"} : \A i \in 1..Len(dm[p][c]) :
        dm[p][c][i].len = PacketBytes(sent[Echoed + 1])

\* Every packet the network delivers is eventually sent back whole.
AllEchoed == \A k \in 1..MaxPackets : Len(sent) >= k ~> Echoed >= k
=============================================================================
