------------------------- MODULE EchoStoreAndForward -------------------------
(***************************************************************************)
(* EchoStoreAndForward of src/RoleEchoHls/hls/src/EchoStoreAndForward.cpp  *)
(* (lines 248-355): the UDP echo of the RoleEchoHls role in store-and-     *)
(* forward mode.  One II=1 FSM (udpState) stores each received datagram in *)
(* DRAM port Mp0 at cUDP_BUF_BASE_ADDR, reads it back and sends it to the  *)
(* network; udpRxStream and memRdStream (depth 1024, here Depth) are its   *)
(* internal FIFOs.  An action is one invocation in one case of the switch. *)
(* Port Mp0 is a DataMover (DataMover.tla) with a read status stream;      *)
(* the TCP streams and port Mp1 are not used by the function.              *)
(*                                                                         *)
(* A read of an empty hls::stream blocks in the synthesised FSM: a case    *)
(* that reads a stream whose emptiness it did not test is enabled only     *)
(* when that stream holds an element.                                      *)
(***************************************************************************)
EXTENDS Naturals, Sequences, SequencesExt

CONSTANTS
    Depth,        \* depth of udpRxStream and memRdStream (1024 in the code)
    IfDepth,      \* depth of the AXI streams between the role and Mp0
    MaxWords,     \* longest datagram the network delivers, in words
    LastKeeps,    \* keep masks the last word of a datagram may carry
    MaxPackets    \* datagrams the network delivers in a behaviour

VARIABLES
    udpState,       \* the FSM state (lines 249-252); static, so FSM_UDP_RX_IDLE
    udpRxStream,    \* line 254
    memRdStream,    \* line 257
    cntUdpRxBytes,  \* ap_uint<16> (line 262)
    mp0,            \* DRAM port Mp0 (DataMover.tla)
    siUdp,          \* words the network has delivered, not yet read
    soUdp,          \* words the role has sent, in order
    sent            \* datagrams the network has delivered, in order

vars == <<udpState, udpRxStream, memRdStream, cntUdpRxBytes, mp0, siUdp,
          soUdp, sent>>

DM == INSTANCE DataMover

cUDP_BUF_BASE_ADDR == 0    \* line 263, never changed

\* keepToLen (lines 60-74): the length of a contiguous low byte mask, 0 for
\* any other mask.
keepToLen(k) ==
    CASE k = 1 -> 1 [] k = 3 -> 2 [] k = 7 -> 3 [] k = 15 -> 4
      [] k = 31 -> 5 [] k = 63 -> 6 [] k = 127 -> 7 [] k = 255 -> 8
      [] OTHER -> 0

\* The network word in the low 64 bits and byte lanes of the 512-bit beat
\* (lines 291-293), and the low lanes taken back (lines 321-323).
ToMem(w) == [data |-> w.data, hiData |-> 0, keep |-> w.keep, hiKeep |-> 0, last |-> w.last]

ToNet(m) == [data |-> m.data, keep |-> m.keep, last |-> m.last]

Init ==
    /\ udpState = "FSM_UDP_RX_IDLE"
    /\ udpRxStream = <<>>
    /\ memRdStream = <<>>
    /\ cntUdpRxBytes = 0
    /\ mp0 = DM!PortInit({cUDP_BUF_BASE_ADDR})
    /\ siUdp = <<>>
    /\ soUdp = <<>>
    /\ sent = <<>>

envVars == <<siUdp, soUdp, sent>>

\* case FSM_UDP_RX_IDLE (lines 267-277)
FSM_UDP_RX_IDLE ==
    /\ udpState = "FSM_UDP_RX_IDLE"
    /\ siUdp # <<>>
    /\ DM!NotFull(udpRxStream, Depth)
    /\ LET w == Head(siUdp) IN
       /\ siUdp' = Tail(siUdp)
       /\ udpRxStream' = Append(udpRxStream, w)
       /\ cntUdpRxBytes' = (cntUdpRxBytes + keepToLen(w.keep)) % 2^16
       /\ udpState' = IF w.last THEN "FSM_MEM_WR_CMD_P0" ELSE udpState
    /\ UNCHANGED <<memRdStream, mp0, soUdp, sent>>

\* case FSM_MEM_WR_CMD_P0 (lines 279-285)
FSM_MEM_WR_CMD_P0 ==
    /\ udpState = "FSM_MEM_WR_CMD_P0"
    /\ DM!NotFull(mp0.wrCmd, IfDepth)
    /\ mp0' = [mp0 EXCEPT !.wrCmd =
                 Append(@, [addr |-> cUDP_BUF_BASE_ADDR, len |-> cntUdpRxBytes])]
    /\ udpState' = "FSM_MEM_WRITE_P0"
    /\ UNCHANGED <<udpRxStream, memRdStream, cntUdpRxBytes, envVars>>

\* case FSM_MEM_WRITE_P0 (lines 287-299)
FSM_MEM_WRITE_P0 ==
    /\ udpState = "FSM_MEM_WRITE_P0"
    /\ udpRxStream # <<>>
    /\ DM!NotFull(mp0.wrData, IfDepth)
    /\ LET w == Head(udpRxStream) IN
       /\ udpRxStream' = Tail(udpRxStream)
       /\ mp0' = [mp0 EXCEPT !.wrData = Append(@, ToMem(w))]
       /\ udpState' = IF w.last THEN "FSM_MEM_WR_STS_P0" ELSE udpState
    /\ UNCHANGED <<memRdStream, cntUdpRxBytes, envVars>>

\* case FSM_MEM_WR_STS_P0 (lines 301-307)
FSM_MEM_WR_STS_P0 ==
    /\ udpState = "FSM_MEM_WR_STS_P0"
    /\ mp0.wrSts # <<>>
    /\ mp0' = [mp0 EXCEPT !.wrSts = Tail(@)]
    /\ udpState' = "FSM_MEM_RD_CMD_P0"
    /\ UNCHANGED <<udpRxStream, memRdStream, cntUdpRxBytes, envVars>>

\* case FSM_MEM_RD_CMD_P0 (lines 309-315)
FSM_MEM_RD_CMD_P0 ==
    /\ udpState = "FSM_MEM_RD_CMD_P0"
    /\ DM!NotFull(mp0.rdCmd, IfDepth)
    /\ mp0' = [mp0 EXCEPT !.rdCmd =
                 Append(@, [addr |-> cUDP_BUF_BASE_ADDR, len |-> cntUdpRxBytes])]
    /\ udpState' = "FSM_MEM_READ_P0"
    /\ UNCHANGED <<udpRxStream, memRdStream, cntUdpRxBytes, envVars>>

\* case FSM_MEM_READ_P0 (lines 317-329)
FSM_MEM_READ_P0 ==
    /\ udpState = "FSM_MEM_READ_P0"
    /\ mp0.rdData # <<>>
    /\ DM!NotFull(memRdStream, Depth)
    /\ LET w == ToNet(Head(mp0.rdData)) IN
       /\ mp0' = [mp0 EXCEPT !.rdData = Tail(@)]
       /\ memRdStream' = Append(memRdStream, w)
       /\ udpState' = IF w.last THEN "FSM_MEM_RD_STS_P0" ELSE udpState
    /\ UNCHANGED <<udpRxStream, cntUdpRxBytes, envVars>>

\* case FSM_MEM_RD_STS_P0 (lines 331-337): the test is on siMemRdStsP0, the
\* blocking read on siMemWrStsP0.
FSM_MEM_RD_STS_P0 ==
    /\ udpState = "FSM_MEM_RD_STS_P0"
    /\ mp0.rdSts # <<>>
    /\ mp0.wrSts # <<>>
    /\ mp0' = [mp0 EXCEPT !.wrSts = Tail(@)]
    /\ udpState' = "FSM_UDP_TX"
    /\ UNCHANGED <<udpRxStream, memRdStream, cntUdpRxBytes, envVars>>

\* case FSM_UDP_TX (lines 339-349); the network takes every word at once.
FSM_UDP_TX ==
    /\ udpState = "FSM_UDP_TX"
    /\ memRdStream # <<>>
    /\ LET w == Head(memRdStream) IN
       /\ memRdStream' = Tail(memRdStream)
       /\ soUdp' = Append(soUdp, w)
       /\ udpState' = IF w.last THEN "FSM_UDP_RX_IDLE" ELSE udpState
       /\ cntUdpRxBytes' = IF w.last THEN 0 ELSE cntUdpRxBytes
    /\ UNCHANGED <<udpRxStream, mp0, siUdp, sent>>

EchoStoreAndForward ==
    \/ FSM_UDP_RX_IDLE
    \/ FSM_MEM_WR_CMD_P0 \/ FSM_MEM_WRITE_P0 \/ FSM_MEM_WR_STS_P0
    \/ FSM_MEM_RD_CMD_P0 \/ FSM_MEM_READ_P0 \/ FSM_MEM_RD_STS_P0
    \/ FSM_UDP_TX

(***************************************************************************)
(* Environment: the network delivers whole datagrams of full words ending  *)
(* in a word with a mask of LastKeeps; the DataMover serves Mp0.           *)
(***************************************************************************)
Datagram(k, n, lk) ==
    [i \in 1..n |-> [data |-> 10 * k + i,
                     keep |-> IF i = n THEN lk ELSE 255,
                     last |-> i = n]]

NetDeliver ==
    /\ Len(sent) < MaxPackets
    /\ \E n \in 1..MaxWords, lk \in LastKeeps :
         LET dg == Datagram(Len(sent) + 1, n, lk) IN
         /\ siUdp' = siUdp \o dg
         /\ sent' = Append(sent, dg)
    /\ UNCHANGED <<udpState, udpRxStream, memRdStream, cntUdpRxBytes, mp0, soUdp>>

DmWrite ==
    /\ DM!CanS2mm(mp0, IfDepth)
    /\ mp0' = DM!S2mm(mp0)
    /\ UNCHANGED <<udpState, udpRxStream, memRdStream, cntUdpRxBytes, envVars>>

DmRead ==
    /\ DM!CanMm2s(mp0, IfDepth, TRUE)
    /\ mp0' = DM!Mm2s(mp0, TRUE)
    /\ UNCHANGED <<udpState, udpRxStream, memRdStream, cntUdpRxBytes, envVars>>

Next == EchoStoreAndForward \/ NetDeliver \/ DmWrite \/ DmRead

\* The FSM is invoked on every clock cycle and the DataMover is always
\* serving; the network need not deliver.
Fairness ==
    /\ WF_vars(EchoStoreAndForward)
    /\ WF_vars(DmWrite)
    /\ WF_vars(DmRead)

Spec == Init /\ [][Next]_vars /\ Fairness

-----------------------------------------------------------------------------
\* Datagrams the role has sent back in full: the last words of soUdp.
Echoed == Len(SelectSeq(soUdp, LAMBDA w : w.last))

(***************************************************************************)
(* The role is an echo (the file's description: "every received packet is *)
(* first stored in the DDR4 before being read from that memory and being   *)
(* sent back"): every datagram the network delivers is eventually sent    *)
(* back whole.  It needs FSM_MEM_RD_STS_P0 to take the read status it      *)
(* tests for.                                                              *)
(***************************************************************************)
AllEchoed == \A k \in 1..MaxPackets : Len(sent) >= k ~> Echoed >= k
=============================================================================
