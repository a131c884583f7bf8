------------------------------ MODULE UdpRoleIf ------------------------------
(***************************************************************************)
(* udp_role_if.cpp of Shell_x1Udp_x1Tcp_x2Mp_x2Mc, the URIF between the    *)
(* UDP mux (UDMX) and a role.  Three processes run in its DATAFLOW region: *)
(*   pRxP          opens port 80 after a wait, then passes each datagram   *)
(*                 to the role and its socket pair, swapped, to pTxP;      *)
(*   pTxP_Enqueue  queues the role's datagram and computes its payload     *)
(*                 length;                                                 *)
(*   pTxP_Dequeue  sends the queued datagram with the length and the last  *)
(*                 socket pair pRxP forwarded.                             *)
(* UDMX and a role that echoes every word it receives are environment.  A *)
(* data word is a record of the datagram it belongs to, its TLAST and, for *)
(* the last word, the number of its valid bytes (the 1s of tkeep).         *)
(***************************************************************************)
EXTENDS Naturals, Sequences, FiniteSets

CONSTANTS
  Peers,         \* remote sockets UDMX receives datagrams from
  Fpga,          \* the FPGA's socket, port 80
  Depth,         \* depth of the FIFOs to and from UDMX and the role
  MinWords,      \* bound: fewest words in a datagram UDMX delivers
  MaxWords,      \* bound: most words in a datagram UDMX delivers
  LastBytes,     \* valid bytes the last word of a datagram may have
  MaxDatagrams,  \* bound: datagrams UDMX delivers in a run
  OpenWait       \* the openPortWaitTime pRxP starts from (10)

ASSUME /\ 1 <= MinWords /\ MinWords <= MaxWords
       /\ LastBytes \subseteq 1 .. 8

VARIABLES
  rxpState, openPortWaitTime,           \* pRxP
  opnReqQ, opnAckQ,                     \* soUDMX_OpnReq, siUDMX_OpnAck
  rxDataQ, rxMetaQ,                     \* siUDMX_Data, siUDMX_Meta
  roleRxQ, roleTxQ,                     \* soROLE_Data, siROL_Data
  metaQ,                                \* sRxToTx_Meta
  enqState, pldLen, fifoQ, plenQ,       \* pTxP_Enqueue, sFifo_Data, sPLen
  deqState, txSocketPairReg,            \* pTxP_Dequeue
  txDataQ, txMetaQ, txPLenQ,            \* soUDMX_Data, _Meta, _PLen
  udmx                                  \* UDMX: what it delivered and took

vars == <<rxpState, openPortWaitTime, opnReqQ, opnAckQ, rxDataQ, rxMetaQ,
          roleRxQ, roleTxQ, metaQ, enqState, pldLen, fifoQ, plenQ, deqState,
          txSocketPairReg, txDataQ, txMetaQ, txPLenQ, udmx>>

\* sPLen has depth 1 and sRxToTx_Meta depth 2 (lines 235, 433).
PLenDepth == 1
MetaDepth == 2
UdpPortNum == 80
NoSocket == [src |-> Fpga, dst |-> Fpga]

Init ==
  /\ rxpState = "FSM_RESET" /\ openPortWaitTime = 0
  /\ opnReqQ = <<>> /\ opnAckQ = <<>>
  /\ rxDataQ = <<>> /\ rxMetaQ = <<>>
  /\ roleRxQ = <<>> /\ roleTxQ = <<>> /\ metaQ = <<>>
  /\ enqState = "FSM_RST" /\ pldLen = 0 /\ fifoQ = <<>> /\ plenQ = <<>>
  /\ deqState = "FSM_W8FORMETA" /\ txSocketPairReg = NoSocket
  /\ txDataQ = <<>> /\ txMetaQ = <<>> /\ txPLenQ = <<>>
  /\ udmx = [delivered |-> <<>>, words |-> <<>>, portOpen |-> FALSE,
             sentData |-> <<>>, sentMeta |-> <<>>, sentPLen |-> <<>>]

Move(from, to) == /\ from' = Tail(from) /\ to' = Append(to, Head(from))

-----------------------------------------------------------------------------
(***************************************************************************)
(* pTxP, lines 43-244: pTxP_Enqueue and pTxP_Dequeue.                      *)
(***************************************************************************)

\* Mutant: the last word counted as eight bytes.
updatePayloadLengthFullLast(w, len) == (len + 8) % 2^16

\* updatePayloadLength, lines 43-54: the last word adds its valid bytes,
\* every other word eight.  UdpPLen is ap_uint<16>.
updatePayloadLength(w, len) ==
  (len + IF w.tlast THEN w.keep ELSE 8) % 2^16

\* pTxP_Enqueue, lines 68-121.  FSM_LAST_ACC writes sPLen without testing
\* full(): the write blocks the invocation until there is room.
pTxP_Enqueue ==
  /\ \/ /\ enqState = "FSM_RST"
        /\ pldLen' = 0 /\ enqState' = "FSM_ACC"
        /\ UNCHANGED <<roleTxQ, fifoQ, plenQ>>
     \/ /\ enqState = "FSM_ACC" /\ roleTxQ # <<>> /\ Len(fifoQ) < Depth
        /\ Move(roleTxQ, fifoQ)
        /\ pldLen' = updatePayloadLength(Head(roleTxQ), pldLen)
        /\ enqState' = IF Head(roleTxQ).tlast THEN "FSM_LAST_ACC" ELSE enqState
        /\ UNCHANGED plenQ
     \/ /\ enqState = "FSM_LAST_ACC" /\ Len(plenQ) < PLenDepth
        /\ plenQ' = Append(plenQ, pldLen)
        /\ pldLen' = 0 /\ enqState' = "FSM_ACC"
        /\ UNCHANGED <<roleTxQ, fifoQ>>
  /\ UNCHANGED <<rxpState, openPortWaitTime, opnReqQ, opnAckQ, rxDataQ,
                 rxMetaQ, roleRxQ, metaQ, deqState, txSocketPairReg, txDataQ,
                 txMetaQ, txPLenQ, udmx>>

\* The tail of FSM_FIRST_ACC and FSM_ACC, lines 182-184 and 200-202:
\* always drain sRxToTx_Meta into the socket pair register.
DrainMeta(reg) ==
  IF metaQ # <<>>
    THEN metaQ' = Tail(metaQ) /\ txSocketPairReg' = Head(metaQ)
    ELSE UNCHANGED metaQ /\ txSocketPairReg' = reg

\* Mutant: no test of room for the payload length.
FirstWordOutNoPLenRoom ==
  IF fifoQ # <<>> /\ plenQ # <<>>
     /\ Len(txDataQ) < Depth /\ Len(txMetaQ) < Depth
  THEN /\ fifoQ' = Tail(fifoQ)
       /\ IF ~Head(fifoQ).tlast
            THEN /\ txDataQ' = Append(txDataQ, Head(fifoQ))
                 /\ txMetaQ' = Append(txMetaQ, txSocketPairReg)
                 /\ Move(plenQ, txPLenQ)
                 /\ deqState' = "FSM_ACC"
            ELSE UNCHANGED <<txDataQ, txMetaQ, plenQ, txPLenQ, deqState>>
  ELSE UNCHANGED <<fifoQ, txDataQ, txMetaQ, plenQ, txPLenQ, deqState>>

\* FSM_FIRST_ACC, lines 166-180: with a word and a length waiting and room
\* on all three outputs, read the word; forward it with the register and
\* the length unless it is the last word, in which case nothing is written.
FirstWordOut ==
  IF fifoQ # <<>> /\ plenQ # <<>>
     /\ Len(txDataQ) < Depth /\ Len(txMetaQ) < Depth /\ Len(txPLenQ) < Depth
  THEN /\ fifoQ' = Tail(fifoQ)
       /\ IF ~Head(fifoQ).tlast
            THEN /\ txDataQ' = Append(txDataQ, Head(fifoQ))
                 /\ txMetaQ' = Append(txMetaQ, txSocketPairReg)
                 /\ Move(plenQ, txPLenQ)
                 /\ deqState' = "FSM_ACC"
            ELSE UNCHANGED <<txDataQ, txMetaQ, plenQ, txPLenQ, deqState>>
  ELSE UNCHANGED <<fifoQ, txDataQ, txMetaQ, plenQ, txPLenQ, deqState>>

\* Mutant: after each datagram, wait for a new socket pair again.
pTxP_DequeueRewaits ==
  /\ \/ /\ deqState = "FSM_W8FORMETA" /\ metaQ # <<>>
        /\ metaQ' = Tail(metaQ) /\ txSocketPairReg' = Head(metaQ)
        /\ deqState' = "FSM_FIRST_ACC"
        /\ UNCHANGED <<fifoQ, plenQ, txDataQ, txMetaQ, txPLenQ>>
     \/ /\ deqState = "FSM_FIRST_ACC"
        /\ FirstWordOut
        /\ DrainMeta(txSocketPairReg)
     \/ /\ deqState = "FSM_ACC"
        /\ IF fifoQ # <<>> /\ Len(txDataQ) < Depth
             THEN /\ Move(fifoQ, txDataQ)
                  /\ deqState' = IF Head(fifoQ).tlast THEN "FSM_W8FORMETA"
                                                      ELSE deqState
             ELSE UNCHANGED <<fifoQ, txDataQ, deqState>>
        /\ DrainMeta(txSocketPairReg)
        /\ UNCHANGED <<plenQ, txMetaQ, txPLenQ>>
  /\ UNCHANGED <<rxpState, openPortWaitTime, opnReqQ, opnAckQ, rxDataQ,
                 rxMetaQ, roleRxQ, roleTxQ, enqState, pldLen, udmx>>

\* Mutant: FSM_ACC forwards a word only when it is not the last.
pTxP_DequeueDropsLast ==
  /\ \/ /\ deqState = "FSM_W8FORMETA" /\ metaQ # <<>>
        /\ metaQ' = Tail(metaQ) /\ txSocketPairReg' = Head(metaQ)
        /\ deqState' = "FSM_FIRST_ACC"
        /\ UNCHANGED <<fifoQ, plenQ, txDataQ, txMetaQ, txPLenQ>>
     \/ /\ deqState = "FSM_FIRST_ACC"
        /\ FirstWordOut
        /\ DrainMeta(txSocketPairReg)
     \/ /\ deqState = "FSM_ACC"
        /\ IF fifoQ # <<>> /\ Len(txDataQ) < Depth
             THEN /\ fifoQ' = Tail(fifoQ)
                  /\ txDataQ' = IF Head(fifoQ).tlast THEN txDataQ
                                ELSE Append(txDataQ, Head(fifoQ))
                  /\ deqState' = IF Head(fifoQ).tlast THEN "FSM_W8FORMETA"
                                                      ELSE deqState
             ELSE UNCHANGED <<fifoQ, txDataQ, deqState>>
        /\ DrainMeta(txSocketPairReg)
        /\ UNCHANGED <<plenQ, txMetaQ, txPLenQ>>
  /\ UNCHANGED <<rxpState, openPortWaitTime, opnReqQ, opnAckQ, rxDataQ,
                 rxMetaQ, roleRxQ, roleTxQ, enqState, pldLen, udmx>>

\* pTxP_Dequeue, lines 138-206.
pTxP_Dequeue ==
  /\ \/ /\ deqState = "FSM_W8FORMETA" /\ metaQ # <<>>
        /\ metaQ' = Tail(metaQ) /\ txSocketPairReg' = Head(metaQ)
        /\ deqState' = "FSM_FIRST_ACC"
        /\ UNCHANGED <<fifoQ, plenQ, txDataQ, txMetaQ, txPLenQ>>
     \/ /\ deqState = "FSM_FIRST_ACC"
        /\ FirstWordOut
        /\ DrainMeta(txSocketPairReg)
     \/ /\ deqState = "FSM_ACC"
        /\ IF fifoQ # <<>> /\ Len(txDataQ) < Depth
             THEN /\ Move(fifoQ, txDataQ)
                  /\ deqState' = IF Head(fifoQ).tlast THEN "FSM_FIRST_ACC"
                                                      ELSE deqState
             ELSE UNCHANGED <<fifoQ, txDataQ, deqState>>
        /\ DrainMeta(txSocketPairReg)
        /\ UNCHANGED <<plenQ, txMetaQ, txPLenQ>>
  /\ UNCHANGED <<rxpState, openPortWaitTime, opnReqQ, opnAckQ, rxDataQ,
                 rxMetaQ, roleRxQ, roleTxQ, enqState, pldLen, udmx>>

-----------------------------------------------------------------------------
(***************************************************************************)
(* pRxP, lines 260-334.                                                    *)
(***************************************************************************)
\* A socket pair with source and destination swapped (lines 312-315).
Swap(m) == [src |-> m.dst, dst |-> m.src]

\* FSM_IDLE, lines 282-290: request port 80 once the wait is over; every
\* other invocation decrements the 8-bit wait, also when it is 0 and the
\* request FIFO is full.
pRxP ==
  /\ \/ /\ rxpState = "FSM_RESET"
        /\ openPortWaitTime' = OpenWait /\ rxpState' = "FSM_IDLE"
        /\ UNCHANGED <<opnReqQ, opnAckQ, rxDataQ, rxMetaQ, roleRxQ, metaQ>>
     \/ /\ rxpState = "FSM_IDLE"
        /\ IF Len(opnReqQ) < Depth /\ openPortWaitTime = 0
             THEN /\ opnReqQ' = Append(opnReqQ, UdpPortNum)
                  /\ rxpState' = "FSM_W8FORPORT"
                  /\ UNCHANGED openPortWaitTime
             ELSE /\ openPortWaitTime' = (openPortWaitTime + 255) % 256
                  /\ UNCHANGED <<opnReqQ, rxpState>>
        /\ UNCHANGED <<opnAckQ, rxDataQ, rxMetaQ, roleRxQ, metaQ>>
     \/ /\ rxpState = "FSM_W8FORPORT" /\ opnAckQ # <<>>
        /\ opnAckQ' = Tail(opnAckQ) /\ rxpState' = "FSM_FIRST_ACC"
        /\ UNCHANGED <<openPortWaitTime, opnReqQ, rxDataQ, rxMetaQ, roleRxQ,
                       metaQ>>
     \* FSM_FIRST_ACC, lines 300-320: the first word and the metadata are
     \* read together; the word goes to the role unless it is the last,
     \* the swapped socket pair goes to pTxP in any case.
     \/ /\ rxpState = "FSM_FIRST_ACC" /\ rxDataQ # <<>> /\ rxMetaQ # <<>>
        /\ Len(roleRxQ) < Depth /\ Len(metaQ) < MetaDepth
        /\ rxDataQ' = Tail(rxDataQ)
        /\ IF ~Head(rxDataQ).tlast
             THEN /\ roleRxQ' = Append(roleRxQ, Head(rxDataQ))
                  /\ rxpState' = "FSM_ACC"
             ELSE UNCHANGED <<roleRxQ, rxpState>>
        /\ rxMetaQ' = Tail(rxMetaQ)
        /\ metaQ' = Append(metaQ, Swap(Head(rxMetaQ)))
        /\ UNCHANGED <<openPortWaitTime, opnReqQ, opnAckQ>>
     \/ /\ rxpState = "FSM_ACC" /\ rxDataQ # <<>> /\ Len(roleRxQ) < Depth
        /\ Move(rxDataQ, roleRxQ)
        /\ rxpState' = IF Head(rxDataQ).tlast THEN "FSM_FIRST_ACC" ELSE rxpState
        /\ UNCHANGED <<openPortWaitTime, opnReqQ, opnAckQ, rxMetaQ, metaQ>>
  /\ UNCHANGED <<roleTxQ, enqState, pldLen, fifoQ, plenQ, deqState,
                 txSocketPairReg, txDataQ, txMetaQ, txPLenQ, udmx>>

-----------------------------------------------------------------------------
(***************************************************************************)
(* The environment: the echo role and UDMX.                                *)
(***************************************************************************)
\* The role sends back every word it receives.
RoleEcho ==
  /\ roleRxQ # <<>> /\ Len(roleTxQ) < Depth
  /\ Move(roleRxQ, roleTxQ)
  /\ UNCHANGED <<rxpState, openPortWaitTime, opnReqQ, opnAckQ, rxDataQ,
                 rxMetaQ, metaQ, enqState, pldLen, fifoQ, plenQ, deqState,
                 txSocketPairReg, txDataQ, txMetaQ, txPLenQ, udmx>>

\* UDMX opens the port and acknowledges.
UdmxOpen ==
  /\ opnReqQ # <<>> /\ Len(opnAckQ) < Depth
  /\ opnReqQ' = Tail(opnReqQ) /\ opnAckQ' = Append(opnAckQ, TRUE)
  /\ udmx' = [udmx EXCEPT !.portOpen = TRUE]
  /\ UNCHANGED <<rxpState, openPortWaitTime, rxDataQ, rxMetaQ, roleRxQ,
                 roleTxQ, metaQ, enqState, pldLen, fifoQ, plenQ, deqState,
                 txSocketPairReg, txDataQ, txMetaQ, txPLenQ>>

\* The words of the k-th datagram: n words, the last with b valid bytes.
Datagram(k, n, b) ==
  [j \in 1 .. n |-> [dg |-> k, tlast |-> j = n, keep |-> IF j = n THEN b ELSE 8]]
Bytes(n, b) == 8 * (n - 1) + b

\* UDMX delivers a datagram from a peer to port 80 once it is open.
UdmxDeliver ==
  /\ udmx.portOpen /\ Len(udmx.delivered) < MaxDatagrams
  /\ Len(rxMetaQ) < Depth
  /\ \E p \in Peers, n \in MinWords .. MaxWords, b \in LastBytes :
       LET k == Len(udmx.delivered) + 1 IN
       /\ Len(rxDataQ) + n <= Depth
       /\ rxDataQ' = rxDataQ \o Datagram(k, n, b)
       /\ rxMetaQ' = Append(rxMetaQ, [src |-> p, dst |-> Fpga])
       /\ udmx' = [udmx EXCEPT
                     !.delivered = Append(@, [peer |-> p, bytes |-> Bytes(n, b)]),
                     !.words = @ \o Datagram(k, n, b)]
  /\ UNCHANGED <<rxpState, openPortWaitTime, opnReqQ, opnAckQ, roleRxQ,
                 roleTxQ, metaQ, enqState, pldLen, fifoQ, plenQ, deqState,
                 txSocketPairReg, txDataQ, txMetaQ, txPLenQ>>

\* UDMX takes the data, metadata and payload lengths pTxP sends.
UdmxTake ==
  /\ \/ /\ txDataQ # <<>> /\ txDataQ' = Tail(txDataQ)
        /\ udmx' = [udmx EXCEPT !.sentData = Append(@, Head(txDataQ))]
        /\ UNCHANGED <<txMetaQ, txPLenQ>>
     \/ /\ txMetaQ # <<>> /\ txMetaQ' = Tail(txMetaQ)
        /\ udmx' = [udmx EXCEPT !.sentMeta = Append(@, Head(txMetaQ))]
        /\ UNCHANGED <<txDataQ, txPLenQ>>
     \/ /\ txPLenQ # <<>> /\ txPLenQ' = Tail(txPLenQ)
        /\ udmx' = [udmx EXCEPT !.sentPLen = Append(@, Head(txPLenQ))]
        /\ UNCHANGED <<txDataQ, txMetaQ>>
  /\ UNCHANGED <<rxpState, openPortWaitTime, opnReqQ, opnAckQ, rxDataQ,
                 rxMetaQ, roleRxQ, roleTxQ, metaQ, enqState, pldLen, fifoQ,
                 plenQ, deqState, txSocketPairReg>>

-----------------------------------------------------------------------------
Next ==
  \/ pRxP \/ pTxP_Enqueue \/ pTxP_Dequeue
  \/ RoleEcho \/ UdmxOpen \/ UdmxDeliver \/ UdmxTake

(***************************************************************************)
(* The three processes run on every clock; the role keeps echoing, and     *)
(* UDMX acknowledges the port request and takes what is sent.  UDMX need   *)
(* not deliver datagrams.                                                  *)
(***************************************************************************)
Spec ==
  /\ Init /\ [][Next]_vars
  /\ WF_vars(pRxP) /\ WF_vars(pTxP_Enqueue) /\ WF_vars(pTxP_Dequeue)
  /\ WF_vars(RoleEcho) /\ WF_vars(UdmxOpen) /\ WF_vars(UdmxTake)

-----------------------------------------------------------------------------
Socket == Peers \cup {Fpga}
Word == [dg : 1 .. MaxDatagrams, tlast : BOOLEAN, keep : 1 .. 8]
TypeOK ==
  /\ rxpState \in {"FSM_RESET", "FSM_IDLE", "FSM_W8FORPORT", "FSM_FIRST_ACC",
                   "FSM_ACC"}
  /\ openPortWaitTime \in 0 .. 255
  /\ enqState \in {"FSM_RST", "FSM_ACC", "FSM_LAST_ACC"}
  /\ deqState \in {"FSM_W8FORMETA", "FSM_FIRST_ACC", "FSM_ACC"}
  /\ pldLen \in 0 .. 8 * MaxWords
  /\ txSocketPairReg \in [src : Socket, dst : Socket]
  /\ LET qs == <<rxDataQ, roleRxQ, roleTxQ, fifoQ, txDataQ>> IN
     \A i \in DOMAIN qs : qs[i] \in Seq(Word) /\ Len(qs[i]) <= Depth
  /\ plenQ \in Seq(0 .. 8 * MaxWords) /\ Len(plenQ) <= PLenDepth
  /\ txPLenQ \in Seq(0 .. 8 * MaxWords) /\ Len(txPLenQ) <= Depth
  /\ Len(metaQ) <= MetaDepth /\ Len(txMetaQ) <= Depth
  /\ Len(rxMetaQ) <= Depth /\ Len(opnReqQ) <= Depth /\ Len(opnAckQ) <= Depth

\* What pTxP has sent to UDMX, taken or still queued.
OutData == udmx.sentData \o txDataQ
OutMeta == udmx.sentMeta \o txMetaQ
OutPLen == udmx.sentPLen \o txPLenQ
\* The positions of the words that open a datagram pTxP sends.
Firsts(ws) == {i \in DOMAIN ws : i = 1 \/ ws[i-1].tlast}
Rank(i, ws) == Cardinality({j \in Firsts(ws) : j <= i})

\* pTxP sends every datagram with the payload length pTxP_Enqueue computed
\* for it: the r-th length it sends is the byte count of the datagram whose
\* first word it accompanies.
PLenMatches ==
  \A i \in Firsts(OutData) :
    Rank(i, OutData) <= Len(OutPLen) =>
      OutPLen[Rank(i, OutData)] = udmx.delivered[OutData[i].dg].bytes

\* The role's replies leave in the order their words arrived, none lost,
\* duplicated or cut off: the words pTxP sends are a prefix of the words
\* UDMX delivered.
EchoedInOrder ==
  /\ Len(OutData) <= Len(udmx.words)
  /\ \A i \in DOMAIN OutData : OutData[i] = udmx.words[i]

\* Every reply goes back to the peer that sent the datagram it echoes: the
\* socket pair sent with its first word is the datagram's, swapped.  With two
\* peers TLC finds it violated (the socket pair register is overwritten by
\* the next datagram's metadata, lines 182-184); no run checks it with one
\* peer, in which it cannot tell senders apart.
RepliesToSender ==
  \A i \in Firsts(OutData) :
    Rank(i, OutData) <= Len(OutMeta) =>
      OutMeta[Rank(i, OutData)] = [src |-> Fpga,
                                   dst |-> udmx.delivered[OutData[i].dg].peer]

\* Every datagram UDMX delivers is echoed back whole, with its metadata and
\* length: the port is opened after the wait, and no process of the Tx path
\* waits forever on another.
AllEchoed ==
  \A k \in 1 .. MaxDatagrams :
    Len(udmx.delivered) >= k ~>
      /\ Len(udmx.sentPLen) >= k /\ Len(udmx.sentMeta) >= k
      /\ Len(udmx.sentData) >= Len(udmx.words)

-----------------------------------------------------------------------------
(***************************************************************************)
(* Refinement of EchoService.  A datagram is received when UDMX delivers *)
(* it; the k-th reply exists once UDMX has taken its last data word, its  *)
(* socket pair and its payload length.  Its payload is the run of words   *)
(* ending at the k-th TLAST pTxP sent.                                    *)
(***************************************************************************)
Lasts(ws) == {i \in DOMAIN ws : ws[i].tlast}
KthLast(ws, k) ==
  CHOOSE i \in Lasts(ws) : Cardinality({j \in Lasts(ws) : j <= i}) = k
ReplyWords(ws, k) ==
  SubSeq(ws, IF k = 1 THEN 1 ELSE KthLast(ws, k - 1) + 1, KthLast(ws, k))
Smallest(S) == CHOOSE n \in S : \A m \in S : n <= m
RepliesTaken ==
  Smallest({Cardinality(Lasts(udmx.sentData)), Len(udmx.sentMeta),
            Len(udmx.sentPLen)})

\* The reply to a datagram: its payload and byte count, to the swapped pair.
DatagramReply(d) == [socket  |-> [src |-> d.socket.dst, dst |-> d.socket.src],
                     payload |-> d.payload, plen |-> d.bytes]

Echo == INSTANCE EchoService WITH
  ReplyTo  <- DatagramReply,
  received <- [k \in DOMAIN udmx.delivered |->
                 [socket  |-> [src |-> udmx.delivered[k].peer, dst |-> Fpga],
                  payload |-> SelectSeq(udmx.words, LAMBDA w : w.dg = k),
                  bytes   |-> udmx.delivered[k].bytes]],
  replied  <- [k \in 1 .. RepliesTaken |->
                 [socket  |-> udmx.sentMeta[k],
                  payload |-> ReplyWords(udmx.sentData, k),
                  plen    |-> udmx.sentPLen[k]]]

\* The interface and the echo role implement EchoService: pRxP, the role and
\* pTxP together answer each datagram once, in order, to its sender, with
\* its own payload and payload length, and leave none unanswered.
EchoRefined == Echo!Spec
=============================================================================
