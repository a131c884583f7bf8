-------------------------------- MODULE Mpe --------------------------------
(***************************************************************************)
(* The MPI protocol engine mpe_main (Shell_x1Udp_x1Tcp_x2Mp_x2Mc/hls/mpe/   *)
(* src/mpe.cpp).  One call of mpe_main runs, in this order, the optional   *)
(* reset, the global handshake FSM (fsmMpeState), the send FSM             *)
(* (fsmSendState) and the receive FSM (fsmReceiveState); the three         *)
(* switches share the TCP streams, the internal FIFOs sFifoDataTX,         *)
(* sFifoIPdstTX, sFifoDataRX and the status words.  Each switch is an      *)
(* operator from a state record to the set of records it can leave, the    *)
(* empty set when a blocking stream access stalls the call, and one call   *)
(* is the composition of the three (action MpeCall).                       *)
(*                                                                         *)
(* Data: a byte is an integer, a 64-bit TCP word a record of its kept      *)
(* bytes (tkeep is always a prefix mask here) and tlast.  The header       *)
(* fields dst_rank, src_rank and size are kept as the four bytes           *)
(* headerToBytes writes for them, so no 32-bit value is ever computed.     *)
(* The packetType codes come from mpe.hpp, which is not in the repository; *)
(* any four distinct byte values behave alike.  The uses of the undeclared *)
(* `info' in START_SEND, WAIT4REQ and RECV_DATA are read as currentInfo.   *)
(***************************************************************************)
EXTENDS Integers, Sequences

CONSTANTS
    OwnRank,     \* config[MPE_CONFIG_OWN_RANK]
    MRT,         \* localMRT: rank -> IP address, the ranks of the cluster
    Peer,        \* the rank the application and the network talk to
    Counts,      \* message sizes (MPI_Interface.count) used by the model
    PayLens,     \* payload lengths, in bytes, of DATA messages on the wire
    ResetIn,     \* the values sys_reset takes, a subset of {0, 1}
    MaxNet,      \* messages the network delivers
    MaxApp       \* MPI calls and data messages the application issues

Magic == 150                        \* 0x96, header preamble and trailer
PayloadByte == 200                  \* the value of every payload byte
SEND_REQUEST == 1
CLEAR_TO_SEND == 2
DATA == 3
ACK == 4
MPI_SEND_INT == 0
MPI_RECV_INT == 1
MPI_SEND_FLOAT == 2
MPI_RECV_FLOAT == 3
MPI_BARRIER == 4
IPDepth == 1                        \* STREAM sFifoIPdstTX depth=1
HeaderLen == 32                     \* MPIF_HEADER_LENGTH
Unset == -1                         \* a byte of an uninitialised array

Min2(a, b) == IF a < b THEN a ELSE b

\* integerToLittleEndian: most significant byte first.
integerToLittleEndian(n) ==
    <<(n \div 16777216) % 256, (n \div 65536) % 256, (n \div 256) % 256, n % 256>>

MkHeader(dst, src, size, call, type) ==
    [dst_rank |-> integerToLittleEndian(dst), src_rank |-> integerToLittleEndian(src),
     size |-> integerToLittleEndian(size), call |-> call, type |-> type]

headerToBytes(h) ==
    <<Magic, Magic, Magic, Magic>> \o h.dst_rank \o h.src_rank \o h.size
    \o <<h.call, h.type>> \o [i \in 1..10 |-> 0] \o <<Magic, Magic, Magic, Magic>>

\* The header bytes as sFifoDataTX entries; handshakes set tlast on the last.
HeaderEntries(h, lastOnEnd) ==
    LET b == headerToBytes(h) IN
    [i \in 1..HeaderLen |-> [d |-> b[i], last |-> IF lastOnEnd /\ i = HeaderLen THEN 1 ELSE 0]]

\* convertAxisToNtsWidth: up to 8 bytes of a byte stream into one word whose
\* tlast is the tlast of the last byte taken.
convertAxisToNtsWidth(q) ==
    LET k == Min2(8, Len(q)) IN
    [word |-> [data |-> [i \in 1..k |-> q[i].d],
               last |-> IF k = 0 THEN 0 ELSE q[k].last],
     rest |-> SubSeq(q, k + 1, Len(q))]

\* convertAxisToMpiWidth: the kept bytes of a word; only byte 7 inherits tlast.
convertAxisToMpiWidth(w) ==
    [i \in 1..Len(w.data) |-> [d |-> w.data[i], last |-> IF i = 8 THEN w.last ELSE 0]]

\* The words a peer's send path puts on the wire for a byte stream.
Words(bs) ==
    [j \in 1..((Len(bs) + 7) \div 8) |->
        convertAxisToNtsWidth(SubSeq(bs, 8 * j - 7, Len(bs))).word]

----------------------------------------------------------------------------
(* Reading a header: up to four words, stopping at the first word that is  *)
(* not full or carries tlast; bytes of the words not copied stay unset.   *)

BadWord(w) == Len(w.data) # 8 \/ w.last = 1

\* The blocking reads of the loop can finish: a bad word or four words.
HeaderReadable(q) ==
    Len(q) >= 4 \/ \E j \in 1..Len(q) : BadWord(q[j])

WordsRead(q) ==
    IF \E j \in 1..Min2(4, Len(q)) : BadWord(q[j])
    THEN CHOOSE j \in 1..Min2(4, Len(q)) : BadWord(q[j]) /\ \A i \in 1..(j - 1) : ~BadWord(q[i])
    ELSE 4

HeaderBytes(q) ==
    LET n == WordsRead(q)
        copied(w) == w < n \/ (w = n /\ ~BadWord(q[n]))
    IN [i \in 0..31 |-> IF copied(i \div 8 + 1) THEN q[i \div 8 + 1].data[(i % 8) + 1] ELSE Unset]

\* bytesToHeader's checks as far as the copied bytes decide them: with an
\* unset byte among the checked ones both results can occur.
bytesToHeaderValid(b) ==
    LET ok(i, v) == b[i] = Unset \/ b[i] = v
        passes == (\A i \in 0..3 \cup 28..31 : ok(i, Magic)) /\ \A i \in 18..27 : ok(i, 0)
    IN IF ~passes THEN {FALSE}
       ELSE IF \A i \in 0..31 : b[i] # Unset THEN {TRUE} ELSE {TRUE, FALSE}

\* A field read with littleEndianToInteger; unset bytes give any value the
\* model's messages can carry.
Field(b, lsb, dom) ==
    IF \A i \in lsb..(lsb + 3) : b[i] # Unset
    THEN {<<b[lsb], b[lsb + 1], b[lsb + 2], b[lsb + 3]>>} ELSE dom

ByteField(b, i, dom) == IF b[i] # Unset THEN {b[i]} ELSE dom

RankFields == {integerToLittleEndian(r) : r \in DOMAIN MRT}
SizeFields == {integerToLittleEndian(c) : c \in Counts}

\* The outcomes of the header loop and bytesToHeader on the stream q.
HeaderReads(q) ==
    LET b == HeaderBytes(q)
        n == WordsRead(q)
        bad == BadWord(q[n])
    IN {[n |-> n, bad |-> bad, valid |-> FALSE, hdr |-> MkHeader(0, 0, 0, 0, 0)] :
            v \in bytesToHeaderValid(b) \ {TRUE}}
       \cup
       {[n |-> n, bad |-> bad, valid |-> TRUE,
         hdr |-> [dst_rank |-> d, src_rank |-> r, size |-> z, call |-> c, type |-> t]] :
            v \in bytesToHeaderValid(b) \cap {TRUE},
            d \in Field(b, 4, RankFields), r \in Field(b, 8, RankFields),
            z \in Field(b, 12, SizeFields),
            c \in ByteField(b, 16, MPI_SEND_INT..MPI_BARRIER),
            t \in ByteField(b, 17, {SEND_REQUEST, CLEAR_TO_SEND, DATA, ACK})}

\* srcIP.ipAddress = localMRT[header.src_rank] (ranks outside the MRT hold 0).
IPMatches(src, ip) ==
    \E k \in DOMAIN MRT : integerToLittleEndian(k) = src /\ MRT[k] = ip


----------------------------------------------------------------------------
VARIABLE st   \* the core's registers, FIFOs, status words and its streams

vars == st

\* Power-up values of the globals (mpe.cpp 12-25; static storage is zero).
Init ==
    st = [mpeSt |-> "IDLE", sendSt |-> "WRITE_IDLE", recvSt |-> "READ_IDLE",
          info |-> [call |-> 0, count |-> 0, rank |-> 0],
          hsCnt |-> 0, enqCnt |-> 0, tlastOcc |-> FALSE,
          txData |-> <<>>, txIP |-> <<>>, rxData |-> <<>>,
          readErrCnt |-> 0, lastReadErr |-> "NONE", ackCnt |-> 0, errHsCnt |-> 0,
          siTcp |-> <<>>, siIP |-> <<>>, soTcp |-> <<>>, soIP |-> <<>>,
          siMPIif |-> <<>>, soMPIif |-> <<>>, siMPI_data |-> <<>>, soMPI_data |-> <<>>,
          net |-> 0, app |-> 0]

\* The sys_reset block.
Reset(s, rst) ==
    IF rst = 1
    THEN [s EXCEPT !.sendSt = "WRITE_STANDBY", !.recvSt = "READ_STANDBY",
                   !.mpeSt = "IDLE", !.info = [call |-> 0, count |-> 0, rank |-> 0],
                   !.hsCnt = 0, !.readErrCnt = 0, !.lastReadErr = "NONE",
                   !.ackCnt = 0, !.errHsCnt = 0]
    ELSE s

\* A header error: count it, record it, send the receive FSM to READ_ERROR
\* and, in the global FSM, fall back to IDLE.
Fail(s, code, global) ==
    [s EXCEPT !.readErrCnt = @ + 1, !.lastReadErr = code, !.recvSt = "READ_ERROR",
              !.mpeSt = IF global THEN "IDLE" ELSE @]

\* The checks every header read makes before its type is looked at.
HeaderGate(s, r, global) ==
    LET s1 == [s EXCEPT !.siTcp = SubSeq(@, r.n + 1, Len(@))]
        s2 == IF r.bad THEN Fail(s1, "RX_INCOMPLETE_HEADER", global) ELSE s1
        s3 == [s2 EXCEPT !.siIP = Tail(@)]
    IN CASE ~r.valid -> [go |-> FALSE, st |-> Fail(s2, "RX_INVALID_HEADER", global)]
         [] ~IPMatches(r.hdr.src_rank, Head(s.siIP)) ->
                [go |-> FALSE, st |-> Fail(s3, "RX_IP_MISSMATCH", global)]
         [] r.hdr.dst_rank # integerToLittleEndian(OwnRank) ->
                [go |-> FALSE, st |-> Fail(s3, "RX_WRONG_DST_RANK", global)]
         [] OTHER -> [go |-> TRUE, st |-> s3]

\* A header can be read: both streams non-empty (otherwise the case does
\* nothing) and the blocking word reads can complete (otherwise it stalls).
HeaderIn(s) == s.siTcp # <<>> /\ s.siIP # <<>>

\* The "dequeue" block: one word of sFifoDataTX to soTcp.
Dequeue(s) ==
    IF s.txData # <<>>
    THEN LET p == convertAxisToNtsWidth(s.txData)
         IN [s EXCEPT !.txData = p.rest, !.soTcp = Append(@, p.word), !.hsCnt = @ - 1]
    ELSE s

\* Write a handshake header of the given type to sFifoDataTX and its
\* destination to sFifoIPdstTX (a blocking write), then dequeue once.
SendHandshake(s, type, next) ==
    IF Len(s.txIP) >= IPDepth THEN {}
    ELSE LET h == MkHeader(s.info.rank, OwnRank, 0, s.info.call, type)
             t == [s EXCEPT !.txIP = Append(@, MRT[s.info.rank]),
                            !.txData = @ \o HeaderEntries(h, TRUE),
                            !.hsCnt = (HeaderLen + 7) \div 8]
         IN {[Dequeue(t) EXCEPT !.mpeSt = next]}

\* Dequeue, and leave for next once the handshake words are out.
Drain(s, next) ==
    LET t == Dequeue(s) IN
    IF t.hsCnt <= 0 THEN [t EXCEPT !.mpeSt = next] ELSE t

----------------------------------------------------------------------------
(* The global FSM (switch(fsmMpeState)).                                   *)

IDLE(s) ==
    IF s.siMPIif = <<>> THEN {s}
    ELSE LET c == Head(s.siMPIif).call
             t == [s EXCEPT !.siMPIif = Tail(@), !.info = Head(s.siMPIif)]
         IN {[t EXCEPT !.mpeSt =
                CASE c \in {MPI_SEND_INT, MPI_SEND_FLOAT} -> "START_SEND"
                  [] c \in {MPI_RECV_INT, MPI_RECV_FLOAT} -> "WAIT4REQ"
                  [] OTHER -> @]}

START_SEND(s) == SendHandshake(s, SEND_REQUEST, "SEND_REQ")

SEND_REQ(s) == {Drain(s, "WAIT4CLEAR")}

WAIT4CLEAR(s) ==
    IF ~HeaderIn(s) THEN {s}
    ELSE IF ~HeaderReadable(s.siTcp) THEN {}
    ELSE {LET g == HeaderGate(s, r, TRUE) IN
            CASE ~g.go -> g.st
              [] r.hdr.type # CLEAR_TO_SEND -> Fail(g.st, "RX_WRONG_DST_RANK", TRUE)
              [] OTHER -> [g.st EXCEPT !.mpeSt = "SEND_DATA", !.sendSt = "WRITE_IDLE"]
          : r \in HeaderReads(s.siTcp)}

SEND_DATA(s) ==
    {IF s.sendSt = "WRITE_STANDBY" THEN [s EXCEPT !.mpeSt = "WAIT4ACK"] ELSE s}

WAIT4ACK(s) ==
    IF ~HeaderIn(s) THEN {s}
    ELSE IF ~HeaderReadable(s.siTcp) THEN {}
    ELSE {LET g == HeaderGate(s, r, TRUE) IN
            IF ~g.go THEN g.st
            ELSE [g.st EXCEPT !.ackCnt = IF r.hdr.type = ACK THEN @ + 1 ELSE @,
                              !.errHsCnt = IF r.hdr.type # ACK THEN @ + 1 ELSE @,
                              !.mpeSt = "IDLE"]
          : r \in HeaderReads(s.siTcp)}

WAIT4REQ(s) ==
    IF ~HeaderIn(s) THEN {s}
    ELSE IF ~HeaderReadable(s.siTcp) THEN {}
    ELSE UNION {LET g == HeaderGate(s, r, TRUE) IN
                  CASE ~g.go -> {g.st}
                    [] r.hdr.type # SEND_REQUEST -> {Fail(g.st, "RX_WRONG_DST_RANK", TRUE)}
                    [] OTHER -> SendHandshake(g.st, CLEAR_TO_SEND, "SEND_CLEAR")
                : r \in HeaderReads(s.siTcp)}

SEND_CLEAR(s) ==
    LET t == Dequeue(s) IN
    {IF t.hsCnt <= 0 THEN [t EXCEPT !.mpeSt = "RECV_DATA", !.recvSt = "READ_IDLE"] ELSE t}

RECV_DATA(s) ==
    IF s.recvSt = "READ_STANDBY" THEN SendHandshake(s, ACK, "SEND_ACK") ELSE {s}

SEND_ACK(s) == {Drain(s, "IDLE")}

GlobalFsm(s) ==
    CASE s.mpeSt = "IDLE"       -> IDLE(s)
      [] s.mpeSt = "START_SEND" -> START_SEND(s)
      [] s.mpeSt = "SEND_REQ"   -> SEND_REQ(s)
      [] s.mpeSt = "WAIT4CLEAR" -> WAIT4CLEAR(s)
      [] s.mpeSt = "SEND_DATA"  -> SEND_DATA(s)
      [] s.mpeSt = "WAIT4ACK"   -> WAIT4ACK(s)
      [] s.mpeSt = "WAIT4REQ"   -> WAIT4REQ(s)
      [] s.mpeSt = "SEND_CLEAR" -> SEND_CLEAR(s)
      [] s.mpeSt = "RECV_DATA"  -> RECV_DATA(s)
      [] s.mpeSt = "SEND_ACK"   -> SEND_ACK(s)

----------------------------------------------------------------------------
(* The send FSM (switch(fsmSendState)).                                    *)

\* The enqueue loop: up to nine bytes of siMPI_data into sFifoDataTX.
Enqueue(s) ==
    LET k == Min2(9, Len(s.siMPI_data))
        c == SubSeq(s.siMPI_data, 1, k)
    IN [s EXCEPT !.siMPI_data = SubSeq(@, k + 1, Len(@)), !.txData = @ \o c,
                 !.enqCnt = @ + k, !.tlastOcc = @ \/ \E i \in 1..k : c[i].last = 1]

WRITE_IDLE(s) ==
    IF s.siMPI_data # <<>> /\ Len(s.txIP) < IPDepth
    THEN LET h == MkHeader(s.info.rank, OwnRank, s.info.count, s.info.call, DATA)
         IN [s EXCEPT !.txData = @ \o HeaderEntries(h, FALSE),
                      !.txIP = Append(@, MRT[s.info.rank]), !.sendSt = "WRITE_START",
                      !.tlastOcc = FALSE, !.enqCnt = HeaderLen]
    ELSE s

\* sFifoIPdstTX.read() blocks the call while the FIFO is empty.
WRITE_START(s) ==
    IF s.txIP = <<>> THEN {}
    ELSE LET p == convertAxisToNtsWidth(s.txData)
         IN {Enqueue([s EXCEPT !.txData = p.rest, !.soIP = Append(@, Head(s.txIP)),
                               !.txIP = Tail(@), !.soTcp = Append(@, p.word),
                               !.enqCnt = @ - 8, !.sendSt = "WRITE_DATA"])}

WRITE_DATA(s) ==
    LET t == Enqueue(s)
        p == convertAxisToNtsWidth(t.txData)
    IN IF t.txData # <<>> /\ (t.enqCnt >= 8 \/ t.tlastOcc)
       THEN [t EXCEPT !.txData = p.rest, !.soTcp = Append(@, p.word), !.enqCnt = @ - 8,
                      !.sendSt = IF p.word.last = 1 THEN "WRITE_STANDBY" ELSE @]
       ELSE t

\* WRITE_ERROR is never entered (its only assignment is commented out).
SendFsm(s) ==
    CASE s.sendSt = "WRITE_STANDBY" -> {s}
      [] s.sendSt = "WRITE_IDLE"    -> {WRITE_IDLE(s)}
      [] s.sendSt = "WRITE_START"   -> WRITE_START(s)
      [] s.sendSt = "WRITE_DATA"    -> {WRITE_DATA(s)}

----------------------------------------------------------------------------
(* The receive FSM (switch(fsmReceiveState)).                              *)

READ_IDLE(s) ==
    IF ~HeaderIn(s) THEN {s}
    ELSE IF ~HeaderReadable(s.siTcp) THEN {}
    ELSE {LET g == HeaderGate(s, r, FALSE) IN
            CASE ~g.go -> g.st
              [] r.hdr.type # DATA -> Fail(g.st, "RX_WRONG_DST_RANK", FALSE)
              [] OTHER -> [g.st EXCEPT !.soMPIif = Append(@, [call |-> r.hdr.call,
                                          count |-> r.hdr.size, rank |-> r.hdr.src_rank]),
                                       !.recvSt = "READ_DATA"]
          : r \in HeaderReads(s.siTcp)}

READ_DATA(s) ==
    LET t == IF s.siTcp # <<>>
             THEN [s EXCEPT !.rxData = @ \o convertAxisToMpiWidth(Head(s.siTcp)),
                            !.siTcp = Tail(@)]
             ELSE s
    IN IF t.rxData # <<>>
       THEN [t EXCEPT !.rxData = Tail(@), !.soMPI_data = Append(@, Head(t.rxData)),
                      !.recvSt = IF Head(t.rxData).last = 1 THEN "READ_STANDBY" ELSE @]
       ELSE t

READ_ERROR(s) ==
    LET t == IF s.siIP # <<>> THEN [s EXCEPT !.siIP = Tail(@)] ELSE s IN
    IF t.siTcp # <<>> THEN [t EXCEPT !.siTcp = Tail(@)] ELSE [t EXCEPT !.recvSt = "READ_STANDBY"]

ReceiveFsm(s) ==
    CASE s.recvSt = "READ_STANDBY" -> {s}
      [] s.recvSt = "READ_IDLE"    -> READ_IDLE(s)
      [] s.recvSt = "READ_DATA"    -> {READ_DATA(s)}
      [] s.recvSt = "READ_ERROR"   -> {READ_ERROR(s)}

\* One call of mpe_main: reset, then the three switches in program order.
mpe_main(s, rst) ==
    UNION {UNION {ReceiveFsm(t2) : t2 \in SendFsm(t1)} : t1 \in GlobalFsm(Reset(s, rst))}

MpeCall ==
    \E rst \in ResetIn : \E t \in mpe_main(st, rst) : st' = t

----------------------------------------------------------------------------
(* Environment: the application on siMPIif / siMPI_data and a peer whose  *)
(* messages arrive, with its IP address as meta data, on siTcp / siIP.     *)
(* The outputs are logs: soTcp, soIP, soMPIif and soMPI_data never fill.   *)

Payload(len) == [i \in 1..len |-> [d |-> PayloadByte, last |-> IF i = len THEN 1 ELSE 0]]

\* The byte streams a peer's mpe_main sends: a handshake header, whose
\* last byte carries tlast, or a DATA header followed by the payload.
PeerMsgs ==
    {HeaderEntries(MkHeader(OwnRank, Peer, 0, MPI_SEND_INT, t), TRUE) :
        t \in {SEND_REQUEST, CLEAR_TO_SEND, ACK}}
    \cup {HeaderEntries(MkHeader(OwnRank, Peer, len, MPI_SEND_INT, DATA), FALSE) \o Payload(len) :
            len \in PayLens}

NetDeliver ==
    /\ st.net < MaxNet
    /\ \E m \in PeerMsgs :
         st' = [st EXCEPT !.siTcp = @ \o Words(m), !.siIP = Append(@, MRT[Peer]),
                          !.net = @ + 1]

AppCall ==
    /\ st.app < MaxApp
    /\ \E c \in {MPI_SEND_INT, MPI_RECV_INT}, n \in Counts :
         st' = [st EXCEPT !.siMPIif = Append(@, [call |-> c, count |-> n, rank |-> Peer]),
                          !.app = @ + 1]

AppData ==
    /\ st.app < MaxApp
    /\ \E len \in PayLens :
         st' = [st EXCEPT !.siMPI_data = @ \o Payload(len), !.app = @ + 1]

Next == MpeCall \/ NetDeliver \/ AppCall \/ AppData

Spec == Init /\ [][Next]_vars

----------------------------------------------------------------------------
(* Properties.                                                             *)

\* What the receive path hands to the application on soMPI_data is message
\* payload only: the bytes READ_DATA forwards end at the tlast of the
\* message announced on soMPIif, so no header byte of a following message
\* is ever delivered as data.
NoHeaderBytesToApp ==
    \A i \in 1..Len(st.soMPI_data) : st.soMPI_data[i].d = PayloadByte

====
