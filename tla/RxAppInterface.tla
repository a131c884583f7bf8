---------------------------- MODULE RxAppInterface ----------------------------
(***************************************************************************)
(* The data path of the TOE Rx Application Interface, rx_app_interface.cpp *)
(* : the Rx Application Stream (Ras), the Rx Memory Reader (Mrd) and the   *)
(* Application Segment Stitcher (Ass), three II=1 processes joined by      *)
(* FIFOs.  Ras turns a read request into a read of the session's Rx SAR    *)
(* entry (RSt), a memory command and a pointer update; Mrd splits a        *)
(* command that runs past the end of the circular Rx buffer; Ass joins the *)
(* two halves back into one byte stream for the application.              *)
(*                                                                         *)
(* RSt and the memory (MEM) are not under src/: they are environment,     *)
(* modelled from their contracts in the specification.  The application   *)
(* issues read requests and always accepts data and metadata, so those two *)
(* outputs are history sequences.                                          *)
(*                                                                         *)
(* A byte is named by its place in the Rx buffer, <<session, offset>>; a   *)
(* data chunk is [bytes |-> <<...>>, last |-> TLAST], at most ChunkBytes  *)
(* bytes, packed from the lowest lane (tkeep is a prefix of ones).        *)
(***************************************************************************)
EXTENDS Naturals, Sequences, FiniteSets
LOCAL INSTANCE SequencesExt

CONSTANTS
  NumSessions, \* sessions the application reads from
  PtrBits,     \* width of RxBufPtr and of the address field it fills (16)
  WindowBits,  \* TOE_WINDOW_BITS
  BufSize,     \* TOE_RX_BUFFER_SIZE
  MaxLen,      \* largest request length the application makes
  MaxReqs,     \* bound: number of read requests in a run
  Depth,       \* depth of every FIFO of the path
  InitPtrs     \* possible initial application read pointers in RSt

VARIABLES
  reqQ,           \* siTAIF_DataReq
  rasFsm,         \* ras_fsmState
  rasReadLength,  \* ras_readLength
  rstQryQ,        \* soRSt_RxSarQry
  rstRepQ,        \* siRSt_RxSarRep
  cmdQ,           \* ssRasToMrd_MemRdCmd
  mrdFsm,         \* mrd_fsmState
  mrdCmd,         \* mrd_memRdCmd
  mrdFirstAccLen, \* mrd_firstAccLen
  memCmdQ,        \* soMEM_RxpRdCmd
  splitQ,         \* ssMrdToAss_SplitSeg
  memDataQ,       \* siMEM_RxP_Data
  assFsm,         \* ass_fsmState
  assMustJoin,    \* ass_mustJoin
  assPrev,        \* valid bytes of ass_prevChunk
  assOffset,      \* ass_memRdOffset
  rstAppd,        \* RSt: the application read pointer of each session
  startPtr,       \* ghost: rstAppd at start
  requests,       \* number of requests issued so far
  served,         \* ghost: [sid, length] of each request Ras answered
  appMeta,        \* soTAIF_Meta as received by the application
  appData         \* soTAIF_Data as received by the application

vars == <<reqQ, rasFsm, rasReadLength, rstQryQ, rstRepQ, cmdQ, mrdFsm,
          mrdCmd, mrdFirstAccLen, memCmdQ, splitQ, memDataQ, assFsm,
          assMustJoin, assPrev, assOffset, rstAppd, startPtr, requests,
          served, appMeta, appData>>

SessionId == 0 .. NumSessions - 1

\* A chunk of siMEM_RxP_Data / soTAIF_Data carries ARW = 64 bits.
ChunkBytes == 8

\* DmCmd.bbt is an ap_uint<23>.
BbtBits == 23

MinOf(a, b) == IF a <= b THEN a ELSE b

\* The first n elements of s.
Take(s, n) == SubSeq(s, 1, MinOf(n, Len(s)))

Init ==
  /\ reqQ = <<>> /\ rstQryQ = <<>> /\ rstRepQ = <<>> /\ cmdQ = <<>>
  /\ memCmdQ = <<>> /\ splitQ = <<>> /\ memDataQ = <<>>
  /\ rasFsm = "S0" /\ rasReadLength = 0
  /\ mrdFsm = "MRD_1ST_ACCESS"
  /\ mrdCmd = [sid |-> 0, saddr |-> 0, bbt |-> 0] /\ mrdFirstAccLen = 0
  /\ assFsm = "ASS_IDLE" /\ assMustJoin = FALSE
  /\ assPrev = <<>> /\ assOffset = 0
  /\ rstAppd \in [SessionId -> InitPtrs]
  /\ startPtr = rstAppd
  /\ requests = 0 /\ served = <<>> /\ appMeta = <<>> /\ appData = <<>>

-----------------------------------------------------------------------------
(***************************************************************************)
(* Environment: the application asks for a length of data of a session.   *)
(***************************************************************************)
AppRequest ==
  /\ requests < MaxReqs
  /\ Len(reqQ) < Depth
  /\ \E s \in SessionId, l \in 0 .. MaxLen :
       reqQ' = Append(reqQ, [sid |-> s, length |-> l])
  /\ requests' = requests + 1
  /\ UNCHANGED <<rasFsm, rasReadLength, rstQryQ, rstRepQ, cmdQ, mrdFsm,
                 mrdCmd, mrdFirstAccLen, memCmdQ, splitQ, memDataQ, assFsm,
                 assMustJoin, assPrev, assOffset, rstAppd, startPtr, served,
                 appMeta, appData>>

(***************************************************************************)
(* Environment: RSt serves its queries in order.  A read query is answered *)
(* with the session's pointer, an update query overwrites it.              *)
(***************************************************************************)
RstServe ==
  LET q == Head(rstQryQ) IN
  /\ rstQryQ # <<>>
  /\ rstQryQ' = Tail(rstQryQ)
  /\ \/ /\ ~q.write
        /\ Len(rstRepQ) < Depth
        /\ rstRepQ' = Append(rstRepQ, [sid |-> q.sid, appd |-> rstAppd[q.sid]])
        /\ UNCHANGED rstAppd
     \/ /\ q.write
        /\ rstAppd' = [rstAppd EXCEPT ![q.sid] = q.appd]
        /\ UNCHANGED rstRepQ
  /\ UNCHANGED <<reqQ, rasFsm, rasReadLength, cmdQ, mrdFsm, mrdCmd,
                 mrdFirstAccLen, memCmdQ, splitQ, memDataQ, assFsm,
                 assMustJoin, assPrev, assOffset, startPtr, requests, served,
                 appMeta, appData>>

\* The chunks MEM returns for a run of bytes: full chunks, the last one
\* holding the rest and carrying TLAST.
Chunks(bs) ==
  LET n == (Len(bs) + ChunkBytes - 1) \div ChunkBytes IN
  [k \in 1 .. n |->
     [bytes |-> SubSeq(bs, (k - 1) * ChunkBytes + 1, MinOf(k * ChunkBytes, Len(bs))),
      last  |-> k = n]]

(***************************************************************************)
(* Environment: MEM executes the read commands in order, returning the     *)
(* bytes from saddr on.  A command of zero bytes returns nothing.          *)
(***************************************************************************)
MemRead ==
  LET c == Head(memCmdQ) IN
  /\ memCmdQ # <<>>
  /\ memCmdQ' = Tail(memCmdQ)
  /\ memDataQ' = memDataQ \o
                 Chunks([i \in 1 .. c.bbt |-> <<c.sid, c.saddr + i - 1>>])
  /\ UNCHANGED <<reqQ, rasFsm, rasReadLength, rstQryQ, rstRepQ, cmdQ,
                 mrdFsm, mrdCmd, mrdFirstAccLen, splitQ, assFsm, assMustJoin,
                 assPrev, assOffset, rstAppd, startPtr, requests, served,
                 appMeta, appData>>

-----------------------------------------------------------------------------
(***************************************************************************)
(* Ras, case S0 (lines 133-143): take a request; one of length 0 is       *)
(* dropped, any other queries RSt for the session's pointer.               *)
(***************************************************************************)
RasWaitRequest ==
  LET req == Head(reqQ) IN
  /\ rasFsm = "S0"
  /\ reqQ # <<>> /\ Len(rstQryQ) < Depth
  /\ reqQ' = Tail(reqQ)
  /\ \/ /\ req.length # 0
        /\ rstQryQ' = Append(rstQryQ, [sid |-> req.sid, write |-> FALSE,
                                       appd |-> 0])
        /\ rasReadLength' = req.length
        /\ rasFsm' = "S1"
     \/ /\ req.length = 0
        /\ UNCHANGED <<rstQryQ, rasReadLength, rasFsm>>
  /\ UNCHANGED <<rstRepQ, cmdQ, mrdFsm, mrdCmd, mrdFirstAccLen, memCmdQ,
                 splitQ, memDataQ, assFsm, assMustJoin, assPrev, assOffset,
                 rstAppd, startPtr, requests, served, appMeta, appData>>

\* Fault variant of RasWaitReply: the update query rewrites the pointer
\* it read instead of advancing it by the length.
RasWaitReplyStalePtr ==
  LET rep == Head(rstRepQ) IN
  /\ rasFsm = "S1"
  /\ rstRepQ # <<>> /\ Len(cmdQ) < Depth /\ Len(rstQryQ) < Depth
  /\ rstRepQ' = Tail(rstRepQ)
  /\ appMeta' = Append(appMeta, rep.sid)
  /\ served' = Append(served, [sid |-> rep.sid, length |-> rasReadLength])
  /\ cmdQ' = Append(cmdQ, [sid |-> rep.sid, saddr |-> rep.appd,
                           bbt |-> rasReadLength])
  /\ rstQryQ' = Append(rstQryQ, [sid |-> rep.sid, write |-> TRUE,
                                 appd |-> rep.appd])
  /\ rasFsm' = "S0"
  /\ UNCHANGED <<reqQ, rasReadLength, mrdFsm, mrdCmd, mrdFirstAccLen,
                 memCmdQ, splitQ, memDataQ, assFsm, assMustJoin, assPrev,
                 assOffset, rstAppd, startPtr, requests, appData>>

(***************************************************************************)
(* Ras, case S1 (lines 144-160): on RSt's reply, send the session id to   *)
(* the application, a read command at the session's buffer and pointer to *)
(* Mrd, and the pointer advanced by the length (an RxBufPtr) back to RSt.  *)
(***************************************************************************)
RasWaitReply ==
  LET rep == Head(rstRepQ) IN
  /\ rasFsm = "S1"
  /\ rstRepQ # <<>> /\ Len(cmdQ) < Depth /\ Len(rstQryQ) < Depth
  /\ rstRepQ' = Tail(rstRepQ)
  /\ appMeta' = Append(appMeta, rep.sid)
  /\ served' = Append(served, [sid |-> rep.sid, length |-> rasReadLength])
  /\ cmdQ' = Append(cmdQ, [sid |-> rep.sid, saddr |-> rep.appd,
                           bbt |-> rasReadLength])
  /\ rstQryQ' = Append(rstQryQ, [sid |-> rep.sid, write |-> TRUE,
                 appd |-> (rep.appd + rasReadLength) % 2 ^ PtrBits])
  /\ rasFsm' = "S0"
  /\ UNCHANGED <<reqQ, rasReadLength, mrdFsm, mrdCmd, mrdFirstAccLen,
                 memCmdQ, splitQ, memDataQ, assFsm, assMustJoin, assPrev,
                 assOffset, rstAppd, startPtr, requests, appData>>


\* Every variable outside Mrd and Ass.
rasEnvVars == <<reqQ, rasFsm, rasReadLength, rstQryQ, rstRepQ, rstAppd,
                startPtr, requests, served, appMeta>>

\* (saddr % 2^WindowBits) + bbt > TOE_RX_BUFFER_SIZE: the access wraps.
Wraps(c) == (c.saddr % 2 ^ WindowBits) + c.bbt > BufSize

\* TOE_RX_BUFFER_SIZE - saddr, kept in an RxBufPtr; the session and base
\* bits of saddr lie above PtrBits and vanish.
FirstAccLen(c) == (BufSize - c.saddr) % 2 ^ PtrBits

\* Fault variant of MrdFirstAccess: the split flag is written only for a
\* split segment, not for a segment that stays in the buffer.
MrdFirstAccessNoFlag ==
  LET c == Head(cmdQ) IN
  /\ mrdFsm = "MRD_1ST_ACCESS"
  /\ cmdQ # <<>> /\ Len(splitQ) < Depth /\ Len(memCmdQ) < Depth
  /\ cmdQ' = Tail(cmdQ)
  /\ mrdCmd' = c
  /\ \/ /\ Wraps(c)
        /\ mrdFirstAccLen' = FirstAccLen(c)
        /\ mrdFsm' = "MRD_2ND_ACCESS"
        /\ memCmdQ' = Append(memCmdQ, [c EXCEPT !.bbt = FirstAccLen(c)])
        /\ splitQ' = Append(splitQ, TRUE)
     \/ /\ ~Wraps(c)
        /\ memCmdQ' = Append(memCmdQ, c)
        /\ UNCHANGED <<mrdFsm, mrdFirstAccLen, splitQ>>
  /\ UNCHANGED <<rasEnvVars, memDataQ, assFsm, assMustJoin, assPrev,
                 assOffset, appData>>

(***************************************************************************)
(* Mrd, MRD_1ST_ACCESS (lines 202-231): forward a command that stays in   *)
(* the buffer, or its part up to the end of the buffer, and tell Ass      *)
(* whether the segment is split.                                           *)
(***************************************************************************)
MrdFirstAccess ==
  LET c == Head(cmdQ) IN
  /\ mrdFsm = "MRD_1ST_ACCESS"
  /\ cmdQ # <<>> /\ Len(splitQ) < Depth /\ Len(memCmdQ) < Depth
  /\ cmdQ' = Tail(cmdQ)
  /\ mrdCmd' = c
  /\ \/ /\ Wraps(c)
        /\ mrdFirstAccLen' = FirstAccLen(c)
        /\ mrdFsm' = "MRD_2ND_ACCESS"
        /\ memCmdQ' = Append(memCmdQ, [c EXCEPT !.bbt = FirstAccLen(c)])
        /\ splitQ' = Append(splitQ, TRUE)
     \/ /\ ~Wraps(c)
        /\ memCmdQ' = Append(memCmdQ, c)
        /\ splitQ' = Append(splitQ, FALSE)
        /\ UNCHANGED <<mrdFsm, mrdFirstAccLen>>
  /\ UNCHANGED <<rasEnvVars, memDataQ, assFsm, assMustJoin, assPrev,
                 assOffset, appData>>

(***************************************************************************)
(* Mrd, MRD_2ND_ACCESS (lines 232-247): issue the rest of the command from *)
(* the start of the session's buffer (the low WindowBits of saddr cleared).*)
(***************************************************************************)
MrdSecondAccess ==
  LET a == mrdCmd.saddr - (mrdCmd.saddr % 2 ^ WindowBits) IN
  /\ mrdFsm = "MRD_2ND_ACCESS"
  /\ Len(memCmdQ) < Depth
  /\ mrdCmd' = [mrdCmd EXCEPT !.saddr = a]
  /\ memCmdQ' = Append(memCmdQ, [sid |-> mrdCmd.sid, saddr |-> a,
                 bbt |-> (mrdCmd.bbt - mrdFirstAccLen) % 2 ^ BbtBits])
  /\ mrdFsm' = "MRD_1ST_ACCESS"
  /\ UNCHANGED <<rasEnvVars, cmdQ, mrdFirstAccLen, splitQ, memDataQ, assFsm,
                 assMustJoin, assPrev, assOffset, appData>>

-----------------------------------------------------------------------------
\* soTAIF_Data.write(c)
Emit(c) == appData' = Append(appData, c)

\* Every variable outside Ass.
notAssVars == <<rasEnvVars, cmdQ, mrdFsm, mrdCmd, mrdFirstAccLen, memCmdQ>>

(***************************************************************************)
(* The last chunk cur of the first buffer of a split segment (lines 309-  *)
(* 328 and 349-370): a partial one is kept to be joined with the second    *)
(* buffer; a full one is forwarded as it is, TLAST kept, by the IDLE case  *)
(* (keepLast) and with TLAST cleared by the FWD_1ST_BUF case.              *)
(***************************************************************************)
EndFirstBuffer(cur, keepLast) ==
  /\ assOffset' = Len(cur.bytes)
  /\ \/ /\ Len(cur.bytes) # ChunkBytes
        /\ assPrev' = cur.bytes
        /\ assFsm' = "ASS_JOIN_2ND_BUF"
        /\ UNCHANGED appData
     \/ /\ Len(cur.bytes) = ChunkBytes
        /\ Emit([cur EXCEPT !.last = keepLast])
        /\ assFsm' = "ASS_FWD_2ND_BUF"
        /\ UNCHANGED assPrev

(***************************************************************************)
(* Ass, ASS_IDLE (lines 292-334): read the split flag and the first chunk *)
(* of a segment.                                                           *)
(***************************************************************************)
AssIdle ==
  LET cur == Head(memDataQ)
      mj  == Head(splitQ)
  IN
  /\ assFsm = "ASS_IDLE"
  /\ memDataQ # <<>> /\ splitQ # <<>>
  /\ memDataQ' = Tail(memDataQ)
  /\ splitQ' = Tail(splitQ)
  /\ assMustJoin' = mj
  /\ \/ /\ cur.last /\ ~mj
        /\ Emit(cur)
        /\ UNCHANGED <<assFsm, assPrev, assOffset>>
     \/ /\ cur.last /\ mj
        /\ EndFirstBuffer(cur, TRUE)
     \/ /\ ~cur.last
        /\ Emit(cur)
        /\ assFsm' = "ASS_FWD_1ST_BUF"
        /\ UNCHANGED <<assPrev, assOffset>>
  /\ UNCHANGED notAssVars

(***************************************************************************)
(* Ass, ASS_FWD_1ST_BUF (lines 335-377): forward the chunks of the first   *)
(* buffer.                                                                 *)
(***************************************************************************)
AssFwd1stBuf ==
  LET cur == Head(memDataQ) IN
  /\ assFsm = "ASS_FWD_1ST_BUF"
  /\ memDataQ # <<>>
  /\ memDataQ' = Tail(memDataQ)
  /\ \/ /\ cur.last /\ ~assMustJoin
        /\ Emit(cur)
        /\ assFsm' = "ASS_IDLE"
        /\ UNCHANGED <<assPrev, assOffset>>
     \/ /\ cur.last /\ assMustJoin
        /\ EndFirstBuffer(cur, FALSE)
     \/ /\ ~cur.last
        /\ Emit(cur)
        /\ UNCHANGED <<assFsm, assPrev, assOffset>>
  /\ UNCHANGED <<notAssVars, splitQ, assMustJoin>>

(***************************************************************************)
(* Ass, ASS_FWD_2ND_BUF (lines 378-390): forward the chunks of the second  *)
(* buffer of a segment whose first buffer ended on a full chunk.           *)
(***************************************************************************)
AssFwd2ndBuf ==
  LET cur == Head(memDataQ) IN
  /\ assFsm = "ASS_FWD_2ND_BUF"
  /\ memDataQ # <<>>
  /\ memDataQ' = Tail(memDataQ)
  /\ Emit(cur)
  /\ assFsm' = IF cur.last THEN "ASS_IDLE" ELSE assFsm
  /\ UNCHANGED <<notAssVars, splitQ, assMustJoin, assPrev, assOffset>>


\* Fault variant of AssJoin2ndBuf: one byte too many is taken from the
\* current chunk into the joined chunk.
AssJoin2ndBufOverfill ==
  LET cur    == Head(memDataQ)
      room   == ChunkBytes - assOffset
      joined == assPrev \o Take(cur.bytes, room + 1)
      fits   == Len(cur.bytes) <= room
  IN
  /\ assFsm = "ASS_JOIN_2ND_BUF"
  /\ memDataQ # <<>>
  /\ memDataQ' = Tail(memDataQ)
  /\ \/ fits /\ Emit([bytes |-> joined, last |-> TRUE])
             /\ assFsm' = "ASS_IDLE"
     \/ ~fits /\ cur.last /\ Emit([bytes |-> joined, last |-> FALSE])
              /\ assFsm' = "ASS_RESIDUE"
     \/ ~fits /\ ~cur.last /\ Emit([bytes |-> joined, last |-> FALSE])
              /\ UNCHANGED assFsm
  /\ assPrev' = SubSeq(cur.bytes, room + 1, Len(cur.bytes))
  /\ UNCHANGED <<notAssVars, splitQ, assMustJoin, assOffset>>

(***************************************************************************)
(* Ass, ASS_JOIN_2ND_BUF (lines 391-433): the first buffer ended on a     *)
(* partial chunk of assOffset bytes.  Fill it up with the first bytes of   *)
(* the current chunk and keep the current chunk's last assOffset bytes.   *)
(* The joined chunk is the last one when the current chunk fitted in the   *)
(* room left (tkeep[8 - offset] = 0); when it did not but carried TLAST,   *)
(* the remainder goes out from ASS_RESIDUE.                                *)
(***************************************************************************)
AssJoin2ndBuf ==
  LET cur    == Head(memDataQ)
      room   == ChunkBytes - assOffset
      joined == assPrev \o Take(cur.bytes, room)
      fits   == Len(cur.bytes) <= room
  IN
  /\ assFsm = "ASS_JOIN_2ND_BUF"
  /\ memDataQ # <<>>
  /\ memDataQ' = Tail(memDataQ)
  /\ \/ fits /\ Emit([bytes |-> joined, last |-> TRUE])
             /\ assFsm' = "ASS_IDLE"
     \/ ~fits /\ cur.last /\ Emit([bytes |-> joined, last |-> FALSE])
              /\ assFsm' = "ASS_RESIDUE"
     \/ ~fits /\ ~cur.last /\ Emit([bytes |-> joined, last |-> FALSE])
              /\ UNCHANGED assFsm
  /\ assPrev' = SubSeq(cur.bytes, room + 1, Len(cur.bytes))
  /\ UNCHANGED <<notAssVars, splitQ, assMustJoin, assOffset>>

(***************************************************************************)
(* Ass, ASS_RESIDUE (lines 434-446): send the kept bytes as the last chunk.*)
(***************************************************************************)
AssResidue ==
  /\ assFsm = "ASS_RESIDUE"
  /\ Emit([bytes |-> assPrev, last |-> TRUE])
  /\ assFsm' = "ASS_IDLE"
  /\ UNCHANGED <<notAssVars, memDataQ, splitQ, assMustJoin, assPrev,
                 assOffset>>

-----------------------------------------------------------------------------
Ras == RasWaitRequest \/ RasWaitReply
Mrd == MrdFirstAccess \/ MrdSecondAccess
Ass == AssIdle \/ AssFwd1stBuf \/ AssFwd2ndBuf \/ AssJoin2ndBuf \/ AssResidue

Next == AppRequest \/ RstServe \/ MemRead \/ Ras \/ Mrd \/ Ass

(***************************************************************************)
(* Ras, Mrd and Ass are II=1 processes evaluated on every clock, and RSt   *)
(* and MEM serve their queues; each one that stays able to move moves.    *)
(* The application is not obliged to ask for anything.                     *)
(***************************************************************************)
Fairness ==
  /\ WF_vars(Ras) /\ WF_vars(Mrd) /\ WF_vars(Ass)
  /\ WF_vars(RstServe) /\ WF_vars(MemRead)

Spec == Init /\ [][Next]_vars /\ Fairness

-----------------------------------------------------------------------------
Chunk == [bytes : Seq(SessionId \X Nat), last : BOOLEAN]

\* Each chunk the application receives holds 1 to 8 bytes.
TypeOK ==
  /\ rasFsm \in {"S0", "S1"}
  /\ mrdFsm \in {"MRD_1ST_ACCESS", "MRD_2ND_ACCESS"}
  /\ assFsm \in {"ASS_IDLE", "ASS_FWD_1ST_BUF", "ASS_FWD_2ND_BUF",
                 "ASS_JOIN_2ND_BUF", "ASS_RESIDUE"}
  /\ rstAppd \in [SessionId -> 0 .. 2 ^ PtrBits - 1]
  /\ mrdFirstAccLen \in 0 .. 2 ^ PtrBits - 1
  /\ assOffset \in 0 .. ChunkBytes
  /\ \A i \in DOMAIN appData :
       appData[i] \in Chunk /\ Len(appData[i].bytes) \in 1 .. ChunkBytes

\* The bytes the application has received, in order, and those of session s.
Flat == FlattenSeq([i \in DOMAIN appData |-> appData[i].bytes])
BytesOf(s) == SelectSeq(Flat, LAMBDA b : b[1] = s)

\* Bytes of session s (of all sessions) that Ras has committed to deliver.
ServedLen(s) ==
  FoldLeft(LAMBDA acc, r : IF r.sid = s THEN acc + r.length ELSE acc,
           0, served)
ServedTotal == FoldLeft(LAMBDA acc, r : acc + r.length, 0, served)

(***************************************************************************)
(* Per-session byte stream (spec: "the application sees one continuous,   *)
(* byte-aligned stream with no indication a wrap occurred").  The bytes    *)
(* of each session reach the application in buffer order from the         *)
(* session's initial read pointer, wrapping at TOE_RX_BUFFER_SIZE, none    *)
(* skipped or repeated, and never more than the requests asked for.  It   *)
(* needs Ras to advance the pointer by each length, Mrd to split at the   *)
(* buffer end and Ass to re-align the second buffer.                       *)
(***************************************************************************)
PerSessionByteStream ==
  \A s \in SessionId :
    LET bs == BytesOf(s) IN
    /\ Len(bs) <= ServedLen(s)
    /\ \A i \in 1 .. Len(bs) : bs[i] = <<s, (startPtr[s] + i - 1) % BufSize>>

(***************************************************************************)
(* Reads complete: whatever the application asked for, the path always    *)
(* comes back to having answered every request and delivered every byte   *)
(* Ras committed to (no process waits for a command, a split flag or a     *)
(* chunk that never comes).                                                *)
(***************************************************************************)
AllAnswered ==
  /\ reqQ = <<>> /\ rasFsm = "S0"
  /\ Len(Flat) = ServedTotal

ReadsComplete == []<>AllAnswered

(***************************************************************************)
(* Segment framing (spec: "the Stitcher must deliver exactly 100 bytes     *)
(* with a single end marker on the 100th byte").  The k-th TLAST-ended     *)
(* segment the application receives holds exactly the bytes of the k-th   *)
(* request Ras answered, all of the session named by the k-th metadata.   *)
(***************************************************************************)
LastIdx == {i \in DOMAIN appData : appData[i].last}

EndOf(k) ==
  CHOOSE i \in LastIdx : Cardinality({j \in LastIdx : j <= i}) = k

Segment(k) ==
  LET from == IF k = 1 THEN 1 ELSE EndOf(k - 1) + 1 IN
  FlattenSeq([i \in 1 .. EndOf(k) - from + 1 |-> appData[from + i - 1].bytes])

SegmentsFramed ==
  /\ Cardinality(LastIdx) <= Len(served)
  /\ \A k \in 1 .. Cardinality(LastIdx) :
       /\ Len(Segment(k)) = served[k].length
       /\ \A i \in 1 .. Len(Segment(k)) : Segment(k)[i][1] = appMeta[k]

=============================================================================
