--------------------------- MODULE NalSessionTable ---------------------------
(***************************************************************************)
(* The TCP session table of the NAL, the TAB_FSM_WRITE case of pTcpAgency  *)
(* in hss.cpp.  Five arrays of MAX_NAL_SESSIONS rows (sessionIdList,      *)
(* tripleList, usedRows, rowsToDelete, privilegedRows) are updated by one  *)
(* invocation of the WRITE case, which serves in this order whatever is   *)
(* waiting: one new entry (sAddNewTriple_TcpRrh before _TcpCon), one      *)
(* delete by session id, one mark-as-privileged (which, when it finds its *)
(* row, returns from the whole function), one mark-unprivileged-for-       *)
(* deletion and one get-next-row-to-delete.                               *)
(*                                                                         *)
(* The clients (pTcpRRh, pTcpCOn, pTcpCls, pPortAndResetLogic) are        *)
(* environment that may send any request at any time; the replies to      *)
(* get-next-row-to-delete are a history.  An invocation with              *)
(* nts_ready_and_enabled low wipes the table (lines 633-652).             *)
(***************************************************************************)
EXTENDS Naturals, Sequences, FiniteSets, NalTriple

CONSTANTS
  NumRows,    \* MAX_NAL_SESSIONS
  Sids,       \* session ids the clients use (SessionId)
  Triples,    \* triples the clients use (NalTriple)
  NoSid,      \* UNUSED_SESSION_ENTRY_VALUE
  Depth,      \* depth of each request FIFO
  MaxOps      \* bound: number of requests the clients send in a run

ASSUME 0 \in Sids /\ 0 \in Triples /\ NoSid \notin Sids

VARIABLES
  tab,        \* the five arrays, as a record of functions over the rows
  rrhQ,       \* sAddNewTriple_TcpRrh
  conQ,       \* sAddNewTriple_TcpCon
  delQ,       \* sDeleteEntryBySid
  privQ,      \* sMarkAsPriv
  markQ,      \* sMarkToDel_unpriv
  delRowQ,    \* sGetNextDelRow_Req
  ops,        \* number of requests sent so far
  reaped,     \* sGetNextDelRow_Rep as read by pTcpCls
  victims,    \* ghost: rows used and unprivileged at the last mark
  reapedEmpty,\* ghost: the last get-next-row reply since the last mark was empty
  reapLog,    \* ghost: [row, victim] of every row get-next-row freed
  asked       \* ghost: number of get-next-row requests pTcpCls sent

tableVars == <<tab, rrhQ, conQ, delQ, privQ, markQ, delRowQ, victims,
               reapedEmpty, reapLog, reaped>>
vars == <<tableVars, ops, asked>>

Row == 0 .. NumRows - 1

\* Fault variant of EmptyTable: the init loop writes UNUSED_SESSION_ENTRY_VALUE
\* into the session ids.
EmptyTableUnusedSid ==
  [sessionIdList  |-> [i \in Row |-> NoSid],
   tripleList     |-> [i \in Row |-> 0],
   usedRows       |-> [i \in Row |-> 0],
   rowsToDelete   |-> [i \in Row |-> 0],
   privilegedRows |-> [i \in Row |-> 0]]

\* The state the init loop (lines 640-650) leaves the arrays in.
EmptyTable ==
  [sessionIdList  |-> [i \in Row |-> 0],
   tripleList     |-> [i \in Row |-> 0],
   usedRows       |-> [i \in Row |-> 0],
   rowsToDelete   |-> [i \in Row |-> 0],
   privilegedRows |-> [i \in Row |-> 0]]

\* The first row of a set, in the index order of the scans.
FirstRow(S) == CHOOSE i \in S : \A j \in S : i <= j

\* A row the lookups and the duplicate check see.
Live(t, i) == t.usedRows[i] = 1 /\ t.rowsToDelete[i] = 0

\* Used rows of session s, whatever their deletion flag.
UsedRowsOf(t, s) == {i \in Row : t.sessionIdList[i] = s /\ t.usedRows[i] = 1}

Init ==
  /\ tab = EmptyTable
  /\ rrhQ = <<>> /\ conQ = <<>> /\ delQ = <<>> /\ privQ = <<>>
  /\ markQ = <<>> /\ delRowQ = <<>>
  /\ ops = 0 /\ reaped = <<>>
  /\ victims = {} /\ reapedEmpty = FALSE /\ reapLog = <<>>
  /\ asked = 0

-----------------------------------------------------------------------------
\* f with the rows in H set to v.
SetRows(f, H, v) == [i \in DOMAIN f |-> IF i \in H THEN v ELSE f[i]]

\* The first row of S as a set of at most one row (a scan that breaks).
FirstHit(S) == IF S = {} THEN {} ELSE {FirstRow(S)}

\* q after a read when it is not empty.
Rest(q) == IF q = <<>> THEN q ELSE Tail(q)

InsertRow(t, ne) ==
  LET known == \E i \in Row : t.sessionIdList[i] = ne.sessId /\ Live(t, i)
      H     == IF known THEN {}
               ELSE FirstHit({i \in Row : t.usedRows[i] = 0})
  IN [t EXCEPT !.sessionIdList  = SetRows(@, H, ne.sessId),
               !.tripleList     = SetRows(@, H, ne.triple),
               !.usedRows       = SetRows(@, H, 1),
               !.privilegedRows = SetRows(@, H, 0)]

\* The row the delete and the mark-as-privileged scans stop at: the first
\* used row of session s, whatever its deletion flag.
UsedHit(t, s) == FirstHit(UsedRowsOf(t, s))

\* Delete by session id, lines 766-784.

DeleteRow(t, s) ==
  LET H == UsedHit(t, s) IN
  [t EXCEPT !.usedRows       = SetRows(@, H, 0),
            !.privilegedRows = SetRows(@, H, 0)]

\* Mark as privileged, lines 785-800.

PrivRow(t, s) ==
  LET H == UsedHit(t, s) IN
  [t EXCEPT !.privilegedRows = SetRows(@, H, 1),
            !.rowsToDelete   = SetRows(@, H, 0)]

\* Fault variant of MarkRows: the loop stops one row short.
MarkRowsSkipLast(t) ==
  [t EXCEPT !.rowsToDelete =
     [i \in Row |-> IF t.privilegedRows[i] = 1 \/ i = NumRows - 1 THEN @[i]
                   ELSE t.usedRows[i]]]

(***************************************************************************)
(* Mark unprivileged rows for deletion, lines 801-816: every row that is  *)
(* not privileged gets rowsToDelete = usedRows.                           *)
(***************************************************************************)
MarkRows(t) ==
  [t EXCEPT !.rowsToDelete =
     [i \in Row |-> IF t.privilegedRows[i] = 1 THEN @[i] ELSE t.usedRows[i]]]

\* Get next row to delete, lines 817-846: the first flagged row is freed
\* and its session id returned, or UNUSED_SESSION_ENTRY_VALUE.
ReapHit(t) == FirstHit({i \in Row : t.rowsToDelete[i] = 1})

ReapRow(t) ==
  LET H == ReapHit(t) IN
  [t EXCEPT !.usedRows = SetRows(@, H, 0), !.rowsToDelete = SetRows(@, H, 0)]

ReapReply(t) ==
  IF ReapHit(t) = {} THEN NoSid ELSE t.sessionIdList[FirstRow(ReapHit(t))]

\* Rows used and unprivileged: those a mark flags.
Unprivileged(t) ==
  {i \in Row : t.usedRows[i] = 1 /\ t.privilegedRows[i] = 0}


(***************************************************************************)
(* One invocation of the TAB_FSM_WRITE case, lines 710-848, when the       *)
(* mark-as-privileged request finds its row: the new entry, the delete    *)
(* and the mark are done, then "return" leaves the mark-for-deletion and   *)
(* get-next-row requests waiting (and agencyFsm at WRITE).                 *)
(* NewEntry, AfterDelete and the victims bookkeeping are shared with the   *)
(* full invocation below.                                                  *)
(***************************************************************************)
FromRrh == rrhQ # <<>>
NewEntry == IF FromRrh THEN Head(rrhQ) ELSE Head(conQ)

AfterInsert ==
  IF FromRrh \/ conQ # <<>> THEN InsertRow(tab, NewEntry) ELSE tab

AfterDelete ==
  IF delQ # <<>> THEN DeleteRow(AfterInsert, Head(delQ)) ELSE AfterInsert

\* Victims still owed a reap after the delete: a freed row is no victim.
VictimsAfterDelete ==
  IF delQ # <<>> THEN victims \ UsedHit(AfterInsert, Head(delQ))
  ELSE victims

Hit == IF privQ # <<>> THEN UsedHit(AfterDelete, Head(privQ)) ELSE {}

\* The first three services of an invocation read their FIFOs.
TakeFirstThree ==
  /\ rrhQ' = Rest(rrhQ)
  /\ conQ' = IF FromRrh THEN conQ ELSE Rest(conQ)
  /\ delQ' = Rest(delQ)
  /\ privQ' = Rest(privQ)

\* Mutant: the return comes after every request FIFO has been read, so the
\* mark and get-next-row requests of that invocation are dropped.
WriteReturnDropsRest ==
  /\ Hit # {}
  /\ TakeFirstThree
  /\ markQ' = Rest(markQ)
  /\ delRowQ' = Rest(delRowQ)
  /\ tab' = PrivRow(AfterDelete, Head(privQ))
  /\ victims' = VictimsAfterDelete \ Hit
  /\ UNCHANGED <<reaped, reapedEmpty, reapLog, ops, asked>>

WriteReturn ==
  /\ Hit # {}
  /\ TakeFirstThree
  /\ tab' = PrivRow(AfterDelete, Head(privQ))
  /\ victims' = VictimsAfterDelete \ Hit
  /\ UNCHANGED <<markQ, delRowQ, reaped, reapedEmpty, reapLog, ops, asked>>

(***************************************************************************)
(* One whole invocation of the TAB_FSM_WRITE case, lines 710-848, with no *)
(* early return: every waiting request is served, in the code's order.    *)
(***************************************************************************)
WriteAll ==
  LET t3   == IF privQ # <<>> THEN PrivRow(AfterDelete, Head(privQ))
              ELSE AfterDelete
      mark == markQ # <<>> /\ Head(markQ)
      t4   == IF mark THEN MarkRows(t3) ELSE t3
      v4   == IF mark THEN Unprivileged(t3) ELSE VictimsAfterDelete
      reap == delRowQ # <<>> /\ Head(delRowQ)
  IN
  /\ Hit = {}
  /\ \/ FromRrh \/ conQ # <<>> \/ delQ # <<>> \/ privQ # <<>>
     \/ markQ # <<>> \/ delRowQ # <<>>
  /\ TakeFirstThree
  /\ markQ' = Rest(markQ)
  /\ delRowQ' = Rest(delRowQ)
  /\ tab' = IF reap THEN ReapRow(t4) ELSE t4
  /\ victims' = IF reap THEN v4 \ ReapHit(t4) ELSE v4
  /\ reaped' = IF reap THEN Append(reaped, ReapReply(t4)) ELSE reaped
  /\ reapedEmpty' = IF reap THEN ReapHit(t4) = {}
                    ELSE reapedEmpty /\ ~mark
  /\ reapLog' = IF reap /\ ReapHit(t4) # {}
                  THEN Append(reapLog, [row    |-> FirstRow(ReapHit(t4)),
                                        victim |-> ReapHit(t4) \subseteq v4])
                  ELSE reapLog
  /\ UNCHANGED <<ops, asked>>

WriteStep == WriteReturn \/ WriteAll

(***************************************************************************)
(* An invocation with nts_ready_and_enabled low, lines 633-652: the        *)
(* tables are wiped (and agencyFsm reset to READ).                         *)
(***************************************************************************)
NotReady ==
  /\ tab' = EmptyTable
  /\ victims' = {}
  /\ reapedEmpty' = FALSE
  /\ UNCHANGED <<rrhQ, conQ, delQ, privQ, markQ, delRowQ, reaped, reapLog,
                 ops, asked>>

-----------------------------------------------------------------------------
(***************************************************************************)
(* Environment: the clients send requests while their FIFO has room.      *)
(***************************************************************************)
Send(q, v) ==
  /\ ops < MaxOps
  /\ Len(q) < Depth
  /\ q' = Append(q, v)
  /\ ops' = ops + 1

clientQs == <<rrhQ, conQ, delQ, privQ, markQ, delRowQ>>
ghostVars == <<tab, reaped, victims, reapedEmpty, reapLog>>

\* pTcpRRh and pTcpCOn register a session they learned of.
AddRrh == \E s \in Sids, tr \in Triples :
            /\ Send(rrhQ, [sessId |-> s, triple |-> tr])
            /\ UNCHANGED <<conQ, delQ, privQ, markQ, delRowQ, ghostVars>>
AddCon == \E s \in Sids, tr \in Triples :
            /\ Send(conQ, [sessId |-> s, triple |-> tr])
            /\ UNCHANGED <<rrhQ, delQ, privQ, markQ, delRowQ, ghostVars>>
\* pTcpRRh deletes a closed session; pTcpRxNal marks one privileged.
AskDelete == \E s \in Sids :
               /\ Send(delQ, s)
               /\ UNCHANGED <<rrhQ, conQ, privQ, markQ, delRowQ, ghostVars>>
AskPriv == \E s \in Sids :
             /\ Send(privQ, s)
             /\ UNCHANGED <<rrhQ, conQ, delQ, markQ, delRowQ, ghostVars>>
\* pPortAndResetLogic (line 586) and pTcpCls write TRUE.
AskMark == /\ Send(markQ, TRUE)
           /\ UNCHANGED <<rrhQ, conQ, delQ, privQ, delRowQ, ghostVars>>
AskReap == /\ Send(delRowQ, TRUE)
           /\ asked' = asked + 1
           /\ UNCHANGED <<rrhQ, conQ, delQ, privQ, markQ, ghostVars>>

Clients ==
  \/ (AddRrh \/ AddCon \/ AskDelete \/ AskPriv \/ AskMark) /\ UNCHANGED asked
  \/ AskReap

Next == Clients \/ WriteStep \/ NotReady

Spec == Init /\ [][Next]_vars

-----------------------------------------------------------------------------
Entry == [sessId : Sids, triple : Triples]

TypeOK ==
  /\ tab.sessionIdList \in [Row -> Sids]
  /\ tab.tripleList \in [Row -> Triples]
  /\ \A a \in {"usedRows", "rowsToDelete", "privilegedRows"} :
       tab[a] \in [Row -> {0, 1}]
  /\ victims \subseteq Row
  /\ \A q \in {rrhQ, conQ} : q \in Seq(Entry) /\ Len(q) <= Depth

(***************************************************************************)
(* Reap completeness (spec 8): once get-next-row-to-delete has answered   *)
(* "empty" after a mark, no row that was used and unprivileged at the mark *)
(* is still in use, unless it was since freed by a delete or marked       *)
(* privileged.  It needs the mark loop to flag every such row and nothing *)
(* between the mark and the reaps to clear a flag of a row still in use.  *)
(***************************************************************************)
ReapCompleteness ==
  reapedEmpty => \A r \in victims : tab.usedRows[r] = 0

ReapRequestsKept == Len(reaped) + Len(delRowQ) = asked

(***************************************************************************)
(* Tuple uniqueness (spec 3 and 8): no two rows the lookups see hold the   *)
(* same triple.  The insert's duplicate check (lines 725-736) compares     *)
(* session ids, not triples.                                               *)
(***************************************************************************)
TupleUnique ==
  \A i, j \in Row :
    i # j /\ Live(tab, i) /\ Live(tab, j) => tab.tripleList[i] # tab.tripleList[j]

(***************************************************************************)
(* Reaping spares later sessions (spec 8, "rows ... inserted afterward    *)
(* are unaffected"): every row get-next-row-to-delete frees was used and  *)
(* unprivileged at the last mark and not freed since.                      *)
(***************************************************************************)
ReapOnlyVictims == \A k \in DOMAIN reapLog : reapLog[k].victim

(***************************************************************************)
(* The nal.cpp helpers of NalTriple, stated for every state of a run: the  *)
(* constant parts are computed once, and the conjunct on ops makes each a *)
(* state predicate.                                                        *)
(***************************************************************************)
\* The session table keys sessions by triple and the Tx path recovers the
\* address and ports from it: the getters of nal.cpp give back exactly the
\* address and the two ports newTriple packed, for all sample values.
TripleRoundTrip == AllUnpack /\ ops \in 0 .. MaxOps

\* extractByteCnt gives the byte count of every contiguous, non-empty
\* tkeep: the number of its ones.
ByteCntOfKeep == AllKeepsCounted /\ ops \in 0 .. MaxOps
=============================================================================
