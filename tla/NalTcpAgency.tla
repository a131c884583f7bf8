----------------------------- MODULE NalTcpAgency -----------------------------
(***************************************************************************)
(* pTcpAgency of hss.cpp as a whole: the agencyFsm that alternates a READ  *)
(* invocation, serving the two lookups, with a WRITE invocation, the table *)
(* updates of NalSessionTable.                                             *)
(*                                                                         *)
(* As the braces of lines 659-850 fall, "case TAB_FSM_WRITE:" sits inside  *)
(* the body of the get-sid-from-triple "if" of the READ case, so only that *)
(* branch moves agencyFsm to WRITE, and the reply of that lookup is        *)
(* written inside its scan loop, once per row scanned before a match.     *)
(* Both lookups are entered only when their reply FIFO is full (lines     *)
(* 660 and 685); their replies are blocking writes.                       *)
(***************************************************************************)
EXTENDS Naturals, Sequences

CONSTANTS NumRows, Sids, Triples, NoSid, Depth, MaxOps,
          NoTriple,    \* UNUSED_TABLE_ENTRY_VALUE
          RepDepth,    \* depth of the two lookup reply FIFOs
          MaxLookups   \* bound: lookups the clients ask in a run

VARIABLES tab, rrhQ, conQ, delQ, privQ, markQ, delRowQ, ops, reaped,
          victims, reapedEmpty, reapLog,
          agencyFsm,   \* agencyFsm
          tripleReqQ,  \* sGetTripleFromSid_Req
          tripleRepQ,  \* sGetTripleFromSid_Rep
          sidReqQ,     \* sGetSidFromTriple_Req
          sidRepQ,     \* sGetSidFromTriple_Rep
          asked,       \* number of lookups asked so far
          served       \* number of lookup requests pTcpAgency has read

T == INSTANCE NalSessionTable

tableVars == <<tab, rrhQ, conQ, delQ, privQ, markQ, delRowQ, ops, reaped,
               victims, reapedEmpty, reapLog>>
agencyVars == <<agencyFsm, tripleReqQ, tripleRepQ, sidReqQ, sidRepQ,
                asked, served>>
vars == <<tableVars, agencyVars>>

Init ==
  /\ T!Init
  /\ agencyFsm = "TAB_FSM_READ"
  /\ tripleReqQ = <<>> /\ tripleRepQ = <<>>
  /\ sidReqQ = <<>> /\ sidRepQ = <<>>
  /\ asked = 0 /\ served = 0

\* The rows a lookup sees for session s and for triple tr.
SidRows(s) == {i \in T!Row : T!Live(tab, i) /\ tab.sessionIdList[i] = s}
TripleRows(tr) == {i \in T!Row : T!Live(tab, i) /\ tab.tripleList[i] = tr}

(***************************************************************************)
(* get-triple-from-sid, lines 660-683: entered when the reply FIFO is     *)
(* full; the reply is the triple of the first row of the session, or       *)
(* UNUSED_TABLE_ENTRY_VALUE, written with a blocking write.               *)
(***************************************************************************)
TripleLookup ==
  LET s == Head(tripleReqQ) IN
  /\ tripleReqQ # <<>> /\ Len(tripleRepQ) = RepDepth
  /\ Len(tripleRepQ) < RepDepth
  /\ tripleReqQ' = Tail(tripleReqQ)
  /\ tripleRepQ' = Append(tripleRepQ,
       IF SidRows(s) = {} THEN NoTriple
       ELSE tab.tripleList[T!FirstRow(SidRows(s))])

(***************************************************************************)
(* get-sid-from-triple, lines 684-709: entered when the reply FIFO is     *)
(* full; UNUSED_SESSION_ENTRY_VALUE is written once for every row scanned *)
(* before the first match (all rows when none matches), the match itself  *)
(* never; then agencyFsm becomes WRITE.                                    *)
(***************************************************************************)
SidLookup ==
  LET tr     == Head(sidReqQ)
      writes == IF TripleRows(tr) = {} THEN NumRows
                ELSE T!FirstRow(TripleRows(tr))
  IN
  /\ sidReqQ # <<>> /\ Len(sidRepQ) = RepDepth
  /\ Len(sidRepQ) + writes <= RepDepth
  /\ sidReqQ' = Tail(sidReqQ)
  /\ sidRepQ' = sidRepQ \o [k \in 1 .. writes |-> NoSid]
  /\ agencyFsm' = "TAB_FSM_WRITE"

\* One READ invocation, lines 659-709: the two lookups in turn.
AgencyRead ==
  /\ agencyFsm = "TAB_FSM_READ"
  /\ \/ /\ TripleLookup
        /\ \/ SidLookup /\ served' = served + 2
           \/ /\ ~(sidReqQ # <<>> /\ Len(sidRepQ) = RepDepth)
              /\ served' = served + 1
              /\ UNCHANGED <<sidReqQ, sidRepQ, agencyFsm>>
     \/ /\ ~(tripleReqQ # <<>> /\ Len(tripleRepQ) = RepDepth)
        /\ SidLookup
        /\ served' = served + 1
        /\ UNCHANGED <<tripleReqQ, tripleRepQ>>
  /\ UNCHANGED <<tableVars, asked>>

\* One WRITE invocation, lines 710-848: agencyFsm goes back to READ unless
\* mark-as-privileged returned early.
AgencyWrite ==
  /\ agencyFsm = "TAB_FSM_WRITE"
  /\ \/ T!WriteReturn /\ UNCHANGED agencyFsm
     \/ T!WriteAll /\ agencyFsm' = "TAB_FSM_READ"
  /\ UNCHANGED <<tripleReqQ, tripleRepQ, sidReqQ, sidRepQ, asked, served>>

\* nts_ready_and_enabled low, lines 633-652.
AgencyNotReady ==
  /\ T!NotReady
  /\ agencyFsm' = "TAB_FSM_READ"
  /\ UNCHANGED <<tripleReqQ, tripleRepQ, sidReqQ, sidRepQ, asked, served>>

Agency == AgencyRead \/ AgencyWrite

\* Environment: pTcpTxNal asks for a session, pTcpRxNal for a triple, and
\* each reads the replies.
AskLookup ==
  /\ asked < MaxLookups
  /\ \/ \E tr \in Triples : /\ Len(sidReqQ) < Depth
                            /\ sidReqQ' = Append(sidReqQ, tr)
                            /\ UNCHANGED tripleReqQ
     \/ \E s \in Sids : /\ Len(tripleReqQ) < Depth
                        /\ tripleReqQ' = Append(tripleReqQ, s)
                        /\ UNCHANGED sidReqQ
  /\ asked' = asked + 1
  /\ UNCHANGED <<tableVars, agencyFsm, tripleRepQ, sidRepQ, served>>

ReadReplies ==
  /\ \/ tripleRepQ # <<>> /\ tripleRepQ' = Tail(tripleRepQ)
                         /\ UNCHANGED sidRepQ
     \/ sidRepQ # <<>> /\ sidRepQ' = Tail(sidRepQ) /\ UNCHANGED tripleRepQ
  /\ UNCHANGED <<tableVars, agencyFsm, tripleReqQ, sidReqQ, asked, served>>

TableClients == T!Clients /\ UNCHANGED agencyVars

Next == Agency \/ AgencyNotReady \/ AskLookup \/ ReadReplies \/ TableClients

(***************************************************************************)
(* pTcpAgency runs on every clock; the clients read their replies.        *)
(***************************************************************************)
Spec == Init /\ [][Next]_vars /\ WF_vars(Agency) /\ WF_vars(ReadReplies)

(***************************************************************************)
(* Lookups are served (spec 4.1, lookup and reverseLookup): every lookup  *)
(* request a client sends is eventually read and answered by pTcpAgency.  *)
(***************************************************************************)
LookupsServed == \A n \in 1 .. MaxLookups : asked >= n ~> served >= n
=============================================================================
