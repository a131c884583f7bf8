------------------------------- MODULE TcpRoleIf -------------------------------
(***************************************************************************)
(* tcp_role_if.cpp, the shell's glue between the TOE and a TCP role, with  *)
(* the echo role (echo_app of RoleEchoStoreAndForward.cpp) on its vFPGA    *)
(* streams.  The DATAFLOW region runs eight processes:                     *)
(*   tai_listen_port_status  listens on port 80, retrying until it works;  *)
(*   tai_listen_new_data     turns notifications into read requests and    *)
(*                           writes the notified session into the table;   *)
(*   tai_session_id_table_server  the session_id_cam, queries first;       *)
(*   tai_net_to_app          strips the Rx metadata and passes the data on; *)
(*   tai_app_to_buf          buffers the role's reply and asks the table   *)
(*                           for the session of buffer 1 at its first word; *)
(*   tai_app_to_net          sends each reply with the session the table   *)
(*                           answered;                                      *)
(*   tai_open_connection, tai_check_tx_status  answer the TOE's open and   *)
(*                           transmit status.                               *)
(* The TOE is environment.  A word of data is a record naming the session  *)
(* and the segment it belongs to, so that where a reply goes can be        *)
(* checked against where its data came from.                               *)
(***************************************************************************)
EXTENDS Naturals, Sequences, FiniteSets

CONSTANTS
  Sessions,      \* TCP session ids the TOE notifies
  NumEntries,    \* no_of_session_id_table_entries
  NoSession,     \* the -1 of compare_buffer_id as ap_uint<16>
  Depth,         \* depth of the FIFOs between the TOE and the role
  MaxSegments,   \* bound: segments the TOE receives in a run
  MaxWords,      \* bound: words in a segment
  MaxNacks,      \* bound: refused listen requests in a run
  MaxOpens       \* bound: open-connection statuses the TOE sends in a run

ListenPort == 80
Entries == 0 .. NumEntries - 1

VARIABLES
  listenDone, waitPortStatus,     \* tai_listen_port_status
  lsnPortQ, lsnStatusQ,           \* oListenPort, iListenPortStatus
  lndState, sess_id, first_write, \* tai_listen_new_data
  notifQ, readReqQ, wEntryQ,      \* iNotifications, oReadRequest, w_entry
  cam,                            \* session_id_cam_table.filter_entries
  qBufQ, rSessQ,                  \* q_buffer_id, r_session_id
  ntaState, rxMetaQ, rxDataQ, vRxQ,      \* tai_net_to_app and its streams
  atbState, vTxQ, buffQ,          \* tai_app_to_buf, vFPGA_tx_data, buff_data
  atnState, txMetaQ, txDataQ,     \* tai_app_to_net, oTxMetaData, oTxData
  openStatusQ, openConnQ, closeConnQ, txStatusQ,
  toe                             \* the TOE: counters and what it saw

vars == <<listenDone, waitPortStatus, lsnPortQ, lsnStatusQ, lndState, sess_id,
          first_write, notifQ, readReqQ, wEntryQ, cam, qBufQ, rSessQ, ntaState,
          rxMetaQ, rxDataQ, vRxQ, atbState, vTxQ, buffQ, atnState, txMetaQ,
          txDataQ, openStatusQ, openConnQ, closeConnQ, txStatusQ, toe>>

Init ==
  /\ listenDone = FALSE /\ waitPortStatus = FALSE
  /\ lsnPortQ = <<>> /\ lsnStatusQ = <<>>
  /\ lndState = "LISTEN_NOTIFICATION" /\ sess_id = 99 /\ first_write = TRUE
  /\ notifQ = <<>> /\ readReqQ = <<>> /\ wEntryQ = <<>>
  /\ cam = [i \in Entries |-> [session_id |-> 0, buffer_id |-> 0, valid |-> 0]]
  /\ qBufQ = <<>> /\ rSessQ = <<>>
  /\ ntaState = "RWE_SESSION_ID" /\ rxMetaQ = <<>> /\ rxDataQ = <<>>
  /\ vRxQ = <<>>
  /\ atbState = "RWE_SESS_RD" /\ vTxQ = <<>> /\ buffQ = <<>>
  /\ atnState = "RWE_SESS_RD" /\ txMetaQ = <<>> /\ txDataQ = <<>>
  /\ openStatusQ = <<>> /\ openConnQ = <<>> /\ closeConnQ = <<>>
  /\ txStatusQ = <<>>
  /\ toe = [segments |-> 0, nacks |-> 0, opens |-> 0, notified |-> 0,
            delivered |-> <<>>, sentMeta |-> <<>>, sentData |-> <<>>]

\* w_entry, q_buffer_id and r_session_id have depth 1 (lines 347-352).
TableDepth == 1
FirstOf(S) == CHOOSE i \in S : \A j \in S : i <= j
Move(from, to) == /\ from' = Tail(from) /\ to' = Append(to, Head(from))

-----------------------------------------------------------------------------
(***************************************************************************)
(* session_id_cam, lines 6-43.                                             *)
(***************************************************************************)

\* write, lines 11-30: the first entry that is free when the new entry is
\* not valid, or valid with the same buffer id when it is, takes it.
CamWrite(t, e) ==
  LET hits == {i \in Entries :
                 \/ t[i].valid = 0 /\ e.valid = 0
                 \/ t[i].valid = 1 /\ e.valid = 1 /\ t[i].buffer_id = e.buffer_id}
  IN IF hits = {} THEN t
     ELSE [t EXCEPT ![FirstOf(hits)] = [session_id |-> e.session_id,
                                        buffer_id |-> e.buffer_id, valid |-> 1]]

\* compare_buffer_id, lines 32-43: the session of the first valid entry of
\* the buffer, or -1.
compare_buffer_id(t, b) ==
  LET hits == {i \in Entries : t[i].valid = 1 /\ t[i].buffer_id = b} IN
  IF hits = {} THEN NoSession ELSE t[FirstOf(hits)].session_id

\* tai_session_id_table_server, lines 45-74: a query when one is waiting
\* and its answer has room, else a write.
QueryReady == qBufQ # <<>> /\ Len(rSessQ) < TableDepth
tai_session_id_table_server ==
  /\ \/ /\ QueryReady
        /\ qBufQ' = Tail(qBufQ)
        /\ rSessQ' = Append(rSessQ, compare_buffer_id(cam, Head(qBufQ)))
        /\ UNCHANGED <<wEntryQ, cam>>
     \/ /\ ~QueryReady /\ wEntryQ # <<>>
        /\ wEntryQ' = Tail(wEntryQ)
        /\ cam' = CamWrite(cam, Head(wEntryQ))
        /\ UNCHANGED <<qBufQ, rSessQ>>
  /\ UNCHANGED <<listenDone, waitPortStatus, lsnPortQ, lsnStatusQ, lndState,
                 sess_id, first_write, notifQ, readReqQ, ntaState, rxMetaQ,
                 rxDataQ, vRxQ, atbState, vTxQ, buffQ, atnState, txMetaQ,
                 txDataQ, openStatusQ, openConnQ, closeConnQ, txStatusQ, toe>>

-----------------------------------------------------------------------------
(***************************************************************************)
(* The control processes, lines 113-200.                                   *)
(***************************************************************************)
dataVars == <<cam, qBufQ, rSessQ, ntaState, rxMetaQ, rxDataQ, vRxQ, atbState,
              vTxQ, buffQ, atnState, txMetaQ, txDataQ>>

\* tai_open_connection, lines 113-131: every open status is answered with
\* a new open request, and a successful one is closed again.
tai_open_connection ==
  /\ openStatusQ # <<>> /\ Len(openConnQ) < Depth /\ Len(closeConnQ) < Depth
  /\ openStatusQ' = Tail(openStatusQ)
  /\ openConnQ' = Append(openConnQ, "tuple")
  /\ closeConnQ' = IF Head(openStatusQ).success
                     THEN Append(closeConnQ, Head(openStatusQ).sessionID)
                     ELSE closeConnQ
  /\ UNCHANGED <<listenDone, waitPortStatus, lsnPortQ, lsnStatusQ, lndState,
                 sess_id, first_write, notifQ, readReqQ, wEntryQ, txStatusQ,
                 toe, dataVars>>

\* tai_listen_port_status, lines 133-149: ask to listen on port 80 until
\* the TOE answers that it does.
tai_listen_port_status ==
  /\ \/ /\ ~listenDone /\ ~waitPortStatus /\ Len(lsnPortQ) < Depth
        /\ lsnPortQ' = Append(lsnPortQ, ListenPort)
        /\ waitPortStatus' = TRUE
        /\ UNCHANGED <<listenDone, lsnStatusQ>>
     \/ /\ ~(~listenDone /\ ~waitPortStatus /\ Len(lsnPortQ) < Depth)
        /\ waitPortStatus /\ lsnStatusQ # <<>>
        /\ listenDone' = Head(lsnStatusQ)
        /\ lsnStatusQ' = Tail(lsnStatusQ)
        /\ waitPortStatus' = FALSE
        /\ UNCHANGED lsnPortQ
  /\ UNCHANGED <<lndState, sess_id, first_write, notifQ, readReqQ, wEntryQ,
                 openStatusQ, openConnQ, closeConnQ, txStatusQ, toe, dataVars>>

\* Mutant: a read request only for a new session.
tai_listen_new_dataReadOnNewSession ==
  /\ \/ /\ lndState = "LISTEN_NOTIFICATION"
        /\ notifQ # <<>> /\ Len(readReqQ) < Depth
        /\ LET n == Head(notifQ) IN
           /\ notifQ' = Tail(notifQ)
           /\ IF sess_id # n.sessionID \/ first_write
                THEN /\ sess_id' = n.sessionID /\ lndState' = "WRITE_SESSION"
                     /\ readReqQ' = IF n.length # 0 THEN Append(readReqQ, n) ELSE readReqQ
                ELSE UNCHANGED <<sess_id, lndState, readReqQ>>
        /\ UNCHANGED <<first_write, wEntryQ>>
     \/ /\ lndState = "WRITE_SESSION" /\ Len(wEntryQ) < TableDepth
        /\ wEntryQ' = Append(wEntryQ, [session_id |-> sess_id, buffer_id |-> 1,
                                       valid |-> IF first_write THEN 0 ELSE 1])
        /\ first_write' = FALSE
        /\ lndState' = "LISTEN_NOTIFICATION"
        /\ UNCHANGED <<notifQ, readReqQ, sess_id>>
  /\ UNCHANGED <<listenDone, waitPortStatus, lsnPortQ, lsnStatusQ,
                 openStatusQ, openConnQ, closeConnQ, txStatusQ, toe, dataVars>>

\* tai_listen_new_data, lines 151-189: a notification with data becomes a
\* read request; a notification of another session than the last one (or
\* the first notification) is then written to the table for buffer 1, the
\* first time as a new entry, afterwards over the entry of buffer 1.
tai_listen_new_data ==
  /\ \/ /\ lndState = "LISTEN_NOTIFICATION"
        /\ notifQ # <<>> /\ Len(readReqQ) < Depth
        /\ LET n == Head(notifQ) IN
           /\ notifQ' = Tail(notifQ)
           /\ readReqQ' = IF n.length # 0 THEN Append(readReqQ, n) ELSE readReqQ
           /\ IF sess_id # n.sessionID \/ first_write
                THEN sess_id' = n.sessionID /\ lndState' = "WRITE_SESSION"
                ELSE UNCHANGED <<sess_id, lndState>>
        /\ UNCHANGED <<first_write, wEntryQ>>
     \/ /\ lndState = "WRITE_SESSION" /\ Len(wEntryQ) < TableDepth
        /\ wEntryQ' = Append(wEntryQ, [session_id |-> sess_id, buffer_id |-> 1,
                                       valid |-> IF first_write THEN 0 ELSE 1])
        /\ first_write' = FALSE
        /\ lndState' = "LISTEN_NOTIFICATION"
        /\ UNCHANGED <<notifQ, readReqQ, sess_id>>
  /\ UNCHANGED <<listenDone, waitPortStatus, lsnPortQ, lsnStatusQ,
                 openStatusQ, openConnQ, closeConnQ, txStatusQ, toe, dataVars>>

\* tai_check_tx_status, lines 191-200: the transmit status is discarded.
tai_check_tx_status ==
  /\ txStatusQ # <<>> /\ txStatusQ' = Tail(txStatusQ)
  /\ UNCHANGED <<listenDone, waitPortStatus, lsnPortQ, lsnStatusQ, lndState,
                 sess_id, first_write, notifQ, readReqQ, wEntryQ, openStatusQ,
                 openConnQ, closeConnQ, toe, dataVars>>

-----------------------------------------------------------------------------
(***************************************************************************)
(* The data path, lines 203-298, and the echo role.                        *)
(***************************************************************************)
ctrlVars == <<listenDone, waitPortStatus, lsnPortQ, lsnStatusQ, lndState,
              sess_id, first_write, notifQ, readReqQ, wEntryQ, openStatusQ,
              openConnQ, closeConnQ, txStatusQ>>

\* tai_net_to_app, lines 203-234: drop the Rx metadata, then pass the
\* segment's words to the role up to the last one.
tai_net_to_app ==
  /\ \/ /\ ntaState = "RWE_SESSION_ID" /\ rxMetaQ # <<>>
        /\ rxMetaQ' = Tail(rxMetaQ)
        /\ ntaState' = "RWE_DATA"
        /\ UNCHANGED <<rxDataQ, vRxQ>>
     \/ /\ ntaState = "RWE_DATA" /\ rxDataQ # <<>> /\ Len(vRxQ) < Depth
        /\ Move(rxDataQ, vRxQ)
        /\ ntaState' = IF Head(rxDataQ).last THEN "RWE_SESSION_ID" ELSE ntaState
        /\ UNCHANGED rxMetaQ
  /\ UNCHANGED <<ctrlVars, cam, qBufQ, rSessQ, atbState, vTxQ, buffQ,
                 atnState, txMetaQ, txDataQ, toe>>

\* Mutant: the first word does not wait for room in q_buffer_id.
tai_app_to_bufNoFullCheck ==
  /\ vTxQ # <<>> /\ Len(buffQ) < Depth
  /\ Move(vTxQ, buffQ)
  /\ \/ /\ atbState = "RWE_SESS_RD"
        /\ qBufQ' = Append(qBufQ, 1)
        /\ atbState' = IF Head(vTxQ).last THEN atbState ELSE "RWE_BUFF_DATA"
     \/ /\ atbState = "RWE_BUFF_DATA"
        /\ atbState' = IF Head(vTxQ).last THEN "RWE_SESS_RD" ELSE atbState
        /\ UNCHANGED qBufQ
  /\ UNCHANGED <<ctrlVars, cam, rSessQ, ntaState, rxMetaQ, rxDataQ, vRxQ,
                 atnState, txMetaQ, txDataQ, toe>>

\* tai_app_to_buf, lines 237-266: buffer the role's words; at the first
\* word of a segment, ask the table for the session of buffer 1.
tai_app_to_buf ==
  /\ vTxQ # <<>> /\ Len(buffQ) < Depth
  /\ Move(vTxQ, buffQ)
  /\ \/ /\ atbState = "RWE_SESS_RD" /\ Len(qBufQ) < TableDepth
        /\ qBufQ' = Append(qBufQ, 1)
        /\ atbState' = IF Head(vTxQ).last THEN atbState ELSE "RWE_BUFF_DATA"
     \/ /\ atbState = "RWE_BUFF_DATA"
        /\ atbState' = IF Head(vTxQ).last THEN "RWE_SESS_RD" ELSE atbState
        /\ UNCHANGED qBufQ
  /\ UNCHANGED <<ctrlVars, cam, rSessQ, ntaState, rxMetaQ, rxDataQ, vRxQ,
                 atnState, txMetaQ, txDataQ, toe>>

\* Mutant: the first word of a reply is read but not written.
tai_app_to_netDropsFirst ==
  /\ buffQ # <<>> /\ Len(txDataQ) < Depth
  /\ buffQ' = Tail(buffQ)
  /\ \/ /\ atnState = "RWE_SESS_RD" /\ Len(txMetaQ) < Depth /\ rSessQ # <<>>
        /\ Move(rSessQ, txMetaQ) /\ UNCHANGED txDataQ
        /\ atnState' = IF Head(buffQ).last THEN atnState ELSE "RWE_TX_DATA"
     \/ /\ atnState = "RWE_TX_DATA"
        /\ atnState' = IF Head(buffQ).last THEN "RWE_SESS_RD" ELSE atnState
        /\ txDataQ' = Append(txDataQ, Head(buffQ))
        /\ UNCHANGED <<rSessQ, txMetaQ>>
  /\ UNCHANGED <<ctrlVars, cam, qBufQ, ntaState, rxMetaQ, rxDataQ, vRxQ,
                 atbState, vTxQ, toe>>

\* tai_app_to_net, lines 268-298: at the first word of a segment, send the
\* session the table answered as the Tx metadata; send every word.
tai_app_to_net ==
  /\ buffQ # <<>> /\ Len(txDataQ) < Depth
  /\ Move(buffQ, txDataQ)
  /\ \/ /\ atnState = "RWE_SESS_RD" /\ Len(txMetaQ) < Depth /\ rSessQ # <<>>
        /\ Move(rSessQ, txMetaQ)
        /\ atnState' = IF Head(buffQ).last THEN atnState ELSE "RWE_TX_DATA"
     \/ /\ atnState = "RWE_TX_DATA"
        /\ atnState' = IF Head(buffQ).last THEN "RWE_SESS_RD" ELSE atnState
        /\ UNCHANGED <<rSessQ, txMetaQ>>
  /\ UNCHANGED <<ctrlVars, cam, qBufQ, ntaState, rxMetaQ, rxDataQ, vRxQ,
                 atbState, vTxQ, toe>>

\* echo_app of RoleEchoStoreAndForward.cpp, lines 76-91: the role sends
\* back every word it receives.
echo_app ==
  /\ vRxQ # <<>> /\ Len(vTxQ) < Depth
  /\ Move(vRxQ, vTxQ)
  /\ UNCHANGED <<ctrlVars, cam, qBufQ, rSessQ, ntaState, rxMetaQ, rxDataQ,
                 atbState, buffQ, atnState, txMetaQ, txDataQ, toe>>

-----------------------------------------------------------------------------
(***************************************************************************)
(* The TOE.                                                                *)
(***************************************************************************)
\* It answers a listen request, refusing at most MaxNacks of them.
ToeListen ==
  /\ lsnPortQ # <<>> /\ Len(lsnStatusQ) < Depth
  /\ \E ok \in BOOLEAN :
       /\ ok \/ toe.nacks < MaxNacks
       /\ lsnStatusQ' = Append(lsnStatusQ, ok)
       /\ toe' = [toe EXCEPT !.nacks = IF ok THEN @ ELSE @ + 1]
  /\ lsnPortQ' = Tail(lsnPortQ)
  /\ UNCHANGED <<lndState, sess_id, first_write, notifQ, readReqQ, wEntryQ,
                 openStatusQ, openConnQ, closeConnQ, txStatusQ, listenDone,
                 waitPortStatus, dataVars>>

\* A segment arrives for a session; the application is notified of its
\* length in words (0 for a notification without data).
ToeNotify ==
  /\ listenDone
  /\ toe.segments < MaxSegments /\ Len(notifQ) < Depth
  /\ \E sid \in Sessions, n \in 0 .. MaxWords :
       /\ notifQ' = Append(notifQ, [sessionID |-> sid, length |-> n])
       /\ toe' = [toe EXCEPT !.segments = @ + 1, !.notified = @ + n]
  /\ UNCHANGED <<listenDone, waitPortStatus, lsnPortQ, lsnStatusQ, lndState,
                 sess_id, first_write, readReqQ, wEntryQ, openStatusQ,
                 openConnQ, closeConnQ, txStatusQ, dataVars>>

\* The words of one segment; seg numbers the segments the TOE delivered.
Segment(sid, n, seg) ==
  [j \in 1 .. n |-> [sess |-> sid, seg |-> seg, last |-> j = n]]
Segs(ws) == {ws[i].seg : i \in DOMAIN ws}

\* It serves a read request: the metadata, then the words.  The data comes
\* from the TOE's Rx buffer memory, many cycles after the request, while
\* the session of the notification reaches the table two cycles after it:
\* the TOE serves a read once tai_listen_new_data's table write is applied.
TableWritten == lndState = "LISTEN_NOTIFICATION" /\ wEntryQ = <<>>
ToeServeRead ==
  /\ readReqQ # <<>> /\ Len(rxMetaQ) < Depth /\ TableWritten
  /\ LET r  == Head(readReqQ)
         ws == Segment(r.sessionID, r.length, Cardinality(Segs(toe.delivered)) + 1)
     IN /\ Len(rxDataQ) + r.length <= Depth
        /\ readReqQ' = Tail(readReqQ)
        /\ rxMetaQ' = Append(rxMetaQ, r.sessionID)
        /\ rxDataQ' = rxDataQ \o ws
        /\ toe' = [toe EXCEPT !.delivered = @ \o ws]
  /\ UNCHANGED <<listenDone, waitPortStatus, lsnPortQ, lsnStatusQ, lndState,
                 sess_id, first_write, notifQ, wEntryQ, openStatusQ, openConnQ,
                 closeConnQ, txStatusQ, cam, qBufQ, rSessQ, ntaState, vRxQ,
                 atbState, vTxQ, buffQ, atnState, txMetaQ, txDataQ>>

\* It takes the Tx metadata and data.
ToeTransmit ==
  /\ \/ /\ txMetaQ # <<>> /\ txMetaQ' = Tail(txMetaQ)
        /\ toe' = [toe EXCEPT !.sentMeta = Append(@, Head(txMetaQ))]
        /\ UNCHANGED txDataQ
     \/ /\ txDataQ # <<>> /\ txDataQ' = Tail(txDataQ)
        /\ toe' = [toe EXCEPT !.sentData = Append(@, Head(txDataQ))]
        /\ UNCHANGED txMetaQ
  /\ UNCHANGED <<ctrlVars, cam, qBufQ, rSessQ, ntaState, rxMetaQ, rxDataQ, vRxQ,
                 atbState, vTxQ, buffQ, atnState>>

\* It reports an open-connection or a transmit status, and takes the open
\* and close requests.
ToeStatus ==
  /\ \/ /\ toe.opens < MaxOpens /\ Len(openStatusQ) < Depth
        /\ \E sid \in Sessions, ok \in BOOLEAN :
             openStatusQ' = Append(openStatusQ, [sessionID |-> sid, success |-> ok])
        /\ toe' = [toe EXCEPT !.opens = @ + 1]
        /\ UNCHANGED <<txStatusQ, openConnQ, closeConnQ>>
     \/ /\ toe.opens < MaxOpens /\ Len(txStatusQ) < Depth
        /\ txStatusQ' = Append(txStatusQ, 0)
        /\ toe' = [toe EXCEPT !.opens = @ + 1]
        /\ UNCHANGED <<openStatusQ, openConnQ, closeConnQ>>
     \/ /\ openConnQ # <<>> \/ closeConnQ # <<>>
        /\ openConnQ' = IF openConnQ = <<>> THEN openConnQ ELSE Tail(openConnQ)
        /\ closeConnQ' = IF closeConnQ = <<>> THEN closeConnQ ELSE Tail(closeConnQ)
        /\ UNCHANGED <<toe, openStatusQ, txStatusQ>>
  /\ UNCHANGED <<listenDone, waitPortStatus, lsnPortQ, lsnStatusQ, lndState,
                 sess_id, first_write, notifQ, readReqQ, wEntryQ, dataVars>>

-----------------------------------------------------------------------------
RoleIf ==
  \/ tai_open_connection \/ tai_listen_port_status \/ tai_listen_new_data
  \/ tai_check_tx_status \/ tai_session_id_table_server \/ tai_net_to_app
  \/ tai_app_to_buf \/ tai_app_to_net

Next ==
  \/ RoleIf \/ echo_app
  \/ ToeListen \/ ToeNotify \/ ToeServeRead \/ ToeTransmit \/ ToeStatus

(***************************************************************************)
(* Every process of the DATAFLOW region runs on every clock, and so does   *)
(* the echo role; the TOE answers listen and read requests and takes what  *)
(* is sent.  It need not receive segments or report statuses.             *)
(***************************************************************************)
Spec ==
  /\ Init /\ [][Next]_vars
  /\ WF_vars(tai_open_connection) /\ WF_vars(tai_listen_port_status)
  /\ WF_vars(tai_listen_new_data) /\ WF_vars(tai_check_tx_status)
  /\ WF_vars(tai_session_id_table_server) /\ WF_vars(tai_net_to_app)
  /\ WF_vars(tai_app_to_buf) /\ WF_vars(tai_app_to_net) /\ WF_vars(echo_app)
  /\ WF_vars(ToeListen) /\ WF_vars(ToeServeRead) /\ WF_vars(ToeTransmit)
-----------------------------------------------------------------------------
Word == [sess : Sessions, seg : 1 .. MaxSegments, last : BOOLEAN]
Entry == [session_id : Sessions \cup {99}, buffer_id : {1}, valid : {0, 1}]
TypeOK ==
  /\ listenDone \in BOOLEAN /\ waitPortStatus \in BOOLEAN
  /\ lndState \in {"LISTEN_NOTIFICATION", "WRITE_SESSION"}
  /\ sess_id \in Sessions \cup {99} /\ first_write \in BOOLEAN
  /\ cam \in [Entries -> [session_id : Sessions \cup {0}, buffer_id : {0, 1},
                          valid : {0, 1}]]
  /\ wEntryQ \in Seq(Entry) /\ qBufQ \in Seq({1})
  /\ rSessQ \in Seq(Sessions \cup {0, NoSession})
  /\ ntaState \in {"RWE_SESSION_ID", "RWE_DATA"}
  /\ atbState \in {"RWE_SESS_RD", "RWE_BUFF_DATA"}
  /\ atnState \in {"RWE_SESS_RD", "RWE_TX_DATA"}
  /\ rxDataQ \in Seq(Word) /\ vRxQ \in Seq(Word) /\ vTxQ \in Seq(Word)
  /\ buffQ \in Seq(Word) /\ txDataQ \in Seq(Word)
  /\ LET qs == <<lsnPortQ, lsnStatusQ, notifQ, readReqQ, rxMetaQ, rxDataQ,
                 vRxQ, vTxQ, buffQ, txMetaQ, txDataQ, openStatusQ, openConnQ,
                 closeConnQ, txStatusQ>>
     IN \A i \in DOMAIN qs : Len(qs[i]) <= Depth
  /\ Len(wEntryQ) <= TableDepth /\ Len(qBufQ) <= TableDepth
  /\ Len(rSessQ) <= TableDepth

\* What the role interface has sent towards the TOE, sent or queued.
OutData == toe.sentData \o txDataQ
OutMeta == toe.sentMeta \o txMetaQ
\* The positions of the words that open a reply segment.
Firsts(ws) == {i \in DOMAIN ws : i = 1 \/ ws[i-1].last}
Rank(i, ws) == Cardinality({j \in Firsts(ws) : j <= i})

\* The echo role sends back exactly the words the TOE delivered, in the
\* order it delivered them: the Rx path, the role and the buffered Tx path
\* of tai_app_to_buf and tai_app_to_net neither drop, duplicate nor reorder
\* a word.
EchoedInOrder ==
  /\ Len(OutData) <= Len(toe.delivered)
  /\ \A i \in DOMAIN OutData : OutData[i] = toe.delivered[i]

\* tai_app_to_net sends one Tx metadata per reply segment, with its first
\* word, and the session it names is the session the segment was received
\* on: the session id table answers the query tai_app_to_buf makes for
\* buffer 1 with the session tai_listen_new_data wrote there.  The code keeps
\* one session for buffer 1 and overwrites it on every new session, so with
\* two sessions this fails by design; no run checks it with one session, in
\* which it cannot tell sessions apart.
RepliesToSender ==
  \A i \in Firsts(OutData) :
    /\ Len(OutMeta) = Cardinality(Firsts(OutData))
    /\ OutMeta[Rank(i, OutData)] = OutData[i].sess

\* Every word the TOE notifies is read, echoed and sent back: a refused
\* listen request is retried, every notification with data becomes a read
\* request, and no query of the table or FIFO of the Tx path blocks.
AllEchoed ==
  \A k \in 1 .. MaxSegments * MaxWords :
    toe.notified >= k ~> Len(toe.sentData) >= k

-----------------------------------------------------------------------------
(***************************************************************************)
(* Refinement of EchoService.  A segment is received when the TOE         *)
(* delivers its words; the k-th reply exists once the TOE has taken the   *)
(* k-th Tx metadata and the last word of the k-th reply.  Its payload is  *)
(* the run of words ending at the k-th TLAST tai_app_to_net sent.         *)
(***************************************************************************)
Lasts(ws) == {i \in DOMAIN ws : ws[i].last}
KthLast(ws, k) ==
  CHOOSE i \in Lasts(ws) : Cardinality({j \in Lasts(ws) : j <= i}) = k
ReplyWords(ws, k) ==
  SubSeq(ws, IF k = 1 THEN 1 ELSE KthLast(ws, k - 1) + 1, KthLast(ws, k))
RepliesTaken ==
  LET n == Cardinality(Lasts(toe.sentData)) IN
  IF n <= Len(toe.sentMeta) THEN n ELSE Len(toe.sentMeta)
SegmentWords(k) == SelectSeq(toe.delivered, LAMBDA w : w.seg = k)

\* The reply to a segment: its payload, on its session.
SegmentReply(m) == m

Echo == INSTANCE EchoService WITH
  ReplyTo  <- SegmentReply,
  received <- [k \in 1 .. Cardinality(Segs(toe.delivered)) |->
                 [session |-> SegmentWords(k)[1].sess,
                  payload |-> SegmentWords(k)]],
  replied  <- [k \in 1 .. RepliesTaken |->
                 [session |-> toe.sentMeta[k],
                  payload |-> ReplyWords(toe.sentData, k)]]

\* The interface and the echo role implement EchoService: the Rx path, the
\* role, the session id table and the Tx path together answer each segment
\* once, in order, on the session it came from, with its own words, and
\* leave none unanswered.
EchoRefined == Echo!Spec
=============================================================================
