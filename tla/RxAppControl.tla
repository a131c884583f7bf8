----------------------------- MODULE RxAppControl -----------------------------
(***************************************************************************)
(* The two control processes of rx_app_interface.cpp: the Listen          *)
(* Application Interface (Lai), a request/acknowledge handshake between   *)
(* the application (TAIF) and the Port Table (PRt), and the Notification  *)
(* Mux (Nmx, pStreamMux), which forwards data notifications of the Rx     *)
(* Engine (RXe) before those of the Timers (TIm).  The application, PRt,  *)
(* RXe and TIm are environment.                                           *)
(***************************************************************************)
EXTENDS Naturals, Sequences

CONSTANTS
  Ports,      \* listen ports the application asks for
  Depth,      \* depth of each FIFO
  MaxLsn,     \* bound: listen requests in a run
  MaxNotifs   \* bound: notifications each of RXe and TIm makes in a run

VARIABLES
  lsnReqQ,        \* siTAIF_LsnReq
  prtReqQ,        \* soPRt_LsnReq
  prtRepQ,        \* siPRt_LsnRep
  laiWaitForAck,  \* lai_waitForAck
  lsnAsked,       \* listen requests sent so far
  lsnAcks,        \* soTAIF_LsnAck as read by the application
  rxeNotifQ,      \* siRXe_Notif
  timNotifQ,      \* siTIm_Notif
  made,           \* notifications made so far by RXe and by TIm
  appNotifs       \* soTAIF_Notif as read by the application

laiVars == <<lsnReqQ, prtReqQ, prtRepQ, laiWaitForAck, lsnAsked, lsnAcks>>
nmxVars == <<rxeNotifQ, timNotifQ, made, appNotifs>>
vars == <<laiVars, nmxVars>>

Init ==
  /\ lsnReqQ = <<>> /\ prtReqQ = <<>> /\ prtRepQ = <<>>
  /\ laiWaitForAck = FALSE
  /\ lsnAsked = 0 /\ lsnAcks = <<>>
  /\ rxeNotifQ = <<>> /\ timNotifQ = <<>>
  /\ made = [src \in {"RXe", "TIm"} |-> 0]
  /\ appNotifs = <<>>

\* Fault variant of Lai: a new request is taken while one is unanswered.
LaiNoWait ==
  \/ /\ lsnReqQ # <<>>
     /\ Len(prtReqQ) < Depth
     /\ lsnReqQ' = Tail(lsnReqQ)
     /\ prtReqQ' = Append(prtReqQ, Head(lsnReqQ))
     /\ laiWaitForAck' = TRUE
     /\ UNCHANGED <<prtRepQ, lsnAcks, lsnAsked>>
  \/ /\ ~(lsnReqQ # <<>> /\ ~laiWaitForAck)
     /\ prtRepQ # <<>> /\ laiWaitForAck
     /\ prtRepQ' = Tail(prtRepQ)
     /\ lsnAcks' = Append(lsnAcks, Head(prtRepQ))
     /\ laiWaitForAck' = FALSE
     /\ UNCHANGED <<lsnReqQ, prtReqQ, lsnAsked>>

\* Fault variant of Lai: the acknowledge branch leaves lai_waitForAck set.
LaiStuckWaiting ==
  \/ /\ lsnReqQ # <<>> /\ ~laiWaitForAck
     /\ Len(prtReqQ) < Depth
     /\ lsnReqQ' = Tail(lsnReqQ)
     /\ prtReqQ' = Append(prtReqQ, Head(lsnReqQ))
     /\ laiWaitForAck' = TRUE
     /\ UNCHANGED <<prtRepQ, lsnAcks, lsnAsked>>
  \/ /\ ~(lsnReqQ # <<>> /\ ~laiWaitForAck)
     /\ prtRepQ # <<>> /\ laiWaitForAck
     /\ prtRepQ' = Tail(prtRepQ)
     /\ lsnAcks' = Append(lsnAcks, Head(prtRepQ))
     /\ UNCHANGED <<lsnReqQ, prtReqQ, laiWaitForAck, lsnAsked>>

\* Fault variant of Lai: the listen port read earlier, not PRt's
\* acknowledge, is written back to the application.
LaiAcksPort ==
  \/ /\ lsnReqQ # <<>> /\ ~laiWaitForAck
     /\ Len(prtReqQ) < Depth
     /\ lsnReqQ' = Tail(lsnReqQ)
     /\ prtReqQ' = Append(prtReqQ, Head(lsnReqQ))
     /\ laiWaitForAck' = TRUE
     /\ UNCHANGED <<prtRepQ, lsnAcks, lsnAsked>>
  \/ /\ ~(lsnReqQ # <<>> /\ ~laiWaitForAck)
     /\ prtRepQ # <<>> /\ laiWaitForAck
     /\ prtRepQ' = Tail(prtRepQ)
     /\ \E p \in Ports : lsnAcks' = Append(lsnAcks, p)
     /\ laiWaitForAck' = FALSE
     /\ UNCHANGED <<lsnReqQ, prtReqQ, lsnAsked>>

(***************************************************************************)
(* pLsnAppInterface, lines 466-504: when no acknowledge is awaited, take a *)
(* listen request and pass it to PRt; else, when PRt's acknowledge is     *)
(* there, pass it to the application.  The writes are blocking.           *)
(***************************************************************************)
Lai ==
  \/ /\ lsnReqQ # <<>> /\ ~laiWaitForAck
     /\ Len(prtReqQ) < Depth
     /\ lsnReqQ' = Tail(lsnReqQ)
     /\ prtReqQ' = Append(prtReqQ, Head(lsnReqQ))
     /\ laiWaitForAck' = TRUE
     /\ UNCHANGED <<prtRepQ, lsnAcks, lsnAsked>>
  \/ /\ ~(lsnReqQ # <<>> /\ ~laiWaitForAck)
     /\ prtRepQ # <<>> /\ laiWaitForAck
     /\ prtRepQ' = Tail(prtRepQ)
     /\ lsnAcks' = Append(lsnAcks, Head(prtRepQ))
     /\ laiWaitForAck' = FALSE
     /\ UNCHANGED <<lsnReqQ, prtReqQ, lsnAsked>>

\* Environment: the application asks to listen on a port.
AppListen ==
  /\ lsnAsked < MaxLsn
  /\ Len(lsnReqQ) < Depth
  /\ \E p \in Ports : lsnReqQ' = Append(lsnReqQ, p)
  /\ lsnAsked' = lsnAsked + 1
  /\ UNCHANGED <<prtReqQ, prtRepQ, laiWaitForAck, lsnAcks>>

\* Environment: PRt answers a listen request, accepting it or not.
PrtServe ==
  /\ prtReqQ # <<>>
  /\ Len(prtRepQ) < Depth
  /\ prtReqQ' = Tail(prtReqQ)
  /\ \E ack \in BOOLEAN : prtRepQ' = Append(prtRepQ, ack)
  /\ UNCHANGED <<lsnReqQ, laiWaitForAck, lsnAsked, lsnAcks>>

-----------------------------------------------------------------------------
\* Fault variant of Nmx: both inputs are read when both are ready, and
\* only the first is written.
NmxDropsSecond ==
  \/ /\ rxeNotifQ # <<>>
     /\ appNotifs' = Append(appNotifs, Head(rxeNotifQ))
     /\ rxeNotifQ' = Tail(rxeNotifQ)
     /\ timNotifQ' = IF timNotifQ # <<>> THEN Tail(timNotifQ) ELSE timNotifQ
  \/ /\ rxeNotifQ = <<>> /\ timNotifQ # <<>>
     /\ appNotifs' = Append(appNotifs, Head(timNotifQ))
     /\ timNotifQ' = Tail(timNotifQ)
     /\ UNCHANGED rxeNotifQ

(***************************************************************************)
(* pStreamMux, lines 79-92: forward one notification of RXe if there is   *)
(* one, else one of TIm.                                                   *)
(***************************************************************************)
Nmx ==
  \/ /\ rxeNotifQ # <<>>
     /\ appNotifs' = Append(appNotifs, Head(rxeNotifQ))
     /\ rxeNotifQ' = Tail(rxeNotifQ)
     /\ UNCHANGED timNotifQ
  \/ /\ rxeNotifQ = <<>> /\ timNotifQ # <<>>
     /\ appNotifs' = Append(appNotifs, Head(timNotifQ))
     /\ timNotifQ' = Tail(timNotifQ)
     /\ UNCHANGED rxeNotifQ

\* Environment: RXe or TIm makes a notification, named by its source and
\* its rank.
Notify ==
  \E src \in {"RXe", "TIm"} :
    LET q == IF src = "RXe" THEN rxeNotifQ ELSE timNotifQ IN
    /\ made[src] < MaxNotifs
    /\ Len(q) < Depth
    /\ made' = [made EXCEPT ![src] = @ + 1]
    /\ IF src = "RXe"
         THEN rxeNotifQ' = Append(rxeNotifQ, <<src, made[src] + 1>>)
              /\ UNCHANGED timNotifQ
         ELSE timNotifQ' = Append(timNotifQ, <<src, made[src] + 1>>)
              /\ UNCHANGED rxeNotifQ
    /\ UNCHANGED appNotifs

-----------------------------------------------------------------------------
LaiStep == Lai /\ UNCHANGED nmxVars
PrtStep == PrtServe /\ UNCHANGED nmxVars
NmxStep == Nmx /\ UNCHANGED <<laiVars, made>>

Next ==
  \/ LaiStep \/ PrtStep \/ NmxStep
  \/ AppListen /\ UNCHANGED nmxVars
  \/ Notify /\ UNCHANGED laiVars

(***************************************************************************)
(* Lai and Nmx run on every clock and PRt answers its requests; the       *)
(* application, RXe and TIm are not obliged to send anything.             *)
(***************************************************************************)
Spec ==
  /\ Init /\ [][Next]_vars
  /\ WF_vars(LaiStep) /\ WF_vars(PrtStep) /\ WF_vars(NmxStep)

TypeOK ==
  /\ laiWaitForAck \in BOOLEAN
  /\ lsnAcks \in Seq(BOOLEAN)
  /\ made \in [{"RXe", "TIm"} -> 0 .. MaxNotifs]

(***************************************************************************)
(* One listen operation in flight (spec 4, listen interface: "a second    *)
(* request is not accepted until the first is acknowledged"): PRt never    *)
(* holds more than one request or acknowledge, and while one is pending    *)
(* Lai is waiting for it.                                                  *)
(***************************************************************************)
OneListenInFlight ==
  /\ Len(prtReqQ) + Len(prtRepQ) <= 1
  /\ Len(prtReqQ) + Len(prtRepQ) = 1 => laiWaitForAck

(***************************************************************************)
(* Every listen request is acknowledged: each request the application     *)
(* sends is eventually answered.                                           *)
(***************************************************************************)
ListenAnswered ==
  \A n \in 1 .. MaxLsn : lsnAsked >= n ~> Len(lsnAcks) >= n

(***************************************************************************)
(* Every notification is delivered: RXe's priority does not starve TIm,   *)
(* and none is lost, so each one made eventually reaches the application. *)
(***************************************************************************)
NotifsDelivered ==
  \A src \in {"RXe", "TIm"}, n \in 1 .. MaxNotifs :
    made[src] >= n ~> \E i \in DOMAIN appNotifs : appNotifs[i] = <<src, n>>
=============================================================================
