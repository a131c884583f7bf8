---------------------------- MODULE EventPipeline ----------------------------
(***************************************************************************)
(* The TOE event path: the three event producers (RXe, TIm, TAi), the      *)
(* Event Engine (EVe), the ACK Delayer (AKd) and the Tx Engine (TXe) that  *)
(* consumes the events.  EVe and AKd are the modules EventEngine and       *)
(* AckDelay; they share the event FIFO between them and the signal FIFOs.  *)
(* The producers and TXe are environment: they are not under src/, and     *)
(* only their FIFO contracts are modelled (spec section 6).               *)
(***************************************************************************)
EXTENDS Naturals, Sequences, FiniteSets

CONSTANTS
  MaxSessions, ACKD_64us, AckTableBits, TxeDepth, SigDepth,
  AkdDepth, CntBits,
  SrcDepth,   \* depth of each producer's FIFO into EVe
  MaxEvents,  \* bound: number of events the producers create in a run
  RxeTypes,   \* event types the Rx Engine produces
  TimTypes,   \* event types the Timers produce
  TaiTypes    \* event types the Tx Application Interface produces

VARIABLES
  ackTable, akdPtr, akdQ, txeQ, akdRxSig, akdTxSig, deferredBy,
  rxeQ, timQ, taiQ, txeRxSig,
  eveTxEventCnt, akdRxEventCnt, akdTxEventCnt, txeRxEventCnt, admitted,
  produced,   \* number of events created so far (also the next seq)
  delivered   \* ghost: every event TXe has read, in order

AKd == INSTANCE AckDelay
EVe == INSTANCE EventEngine

vars == <<ackTable, akdPtr, akdQ, txeQ, akdRxSig, akdTxSig, deferredBy,
          rxeQ, timQ, taiQ, txeRxSig, eveTxEventCnt, akdRxEventCnt,
          akdTxEventCnt, txeRxEventCnt, admitted, produced, delivered>>

SessionId == AKd!SessionId

Init ==
  /\ AKd!AkdInit
  /\ EVe!EveInit
  /\ rxeQ = <<>> /\ timQ = <<>> /\ taiQ = <<>>
  /\ txeRxSig = 0
  /\ produced = 0
  /\ delivered = <<>>

(***************************************************************************)
(* Environment.  A producer appends an event of one of its types for some *)
(* session to its FIFO when that FIFO has room.                            *)
(***************************************************************************)
Produce(q, types) ==
  /\ produced < MaxEvents
  /\ Len(q) < SrcDepth
  /\ \E t \in types, s \in SessionId :
       q' = Append(q, [type |-> t, sid |-> s, seq |-> produced + 1])
  /\ produced' = produced + 1

RxeProduce == Produce(rxeQ, RxeTypes) /\ UNCHANGED <<timQ, taiQ>>
TimProduce == Produce(timQ, TimTypes) /\ UNCHANGED <<rxeQ, taiQ>>
TaiProduce == Produce(taiQ, TaiTypes) /\ UNCHANGED <<rxeQ, timQ>>

\* TXe reads one event and signals its reception to EVe.
TxeReceive ==
  /\ txeQ # <<>>
  /\ txeRxSig < SigDepth
  /\ delivered' = Append(delivered, Head(txeQ))
  /\ txeQ' = Tail(txeQ)
  /\ txeRxSig' = txeRxSig + 1

\* One invocation of each stage, leaving the other stages' state alone.
EveStep ==
  /\ EVe!EveStep
  /\ UNCHANGED <<ackTable, akdPtr, txeQ, deferredBy, produced, delivered>>

AkdStep ==
  /\ AKd!AkdNext
  /\ UNCHANGED <<rxeQ, timQ, taiQ, txeRxSig, eveTxEventCnt, akdRxEventCnt,
                 akdTxEventCnt, txeRxEventCnt, admitted, produced, delivered>>

TxeStep ==
  /\ TxeReceive
  /\ UNCHANGED <<ackTable, akdPtr, akdQ, akdRxSig, akdTxSig, deferredBy,
                 rxeQ, timQ, taiQ, eveTxEventCnt, akdRxEventCnt,
                 akdTxEventCnt, txeRxEventCnt, admitted, produced>>

Environment ==
  /\ RxeProduce \/ TimProduce \/ TaiProduce
  /\ UNCHANGED <<ackTable, akdPtr, akdQ, txeQ, akdRxSig, akdTxSig,
                 deferredBy, txeRxSig, eveTxEventCnt, akdRxEventCnt,
                 akdTxEventCnt, txeRxEventCnt, admitted, delivered>>

Next == Environment \/ EveStep \/ AkdStep \/ TxeStep

(***************************************************************************)
(* Every stage is an II=1 process re-evaluated on every clock, so each one *)
(* that stays able to move eventually does (weak fairness); the producers  *)
(* are not obliged to produce anything.                                    *)
(***************************************************************************)
Fairness ==
  /\ WF_vars(EveStep)
  /\ WF_vars(AkdStep)
  /\ WF_vars(TxeStep)

Spec == Init /\ [][Next]_vars /\ Fairness

-----------------------------------------------------------------------------
TypeOK ==
  /\ AKd!AkdTypeOK
  /\ EVe!EveTypeOK
  /\ txeRxSig \in 0 .. SigDepth
  /\ produced \in 0 .. MaxEvents

Range(f) == {f[i] : i \in DOMAIN f}

\* Position in EVe's admission order of the event tagged n.
AdmPos(n) == CHOOSE k \in DOMAIN admitted : admitted[k].seq = n

IsAdmitted(n) == \E k \in DOMAIN admitted : admitted[k].seq = n

(***************************************************************************)
(* Per-session order (spec 4.3, "the downstream transmitter must never see *)
(* two events for the same session overtake each other", and 8 "never     *)
(* forwarded more than once per deferral").  For each session, the events *)
(* TXe receives are in the order EVe admitted them, a delayed ACK made by *)
(* the AKd sweep counting at the place of the ACK it stands for, and none *)
(* twice.  It needs AKd to clear a pending counter whenever it forwards   *)
(* an event for that session, and the sweep to retire a counter it fires.  *)
(***************************************************************************)
PerSessionOrder ==
  \A i, j \in DOMAIN delivered :
    /\ i < j
    /\ delivered[i].sid = delivered[j].sid
    => AdmPos(delivered[i].seq) < AdmPos(delivered[j].seq)

(***************************************************************************)
(* No event is lost (spec 3, "consumed exactly once by the Tx engine,      *)
(* directly or after delay").  Once EVe has admitted an event for session *)
(* s, TXe eventually receives an event for s admitted no earlier: the     *)
(* event itself, the delayed ACK standing for it, or a later event of s   *)
(* that overrode its deferral.                                             *)
(***************************************************************************)
Covered(n) ==
  IsAdmitted(n) /\
  \E d \in Range(delivered) :
    /\ d.sid = admitted[AdmPos(n)].sid
    /\ AdmPos(d.seq) >= AdmPos(n)

NoEventLost ==
  \A n \in 1 .. MaxEvents : IsAdmitted(n) ~> Covered(n)

(***************************************************************************)
(* The in-flight throttle (spec 4.3): EVe admits a Timer or TAi event only *)
(* when its counters show nothing in flight through AKd, so at no time are *)
(* two such lower-priority events between EVe and TXe.                     *)
(***************************************************************************)
LowPriority(e) == e.type \in TimTypes \cup TaiTypes

LowPriorityInFlight ==
  LET q == akdQ \o txeQ IN
  Cardinality({k \in DOMAIN q : LowPriority(q[k])})

AtMostOneLowPriorityInFlight == LowPriorityInFlight <= 1

(***************************************************************************)
(* What the throttle does guarantee: its counters lag the signal FIFOs by  *)
(* at most the one event they have not yet seen, so no more than two      *)
(* Timer or TAi events are ever between EVe and TXe at once.  It needs     *)
(* both counter comparisons of lines 121-122: with only the first, a       *)
(* third event is admitted while two are queued at TXe.                    *)
(***************************************************************************)
AtMostTwoLowPriorityInFlight == LowPriorityInFlight <= 2
=============================================================================
