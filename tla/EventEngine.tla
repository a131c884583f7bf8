----------------------------- MODULE EventEngine -----------------------------
(***************************************************************************)
(* The Event Engine (EVe) of the TOE, event_engine.cpp.                    *)
(*                                                                         *)
(* One HLS process with II=1.  Every invocation first admits at most one   *)
(* event into the FIFO towards the ACK Delayer (AKd): an event from the Rx *)
(* Engine (RXe) whenever that FIFO has room, otherwise, when its four      *)
(* 8-bit counters say that nothing is in flight through AKd, an event from *)
(* the Timers (TIm) or else from the Tx Application Interface (TAi).  It   *)
(* then drains one bit from each of the three signal FIFOs, counting it.   *)
(***************************************************************************)
EXTENDS Naturals, Sequences

CONSTANTS
  AkdDepth,  \* depth of the EVe -> AKd event FIFO
  CntBits    \* width of the four counters (ap_uint<8>)

ASSUME AkdDepth \in Nat \ {0} /\ CntBits \in Nat \ {0}

VARIABLES
  rxeQ, timQ, taiQ,   \* siRXe_Event, siTIm_Event, siTAi_Event
  akdQ,               \* soAKd_Event
  akdRxSig,           \* siAKd_RxEventSig (pending bits)
  akdTxSig,           \* siAKd_TxEventSig (pending bits)
  txeRxSig,           \* siTXe_RxEventSig (pending bits)
  eveTxEventCnt,      \* #events forwarded to AKd
  akdRxEventCnt,      \* #events AKd reports having received
  akdTxEventCnt,      \* #events AKd reports having forwarded to TXe
  txeRxEventCnt,      \* #events TXe reports having received
  admitted            \* ghost: every event written to soAKd_Event, in order

eveVars == <<rxeQ, timQ, taiQ, akdQ, akdRxSig, akdTxSig, txeRxSig,
             eveTxEventCnt, akdRxEventCnt, akdTxEventCnt, txeRxEventCnt,
             admitted>>

\* ++ on an ap_uint<CntBits> counter
Inc(c) == (c + 1) % (2 ^ CntBits)

EveInit ==
  /\ eveTxEventCnt = 0 /\ akdRxEventCnt = 0
  /\ akdTxEventCnt = 0 /\ txeRxEventCnt = 0
  /\ admitted = <<>>

\* event_engine.cpp line 116: the RXe branch.
FromRxe == rxeQ # <<>> /\ Len(akdQ) < AkdDepth

\* Mutant: the throttle ignores the counters of AKd's forwards to TXe.
NothingInFlightRxOnly == eveTxEventCnt = akdRxEventCnt

\* event_engine.cpp lines 121-122: nothing is in flight through AKd.
NothingInFlight ==
  /\ eveTxEventCnt = akdRxEventCnt
  /\ akdTxEventCnt = txeRxEventCnt

\* event_engine.cpp lines 127 and 140: the TIm branch, else the TAi branch.
FromTim == ~FromRxe /\ NothingInFlight /\ timQ # <<>>
FromTai == ~FromRxe /\ NothingInFlight /\ timQ = <<>> /\ taiQ # <<>>

\* Lines 154-172: a pending signal bit is read and its counter incremented.
Drained(sig) == IF sig > 0 THEN sig - 1 ELSE sig
Counted(sig, cnt) == IF sig > 0 THEN Inc(cnt) ELSE cnt

\* Lines 116-148: the admitted event leaves its source FIFO.
Taken(q, branch) == IF branch THEN Tail(q) ELSE q

(***************************************************************************)
(* One invocation of event_engine(), lines 116-172.  The TIm and TAi       *)
(* writes (lines 129, 143) do not test full(): a full FIFO stalls the      *)
(* invocation.  A step that changes nothing is a stutter and is left out.  *)
(***************************************************************************)
EveStep ==
  LET admit == FromRxe \/ FromTim \/ FromTai
      ev    == CASE FromRxe -> Head(rxeQ)
                 [] FromTim -> Head(timQ)
                 [] OTHER   -> Head(taiQ)
  IN
  /\ (FromTim \/ FromTai) => Len(akdQ) < AkdDepth
  /\ admit \/ akdRxSig > 0 \/ akdTxSig > 0 \/ txeRxSig > 0
  /\ rxeQ' = Taken(rxeQ, FromRxe)
  /\ timQ' = Taken(timQ, FromTim)
  /\ taiQ' = Taken(taiQ, FromTai)
  /\ akdQ' = IF admit THEN Append(akdQ, ev) ELSE akdQ
  /\ admitted' = IF admit THEN Append(admitted, ev) ELSE admitted
  /\ eveTxEventCnt' = IF admit THEN Inc(eveTxEventCnt) ELSE eveTxEventCnt
  /\ akdRxSig' = Drained(akdRxSig)
  /\ akdTxSig' = Drained(akdTxSig)
  /\ txeRxSig' = Drained(txeRxSig)
  /\ akdRxEventCnt' = Counted(akdRxSig, akdRxEventCnt)
  /\ akdTxEventCnt' = Counted(akdTxSig, akdTxEventCnt)
  /\ txeRxEventCnt' = Counted(txeRxSig, txeRxEventCnt)

EveTypeOK ==
  /\ {eveTxEventCnt, akdRxEventCnt, akdTxEventCnt, txeRxEventCnt}
       \subseteq 0 .. 2 ^ CntBits - 1
  /\ Len(akdQ) <= AkdDepth
=============================================================================
