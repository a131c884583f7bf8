------------------------------ MODULE AckDelay ------------------------------
(***************************************************************************)
(* The ACK Delayer (AKd) of the TOE, ack_delay.cpp.                        *)
(*                                                                         *)
(* One HLS process with II=1: every invocation either consumes one event   *)
(* from the Event Engine (EVe) or, when none is waiting, visits one entry  *)
(* of the per-session countdown table ACK_TABLE and advances the rotating  *)
(* pointer akd_Ptr.  Channels are bounded FIFOs; a blocking write into a   *)
(* full FIFO stalls the whole invocation, so such a write is a guard.      *)
(*                                                                         *)
(* Events are records [type, sid, seq]; seq is a ghost tag naming the      *)
(* event so that properties can follow it (the code carries no such tag).  *)
(* A delayed ACK made by the sweep carries the seq of the ACK that was     *)
(* deferred, recorded in the ghost variable deferredBy.                    *)
(***************************************************************************)
EXTENDS Naturals, Sequences

CONSTANTS
  MaxSessions,  \* TOE_MAX_SESSIONS: size of ACK_TABLE
  ACKD_64us,    \* the delay loaded into a counter when an ACK is deferred
  AckTableBits, \* width of an ACK_TABLE entry (ap_uint<12>)
  TxeDepth,     \* depth of the AKd -> TXe event FIFO
  SigDepth      \* depth of each signal FIFO back to EVe

ASSUME MaxSessions \in Nat \ {0}
ASSUME AckTableBits \in Nat \ {0}
ASSUME ACKD_64us \in Nat \ {0}
ASSUME TxeDepth \in Nat \ {0} /\ SigDepth \in Nat \ {0}

VARIABLES
  ackTable,   \* ACK_TABLE[TOE_MAX_SESSIONS]
  akdPtr,     \* akd_Ptr
  akdQ,       \* siEVe_Event: EVe -> AKd
  txeQ,       \* soTXe_Event: AKd -> TXe
  akdRxSig,   \* soEVe_RxEventSig: number of pending signal bits
  akdTxSig,   \* soEVe_TxEventSig: number of pending signal bits
  deferredBy  \* ghost: seq of the ACK that loaded ackTable[s]

akdVars == <<ackTable, akdPtr, akdQ, txeQ, akdRxSig, akdTxSig, deferredBy>>

SessionId == 0 .. MaxSessions - 1

\* ACKD_64us assigned to an ap_uint<AckTableBits> entry keeps its low bits.
DelayValue == ACKD_64us % (2 ^ AckTableBits)

AkdInit ==
  /\ ackTable = [s \in SessionId |-> 0]
  /\ akdPtr = 0
  /\ akdQ = <<>>
  /\ txeQ = <<>>
  /\ akdRxSig = 0
  /\ akdTxSig = 0
  /\ deferredBy = [s \in SessionId |-> 0]

\* Fault variant of AkdReceive: the forward branch leaves the session's
\* counter pending (line 124 missing), so a stale delayed ACK follows.
AkdReceiveKeepsCounter ==
  LET ev == Head(akdQ) IN
  /\ akdQ # <<>>
  /\ akdRxSig < SigDepth
  /\ akdQ' = Tail(akdQ)
  /\ akdRxSig' = akdRxSig + 1
  /\ \/ /\ ev.type = "ACK" /\ ackTable[ev.sid] = 0
        /\ ackTable' = [ackTable EXCEPT ![ev.sid] = DelayValue]
        /\ deferredBy' = [deferredBy EXCEPT ![ev.sid] = ev.seq]
        /\ UNCHANGED <<txeQ, akdTxSig>>
     \/ /\ ~(ev.type = "ACK" /\ ackTable[ev.sid] = 0)
        /\ Len(txeQ) < TxeDepth /\ akdTxSig < SigDepth
        /\ txeQ' = Append(txeQ, ev)
        /\ akdTxSig' = akdTxSig + 1
        /\ UNCHANGED <<ackTable, deferredBy>>
  /\ UNCHANGED akdPtr

(***************************************************************************)
(* ack_delay.cpp lines 107-137: an event is waiting.  Signal its reception *)
(* to EVe; an ACK for a session with no pending delayed ACK is deferred,   *)
(* any other event clears the counter and is forwarded to TXe.             *)
(***************************************************************************)
AkdReceive ==
  LET ev == Head(akdQ) IN
  /\ akdQ # <<>>
  /\ akdRxSig < SigDepth
  /\ akdQ' = Tail(akdQ)
  /\ akdRxSig' = akdRxSig + 1
  /\ \/ /\ ev.type = "ACK" /\ ackTable[ev.sid] = 0
        /\ ackTable' = [ackTable EXCEPT ![ev.sid] = DelayValue]
        /\ deferredBy' = [deferredBy EXCEPT ![ev.sid] = ev.seq]
        /\ UNCHANGED <<txeQ, akdTxSig>>
     \/ /\ ~(ev.type = "ACK" /\ ackTable[ev.sid] = 0)
        /\ Len(txeQ) < TxeDepth /\ akdTxSig < SigDepth
        /\ ackTable' = [ackTable EXCEPT ![ev.sid] = 0]
        /\ txeQ' = Append(txeQ, ev)
        /\ akdTxSig' = akdTxSig + 1
        /\ UNCHANGED deferredBy
  /\ UNCHANGED akdPtr

\* Fault variant of AkdSweep: a visited entry is never decremented.
AkdSweepNoDecrement ==
  LET cnt  == ackTable[akdPtr]
      visit == cnt > 0 /\ Len(txeQ) < TxeDepth
      fire  == visit /\ cnt = 1
  IN
  /\ akdQ = <<>>
  /\ fire => akdTxSig < SigDepth
  /\ txeQ' = IF fire
               THEN Append(txeQ, [type |-> "ACK", sid |-> akdPtr,
                                  seq |-> deferredBy[akdPtr]])
               ELSE txeQ
  /\ akdTxSig' = IF fire THEN akdTxSig + 1 ELSE akdTxSig
  /\ akdPtr' = (akdPtr + 1) % MaxSessions
  /\ UNCHANGED <<ackTable, akdQ, akdRxSig, deferredBy>>

\* Fault variant of AkdSweep: akd_Ptr is incremented without the wrap
\* back to 0 at TOE_MAX_SESSIONS.
AkdSweepNoWrap ==
  LET cnt  == ackTable[akdPtr]
      visit == cnt > 0 /\ Len(txeQ) < TxeDepth
      fire  == visit /\ cnt = 1
  IN
  /\ akdQ = <<>>
  /\ fire => akdTxSig < SigDepth
  /\ ackTable' = IF visit THEN [ackTable EXCEPT ![akdPtr] = cnt - 1]
                          ELSE ackTable
  /\ txeQ' = IF fire
               THEN Append(txeQ, [type |-> "ACK", sid |-> akdPtr,
                                  seq |-> deferredBy[akdPtr]])
               ELSE txeQ
  /\ akdTxSig' = IF fire THEN akdTxSig + 1 ELSE akdTxSig
  /\ akdPtr' = akdPtr + 1
  /\ UNCHANGED <<akdQ, akdRxSig, deferredBy>>

(***************************************************************************)
(* ack_delay.cpp lines 138-156: no event is waiting.  Visit the entry at   *)
(* akd_Ptr: if it is pending and TXe has room, an entry at 1 emits a       *)
(* plain ACK for that session, and the entry is decremented; the pointer   *)
(* always advances, wrapping at TOE_MAX_SESSIONS.                          *)
(***************************************************************************)
AkdSweep ==
  LET cnt  == ackTable[akdPtr]
      visit == cnt > 0 /\ Len(txeQ) < TxeDepth
      fire  == visit /\ cnt = 1
  IN
  /\ akdQ = <<>>
  /\ fire => akdTxSig < SigDepth
  /\ ackTable' = IF visit THEN [ackTable EXCEPT ![akdPtr] = cnt - 1]
                          ELSE ackTable
  /\ txeQ' = IF fire
               THEN Append(txeQ, [type |-> "ACK", sid |-> akdPtr,
                                  seq |-> deferredBy[akdPtr]])
               ELSE txeQ
  /\ akdTxSig' = IF fire THEN akdTxSig + 1 ELSE akdTxSig
  /\ akdPtr' = (akdPtr + 1) % MaxSessions
  /\ UNCHANGED <<akdQ, akdRxSig, deferredBy>>

AkdNext == AkdReceive \/ AkdSweep

AkdTypeOK ==
  /\ ackTable \in [SessionId -> 0 .. 2 ^ AckTableBits - 1]
  /\ akdPtr \in SessionId
  /\ akdRxSig \in 0 .. SigDepth
  /\ akdTxSig \in 0 .. SigDepth
  /\ Len(txeQ) <= TxeDepth
=============================================================================
