----------------------------- MODULE EchoService -----------------------------
(***************************************************************************)
(* What a role interface and an echoing role promise together, seen from  *)
(* the offload engine: every message received is answered once, in        *)
(* arrival order, by the reply ReplyTo gives for it.  The UDP interface    *)
(* answers a datagram with its payload and length to the swapped socket   *)
(* pair; the TCP interface answers a segment with its payload on its       *)
(* session.                                                                *)
(***************************************************************************)
EXTENDS Naturals, Sequences

CONSTANT ReplyTo(_)  \* the reply the role sends for a message

VARIABLES
  received,   \* messages the interface has taken from the engine, in order
  replied     \* replies the interface has handed back to the engine, in order

vars == <<received, replied>>

Init == received = <<>> /\ replied = <<>>

\* A message arrives: received grows by one entry, the rest unchanged.
Receive ==
  /\ Len(received') = Len(received) + 1
  /\ SubSeq(received', 1, Len(received)) = received
  /\ UNCHANGED replied

\* The oldest message not yet answered is answered.
Reply ==
  /\ Len(replied) < Len(received)
  /\ replied' = Append(replied, ReplyTo(received[Len(replied) + 1]))
  /\ UNCHANGED received

Next == Receive \/ Reply

\* No message is left unanswered for ever.
Spec == Init /\ [][Next]_vars /\ WF_vars(Reply)
=============================================================================
