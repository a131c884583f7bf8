--------------------------- MODULE MCEventPipeline ---------------------------
(***************************************************************************)
(* Model-checking instance of EventPipeline: two sessions so that the      *)
(* sweep has to wrap and per-session order is not trivial, a delay of 2   *)
(* so that a pending ACK survives a full sweep, four events so that two    *)
(* Timer or TAi events are past EVe at once, signal FIFOs and the AKd-to-  *)
(* TXe FIFO of depth 2 so that a counter lags its FIFO and one event waits *)
(* behind another.  The Rx Engine's events are ACKs (set in the cfg); the  *)
(* other types reach AKd's forwarding branch.                              *)
(***************************************************************************)
EXTENDS EventPipeline

MCTimTypes == {"RT"}
MCTaiTypes == {"TX"}
=============================================================================
