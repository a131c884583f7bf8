-------------------------- MODULE MCRxAppControl --------------------------
(***************************************************************************)
(* Model-checking instance of RxAppControl: two ports and three listen     *)
(* requests so that a request waits behind an unanswered one, and three    *)
(* notifications from each source so that both wait at once.              *)
(***************************************************************************)
EXTENDS RxAppControl
=============================================================================
