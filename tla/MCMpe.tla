------------------------------- MODULE MCMpe -------------------------------
(***************************************************************************)
(* Model-checking instance of Mpe: own rank 0 and one peer, rank 1, in the *)
(* MRT; DATA payloads of 3 bytes (a partial last word) and 8 bytes (a full *)
(* one); two messages from the network and two from the application.      *)
(***************************************************************************)
EXTENDS Mpe

MCMRT == [r \in 0..1 |-> 10 + r]
====
