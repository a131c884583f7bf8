------------------------- MODULE MCNalSessionTable -------------------------
(***************************************************************************)
(* Model-checking instance of NalSessionTable: three rows and two session *)
(* ids and triples, so that a row can be freed and reused, two rows can    *)
(* hold one session, and a mark can flag some rows and spare others.      *)
(***************************************************************************)
EXTENDS NalSessionTable
=============================================================================
