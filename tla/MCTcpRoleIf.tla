---------------------------- MODULE MCTcpRoleIf ----------------------------
(***************************************************************************)
(* Model-checking instance of TcpRoleIf.                                   *)
(***************************************************************************)
EXTENDS TcpRoleIf
=============================================================================
