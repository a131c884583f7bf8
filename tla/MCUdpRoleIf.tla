---------------------------- MODULE MCUdpRoleIf ----------------------------
(***************************************************************************)
(* Model-checking instance of UdpRoleIf.                                   *)
(***************************************************************************)
EXTENDS UdpRoleIf
=============================================================================
