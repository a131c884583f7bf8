---------------------------- MODULE MCNalControl ----------------------------
(***************************************************************************)
(* NalControl with three MRT entries, three config words (own rank, MRT    *)
(* version, saved UDP ports) and four status words, and one client of each *)
(* kind of lookup.                                                         *)
(***************************************************************************)
EXTENDS NalControl

MCSavedPorts == {2}
MCIpChannels == {"UdpTx"}
MCNidChannels == {"UdpRx"}
\* One host write, the role going down and up, one event, one port
\* update and one lookup; layer 4 stays up.
MCBudget == [host |-> 1, layer4 |-> 0, role |-> 2, event |-> 1, port |-> 1,
             lookup |-> 1]
=============================================================================
