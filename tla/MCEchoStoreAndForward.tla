----------------------- MODULE MCEchoStoreAndForward -----------------------
(***************************************************************************)
(* Model-checking instance of EchoStoreAndForward: internal FIFOs of two   *)
(* words, single-entry streams to the DataMover, and two datagrams of one  *)
(* or two words, so that a second datagram waits behind the first.        *)
(***************************************************************************)
EXTENDS EchoStoreAndForward
=============================================================================
