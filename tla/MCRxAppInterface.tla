-------------------------- MODULE MCRxAppInterface --------------------------
(***************************************************************************)
(* Model-checking instance of RxAppInterface.  The Rx buffer is shrunk to *)
(* 16 bytes (TOE_WINDOW_BITS = 4, RxBufPtr of 4 bits): two 8-byte chunks,  *)
(* so that a request of up to 16 bytes from any read pointer meets every   *)
(* way a segment can straddle the buffer end: a first buffer of more than *)
(* one chunk, of exactly one full chunk, of a partial chunk, and a second *)
(* buffer that fits in the partial chunk's room or leaves a residue.      *)
(***************************************************************************)
EXTENDS RxAppInterface
====
