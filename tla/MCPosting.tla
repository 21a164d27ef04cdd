----------------------------- MODULE MCPosting -----------------------------
(***************************************************************************)
(* Lists of files for TLC, with bytes of three bits: numbers of two bits   *)
(* to a byte, a short of six bits, and an unsigned long of eight.          *)
(***************************************************************************)
EXTENDS PostingProps
=============================================================================
