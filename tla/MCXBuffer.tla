----------------------------- MODULE MCXBuffer ------------------------------
(***************************************************************************)
(* Small sizes and bytes of one bit: contents of up to four bytes pass     *)
(* through a vector that starts with room for two after two in front.      *)
(***************************************************************************)
EXTENDS XBufferProps

MCChunk == UNION {[1..n -> Byte] : n \in 0..3}
=============================================================================
