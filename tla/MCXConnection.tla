--------------------------- MODULE MCXConnection ----------------------------
(***************************************************************************)
(* Messages of one and two bytes, three bytes out and two in, one short    *)
(* write, one message of no length, one functor in the queue.              *)
(***************************************************************************)
EXTENDS XConnectionProps

MCSizes == {1, 2}
=============================================================================
