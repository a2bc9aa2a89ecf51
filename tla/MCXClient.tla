----------------------------- MODULE MCXClient ------------------------------
(***************************************************************************)
(* The instance TLC explores: two starts, so that two chains of attempts   *)
(* and two connections meet, two retries, and two threads that call stop() *)
(* beside the loop thread.                                                 *)
(***************************************************************************)
EXTENDS XClientProps
=============================================================================
