----------------------------- MODULE MCXServer ------------------------------
(***************************************************************************)
(* Liveness of XServer, and the instances TLC explores: two                *)
(* descriptors and three connections, so that a descriptor is used again   *)
(* while an answer to its former connection is on its way.                 *)
(***************************************************************************)
EXTENDS XServerProps

\* Messages do not stay in the queue while a handler runs.
QueueDrains == (msgQueue_ # <<>>) ~> (msgQueue_ = <<>> \/ active = {} \/ ended # "no")
=============================================================================
