--------------------------- MODULE MCXTimeHelper ----------------------------
(***************************************************************************)
(* Liveness of XTimeHelper, and the instance TLC explores: two readers,    *)
(* and a clock that ticks often enough for three refreshes, a hold-up of   *)
(* one, and a read that the next two overtake.                             *)
(***************************************************************************)
EXTENDS XTimeHelperProps

\* The destructor returns, also when its signal found nobody waiting.
ThreadEnds == (g_th = "deleting") ~> (g_th = "joined")
=============================================================================
