--------------------------- MODULE MCXTimerQueue ----------------------------
(***************************************************************************)
(* The instances TLC explores: three timers, so that one can stand between *)
(* two others, one of which may repeat and leave its place, and a clock    *)
(* that runs past two repeats.                                             *)
(***************************************************************************)
EXTENDS XTimerQueueProps
=============================================================================
