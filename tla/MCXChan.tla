------------------------------- MODULE MCXChan ------------------------------
(***************************************************************************)
(* Liveness of XChan, and the instances TLC explores: two producers inside *)
(* a push at once, two consumers woken by one broadcast, and three pushes, *)
(* so that one element can be stranded behind the count and two be in the  *)
(* queue.                                                                  *)
(***************************************************************************)
EXTENDS XChanProps

\* Every element linked is popped, by consumers that keep popping.
EveryItemPopped ==
    \A i \in Items : (i \in Elements(queue_)) ~> (i \in Elements(popped) \/ cleared)
=============================================================================
