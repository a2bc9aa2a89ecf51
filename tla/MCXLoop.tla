------------------------------ MODULE MCXLoop -------------------------------
(***************************************************************************)
(* The liveness of XLoop, and the instances TLC explores: two threads and  *)
(* three calls are enough for a push behind a half-finished clear(), the   *)
(* push it cuts off or replaces, and a caller that waits for the mutex.    *)
(***************************************************************************)
EXTENDS XLoopProps

-----------------------------------------------------------------------------
Elements(s) == {s[n] : n \in 1..Len(s)}
Running(i) == i \in Elements(ran)

\* The promise of scheduleToLoopThread ("to wake up the event loop",
\* xloop.cpp:140): every functor handed over runs, unless the loop is stopped.
EveryCallRuns ==
    \A i \in 1..MaxCalls : (i \in Calls) ~> (Running(i) \/ stop_)

\* A functor that a walk still to begin, or the one in progress, can reach is
\* run, unless the loop is stopped first: process() visits all it can reach,
\* also what is appended behind its back while it walks.
Reachable(i) ==
    IF phase = "iter" THEN i \in Elements(todo)
    ELSE phase # "clear" /\ shape = "ok" /\ i \in Elements(extraEvents_)

ReachableCallRuns ==
    \A i \in 1..MaxCalls : Reachable(i) ~> (Running(i) \/ stop_)

\* stop() alone ends the loop, within one turn of process().
StopEndsLoop == stop_ ~> (phase = "exit")

\* A thread that enters scheduleToLoopThread leaves it, whatever the loop
\* thread does: the loop never holds extraMutex_.
CallsReturn == \A t \in Threads : (pc[t] # "idle") ~> (pc[t] = "idle")
=============================================================================
