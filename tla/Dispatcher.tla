----------------------------- MODULE Dispatcher -----------------------------
(***************************************************************************)
(* What xLoop::scheduleToLoopThread promises its callers, with no loop, no *)
(* list and no eventfd: a call hands over one functor, the loop thread     *)
(* runs a functor at most once, and the functors of one caller run in the  *)
(* order in which that caller handed them over.  Nothing is promised       *)
(* between the functors of two callers.                                    *)
(***************************************************************************)
EXTENDS Naturals, Sequences

CONSTANTS Callers,      \* the threads that call, the loop thread included
          LoopThread    \* the thread that runs the functors

VARIABLES by,           \* by[i] is the caller of the i-th call
          ran           \* the calls whose functor ran, oldest first

dvars == <<by, ran>>

Calls == 1..Len(by)
Ran   == {ran[n] : n \in 1..Len(ran)}

Init == by = <<>> /\ ran = <<>>

\* Call i may run: not before, and no later call of its caller went first.
MayRun(i) == i \notin Ran /\ \A r \in Ran : by[r] = by[i] => r < i

Call(c) == by' = Append(by, c) /\ UNCHANGED ran

Run(i) ==
    /\ MayRun(i)
    /\ ran' = Append(ran, i)
    /\ UNCHANGED by

\* The loop thread calls and the functor runs before the call returns.
CallAndRun ==
    /\ by' = Append(by, LoopThread)
    /\ ran' = Append(ran, Len(by) + 1)

Next == \/ \E c \in Callers : Call(c)
        \/ \E i \in Calls : Run(i)
        \/ CallAndRun

Spec == Init /\ [][Next]_dvars
=============================================================================
