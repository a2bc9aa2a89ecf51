------------------------------- MODULE XLoop --------------------------------
(***************************************************************************)
(* xLoop (base/xloop.cpp, base/include/xloop.h): the event loop thread and *)
(* the functors other threads hand it through scheduleToLoopThread.        *)
(*                                                                         *)
(* The loop thread walks extraEvents_ and then clears it without holding   *)
(* extraMutex_ (xloop.cpp:45-48), while the other threads append under it. *)
(* std::list is a ring through a head node.  A push_back reads head.prev,  *)
(* links the new node behind it and stores head.prev; clear() stores       *)
(* head.next and head.prev.  When the two overlap the ring can be left     *)
(* half reset, which the variable shape records:                           *)
(*   "ok"        both ends agree;                                          *)
(*   "detached"  head.next says empty, head.prev is a node that was freed  *)
(*               or cut off: later pushes hang behind it, unreachable;     *)
(*   "stale"     head.next leads to nodes, head.prev is the head itself:   *)
(*               the next push replaces them.                              *)
(* Damage to the heap from a link stored in a freed node is not modelled.  *)
(***************************************************************************)
EXTENDS Integers, Sequences

CONSTANTS Threads,      \* the threads other than the loop thread
          LoopThread,
          MaxCalls      \* bound: calls of scheduleToLoopThread in a behaviour

ASSUME ThreadsAssumption == LoopThread \notin Threads
ASSUME MaxCallsAssumption == MaxCalls \in Nat

VARIABLES
    by, ran,            \* history: callers, and calls run, as in Dispatcher
    extraEvents_,       \* what a walk from the head of the list would meet
    shape,
    overlap,            \* where pushes met the clear() in progress
    todo,               \* nodes the walk has still to visit
    extraMutex_,        \* the thread that holds it, or "free"
    wakeupFd_,          \* the counter of the eventfd
    woken,              \* fired_ still holds the eventfd's event
    stop_,
    pc, arg,            \* per thread: progress in scheduleToLoopThread, its call
    phase               \* progress of the loop thread in start()/process()

vars == <<by, ran, extraEvents_, shape, overlap, todo, extraMutex_, wakeupFd_,
          woken, stop_, pc, arg, phase>>

listVars == <<extraEvents_, shape, overlap, todo>>
loopVars == <<phase, stop_>>
callVars == <<pc, arg, extraMutex_>>
wakeVars == <<wakeupFd_, woken>>

Callers == Threads \cup {LoopThread}
Calls   == 1..Len(by)
Phases  == {"start", "check", "wait", "fired", "iter", "clear", "timers", "exit"}

Init ==
    /\ by = <<>> /\ ran = <<>>
    /\ extraEvents_ = <<>> /\ shape = "ok" /\ overlap = "none" /\ todo = <<>>
    /\ extraMutex_ = "free"
    /\ wakeupFd_ = 0 /\ woken = FALSE
    /\ stop_ = FALSE
    /\ pc = [t \in Threads |-> "idle"]
    /\ arg = [t \in Threads |-> 0]
    /\ phase = "start"

-----------------------------------------------------------------------------
(* scheduleToLoopThread (xloop.cpp:134-142)                                *)

\* On the loop thread the functor runs inside the call: from a callback, a
\* functor, a timer, or before start().
scheduleInLoop ==
    /\ phase \in {"start", "fired", "iter", "timers"}
    /\ Len(by) < MaxCalls
    /\ by' = Append(by, LoopThread)
    /\ ran' = Append(ran, Len(by) + 1)
    /\ UNCHANGED <<listVars, loopVars, callVars, wakeVars>>

\* Another thread enters the call ...
scheduleEnter(t) ==
    /\ pc[t] = "idle"
    /\ Len(by) < MaxCalls
    /\ by' = Append(by, t)
    /\ arg' = [arg EXCEPT ![t] = Len(by) + 1]
    /\ pc' = [pc EXCEPT ![t] = "lock"]
    /\ UNCHANGED <<ran, listVars, loopVars, extraMutex_, wakeVars>>

\* ... takes extraMutex_ ...
scheduleLock(t) ==
    /\ pc[t] = "lock"
    /\ extraMutex_ = "free"
    /\ extraMutex_' = t
    /\ pc' = [pc EXCEPT ![t] = "push"]
    /\ UNCHANGED <<by, ran, arg, listVars, loopVars, wakeVars>>

\* Is head.prev the head itself?
prevIsHead == shape = "stale" \/ (shape = "ok" /\ extraEvents_ = <<>>)

\* std::list::push_back on the ring as it is.
linkAtTail(i) ==
    \/ /\ shape = "ok"
       /\ extraEvents_' = Append(extraEvents_, i)
       /\ todo' = IF phase = "iter" THEN Append(todo, i) ELSE todo
       /\ UNCHANGED shape
    \/ /\ shape = "stale"
       /\ extraEvents_' = <<i>>
       /\ shape' = "ok"
       /\ UNCHANGED todo
    \/ /\ shape = "detached"
       /\ UNCHANGED <<extraEvents_, todo, shape>>

\* ... appends the functor ...
schedulePush(t) ==
    /\ pc[t] = "push"
    /\ linkAtTail(arg[t])
    /\ overlap' = IF phase = "clear" /\ overlap = "none"
                  THEN (IF prevIsHead THEN "head" ELSE "tail")
                  ELSE overlap
    /\ pc' = [pc EXCEPT ![t] = "notify"]
    /\ UNCHANGED <<by, ran, arg, extraMutex_, loopVars, wakeVars>>

\* Mutant: the eventfd is written only while the loop is seen asleep.
notifyIfAsleep(t) ==
    /\ pc[t] = "notify"
    /\ wakeupFd_' = wakeupFd_ + (IF phase = "wait" THEN 1 ELSE 0)
    /\ extraMutex_' = "free"
    /\ pc' = [pc EXCEPT ![t] = "idle"]
    /\ UNCHANGED <<by, ran, arg, listVars, loopVars, woken>>

\* Mutant: the mutex is not released.
notifyKeepsMutex(t) ==
    /\ pc[t] = "notify"
    /\ wakeupFd_' = wakeupFd_ + 1
    /\ pc' = [pc EXCEPT ![t] = "idle"]
    /\ UNCHANGED <<by, ran, arg, extraMutex_, listVars, loopVars, woken>>

\* A write of 1 to the eventfd.
notify == wakeupFd_' = wakeupFd_ + 1

\* ... writes the eventfd, and releases the mutex.
scheduleNotify(t) ==
    /\ pc[t] = "notify"
    /\ notify
    /\ extraMutex_' = "free"
    /\ pc' = [pc EXCEPT ![t] = "idle"]
    /\ UNCHANGED <<by, ran, arg, listVars, loopVars, woken>>

-----------------------------------------------------------------------------
(* The loop thread: start() and process() (xloop.cpp:24-53)                *)

enterPhase(p, q) == phase = p /\ phase' = q

start ==
    /\ enterPhase("start", "check")
    /\ UNCHANGED <<by, ran, listVars, callVars, wakeVars, stop_>>

\* Mutant: the plain bool is read once, before the loop.
checkStopHoisted ==
    /\ enterPhase("check", "wait")
    /\ UNCHANGED <<by, ran, listVars, callVars, wakeVars, stop_>>

\* while(!stop_)
checkStop ==
    /\ phase = "check"
    /\ phase' = IF stop_ THEN "exit" ELSE "wait"
    /\ UNCHANGED <<by, ran, listVars, callVars, wakeVars, stop_>>

\* poller_.Wait returns: the eventfd is readable, another descriptor is, or
\* 500 ms have passed.  It is level triggered: a readable eventfd is reported.
pollReturns ==
    /\ enterPhase("wait", "fired")
    /\ woken' = (wakeupFd_ > 0)
    /\ UNCHANGED <<by, ran, listVars, callVars, wakeupFd_, stop_>>

\* Mutant: the callback takes one from the counter, whether it fired or not.
wakeUpAlways ==
    /\ phase = "fired"
    /\ woken' = FALSE
    /\ wakeupFd_' = wakeupFd_ - 1
    /\ UNCHANGED <<by, ran, listVars, loopVars, callVars>>

\* A read of an eventfd is one call, and takes the counter to zero.
readFd == wakeupFd_' = 0

\* The eventfd is among the fired events.
wakeUpCallBack ==
    /\ phase = "fired"
    /\ woken
    /\ woken' = FALSE
    /\ readFd
    /\ UNCHANGED <<by, ran, listVars, loopVars, callVars>>

\* The fired events are all dispatched: the walk starts at the list's head.
iterBegin ==
    /\ enterPhase("fired", "iter")
    /\ ~woken
    /\ todo' = extraEvents_
    /\ UNCHANGED <<by, ran, extraEvents_, shape, overlap, callVars, wakeVars, stop_>>

runFunctor ==
    /\ phase = "iter"
    /\ todo # <<>>
    /\ ran' = Append(ran, Head(todo))
    /\ todo' = Tail(todo)
    /\ UNCHANGED <<by, extraEvents_, shape, overlap, loopVars, callVars, wakeVars>>

\* Mutant: the walk gives up after any functor.
iterEndEarly ==
    /\ enterPhase("iter", "clear")
    /\ todo' = <<>>
    /\ UNCHANGED <<by, ran, extraEvents_, shape, overlap, callVars, wakeVars, stop_>>

\* The walk meets the head again; clear() is next, and takes its time.
iterEnd ==
    /\ enterPhase("iter", "clear")
    /\ todo = <<>>
    /\ UNCHANGED <<by, ran, listVars, callVars, wakeVars, stop_>>

\* What clear() leaves behind, by how pushes overlapped it.
clearOutcome ==
    \/ extraEvents_' = <<>> /\ shape' = "ok"
    \/ overlap # "none" /\ extraEvents_' = <<>> /\ shape' = "detached"
    \/ overlap = "head" /\ shape' = "stale" /\ UNCHANGED extraEvents_

\* Mutant: the list is not cleared.
clearForgotten ==
    /\ enterPhase("clear", "timers")
    /\ overlap' = "none"
    /\ UNCHANGED <<by, ran, extraEvents_, shape, todo, callVars, wakeVars, stop_>>

clearList ==
    /\ enterPhase("clear", "timers")
    /\ clearOutcome
    /\ overlap' = "none"
    /\ UNCHANGED <<by, ran, todo, callVars, wakeVars, stop_>>

triggerTimer ==
    /\ enterPhase("timers", "check")
    /\ UNCHANGED <<by, ran, listVars, callVars, wakeVars, stop_>>

\* stop() (xloop.h:57-59), from any thread, with no notify.
stop ==
    /\ stop_ = FALSE
    /\ stop_' = TRUE
    /\ UNCHANGED <<by, ran, listVars, callVars, wakeVars, phase>>

\* start() has returned and no thread is inside a call.
finished ==
    /\ phase = "exit"
    /\ \A t \in Threads : pc[t] = "idle"
    /\ UNCHANGED vars

threadStep(t) == scheduleLock(t) \/ schedulePush(t) \/ scheduleNotify(t)

loopStep ==
    start \/ checkStop \/ pollReturns \/ iterBegin \/ runFunctor \/ iterEnd
          \/ clearList \/ triggerTimer \/ wakeUpCallBack

Next ==
    \/ \E t \in Threads : scheduleEnter(t) \/ threadStep(t)
    \/ scheduleInLoop
    \/ loopStep
    \/ stop
    \/ finished

Spec == Init /\ [][Next]_vars

\* The kernel schedules every thread, a thread that waits for the mutex gets
\* it once it stays free, and Wait returns at the latest after 500 ms.
Fairness == WF_vars(loopStep) /\ \A t \in Threads : WF_vars(threadStep(t))

FairSpec == Spec /\ Fairness
=============================================================================
