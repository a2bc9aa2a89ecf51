----------------------------- MODULE XLoopProps -----------------------------
(***************************************************************************)
(* What is asked of XLoop: safety, the abstract Dispatcher it implements,  *)
(* and liveness.                                                           *)
(***************************************************************************)
EXTENDS XLoop

\* The type of every variable; the eventfd's counter never goes below zero.
TypeOK ==
    /\ by \in Seq(Callers)
    /\ ran \in Seq(Calls)
    /\ extraEvents_ \in Seq(Calls)
    /\ shape \in {"ok", "detached", "stale"}
    /\ overlap \in {"none", "tail", "head"}
    /\ todo \in Seq(Calls)
    /\ extraMutex_ \in Threads \cup {"free"}
    /\ wakeupFd_ \in Nat
    /\ woken \in BOOLEAN
    /\ stop_ \in BOOLEAN
    /\ pc \in [Threads -> {"idle", "lock", "push", "notify"}]
    /\ arg \in [Threads -> Calls \cup {0}]
    /\ phase \in Phases

\* Somebody has written, or is about to write, the eventfd.
Awake == wakeupFd_ > 0 \/ \E t \in Threads : pc[t] = "notify"

\* The loop thread never sleeps in epoll over a functor it could run: the
\* list is empty, or the eventfd is readable or about to be
\* (scheduleToLoopThread pushes, then notifies; process() reads the eventfd
\* before it walks the list; the clear() comes after both).
NoSleepWithPendingTask == phase = "wait" /\ extraEvents_ # <<>> => Awake

-----------------------------------------------------------------------------
(* The inductive invariant behind NoSleepWithPendingTask and DispatcherSpec. *)

\* The calls a walk can still run.
Pending ==
    IF phase = "iter" THEN todo
    ELSE IF phase = "clear" /\ overlap # "head" THEN <<>>
    ELSE extraEvents_

\* Elements of p come before q, caller by caller.
Precede(p, q) ==
    \A m \in 1..Len(p), n \in 1..Len(q) : by[p[m]] = by[q[n]] => p[m] < q[n]

\* A thread inside a call works on a call of its own.
OwnCall == \A t \in Threads : pc[t] # "idle" => arg[t] \in Calls /\ by[arg[t]] = t

\* Pending holds calls of other threads, each caller's in order, none run.
PendingInOrder ==
    /\ \A n \in 1..Len(Pending) : by[Pending[n]] \in Threads
    /\ \A m, n \in 1..Len(Pending) :
          m < n /\ by[Pending[m]] = by[Pending[n]] => Pending[m] < Pending[n]
    /\ Precede(ran, Pending)

\* A call not pushed yet is the last of its caller.
UnpushedIsLast ==
    \A t \in Threads : pc[t] \in {"lock", "push"} =>
        /\ \A m \in 1..Len(ran) : by[ran[m]] = t => ran[m] < arg[t]
        /\ \A n \in 1..Len(Pending) : by[Pending[n]] = t => Pending[n] < arg[t]

OverlapInClear == phase # "clear" => overlap = "none"

OrderInv == OwnCall /\ PendingInOrder /\ UnpushedIsLast /\ OverlapInClear

\* Whatever is left in the list once the walk is over was pushed after the
\* eventfd was read, and its notify is still to be seen.
AwakeInv ==
    /\ phase = "clear" /\ overlap # "none" => Awake
    /\ phase \in {"timers", "check", "wait"} /\ extraEvents_ # <<>> => Awake
    /\ phase = "start" /\ extraEvents_ # <<>> => Awake

IInv == TypeOK /\ OrderInv /\ AwakeInv

-----------------------------------------------------------------------------
\* The loop implements the Dispatcher: whatever the overlaps of push_back,
\* walk and clear(), no functor runs twice and the functors of one caller run
\* in the order of its calls.
D == INSTANCE Dispatcher WITH Callers <- Callers

DispatcherSpec == D!Spec
=============================================================================
