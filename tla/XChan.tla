------------------------------- MODULE XChan --------------------------------
(***************************************************************************)
(* xChan (base/include/channel.h): a deque shared by threads, with an      *)
(* atomic element count, a mutex and a condition.                          *)
(*                                                                         *)
(* push_back and push_front increment size_ BEFORE they take the mutex     *)
(* (channel.h:60-61, 68-69); pop_front decides to wait on size_ and to     *)
(* return on queue_ (77, 87), and waits at most once.  What runs under the *)
(* mutex is one step; cond_.wait() ends a step and gives the mutex up.     *)
(***************************************************************************)
EXTENDS Integers, Sequences, FiniteSets

CONSTANTS Producers, Consumers,
          Modes,            \* waiting times used: "none" (0), "timed", "forever" (-1)
          Fronts,           \* whether push_front is used
          Signalling,       \* whether signal() is used
          SpuriousWakeups,  \* whether the condition wakes threads on its own
          MaxPushes         \* bound: pushes in a behaviour

ASSUME ProducersAssumption == IsFiniteSet(Producers)
ASSUME ModesAssumption == Modes \subseteq {"none", "timed", "forever"}
ASSUME FlagsAssumption == {Fronts, Signalling, SpuriousWakeups} \subseteq BOOLEAN
ASSUME MaxPushesAssumption == MaxPushes \in Nat

VARIABLES
    queue_, size_,
    calls,      \* history: pushes begun; the n-th push is of item n
    item,       \* per producer: the item of the push it is inside, 0 if none
    cpc,        \* per consumer: "idle", "waiting", "woken"
    mode,       \* per consumer: waiting time of its last pop
    popped,     \* history: items popped, oldest first
    res,        \* per consumer: what its last pop returned
    aborted,    \* the assertion of line 91 failed
    cleared     \* history: clear() was called

vars == <<queue_, size_, calls, item, cpc, mode, popped, res, aborted, cleared>>

Items == 1..MaxPushes

Init ==
    /\ queue_ = <<>> /\ size_ = 0
    /\ calls = 0
    /\ item = [p \in Producers |-> 0]
    /\ cpc = [c \in Consumers |-> "idle"]
    /\ mode = [c \in Consumers |-> "none"]
    /\ popped = <<>>
    /\ res = [c \in Consumers |-> "none"]
    /\ aborted = FALSE /\ cleared = FALSE

-----------------------------------------------------------------------------
(* size_, an xAtomic (base/include/xatomic.h): each call is one step.      *)

getAndAdd(x) == size_' = size_ + x
incr         == getAndAdd(1)
decr         == getAndAdd(-1)
getAndSet(x) == size_' = x

-----------------------------------------------------------------------------
(* push_back, push_front (58-72)                                           *)

pushIncr(p) ==
    /\ item[p] = 0
    /\ calls < MaxPushes
    /\ calls' = calls + 1
    /\ item' = [item EXCEPT ![p] = calls + 1]
    /\ incr
    /\ UNCHANGED <<queue_, cpc, mode, popped, res, aborted, cleared>>

\* Mutant: cond_.signal() for cond_.broadcast().
signalOne ==
    IF \E c \in Consumers : cpc[c] = "waiting"
    THEN [cpc EXCEPT ![CHOOSE c \in Consumers : cpc[c] = "waiting"] = "woken"]
    ELSE cpc

\* Mutant: nobody is woken.
wakeNobody == cpc

broadcast == [c \in Consumers |-> IF cpc[c] = "waiting" THEN "woken" ELSE cpc[c]]

\* Mutant: whatever the producer holds is linked, its push begun or not.
linkUnguarded(p) ==
    /\ queue_' = Append(queue_, item[p])
    /\ item' = [item EXCEPT ![p] = 0]
    /\ cpc' = broadcast
    /\ UNCHANGED <<size_, calls, mode, popped, res, aborted, cleared>>

pushLink(p) ==
    /\ item[p] # 0
    /\ \/ queue_' = Append(queue_, item[p])
       \/ Fronts /\ queue_' = <<item[p]>> \o queue_
    /\ item' = [item EXCEPT ![p] = 0]
    /\ cpc' = broadcast
    /\ UNCHANGED <<size_, calls, mode, popped, res, aborted, cleared>>

-----------------------------------------------------------------------------
(* pop_front (74-98)                                                       *)

\* Mutant: the count is not decremented.
takeKeepsCount(c) ==
    /\ queue_ # <<>>
    /\ popped' = Append(popped, Head(queue_))
    /\ queue_' = Tail(queue_)
    /\ res' = [res EXCEPT ![c] = "data"]
    /\ UNCHANGED <<size_, aborted>>

\* Lines 87-96, with the mutex held.
takeFront(c) ==
    \/ /\ queue_ = <<>>
       /\ res' = [res EXCEPT ![c] = "nodata"]
       /\ UNCHANGED <<queue_, size_, popped, aborted>>
    \/ /\ queue_ # <<>> /\ size_ <= 0
       /\ aborted' = TRUE
       /\ UNCHANGED <<queue_, size_, popped, res>>
    \/ /\ queue_ # <<>> /\ size_ > 0
       /\ decr
       /\ popped' = Append(popped, Head(queue_))
       /\ queue_' = Tail(queue_)
       /\ res' = [res EXCEPT ![c] = "data"]
       /\ UNCHANGED aborted

\* Mutant: a count of one is taken for an empty channel.
popEnterOffByOne(c, m) ==
    /\ cpc[c] = "idle"
    /\ mode' = [mode EXCEPT ![c] = m]
    /\ \/ size_ > 1 /\ takeFront(c)
       \/ /\ size_ <= 1
          /\ res' = [res EXCEPT ![c] = "nodata"]
          /\ UNCHANGED <<queue_, size_, popped, aborted>>
    /\ UNCHANGED <<calls, item, cpc, cleared>>

\* Lines 76-85: with elements counted, or no time to wait, it ends at once.
popEnter(c, m) ==
    /\ cpc[c] = "idle"
    /\ mode' = [mode EXCEPT ![c] = m]
    /\ \/ size_ # 0 /\ takeFront(c) /\ UNCHANGED cpc
       \/ /\ size_ = 0 /\ m = "none"
          /\ res' = [res EXCEPT ![c] = "nodata"]
          /\ UNCHANGED <<queue_, size_, popped, aborted, cpc>>
       \/ /\ size_ = 0 /\ m # "none"
          /\ cpc' = [cpc EXCEPT ![c] = "waiting"]
          /\ res' = [res EXCEPT ![c] = "none"]
          /\ UNCHANGED <<queue_, size_, popped, aborted>>
    /\ UNCHANGED <<calls, item, cleared>>

\* The wait is over and the mutex taken again.
popResume(c) ==
    /\ cpc[c] = "woken"
    /\ cpc' = [cpc EXCEPT ![c] = "idle"]
    /\ takeFront(c)
    /\ UNCHANGED <<calls, item, mode, cleared>>

wake(c) ==
    /\ cpc[c] = "waiting"
    /\ cpc' = [cpc EXCEPT ![c] = "woken"]
    /\ UNCHANGED <<queue_, size_, calls, item, mode, popped, res, aborted, cleared>>

timeout(c) == mode[c] = "timed" /\ wake(c)

spurious(c) == SpuriousWakeups /\ wake(c)

-----------------------------------------------------------------------------
(* clear, signal (110-121)                                                 *)

clear ==
    /\ queue_ # <<>> \/ size_ # 0
    /\ queue_' = <<>> /\ getAndSet(0)
    /\ cleared' = TRUE
    /\ UNCHANGED <<calls, item, cpc, mode, popped, res, aborted>>

signal ==
    /\ Signalling
    /\ \E c \in Consumers : cpc[c] = "waiting"
    /\ cpc' = broadcast
    /\ UNCHANGED <<queue_, size_, calls, item, mode, popped, res, aborted, cleared>>

-----------------------------------------------------------------------------
producerStep(p) == pushIncr(p) \/ pushLink(p)
popStep(c)      == (\E m \in Modes : popEnter(c, m)) \/ popResume(c)

Next ==
    /\ ~aborted
    /\ \/ \E p \in Producers : producerStep(p)
       \/ \E c \in Consumers : popStep(c) \/ timeout(c) \/ spurious(c)
       \/ clear
       \/ signal

Spec == Init /\ [][Next]_vars

\* A push goes on to its end; a consumer pops in a loop (handler.cpp:18-26); a
\* timed wait ends.
Fairness ==
    /\ \A p \in Producers : WF_vars(~aborted /\ pushLink(p))
    /\ \A c \in Consumers : WF_vars(~aborted /\ popStep(c)) /\ WF_vars(~aborted /\ timeout(c))

FairSpec == Spec /\ Fairness
=============================================================================
