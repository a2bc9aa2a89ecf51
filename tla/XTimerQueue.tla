---------------------------- MODULE XTimerQueue -----------------------------
(***************************************************************************)
(* xTimerQueue and xTimer (base/xtimer_queue.cpp, base/include/xtimer.h),  *)
(* with the timer calls of xLoop (base/xloop.cpp:144-181).                 *)
(*                                                                         *)
(* timers_ is a std::set ordered by (expiration, serial), but nextRepeat   *)
(* moves the expiration of a timer that stays in the set: the tree is then *)
(* searched with keys that are not in order.  The set is modelled by its   *)
(* in-order sequence.  A search in the tree ends at a gap whose neighbours *)
(* both agree with the key searched for; which of these gaps depends on    *)
(* the shape of the tree, and is a choice.  erase(key) erases what lies    *)
(* between two such gaps around the timer it has found: other timers too,  *)
(* when the set is out of order.                                           *)
(***************************************************************************)
EXTENDS Integers, Sequences, SequencesExt, FiniteSets

CONSTANTS Repeats,      \* finite repeat counts used: 1 is a timer that fires once
          RunEvery,     \* whether runEvery is used: a timer that fires for ever
          Intervals,    \* intervals used, in ms
          MaxTimers,    \* bound: timers created in a behaviour
          MaxRepeating, \* bound: those of them that repeat
          MaxTime       \* bound: the clock

ASSUME RepeatsAssumption == Repeats \subseteq Nat \ {0} /\ RunEvery \in BOOLEAN
ASSUME IntervalsAssumption == Intervals \subseteq Nat \ {0}
ASSUME BoundsAssumption == {MaxTimers, MaxRepeating, MaxTime} \subseteq Nat

Timers == 1..MaxTimers      \* a timer is named by its serial

VARIABLES
    now,            \* the clock, TNOWMS
    timers_,        \* the set, in the order of its iterators
    handed,         \* timers created, their AddTimer not yet run by the loop
    created,        \* number of timers created
    expiration_, interval_, repeat_,
    it,             \* triggerTimer's iterator, 0 when at end or not running
    running,        \* triggerTimer is running
    inCallback,     \* ... inside the callback of *it
    timeNow,        \* the clock when triggerTimer began
    fired,          \* history: how often each timer fired
    born, planned,  \* history: time of creation, repeat count at creation
    removed,        \* history: timers removeTimer was called for
    lost,           \* timers whose AddTimer was lost; they are never freed
    destroyed,      \* history: timers erased, and freed, by the removal of another
    owed,           \* history: timers due when triggerTimer began, to fire yet
    sorted,         \* history: the set was in order when triggerTimer began
    undefined       \* freed memory was read: anything may happen

clock  == <<now>>
data   == <<expiration_, interval_, repeat_>>
pass   == <<it, running, inCallback, timeNow, sorted>>
past   == <<fired, born, planned, removed, lost, destroyed>>
vars == <<now, timers_, handed, created, expiration_, interval_, repeat_, it,
          running, inCallback, timeNow, fired, born, planned, removed, lost, destroyed, owed,
          sorted, undefined>>

Elements(s) == {s[n] : n \in 1..Len(s)}

Zero == [t \in Timers |-> 0]

Init ==
    /\ now = 0 /\ timers_ = <<>> /\ handed = {} /\ created = 0
    /\ expiration_ = Zero /\ interval_ = Zero /\ repeat_ = Zero
    /\ it = 0 /\ running = FALSE /\ inCallback = FALSE /\ timeNow = 0
    /\ fired = Zero /\ born = Zero /\ planned = Zero
    /\ removed = {} /\ lost = {} /\ destroyed = {} /\ owed = {} /\ sorted = TRUE /\ undefined = FALSE

-----------------------------------------------------------------------------
(* xTimer                                                                  *)

\* xTimer::Cmp
Cmp(a, b) ==
    \/ expiration_[a] < expiration_[b]
    \/ expiration_[a] = expiration_[b] /\ a < b

hasNextTime(t) == repeat_[t] > 1 \/ repeat_[t] = -1

\* Mutant: only a timer that is late already is moved.
nextIfLate(t) == IF expiration_[t] < now THEN now + interval_[t] ELSE expiration_[t]

\* The expiration nextRepeat leaves.
nextExpiration(t) ==
    LET e == expiration_[t] + interval_[t]
    IN  IF e < now THEN now + interval_[t] ELSE e

-----------------------------------------------------------------------------
(* Calls of the timer interface                                            *)

\* Where user code runs on the loop thread: functors and event callbacks
\* between two passes of triggerTimer, and timer callbacks.
userCode == ~running \/ inCallback

\* The constructors of xTimer; the serial is incrAndGet of a counter.
newTimer(t, r, i) ==
    /\ expiration_' = [expiration_ EXCEPT ![t] = now + i]
    /\ interval_' = [interval_ EXCEPT ![t] = IF r = 1 THEN 0 ELSE i]
    /\ repeat_' = [repeat_ EXCEPT ![t] = r]

\* runAfter, runEvery, runRepeat, in any thread: the timer is made, and a
\* functor that adds it is on its way to the loop.
create(r, i) ==
    /\ created < MaxTimers
    /\ now + i <= MaxTime
    /\ r # 1 => Cardinality({t \in 1..created : planned[t] # 1}) < MaxRepeating
    /\ LET t == created + 1
       IN  /\ created' = t
           /\ handed' = handed \cup {t}
           /\ newTimer(t, r, i)
           /\ born' = [born EXCEPT ![t] = now]
           /\ planned' = [planned EXCEPT ![t] = r]
    /\ UNCHANGED <<clock, timers_, pass, fired, removed, lost, destroyed, owed, undefined>>

\* Mutant: timers are kept in the order in which they were added.
atEnd(t, p) == p = Len(timers_)

\* The gaps where a search for t's place in the tree can end.
gap(t, p) ==
    /\ p > 0 => Cmp(timers_[p], t)
    /\ p < Len(timers_) => Cmp(t, timers_[p + 1])

AddTimer(t) ==
    /\ userCode
    /\ t \in handed
    /\ handed' = handed \ {t}
    /\ \E p \in 0..Len(timers_) :
          gap(t, p) /\ timers_' = InsertAt(timers_, p + 1, t)
    /\ UNCHANGED <<clock, created, data, pass, past, owed, undefined>>

\* The functor that adds t is destroyed unrun: process() clears extraEvents_
\* after its walk, without the lock (XLoop), and runs the timers after that.
loseTimer(t) ==
    /\ ~running
    /\ t \in handed
    /\ handed' = handed \ {t}
    /\ lost' = lost \cup {t}
    /\ UNCHANGED <<clock, timers_, created, data, pass, fired, born, planned, removed,
                   destroyed, owed, undefined>>

\* Where t stands in the set, and the timers from the p-th to the q-th.
place(t) == CHOOSE n \in 1..Len(timers_) : timers_[n] = t
span(p, q) == {timers_[n] : n \in p..q}

\* The set when these are erased, or t alone by its iterator.
without(p, q) == SubSeq(timers_, 1, p - 1) \o SubSeq(timers_, q + 1, Len(timers_))
erased(t) == without(place(t), place(t))

\* What equal_range may return for a t it meets.  It goes on with a search for t
\* on either side, which ends at a gap and takes all that is between in.
equalRange(t, p, q) ==
    /\ p <= place(t) /\ place(t) <= q
    /\ p > 1 => Cmp(timers_[p - 1], t)
    /\ p < place(t) => Cmp(t, timers_[p])
    /\ place(t) < q => Cmp(timers_[q], t)
    /\ q < Len(timers_) => Cmp(t, timers_[q + 1])

\* A search for t is certain to meet it, and it alone, when nothing is out of
\* order with it.
inOrder(t) ==
    \A m, n \in 1..Len(timers_) :
        m < n /\ t \in {timers_[m], timers_[n]} => Cmp(timers_[m], timers_[n])

\* removeTimer of a timer in the set: erase by key finds it, and erases all its
\* range, or misses it.  triggerTimer goes on to use the timer whose callback
\* runs: when that is in the range, it is used freed.  A timer whose AddTimer is
\* yet to run, or was lost, is searched for in vain, which changes nothing.
RemoveTime(t) ==
    /\ userCode
    /\ t \in Elements(timers_)
    /\ removed' = removed \cup {t}
    /\ owed' = owed \ {t}
    /\ \/ \E p, q \in 1..Len(timers_) :
             /\ equalRange(t, p, q)
             /\ timers_' = without(p, q)
             /\ destroyed' = destroyed \cup (span(p, q) \ {t})
             /\ undefined' = (it \in span(p, q))
       \/ ~inOrder(t) /\ UNCHANGED <<timers_, destroyed, undefined>>
    /\ UNCHANGED <<clock, handed, created, data, pass, fired, born, planned, lost>>

\* removeTimer of a timer that was freed, by its end or by a removal: the search
\* compares it with the timers of the set, if there are any.
removeFreed(t) ==
    /\ userCode /\ timers_ # <<>>
    /\ t <= created /\ t \notin handed \cup lost \cup Elements(timers_)
    /\ undefined' = TRUE
    /\ UNCHANGED <<clock, timers_, handed, created, data, pass, past, owed>>

-----------------------------------------------------------------------------
(* triggerTimer (xtimer_queue.cpp:24-43)                                   *)

first == IF timers_ = <<>> THEN 0 ELSE timers_[1]

\* The timer after t in the set, 0 at the end.
after(t) == IF place(t) = Len(timers_) THEN 0 ELSE timers_[place(t) + 1]

\* The set is in the order of its comparison, by which it is searched.
InOrder == \A m, n \in 1..Len(timers_) : m < n => Cmp(timers_[m], timers_[n])

passBegin ==
    /\ ~running
    /\ running' = TRUE
    /\ timeNow' = now
    /\ it' = first
    /\ owed' = {t \in Elements(timers_) : expiration_[t] <= now}
    /\ sorted' = InOrder
    /\ UNCHANGED <<clock, timers_, handed, created, data, inCallback, past, undefined>>

doCallBack ==
    /\ running /\ ~inCallback
    /\ it # 0 /\ expiration_[it] <= timeNow
    /\ inCallback' = TRUE
    /\ fired' = [fired EXCEPT ![it] = @ + 1]
    /\ owed' = owed \ {it}
    /\ UNCHANGED <<clock, timers_, handed, created, data, it, running, timeNow, sorted, born,
                   planned, removed, lost, destroyed, undefined>>

\* The callback has returned: on to the next repeat ...
nextRepeat ==
    /\ inCallback
    /\ hasNextTime(it)
    /\ repeat_' = [repeat_ EXCEPT ![it] = IF @ > 0 THEN @ - 1 ELSE @]
    /\ expiration_' = [expiration_ EXCEPT ![it] = nextExpiration(it)]
    /\ inCallback' = FALSE
    /\ it' = after(it)
    /\ UNCHANGED <<clock, timers_, handed, created, interval_, running, timeNow, sorted, past, owed, undefined>>

\* Mutant: the iterator is not taken from erase.
eraseKeepsIterator ==
    /\ inCallback
    /\ ~hasNextTime(it)
    /\ inCallback' = FALSE
    /\ timers_' = erased(it)
    /\ UNCHANGED <<clock, handed, created, data, it, running, timeNow, sorted, past, owed, undefined>>

\* ... or the timer is erased, and freed.
eraseEnded ==
    /\ inCallback
    /\ ~hasNextTime(it)
    /\ inCallback' = FALSE
    /\ it' = after(it)
    /\ timers_' = erased(it)
    /\ UNCHANGED <<clock, handed, created, data, running, timeNow, sorted, past, owed, undefined>>

\* Mutant: a pass ends after one callback.
passEndEarly ==
    /\ running /\ ~inCallback
    /\ running' = FALSE
    /\ it' = 0
    /\ UNCHANGED <<clock, timers_, handed, created, data, inCallback, timeNow, sorted, past, owed, undefined>>

\* Mutant: a timer that stands at the end of the set is overlooked.
passEndOneShort ==
    /\ running /\ ~inCallback
    /\ it # 0 => after(it) = 0 \/ expiration_[it] > timeNow
    /\ running' = FALSE
    /\ it' = 0
    /\ UNCHANGED <<clock, timers_, handed, created, data, inCallback, timeNow, sorted, past, owed, undefined>>

\* The end of the set, or a timer that is not due.
passEnd ==
    /\ running /\ ~inCallback
    /\ it # 0 => expiration_[it] > timeNow
    /\ running' = FALSE
    /\ it' = 0
    /\ UNCHANGED <<clock, timers_, handed, created, data, inCallback, timeNow, sorted, past, owed, undefined>>

tick ==
    /\ now < MaxTime
    /\ now' = now + 1
    /\ UNCHANGED <<timers_, handed, created, data, pass, past, owed, undefined>>

loopStep == passBegin \/ doCallBack \/ nextRepeat \/ eraseEnded \/ passEnd

Next ==
    \/ /\ ~undefined
       /\ \/ \E r \in Repeats, i \in Intervals : create(r, i)
          \/ \E i \in Intervals : RunEvery /\ create(-1, i)
          \/ \E t \in Timers : AddTimer(t) \/ loseTimer(t) \/ RemoveTime(t) \/ removeFreed(t)
          \/ loopStep
          \/ tick
    \/ undefined /\ UNCHANGED vars

Spec == Init /\ [][Next]_vars

\* The loop turns, time passes, and a functor handed over does not stay in
\* extraEvents_: it is run or it is lost (strongly fair: process() comes to
\* walk and clear the deque between any two passes).
Fairness ==
    /\ WF_vars(~undefined /\ loopStep) /\ WF_vars(~undefined /\ tick)
    /\ \A t \in Timers : SF_vars(~undefined /\ (AddTimer(t) \/ loseTimer(t)))

FairSpec == Spec /\ Fairness
=============================================================================
