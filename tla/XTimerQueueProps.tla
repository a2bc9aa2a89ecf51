-------------------------- MODULE XTimerQueueProps --------------------------
(* What is asked of XTimerQueue, and its inductive invariant.              *)
EXTENDS XTimerQueue

\* Where the iterator of triggerTimer may be.
IteratorOK == it \in 0..created /\ (it \in Elements(timers_) \cup {0} \/ undefined)

\* The type of every variable; a timer is in the set once at most, and the
\* iterator of triggerTimer stands on a timer of the set or at its end, unless a
\* callback removed its own timer or one whose range has it (undefined).
TypeOK ==
    /\ now \in 0..MaxTime /\ timeNow \in 0..MaxTime /\ created \in 0..MaxTimers
    /\ timers_ \in Seq(1..created) /\ IsInjective(timers_)
    /\ handed \subseteq 1..created /\ removed \subseteq 1..created /\ owed \subseteq 1..created
    /\ expiration_ \in [Timers -> Nat] /\ interval_ \in [Timers -> Nat]
    /\ repeat_ \in [Timers -> {-1} \cup Nat]
    /\ lost \subseteq 1..created /\ destroyed \subseteq 1..created
    /\ IteratorOK
    /\ {running, inCallback, sorted, undefined} \subseteq BOOLEAN
    /\ fired \in [Timers -> Nat] /\ born \in [Timers -> Nat]
    /\ planned \in [Timers -> {-1} \cup Nat]

\* "timeout; the timestamp should trigger" (xtimer.h:114): a timer that is due
\* when triggerTimer begins has fired, or was removed, when it ends.
DueTimersFire == ~running => owed = {}

\* No timer created so far repeats.
OnlyOnce == \A t \in 1..created : planned[t] = 1

\* That is so in a pass that begins in order, though its callbacks add, remove
\* and move timers while it walks, and in every pass when no timer repeats.  The
\* removal of a timer that was moved may destroy others with it, but none that
\* is due yet: that range would have the running timer too, and the pass does
\* not end then, the behaviour is undefined.
DueTimersFireInOrder == sorted \/ OnlyOnce => DueTimersFire

\* Without repeats the set stays in order, so every search finds its timer and no
\* other: one removed while in the set is not in it any more, and fires no more,
\* and no timer goes that nobody removed.
RemovedStaysOut ==
    OnlyOnce => InOrder /\ removed \cap Elements(timers_) = {} /\ destroyed = {}

\* A timer that left the set by itself, and not by its removal or destroyed by
\* the removal of another, fired as often as it was asked to; none fires more
\* often, none fires before its time, and the n-th firing comes at the earliest
\* n intervals after the creation, however late the earlier ones were.
FiresAsPlanned ==
    \A t \in 1..created :
        /\ now >= born[t] + fired[t] * interval_[t]
        /\ planned[t] = 1 /\ fired[t] > 0 => now >= expiration_[t]
        /\ planned[t] # -1 =>
              /\ fired[t] <= planned[t]
              /\ \/ t \in handed \cup lost \cup Elements(timers_)
                 \/ t \in removed \cup destroyed
                 \/ fired[t] = planned[t]

\* Without repeats every timer whose AddTimer is not lost fires or is removed,
\* unless a removal read freed memory: again and again there is none left that
\* did not.
EveryTimerFires ==
    []<>(\A t \in 1..created :
            fired[t] > 0 \/ t \in removed \cup lost \/ undefined \/ ~OnlyOnce)
-----------------------------------------------------------------------------
(* The inductive invariant                                                 *)

\* The timers triggerTimer and a removal can reach.
InUse == handed \cup Elements(timers_)

\* A timer waits for its AddTimer, or is in the set, or is gone; the iterator
\* stands on one while triggerTimer runs, and the clock does not step back.
PlacesInv ==
    /\ handed \cap Elements(timers_) = {} /\ handed \cap removed = {}
    /\ it # 0 => running
    /\ inCallback => it # 0 /\ it \notin owed /\ expiration_[it] <= timeNow
    /\ timeNow <= now
    /\ \A t \in Timers : t > created => fired[t] = 0

\* The callback of t runs: it is counted, the repeat that follows is not.
Firing(t) == inCallback /\ t = it

\* What has fired and what is left make up what was planned.
Counted(t) ==
    /\ repeat_[t] = -1 <=> planned[t] = -1
    /\ planned[t] # -1 =>
          /\ repeat_[t] \in 1..planned[t] /\ fired[t] <= planned[t]
          /\ t \in InUse =>
                fired[t] + repeat_[t] = planned[t] + (IF Firing(t) THEN 1 ELSE 0)
    /\ t \notin InUse \cup removed \cup lost \cup destroyed =>
          planned[t] # -1 /\ fired[t] = planned[t]

CountInv == \A t \in 1..created : Counted(t)

\* The next firing is due n intervals after the creation, or later.
OnTime(t) ==
    /\ now >= born[t] + fired[t] * interval_[t]
    /\ t \in InUse =>
          expiration_[t] >= born[t] + (fired[t] + (IF Firing(t) THEN 0 ELSE 1)) * interval_[t]
    /\ planned[t] = 1 => interval_[t] = 0
    /\ planned[t] = 1 /\ fired[t] > 0 => now >= expiration_[t]

TimeInv == \A t \in 1..created : OnTime(t)

\* u is t, or comes after it in the set.
Before(s, t, u) == \E m, n \in 1..Len(s) : m <= n /\ s[m] = t /\ s[n] = u

\* Without repeats no key ever changes.
OnceInv ==
    OnlyOnce =>
        /\ sorted
        /\ \A t, u \in Elements(timers_) : Before(timers_, t, u) /\ t # u => Cmp(t, u)
        /\ removed \cap Elements(timers_) = {} /\ destroyed = {}

\* A pass that began in order: from the iterator on the set is in order still,
\* and what is owed stands there.
PassInv ==
    sorted =>
        /\ owed # {} => running
        /\ ~undefined =>
              /\ \A t \in owed : expiration_[t] <= timeNow /\ Before(timers_, it, t)
              /\ \A t, u \in Elements(timers_) :
                    Before(timers_, it, t) /\ Before(timers_, t, u) /\ t # u => Cmp(t, u)

IInv == TypeOK /\ PlacesInv /\ CountInv /\ TimeInv /\ OnceInv /\ PassInv
=============================================================================
