---------------------------- MODULE XTimeHelper -----------------------------
(***************************************************************************)
(* xTimeHelper (base/time_helper.cpp), the clock behind TNOWMS: a thread   *)
(* refreshes a pair (time of day, processor cycles) in the half of a       *)
(* double buffer that readers do not use and flips _buf_idx; a reader adds *)
(* the cycles since then to the time.  None of it is locked.               *)
(*                                                                         *)
(* `now` is the clock that gettimeofday and rdtsc show, in one unit and    *)
(* without rounding.  The two are separate calls: the clock goes on        *)
(* between them.  The thread's wait of 800 ms may end at any moment: by    *)
(* the timeout, on its own, or late on a busy machine.                     *)
(***************************************************************************)
EXTENDS Integers

CONSTANTS Readers,      \* threads that use TNOWMS
          MaxOffset,    \* the 1000000 us of addTimeOffset
          MaxNow        \* bound: the clock's last tick

ASSUME BoundsAssumption == MaxOffset \in Nat /\ MaxNow \in Nat \ {0}

Halves == {0, 1}

VARIABLES
    now,
    g_th, created,          \* the instance, and the history of how many were made
    t, tsc,                 \* _t, _tsc: a cycle count of 0 is "not set"
    bufIdx, useTsc,
    cpuCycle,               \* what the quotient _cpu_cycle is: "unset", "true" or "wrong"
    asked, delay,           \* history: when gettimeofday was called, 0 after rdtsc, and
                            \* the longest time from the one to the other so far
    run,                    \* where the thread is
    pc, idx, tv,            \* per reader: where it is, and its locals
    cycles,
    err,                    \* history: the time it was given less the time when it asked
    misled,                 \* history: it was given a time by a wrong length of the cycle
    overtaken               \* history: the half it reads was written meanwhile

instance == <<g_th, created>>
clock    == <<t, tsc, bufIdx, cpuCycle, asked, delay>>
locals   == <<idx, tv, cycles>>
given    == <<err, misled>>
reader   == <<pc, locals, given, overtaken>>
vars     == <<now, instance, clock, useTsc, run, reader>>

Init ==
    /\ now = 1
    /\ g_th = "null" /\ created = 0
    /\ t = [i \in Halves |-> 1] /\ tsc = [i \in Halves |-> 0]
    /\ bufIdx = 0 /\ cpuCycle = "unset" /\ asked = 0 /\ delay = 0 /\ useTsc = TRUE
    /\ run = "none"
    /\ pc = [r \in Readers |-> "idle"]
    /\ idx = [r \in Readers |-> 0] /\ tv = idx /\ cycles = idx /\ err = idx
    /\ overtaken = [r \in Readers |-> FALSE] /\ misled = overtaken

tick ==
    /\ now < MaxNow
    /\ now' = now + 1
    /\ UNCHANGED <<instance, clock, useTsc, run, reader>>

-----------------------------------------------------------------------------
(* getInstance (13-28): checked, locked, checked again                     *)

ending == g_th \in {"deleting", "signalled", "joined"}

goTo(r, from, to) == pc[r] = from /\ pc' = [pc EXCEPT ![r] = to]

firstCheck(r) ==
    /\ ~ending
    /\ goTo(r, "idle", IF g_th = "null" THEN "lock" ELSE "getNow")
    /\ UNCHANGED <<now, instance, clock, useTsc, run, locals, given, overtaken>>

create(r) ==
    /\ goTo(r, "lock", "start")
    /\ g_th' = "built" /\ created' = created + 1
    /\ t' = [i \in Halves |-> now] /\ tsc' = [i \in Halves |-> 0]

\* Mutant: it is not checked again.
createUnchecked(r) ==
    /\ \A q \in Readers : pc[q] # "start"
    /\ create(r)
    /\ UNCHANGED <<now, bufIdx, cpuCycle, asked, delay, useTsc, run, locals, given, overtaken>>

\* g_tm is held by the reader that is at "start".
secondCheck(r) ==
    /\ \A q \in Readers : pc[q] # "start"
    /\ \/ g_th = "null" /\ create(r)
       \/ g_th # "null" /\ goTo(r, "lock", "getNow") /\ UNCHANGED <<instance, t, tsc>>
    /\ UNCHANGED <<now, bufIdx, cpuCycle, asked, delay, useTsc, run, locals, given, overtaken>>

\* Other readers see the pointer before the thread is started.
start(r) ==
    /\ goTo(r, "start", "getNow")
    /\ g_th' = "started" /\ run' = "new"
    /\ UNCHANGED <<now, created, clock, useTsc, locals, given, overtaken>>

-----------------------------------------------------------------------------
(* run, setTsc (31-45, 92-113)                                             *)

\* The new thread gets to run() in its own time (xthread.cpp:18-46).
runInThread ==
    /\ run = "new" /\ run' = "test"
    /\ UNCHANGED <<now, instance, clock, useTsc, reader>>

unused == 1 - bufIdx

\* A reader is in the middle of half i.
overtakes(i) ==
    [r \in Readers |-> overtaken[r] \/ (pc[r] \in {"copy", "test", "offset"} /\ idx[r] = i)]

\* Mutant: the half that is in use is refreshed.
refreshUsed ==
    /\ run = "test" /\ g_th = "started"
    /\ t' = [t EXCEPT ![bufIdx] = now] /\ asked' = now
    /\ run' = "setTsc"
    /\ UNCHANGED <<now, instance, tsc, bufIdx, cpuCycle, delay, useTsc, reader>>

\* _terminate is not set.
refresh ==
    /\ run = "test" /\ g_th = "started"
    /\ t' = [t EXCEPT ![unused] = now] /\ asked' = now
    /\ overtaken' = overtakes(unused)
    /\ run' = "setTsc"
    /\ UNCHANGED <<now, instance, tsc, bufIdx, cpuCycle, delay, useTsc, pc, locals, given>>

finish ==
    /\ run = "test" /\ g_th # "started"
    /\ run' = "done"
    /\ UNCHANGED <<now, instance, clock, useTsc, reader>>

\* From gettimeofday to rdtsc, in the round that wrote half i.
apart(i, cycle) == cycle - t[i]

\* The length of a cycle is the time between the last two rounds through the
\* cycles between them: right when it was as long from one clock to the other in
\* both.
cycleLength(c) ==
    IF tsc[0] = 0 \/ tsc[1] = 0 THEN "unset"
    ELSE IF apart(unused, c) = apart(bufIdx, tsc[bufIdx]) THEN "true"
    ELSE "wrong"

setTsc ==
    /\ run = "setTsc"
    /\ cpuCycle' = cycleLength(now)
    /\ tsc' = [tsc EXCEPT ![unused] = now]
    /\ asked' = 0 /\ delay' = IF now - asked > delay THEN now - asked ELSE delay
    /\ overtaken' = overtakes(unused)
    /\ run' = "flip"
    /\ UNCHANGED <<now, instance, t, bufIdx, useTsc, pc, locals, given>>

\* ... and timedWait.
flip ==
    /\ run = "flip"
    /\ bufIdx' = unused
    /\ run' = "waiting"
    /\ UNCHANGED <<now, instance, t, tsc, cpuCycle, asked, delay, useTsc, reader>>

\* Mutant: wait() for timedWait(800).
wakeNever == FALSE /\ UNCHANGED vars

wake ==
    /\ run = "waiting" /\ run' = "test"
    /\ UNCHANGED <<now, instance, clock, useTsc, reader>>

-----------------------------------------------------------------------------
(* getNow, addTimeOffset (63-76, 116-133)                                  *)

getNow(r) ==
    /\ goTo(r, "getNow", "copy")
    /\ idx' = [idx EXCEPT ![r] = bufIdx]
    /\ overtaken' = [overtaken EXCEPT ![r] = FALSE]
    /\ UNCHANGED <<now, instance, clock, useTsc, run, tv, cycles, given>>

copy(r) ==
    /\ goTo(r, "copy", "test")
    /\ tv' = [tv EXCEPT ![r] = t[idx[r]]]
    /\ UNCHANGED <<now, instance, clock, useTsc, run, idx, cycles, given, overtaken>>

\* The read ends, off by e; wrong: by a wrong length of the cycle.
give(r, e, wrong) ==
    /\ err' = [err EXCEPT ![r] = e]
    /\ misled' = [misled EXCEPT ![r] = wrong]
    /\ idx' = [idx EXCEPT ![r] = 0]
    /\ tv' = [tv EXCEPT ![r] = 0]
    /\ cycles' = [cycles EXCEPT ![r] = 0]

\* With cycles, rdtsc; without, gettimeofday.  A wrong length may also be 0.
testTsc(r) ==
    /\ \/ /\ cpuCycle # "unset" /\ useTsc
          /\ goTo(r, "test", "offset")
          /\ cycles' = [cycles EXCEPT ![r] = now]
          /\ UNCHANGED <<idx, tv, given>>
       \/ /\ cpuCycle # "true" \/ ~useTsc
          /\ goTo(r, "test", "idle")
          /\ give(r, 0, FALSE)
    /\ UNCHANGED <<now, instance, clock, useTsc, run, overtaken>>

elapsed(r) == cycles[r] - tsc[idx[r]]

\* The cycles since the half was written, times the length of one: a wrong
\* length may make any time of them, in bounds or not.
offsets(r) ==
    IF cpuCycle = "wrong" /\ elapsed(r) > 0 THEN 0..(MaxOffset + 1) ELSE {elapsed(r)}

\* An offset out of bounds ends the use of cycles, for all readers and for good.
addTimeOffset(r) ==
    /\ goTo(r, "offset", "idle")
    /\ \E o \in offsets(r) :
          \/ /\ o \notin 0..MaxOffset
             /\ useTsc' = FALSE
             /\ give(r, 0, FALSE)
          \/ /\ o \in 0..MaxOffset
             /\ give(r, tv[r] + o - cycles[r], cpuCycle = "wrong")
             /\ UNCHANGED useTsc
    /\ UNCHANGED <<now, instance, clock, run, overtaken>>

-----------------------------------------------------------------------------
(* ~xTimeHelper (47-56): _terminate is set before mutex_ is taken, so the  *)
(* signal may find nobody waiting; join() follows it.                      *)

destroy ==
    /\ g_th = "started" /\ \A r \in Readers : pc[r] = "idle"
    /\ g_th' = "deleting"
    /\ UNCHANGED <<now, created, clock, useTsc, run, reader>>

\* cond_.signal(): who waits is woken.
condSignal == run' = IF run = "waiting" THEN "test" ELSE run

signal ==
    /\ g_th = "deleting" /\ g_th' = "signalled"
    /\ condSignal
    /\ UNCHANGED <<now, created, clock, useTsc, reader>>

\* The members may go when the thread has: nothing of it is left running.
join ==
    /\ g_th = "signalled" /\ run = "done"
    /\ g_th' = "joined"
    /\ UNCHANGED <<now, created, clock, useTsc, run, reader>>

-----------------------------------------------------------------------------
endStep == signal \/ join
runStep == runInThread \/ refresh \/ finish \/ setTsc \/ flip \/ wake

readStep(r) == \/ firstCheck(r) \/ secondCheck(r) \/ start(r)
               \/ getNow(r) \/ copy(r) \/ testTsc(r) \/ addTimeOffset(r)

Next == tick \/ runStep \/ destroy \/ endStep \/ \E r \in Readers : readStep(r)

Spec == Init /\ [][Next]_vars

\* The thread runs, and its waits end; so does the one that deletes the instance.
FairSpec == Spec /\ WF_vars(runStep) /\ WF_vars(endStep)
=============================================================================
