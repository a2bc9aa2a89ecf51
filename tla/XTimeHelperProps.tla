-------------------------- MODULE XTimeHelperProps --------------------------
(* What is asked of XTimeHelper, and the invariant it rests on.             *)
EXTENDS XTimeHelper

\* Where a reader is inside getNow, with a half chosen.
Reading == {"copy", "test", "offset"}

\* The type of every variable.
TypeOK ==
    /\ now \in Nat \ {0}
    /\ g_th \in {"null", "built", "started", "deleting", "signalled", "joined"}
    /\ created \in Nat
    /\ t \in [Halves -> Nat] /\ tsc \in [Halves -> Nat]
    /\ bufIdx \in Halves /\ asked \in Nat /\ delay \in Nat
    /\ cpuCycle \in {"unset", "true", "wrong"} /\ useTsc \in BOOLEAN
    /\ run \in {"none", "new", "test", "setTsc", "flip", "waiting", "done"}
    /\ pc \in [Readers -> {"idle", "lock", "start", "getNow"} \cup Reading]
    /\ idx \in [Readers -> Halves] /\ tv \in [Readers -> Nat] /\ cycles \in [Readers -> Nat]
    /\ err \in [Readers -> Int] /\ misled \in [Readers -> BOOLEAN] /\ overtaken \in [Readers -> BOOLEAN]

\* Whatever threads ask for the instance at once, one is made, its thread is
\* started once, and nobody reads before it is there.
OneInstance ==
    /\ created <= 1
    /\ \A r \in Readers : pc[r] \in {"getNow"} \cup Reading => created = 1
    /\ run # "none" => g_th = "started" \/ ending

\* A reader is given a time that is never ahead of the time when it asked, and
\* behind by no more than the thread was ever held up between its two clocks; and
\* a wrong length of the cycle comes from such a hold-up only.  So the time is
\* right as long as there was none: one flip, the first rounds, a late refresh and
\* the end of the use of cycles do not disturb it.  Excepted is who is overtaken,
\* the half it reads being written meanwhile, which is two flips away; and, from
\* the bound, who was given a time by a wrong length.
ReadIsCurrent ==
    \A r \in Readers : pc[r] = "idle" /\ ~overtaken[r] =>
        IF misled[r] THEN delay > 0 ELSE -delay <= err[r] /\ err[r] <= 0

-----------------------------------------------------------------------------
\* The instance is there once it was made; one reader at most starts its thread,
\* and none is left when it ends.
InstanceInv ==
    /\ created = IF g_th = "null" THEN 0 ELSE 1
    /\ run = "none" <=> g_th \in {"null", "built"}
    /\ \A r, q \in Readers : pc[r] = "start" /\ pc[q] = "start" => r = q
    /\ \A r \in Readers :
          /\ pc[r] = "start" => g_th = "built"
          /\ pc[r] \in {"getNow"} \cup Reading => g_th # "null"
          /\ ending => pc[r] = "idle"

\* The time of a half was taken first, its cycles at most `delay` later; the
\* half that is written has no cycles yet.  Cycles are used only when both halves
\* have them.
HalvesInv ==
    /\ run \in {"none", "new"} => cpuCycle = "unset"
    /\ cpuCycle # "unset" => \A i \in Halves : tsc[i] # 0
    /\ cpuCycle = "wrong" => delay > 0
    /\ run = "setTsc" => t[unused] = asked /\ asked <= now
    /\ \A i \in Halves : tsc[i] # 0 /\ ~(run = "setTsc" /\ i = unused) =>
          t[i] <= tsc[i] /\ tsc[i] - t[i] <= delay

\* A reader that is not overtaken has what its half holds, and that half is not
\* the one the thread is writing.
ReadersInv ==
    \A r \in Readers : ~overtaken[r] =>
        /\ pc[r] \in Reading /\ run \in {"setTsc", "flip"} => idx[r] = bufIdx
        /\ pc[r] \in {"test", "offset"} => tv[r] = t[idx[r]]
        /\ pc[r] = "offset" => cpuCycle # "unset"

IInv == TypeOK /\ InstanceInv /\ HalvesInv /\ ReadersInv /\ ReadIsCurrent
=============================================================================
