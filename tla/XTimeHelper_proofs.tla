------------------------- MODULE XTimeHelper_proofs -------------------------
(***************************************************************************)
(* Proofs about XTimeHelper, for any number of readers, any clock and any  *)
(* bound on the offset.  IInv is inductive; each of its parts is kept by   *)
(* every step.                                                             *)
(***************************************************************************)
EXTENDS XTimeHelperProps, TLAPS

\* Every step keeps the types.
LEMMA TypeNext ==
  ASSUME TypeOK, [Next]_vars
  PROVE  TypeOK'
<1> USE DEF Halves, Reading, TypeOK, instance, clock, locals, given, reader
<1>1. CASE tick
  BY <1>1 DEF tick
<1>2. CASE runInThread
  BY <1>2 DEF runInThread
<1>3. CASE refresh
  BY <1>3 DEF refresh, overtakes, unused
<1>4. CASE finish
  BY <1>4 DEF finish
<1>5. CASE setTsc
  BY <1>5 DEF setTsc, cycleLength, apart, overtakes, unused
<1>6. CASE flip
  BY <1>6 DEF flip, unused
<1>7. CASE wake
  BY <1>7 DEF wake
<1>8. CASE destroy
  BY <1>8 DEF destroy
<1>9. CASE signal
  BY <1>9 DEF signal, condSignal
<1>10. CASE join
  BY <1>10 DEF join
<1>11. ASSUME NEW r \in Readers, firstCheck(r) PROVE TypeOK'
  BY <1>11 DEF firstCheck, goTo
<1>12. ASSUME NEW r \in Readers, secondCheck(r) PROVE TypeOK'
  BY <1>12 DEF secondCheck, create, goTo
<1>13. ASSUME NEW r \in Readers, start(r) PROVE TypeOK'
  BY <1>13 DEF start, goTo
<1>14. ASSUME NEW r \in Readers, getNow(r) PROVE TypeOK'
  BY <1>14 DEF getNow, goTo
<1>15. ASSUME NEW r \in Readers, copy(r) PROVE TypeOK'
  BY <1>15 DEF copy, goTo
<1>16. ASSUME NEW r \in Readers, testTsc(r) PROVE TypeOK'
  <2>1. UNCHANGED misled \/ misled' = [misled EXCEPT ![r] = FALSE]
    BY <1>16 DEF testTsc, give
  <2>2. misled' \in [Readers -> BOOLEAN]
    BY <2>1
  <2>3. err' \in [Readers -> Int] /\ idx' \in [Readers -> Halves] /\ tv' \in [Readers -> Nat]
        /\ cycles' \in [Readers -> Nat]
    BY <1>16 DEF testTsc, give
  <2>4. pc' \in [Readers -> {"idle", "lock", "start", "getNow"} \cup Reading]
    BY <1>16 DEF testTsc, goTo
  <2> QED
    BY <1>16, <2>2, <2>3, <2>4 DEF testTsc
<1>17. ASSUME NEW r \in Readers, addTimeOffset(r) PROVE TypeOK'
  <2>1. /\ tv[r] \in Nat /\ cycles[r] \in Nat /\ idx[r] \in Halves
    OBVIOUS
  <2>2. tsc[idx[r]] \in Nat
    BY <2>1
  <2>3. offsets(r) \subseteq Int
    BY <2>1, <2>2, BoundsAssumption DEF offsets, elapsed
  <2>4. PICK e \in Int, w \in BOOLEAN : give(r, e, w) /\ useTsc' \in BOOLEAN
    <3>1. PICK o \in offsets(r) :
            \/ useTsc' = FALSE /\ give(r, 0, FALSE)
            \/ give(r, tv[r] + o - cycles[r], cpuCycle = "wrong") /\ UNCHANGED useTsc
      BY <1>17 DEF addTimeOffset
    <3>2. tv[r] + o - cycles[r] \in Int
      BY <2>1, <2>3
    <3>3. CASE useTsc' = FALSE /\ give(r, 0, FALSE)
      <4>1. 0 \in Int
        OBVIOUS
      <4> QED
        BY <3>3, <4>1, Zenon
    <3>4. CASE give(r, tv[r] + o - cycles[r], cpuCycle = "wrong") /\ UNCHANGED useTsc
      <4>1. CASE cpuCycle = "wrong"
        <5>1. (cpuCycle = "wrong") = TRUE
          BY <4>1
        <5>2. give(r, tv[r] + o - cycles[r], TRUE)
          BY <3>4, <5>1, Zenon
        <5> QED
          BY <3>2, <3>4, <5>2
      <4>2. CASE cpuCycle # "wrong"
        <5>1. (cpuCycle = "wrong") = FALSE
          BY <4>2
        <5>2. give(r, tv[r] + o - cycles[r], FALSE)
          BY <3>4, <5>1, Zenon
        <5> QED
          BY <3>2, <3>4, <5>2
      <4> QED
        BY <4>1, <4>2
    <3> QED
      BY <3>1, <3>3, <3>4
  <2>5. misled' = [misled EXCEPT ![r] = w] /\ misled' \in [Readers -> BOOLEAN]
    BY <2>4, Zenon DEF give
  <2>6. err' \in [Readers -> Int]
    BY <2>4 DEF give
  <2>7. pc' \in [Readers -> {"idle", "lock", "start", "getNow"} \cup Reading]
    BY <1>17 DEF addTimeOffset, goTo
  <2>8. idx' \in [Readers -> Halves] /\ tv' \in [Readers -> Nat] /\ cycles' \in [Readers -> Nat]
    BY <2>4 DEF give
  <2> QED
    BY <1>17, <2>4, <2>5, <2>6, <2>7, <2>8 DEF addTimeOffset
<1>18. CASE UNCHANGED vars
  BY <1>18 DEF vars
<1> QED
  BY <1>1, <1>2, <1>3, <1>4, <1>5, <1>6, <1>7, <1>8, <1>9, <1>10, <1>11, <1>12, <1>13, <1>14, <1>15, <1>16, <1>17, <1>18
     DEF Next, runStep, endStep, readStep

\* One thread at a time is past the second check, and it finds no instance.
LEMMA InstanceNext ==
  ASSUME TypeOK, InstanceInv, [Next]_vars
  PROVE  InstanceInv'
<1> USE DEF Reading, TypeOK, InstanceInv, ending, instance, clock, locals, given, reader
<1>1. CASE tick
  BY <1>1 DEF tick
<1>2. CASE runInThread
  BY <1>2 DEF runInThread
<1>3. CASE refresh
  BY <1>3 DEF refresh, overtakes, unused
<1>4. CASE finish
  BY <1>4 DEF finish
<1>5. CASE setTsc
  BY <1>5 DEF setTsc, cycleLength, apart, overtakes, unused
<1>6. CASE flip
  BY <1>6 DEF flip, unused
<1>7. CASE wake
  BY <1>7 DEF wake
<1>8. CASE destroy
  BY <1>8 DEF destroy
<1>9. CASE signal
  BY <1>9 DEF signal, condSignal
<1>10. CASE join
  BY <1>10 DEF join
<1>11. ASSUME NEW r \in Readers, firstCheck(r) PROVE InstanceInv'
  BY <1>11 DEF firstCheck, goTo
<1>12. ASSUME NEW r \in Readers, secondCheck(r) PROVE InstanceInv'
  BY <1>12 DEF secondCheck, create, goTo
<1>13. ASSUME NEW r \in Readers, start(r) PROVE InstanceInv'
  BY <1>13 DEF start, goTo
<1>14. ASSUME NEW r \in Readers, getNow(r) PROVE InstanceInv'
  BY <1>14 DEF getNow, goTo
<1>15. ASSUME NEW r \in Readers, copy(r) PROVE InstanceInv'
  BY <1>15 DEF copy, goTo
<1>16. ASSUME NEW r \in Readers, testTsc(r) PROVE InstanceInv'
  BY <1>16 DEF testTsc, goTo, give
<1>17. ASSUME NEW r \in Readers, addTimeOffset(r) PROVE InstanceInv'
  BY <1>17 DEF addTimeOffset, goTo, give, offsets, elapsed
<1>18. CASE UNCHANGED vars
  BY <1>18 DEF vars
<1> QED
  BY <1>1, <1>2, <1>3, <1>4, <1>5, <1>6, <1>7, <1>8, <1>9, <1>10, <1>11, <1>12, <1>13, <1>14, <1>15, <1>16, <1>17, <1>18
     DEF Next, runStep, endStep, readStep

\* The thread writes the half not in use, and both its parts before the flip.
LEMMA HalvesNext ==
  ASSUME TypeOK, InstanceInv, HalvesInv, [Next]_vars
  PROVE  HalvesInv'
<1> USE DEF Halves, TypeOK, InstanceInv, HalvesInv, unused, instance, clock, locals, given, reader
<1>1. CASE tick
  BY <1>1 DEF tick
<1>2. CASE runInThread
  BY <1>2 DEF runInThread
<1>3. CASE refresh
  BY <1>3 DEF refresh, overtakes, unused
<1>4. CASE finish
  BY <1>4 DEF finish
<1>5. CASE setTsc
  BY <1>5 DEF setTsc, cycleLength, apart, overtakes, unused
<1>6. CASE flip
  BY <1>6 DEF flip, unused
<1>7. CASE wake
  BY <1>7 DEF wake
<1>8. CASE destroy
  BY <1>8 DEF destroy
<1>9. CASE signal
  BY <1>9 DEF signal, condSignal
<1>10. CASE join
  BY <1>10 DEF join
<1>11. ASSUME NEW r \in Readers, firstCheck(r) PROVE HalvesInv'
  BY <1>11 DEF firstCheck, goTo
<1>12. ASSUME NEW r \in Readers, secondCheck(r) PROVE HalvesInv'
  BY <1>12 DEF secondCheck, create, goTo
<1>13. ASSUME NEW r \in Readers, start(r) PROVE HalvesInv'
  BY <1>13 DEF start, goTo
<1>14. ASSUME NEW r \in Readers, getNow(r) PROVE HalvesInv'
  BY <1>14 DEF getNow, goTo
<1>15. ASSUME NEW r \in Readers, copy(r) PROVE HalvesInv'
  BY <1>15 DEF copy, goTo
<1>16. ASSUME NEW r \in Readers, testTsc(r) PROVE HalvesInv'
  BY <1>16 DEF testTsc, goTo, give
<1>17. ASSUME NEW r \in Readers, addTimeOffset(r) PROVE HalvesInv'
  BY <1>17 DEF addTimeOffset, goTo, give, offsets, elapsed
<1>18. CASE UNCHANGED vars
  BY <1>18 DEF vars
<1> QED
  BY <1>1, <1>2, <1>3, <1>4, <1>5, <1>6, <1>7, <1>8, <1>9, <1>10, <1>11, <1>12, <1>13, <1>14, <1>15, <1>16, <1>17, <1>18
     DEF Next, runStep, endStep, readStep

\* Only two flips bring the thread to the half a reader is in the middle of.
LEMMA ReadersNext ==
  ASSUME TypeOK, InstanceInv, HalvesInv, ReadersInv, [Next]_vars
  PROVE  ReadersInv'
<1> USE DEF Halves, Reading, TypeOK, InstanceInv, HalvesInv, ReadersInv, unused, instance, clock, locals, given, reader
<1>1. CASE tick
  BY <1>1 DEF tick
<1>2. CASE runInThread
  BY <1>2 DEF runInThread
<1>3. CASE refresh
  <2>1. SUFFICES ASSUME NEW r \in Readers, ~overtaken'[r]
        PROVE  /\ pc[r] \in Reading => idx[r] = bufIdx
               /\ pc[r] \in {"test", "offset"} => tv[r] = t'[idx[r]]
               /\ pc[r] = "offset" => cpuCycle # "unset"
    BY <1>3 DEF refresh
  <2>2. ~overtaken[r] /\ ~(pc[r] \in Reading /\ idx[r] = unused)
    BY <1>3, <2>1 DEF refresh, overtakes
  <2>3. pc[r] \in Reading => idx[r] = bufIdx
    BY <2>2
  <2>4. t'[bufIdx] = t[bufIdx]
    BY <1>3 DEF refresh
  <2> QED
    BY <2>2, <2>3, <2>4
<1>4. CASE finish
  BY <1>4 DEF finish
<1>5. CASE setTsc
  BY <1>5 DEF setTsc, cycleLength, apart, overtakes, unused
<1>6. CASE flip
  BY <1>6 DEF flip, unused
<1>7. CASE wake
  BY <1>7 DEF wake
<1>8. CASE destroy
  BY <1>8 DEF destroy
<1>9. CASE signal
  BY <1>9 DEF signal, condSignal
<1>10. CASE join
  BY <1>10 DEF join
<1>11. ASSUME NEW r \in Readers, firstCheck(r) PROVE ReadersInv'
  BY <1>11 DEF firstCheck, goTo
<1>12. ASSUME NEW r \in Readers, secondCheck(r) PROVE ReadersInv'
  BY <1>12 DEF secondCheck, create, goTo
<1>13. ASSUME NEW r \in Readers, start(r) PROVE ReadersInv'
  BY <1>13 DEF start, goTo
<1>14. ASSUME NEW r \in Readers, getNow(r) PROVE ReadersInv'
  BY <1>14 DEF getNow, goTo
<1>15. ASSUME NEW r \in Readers, copy(r) PROVE ReadersInv'
  BY <1>15 DEF copy, goTo
<1>16. ASSUME NEW r \in Readers, testTsc(r) PROVE ReadersInv'
  BY <1>16 DEF testTsc, goTo, give
<1>17. ASSUME NEW r \in Readers, addTimeOffset(r) PROVE ReadersInv'
  BY <1>17 DEF addTimeOffset, goTo, give, offsets, elapsed
<1>18. CASE UNCHANGED vars
  BY <1>18 DEF vars
<1> QED
  BY <1>1, <1>2, <1>3, <1>4, <1>5, <1>6, <1>7, <1>8, <1>9, <1>10, <1>11, <1>12, <1>13, <1>14, <1>15, <1>16, <1>17, <1>18
     DEF Next, runStep, endStep, readStep

\* The offset added is the time since the cycles of the half were read; its time
\* is older by what it was held up.
LEMMA CurrentNext ==
  ASSUME TypeOK, InstanceInv, HalvesInv, ReadersInv, ReadIsCurrent, [Next]_vars
  PROVE  ReadIsCurrent'
<1> USE DEF Halves, Reading, TypeOK, HalvesInv, ReadersInv, ReadIsCurrent, unused, instance, clock, locals, given, reader
<1>1. CASE tick
  BY <1>1 DEF tick
<1>2. CASE runInThread
  BY <1>2 DEF runInThread
<1>3. CASE refresh
  BY <1>3 DEF refresh, overtakes, unused
<1>4. CASE finish
  BY <1>4 DEF finish
<1>5. CASE setTsc
  BY <1>5 DEF setTsc, cycleLength, apart, overtakes, unused
<1>6. CASE flip
  BY <1>6 DEF flip, unused
<1>7. CASE wake
  BY <1>7 DEF wake
<1>8. CASE destroy
  BY <1>8 DEF destroy
<1>9. CASE signal
  BY <1>9 DEF signal, condSignal
<1>10. CASE join
  BY <1>10 DEF join
<1>11. ASSUME NEW r \in Readers, firstCheck(r) PROVE ReadIsCurrent'
  BY <1>11 DEF firstCheck, goTo
<1>12. ASSUME NEW r \in Readers, secondCheck(r) PROVE ReadIsCurrent'
  BY <1>12 DEF secondCheck, create, goTo
<1>13. ASSUME NEW r \in Readers, start(r) PROVE ReadIsCurrent'
  BY <1>13 DEF start, goTo
<1>14. ASSUME NEW r \in Readers, getNow(r) PROVE ReadIsCurrent'
  BY <1>14 DEF getNow, goTo
<1>15. ASSUME NEW r \in Readers, copy(r) PROVE ReadIsCurrent'
  BY <1>15 DEF copy, goTo
<1>16. ASSUME NEW r \in Readers, testTsc(r) PROVE ReadIsCurrent'
  BY <1>16 DEF testTsc, goTo, give
<1>17. ASSUME NEW r \in Readers, addTimeOffset(r) PROVE ReadIsCurrent'
  <2>1. /\ tv[r] \in Nat /\ cycles[r] \in Nat /\ idx[r] \in Halves
        /\ pc[r] = "offset" /\ t[idx[r]] \in Nat /\ tsc[idx[r]] \in Nat /\ delay \in Nat
    BY <1>17 DEF addTimeOffset, goTo
  <2>2. \A q \in Readers \ {r} :
          pc'[q] = pc[q] /\ err'[q] = err[q] /\ misled'[q] = misled[q] /\ overtaken'[q] = overtaken[q]
    BY <1>17 DEF addTimeOffset, goTo, give
  <2>3. delay' = delay /\ overtaken' = overtaken
    BY <1>17 DEF addTimeOffset
  <2>4. ASSUME ~overtaken[r]
        PROVE  IF misled'[r] THEN delay > 0 ELSE -delay <= err'[r] /\ err'[r] <= 0
    <3>1. PICK o \in offsets(r) :
            \/ give(r, 0, FALSE)
            \/ give(r, tv[r] + o - cycles[r], cpuCycle = "wrong")
      BY <1>17 DEF addTimeOffset
    <3>2. CASE give(r, 0, FALSE)
      BY <2>1, <3>2 DEF give
    <3>3. CASE give(r, tv[r] + o - cycles[r], cpuCycle = "wrong") /\ cpuCycle = "wrong"
      BY <3>3 DEF give
    <3>4. CASE give(r, tv[r] + o - cycles[r], cpuCycle = "wrong") /\ cpuCycle # "wrong"
      <4>1. misled'[r] = FALSE
        BY <3>4 DEF give
      <4>2. o = cycles[r] - tsc[idx[r]]
        BY <3>1, <3>4 DEF offsets, elapsed
      <4>3. err'[r] = t[idx[r]] - tsc[idx[r]]
        <5>1. err'[r] = tv[r] + o - cycles[r] /\ tv[r] = t[idx[r]]
          BY <2>1, <2>4, <3>4 DEF give
        <5> QED
          BY <2>1, <4>2, <5>1
      <4>4. tsc[idx[r]] # 0 /\ ~(run = "setTsc" /\ idx[r] = unused)
        BY <2>1, <2>4
      <4>5. t[idx[r]] <= tsc[idx[r]] /\ tsc[idx[r]] - t[idx[r]] <= delay
        BY <2>1, <4>4
      <4> QED
        BY <2>1, <4>1, <4>3, <4>5
    <3> QED
      BY <3>1, <3>2, <3>3, <3>4
  <2> QED
    BY <2>2, <2>3, <2>4
<1>18. CASE UNCHANGED vars
  BY <1>18 DEF vars
<1> QED
  BY <1>1, <1>2, <1>3, <1>4, <1>5, <1>6, <1>7, <1>8, <1>9, <1>10, <1>11, <1>12, <1>13, <1>14, <1>15, <1>16, <1>17, <1>18
     DEF Next, runStep, endStep, readStep

LEMMA InvInit == Init => IInv
  BY BoundsAssumption
     DEF Init, IInv, TypeOK, InstanceInv, HalvesInv, ReadersInv, ReadIsCurrent, Halves, Reading, ending, unused

LEMMA InvNext == IInv /\ [Next]_vars => IInv'
  BY TypeNext, InstanceNext, HalvesNext, ReadersNext, CurrentNext DEF IInv

\* The invariant the other results rest on.
THEOREM InductiveInvariant == Spec => []IInv
  BY InvInit, InvNext, PTL DEF Spec

\* XTimeHelper's variables keep their types.
THEOREM TypeInvariant == Spec => []TypeOK
  BY InductiveInvariant, PTL DEF IInv

\* getInstance makes one instance, whatever threads call it at once.
THEOREM OneIsMade == Spec => []OneInstance
<1>1. IInv => OneInstance
  BY DEF IInv, InstanceInv, OneInstance, TypeOK, Reading, ending
<1> QED
  BY <1>1, InductiveInvariant, PTL

\* getNow and addTimeOffset give a reader that no two refreshes overtake, and that
\* has a right length of the cycle, a time never ahead, and behind by no more than
\* the thread was held up between gettimeofday and rdtsc.
THEOREM ReadsAreCurrent == Spec => []ReadIsCurrent
  BY InductiveInvariant, PTL DEF IInv
=============================================================================
