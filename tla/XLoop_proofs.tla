---------------------------- MODULE XLoop_proofs ----------------------------
(***************************************************************************)
(* XLoop for any number of threads and calls: its types, the inductive     *)
(* invariant IInv, NoSleepWithPendingTask, and the refinement of           *)
(* Dispatcher.                                                             *)
(***************************************************************************)
EXTENDS XLoopProps, SequenceTheorems, TLAPS

USE DEF notify, readFd

Types == TypeOK /\ OwnCall

\* The two parts of the invariant that every other one rests on: the types,
\* and that a thread inside scheduleToLoopThread holds a call of its own.
LEMMA TypesInit == Init => Types
<1> SUFFICES ASSUME Init PROVE Types
  OBVIOUS
<1>1. Calls = {} /\ <<>> \in Seq(Calls) /\ <<>> \in Seq(Callers)
  BY DEF Init, Calls
<1>2. TypeOK
  BY <1>1 DEF Init, TypeOK, Phases
<1>3. OwnCall
  BY DEF Init, OwnCall
<1> QED
  BY <1>2, <1>3 DEF Types

\* What <<e>> and <<>> are, in the form the provers need.
LEMMA IsASeqOne == \A S : <<>> \in Seq(S) /\ \A e \in S : <<e>> \in Seq(S)
  BY EmptySeq

\* A longer history of calls keeps what was said of the shorter one.
LEMMA MoreCalls ==
  ASSUME TypeOK, NEW c \in Callers, by' = Append(by, c)
  PROVE  /\ by' \in Seq(Callers)
         /\ Len(by') = Len(by) + 1
         /\ Len(by) + 1 \in Calls'
         /\ Calls \subseteq Calls'
         /\ \A i \in Calls : by'[i] = by[i]
         /\ by'[Len(by) + 1] = c
         /\ \A s \in Seq(Calls) : s \in Seq(Calls')
<1>1. by \in Seq(Callers) /\ Len(by) \in Nat
  BY DEF TypeOK
<1>2. by' \in Seq(Callers) /\ Len(by') = Len(by) + 1
  BY <1>1, AppendProperties
<1>3. Len(by) + 1 \in Calls' /\ Calls \subseteq Calls'
  BY <1>1, <1>2 DEF Calls
<1>4. /\ \A i \in Calls : by'[i] = by[i]
      /\ by'[Len(by) + 1] = c
  BY <1>1, AppendProperties DEF Calls
<1>5. \A s \in Seq(Calls) : s \in Seq(Calls')
  BY <1>3, SeqMonotonic
<1> QED
  BY <1>2, <1>3, <1>4, <1>5

LEMMA TypesNext == Types /\ [Next]_vars => Types'
<1> SUFFICES ASSUME TypeOK, OwnCall, [Next]_vars PROVE Types'
  BY DEF Types
<1> USE DEF Types
<1>1. ASSUME NEW t \in Threads, scheduleEnter(t) PROVE Types'
  <2>1. t \in Callers /\ by' = Append(by, t)
    BY <1>1 DEF scheduleEnter, Callers
  <2>2. TypeOK'
    BY <1>1, <2>1, MoreCalls DEF scheduleEnter, TypeOK, listVars, loopVars, wakeVars
  <2>3. OwnCall'
    BY <1>1, <2>1, MoreCalls DEF scheduleEnter, OwnCall, TypeOK
  <2> QED
    BY <2>2, <2>3
<1>2. ASSUME NEW t \in Threads, scheduleLock(t) PROVE Types'
  <2>1. Calls' = Calls
    BY <1>2 DEF scheduleLock, Calls
  <2>2. TypeOK'
    BY <1>2, <2>1 DEF scheduleLock, TypeOK, listVars, loopVars, wakeVars
  <2>3. OwnCall'
    BY <1>2, <2>1 DEF scheduleLock, OwnCall, TypeOK
  <2> QED
    BY <2>2, <2>3
<1>3. ASSUME NEW t \in Threads, schedulePush(t) PROVE Types'
  <2>1. arg[t] \in Calls
    BY <1>3 DEF schedulePush, OwnCall
  <2>2. Calls' = Calls
    BY <1>3 DEF schedulePush, Calls
  <2>3. /\ extraEvents_' \in Seq(Calls) /\ todo' \in Seq(Calls)
        /\ shape' \in {"ok", "detached", "stale"}
    <3>1. /\ extraEvents_ \in Seq(Calls) /\ todo \in Seq(Calls)
          /\ linkAtTail(arg[t])
      BY <1>3 DEF schedulePush, TypeOK
    <3>2. /\ Append(extraEvents_, arg[t]) \in Seq(Calls)
          /\ Append(todo, arg[t]) \in Seq(Calls)
          /\ <<arg[t]>> \in Seq(Calls)
      BY <2>1, <3>1, AppendProperties, IsASeqOne
    <3> QED
      BY <3>1, <3>2 DEF linkAtTail, TypeOK
  <2>4. overlap' \in {"none", "tail", "head"}
    BY <1>3 DEF schedulePush, TypeOK
  <2>5. TypeOK'
    BY <1>3, <2>2, <2>3, <2>4 DEF schedulePush, TypeOK, loopVars, wakeVars
  <2>6. OwnCall'
    BY <1>3, <2>2 DEF schedulePush, OwnCall, TypeOK
  <2> QED
    BY <2>5, <2>6
<1>4. ASSUME NEW t \in Threads, scheduleNotify(t) PROVE Types'
  BY <1>4 DEF scheduleNotify, TypeOK, OwnCall, Calls, Callers, listVars, loopVars
<1>5. CASE scheduleInLoop
  <2>1. LoopThread \in Callers /\ by' = Append(by, LoopThread)
    BY <1>5 DEF scheduleInLoop, Callers
  <2>2. ran' \in Seq(Calls')
    BY <1>5, <2>1, MoreCalls, AppendProperties DEF scheduleInLoop, TypeOK
  <2>3. TypeOK'
    BY <1>5, <2>1, <2>2, MoreCalls DEF scheduleInLoop, TypeOK, listVars, loopVars, wakeVars, callVars
  <2>4. OwnCall'
    BY <1>5, <2>1, MoreCalls DEF scheduleInLoop, OwnCall, callVars
  <2> QED
    BY <2>3, <2>4
<1>6. CASE loopStep
  <2>1. UNCHANGED <<by, callVars>>
    BY <1>6 DEF loopStep, start, checkStop, pollReturns, iterBegin, runFunctor, iterEnd,
                clearList, triggerTimer, wakeUpCallBack
  <2>2. Calls' = Calls /\ OwnCall'
    BY <2>1 DEF Calls, OwnCall, callVars
  <2>3. TypeOK'
    <3> USE DEF TypeOK, callVars, listVars, loopVars, wakeVars, enterPhase, Phases
    <3>1. CASE start
      BY <2>2, <3>1 DEF start
    <3>6. CASE checkStop
      BY <2>2, <3>6 DEF checkStop
    <3>7. CASE pollReturns
      <4>1. woken' \in BOOLEAN
        BY <3>7 DEF pollReturns
      <4> QED
        BY <2>2, <3>7, <4>1 DEF pollReturns
    <3>2. CASE iterBegin \/ iterEnd \/ triggerTimer
      BY <2>2, <3>2 DEF iterBegin, iterEnd, triggerTimer
    <3>3. CASE runFunctor
      <4>1. Head(todo) \in Calls /\ Tail(todo) \in Seq(Calls)
        BY <3>3, HeadTailProperties DEF runFunctor
      <4>2. ran' \in Seq(Calls)
        BY <3>3, <4>1, AppendProperties DEF runFunctor
      <4> QED
        BY <2>2, <3>3, <4>1, <4>2 DEF runFunctor, loopVars
    <3>4. CASE clearList
      <4>1. extraEvents_' \in Seq(Calls) /\ shape' \in {"ok", "detached", "stale"}
        BY <3>4, IsASeqOne DEF clearList, clearOutcome
      <4> QED
        BY <2>2, <3>4, <4>1 DEF clearList
    <3>5. CASE wakeUpCallBack
      BY <2>2, <3>5 DEF wakeUpCallBack, loopVars
    <3> QED
      BY <1>6, <3>1, <3>2, <3>3, <3>4, <3>5, <3>6, <3>7 DEF loopStep
  <2> QED
    BY <2>2, <2>3
<1>7. CASE stop \/ finished \/ UNCHANGED vars
  BY <1>7 DEF stop, finished, vars, TypeOK, OwnCall, Calls, listVars, callVars, wakeVars
<1> QED
  BY <1>1, <1>2, <1>3, <1>4, <1>5, <1>6, <1>7 DEF Next, threadStep

\* Every variable keeps its type through every step of xLoop.
THEOREM TypeInvariant == Spec => []TypeOK
  BY TypesInit, TypesNext, PTL DEF Spec, Types

-----------------------------------------------------------------------------
LEMMA PendingType == TypeOK => Pending \in Seq(Calls)
  BY IsASeqOne DEF TypeOK, Pending

\* A step that calls nothing, runs nothing and leaves the pending calls alone,
\* or drops them all, keeps the order.
LEMMA KeepPending ==
  ASSUME PendingInOrder, UnpushedIsLast, UNCHANGED <<by, ran, arg>>,
         Pending' = Pending \/ Pending' = <<>>,
         \A t \in Threads : pc'[t] \in {"lock", "push"} => pc[t] \in {"lock", "push"}
  PROVE  PendingInOrder' /\ UnpushedIsLast'
<1>1. CASE Pending' = Pending
  <2>1. PendingInOrder'
    BY <1>1 DEF PendingInOrder, Precede
  <2>2. UnpushedIsLast'
    BY <1>1 DEF UnpushedIsLast
  <2> QED
    BY <2>1, <2>2
<1>2. CASE Pending' = <<>>
  <2>1. 1..Len(Pending') = {}
    BY <1>2
  <2>2. PendingInOrder'
    BY <2>1 DEF PendingInOrder, Precede
  <2>3. UnpushedIsLast'
    BY <2>1 DEF UnpushedIsLast
  <2> QED
    BY <2>2, <2>3
<1> QED
  BY <1>1, <1>2

\* push_back, on a list in any shape and in any phase of the loop thread, adds
\* the call to the pending ones, replaces them, or has no effect on them.
LEMMA PushEffect ==
  ASSUME TypeOK, OverlapInClear, NEW t \in Threads, schedulePush(t)
  PROVE  Pending' = Pending \/ Pending' = Append(Pending, arg[t]) \/ Pending' = <<arg[t]>>
<1>1. phase' = phase /\ linkAtTail(arg[t])
  BY DEF schedulePush, loopVars
<1>2. CASE phase = "iter"
  BY <1>1, <1>2 DEF Pending, linkAtTail
<1>3. CASE phase = "clear"
  <2>1. CASE overlap = "none" /\ prevIsHead
    <3>1. Pending = <<>> /\ Pending' = extraEvents_'
      BY <1>1, <1>3, <2>1 DEF Pending, schedulePush
    <3>2. extraEvents_' = <<arg[t]>> \/ extraEvents_' = Append(<<>>, arg[t])
      BY <1>1, <2>1 DEF prevIsHead, linkAtTail
    <3> QED
      BY <3>1, <3>2
  <2>2. CASE overlap = "none" /\ ~prevIsHead
    BY <1>1, <1>3, <2>2 DEF Pending, schedulePush
  <2>3. CASE overlap = "tail"
    BY <1>1, <1>3, <2>3 DEF Pending, schedulePush
  <2>4. CASE overlap = "head"
    <3>1. Pending = extraEvents_ /\ Pending' = extraEvents_'
      BY <1>1, <1>3, <2>4 DEF Pending, schedulePush
    <3> QED
      BY <1>1, <3>1 DEF linkAtTail
  <2> QED
    BY <2>1, <2>2, <2>3, <2>4 DEF TypeOK
<1>4. CASE phase \notin {"iter", "clear"}
  <2>1. Pending = extraEvents_ /\ Pending' = extraEvents_'
    BY <1>1, <1>4 DEF Pending
  <2> QED
    BY <1>1, <2>1 DEF linkAtTail
<1> QED
  BY <1>2, <1>3, <1>4

LEMMA PushOrder ==
  ASSUME Types, OrderInv, NEW t \in Threads, schedulePush(t)
  PROVE  PendingInOrder' /\ UnpushedIsLast'
<1> DEFINE i == arg[t]
<1>0. /\ TypeOK /\ OwnCall /\ PendingInOrder /\ UnpushedIsLast /\ OverlapInClear
  BY DEF Types, OrderInv
<1>1. /\ UNCHANGED <<by, ran, arg>>
      /\ \A u \in Threads : pc'[u] \in {"lock", "push"} => pc[u] \in {"lock", "push"} /\ u # t
  BY <1>0 DEF schedulePush, TypeOK
<1>2. /\ i \in Calls /\ by[i] = t
      /\ \A m \in 1..Len(ran) : by[ran[m]] = t => ran[m] < i
      /\ \A n \in 1..Len(Pending) : by[Pending[n]] = t => Pending[n] < i
  BY <1>0 DEF schedulePush, OwnCall, UnpushedIsLast
<1>3. Pending \in Seq(Calls)
  BY <1>0, PendingType
<1>4. CASE Pending' = Pending
  BY <1>0, <1>1, <1>4, KeepPending
<1>5. CASE Pending' = Append(Pending, i)
  <2> DEFINE P == Pending
             Q == Pending'
  <2>1. /\ Len(Q) = Len(P) + 1 /\ Len(P) \in Nat
        /\ \A n \in 1..Len(P) : Q[n] = P[n]
        /\ Q[Len(P) + 1] = i
        /\ \A n \in 1..Len(Q) : n \in 1..Len(P) \/ n = Len(P) + 1
    BY <1>2, <1>3, <1>5, AppendProperties, LenProperties
  <2> HIDE DEF P, Q, i
  <2>2. /\ \A n \in 1..Len(P) : by[P[n]] \in Threads
        /\ \A m, n \in 1..Len(P) : m < n /\ by[P[m]] = by[P[n]] => P[m] < P[n]
        /\ \A m \in 1..Len(ran), n \in 1..Len(P) : by[ran[m]] = by[P[n]] => ran[m] < P[n]
    BY <1>0 DEF PendingInOrder, Precede, P
  <2>3. \A n \in 1..Len(Q) : by[Q[n]] \in Threads
    BY <1>2, <2>1, <2>2
  <2>4. \A m, n \in 1..Len(Q) : m < n /\ by[Q[m]] = by[Q[n]] => Q[m] < Q[n]
    <3> SUFFICES ASSUME NEW m \in 1..Len(Q), NEW n \in 1..Len(Q), m < n, by[Q[m]] = by[Q[n]]
                 PROVE  Q[m] < Q[n]
      OBVIOUS
    <3>1. m \in 1..Len(P)
      BY <2>1
    <3>2. CASE n \in 1..Len(P)
      BY <2>1, <2>2, <3>1, <3>2
    <3>3. CASE n = Len(P) + 1
      BY <1>2, <2>1, <3>1, <3>3 DEF P
    <3> QED
      BY <2>1, <3>2, <3>3
  <2>5. \A m \in 1..Len(ran), n \in 1..Len(Q) : by[ran[m]] = by[Q[n]] => ran[m] < Q[n]
    BY <1>2, <2>1, <2>2
  <2>6. PendingInOrder'
    BY <1>1, <2>3, <2>4, <2>5 DEF PendingInOrder, Precede, Q
  <2>7. \A u \in Threads : pc'[u] \in {"lock", "push"} =>
           \A n \in 1..Len(Q) : by[Q[n]] = u => Q[n] < arg[u]
    BY <1>0, <1>1, <1>2, <2>1 DEF UnpushedIsLast, P
  <2>8. UnpushedIsLast'
    BY <1>0, <1>1, <2>7 DEF UnpushedIsLast, Q
  <2> QED
    BY <2>6, <2>8
<1>6. CASE Pending' = <<i>>
  <2>1. Len(Pending') = 1 /\ \A n \in 1..Len(Pending') : Pending'[n] = i
    BY <1>6
  <2>2. PendingInOrder'
    BY <1>1, <1>2, <2>1 DEF PendingInOrder, Precede
  <2>3. UnpushedIsLast'
    BY <1>0, <1>1, <1>2, <2>1 DEF UnpushedIsLast
  <2> QED
    BY <2>2, <2>3
<1> QED
  BY <1>0, <1>4, <1>5, <1>6, PushEffect

\* The walk runs the first pending call: it comes after all that ran.
LEMMA RunOrder ==
  ASSUME Types, OrderInv, runFunctor
  PROVE  PendingInOrder' /\ UnpushedIsLast'
<1>0. /\ TypeOK /\ PendingInOrder /\ UnpushedIsLast
      /\ todo \in Seq(Calls) /\ todo # <<>> /\ ran \in Seq(Calls)
      /\ Pending = todo /\ Pending' = Tail(todo) /\ ran' = Append(ran, Head(todo))
      /\ UNCHANGED <<by, pc, arg>>
  BY DEF Types, OrderInv, TypeOK, runFunctor, Pending, loopVars, callVars
<1> DEFINE P == Pending
           Q == Pending'
<1>1. /\ Len(P) \in Nat /\ Len(P) > 0 /\ Len(Q) = Len(P) - 1
      /\ \A n \in 1..Len(Q) : Q[n] = P[n + 1] /\ n + 1 \in 1..Len(P)
      /\ Head(todo) = P[1] /\ P[1] \in Calls
      /\ \A n \in 1..Len(P) : P[n] \in Nat
  BY <1>0, HeadTailProperties, ElementOfSeq, LenProperties DEF Calls
<1>2. /\ Len(ran) \in Nat /\ Len(ran') = Len(ran) + 1
      /\ \A m \in 1..Len(ran) : ran'[m] = ran[m]
      /\ ran'[Len(ran) + 1] = P[1]
      /\ \A m \in 1..Len(ran') : m \in 1..Len(ran) \/ m = Len(ran) + 1
  BY <1>0, <1>1, AppendProperties, LenProperties
<1>3. /\ \A n \in 1..Len(P) : by[P[n]] \in Threads
      /\ \A m, n \in 1..Len(P) : m < n /\ by[P[m]] = by[P[n]] => P[m] < P[n]
      /\ \A m \in 1..Len(ran), n \in 1..Len(P) : by[ran[m]] = by[P[n]] => ran[m] < P[n]
  BY <1>0 DEF PendingInOrder, Precede
<1> HIDE DEF P, Q
<1>4. \A n \in 1..Len(Q) : by[Q[n]] \in Threads
  BY <1>1, <1>3
<1>5. \A m, n \in 1..Len(Q) : m < n /\ by[Q[m]] = by[Q[n]] => Q[m] < Q[n]
  <2> SUFFICES ASSUME NEW m \in 1..Len(Q), NEW n \in 1..Len(Q), m < n, by[Q[m]] = by[Q[n]]
               PROVE  Q[m] < Q[n]
    OBVIOUS
  <2>1. /\ Q[m] = P[m + 1] /\ m + 1 \in 1..Len(P)
        /\ Q[n] = P[n + 1] /\ n + 1 \in 1..Len(P)
        /\ m + 1 < n + 1
    BY <1>1
  <2> QED
    BY <1>3, <2>1
<1>6. \A m \in 1..Len(ran'), n \in 1..Len(Q) : by[ran'[m]] = by[Q[n]] => ran'[m] < Q[n]
  <2> SUFFICES ASSUME NEW m \in 1..Len(ran'), NEW n \in 1..Len(Q), by[ran'[m]] = by[Q[n]]
               PROVE  ran'[m] < Q[n]
    OBVIOUS
  <2>1. Q[n] = P[n + 1] /\ n + 1 \in 1..Len(P) /\ 1 \in 1..Len(P) /\ 1 < n + 1
    BY <1>1
  <2>2. CASE m \in 1..Len(ran)
    BY <1>2, <1>3, <2>1, <2>2
  <2>3. CASE m = Len(ran) + 1
    BY <1>2, <1>3, <2>1, <2>3
  <2> QED
    BY <1>2, <2>2, <2>3
<1>7. PendingInOrder'
  BY <1>0, <1>4, <1>5, <1>6 DEF PendingInOrder, Precede, Q
<1>8. ASSUME NEW t \in Threads, pc[t] \in {"lock", "push"}
      PROVE  /\ \A m \in 1..Len(ran') : by[ran'[m]] = t => ran'[m] < arg[t]
             /\ \A n \in 1..Len(Q) : by[Q[n]] = t => Q[n] < arg[t]
  <2>1. /\ \A m \in 1..Len(ran) : by[ran[m]] = t => ran[m] < arg[t]
        /\ \A n \in 1..Len(P) : by[P[n]] = t => P[n] < arg[t]
    BY <1>0, <1>8 DEF UnpushedIsLast, P
  <2>2. 1 \in 1..Len(P)
    BY <1>1
  <2> QED
    BY <1>1, <1>2, <2>1, <2>2
<1>9. UnpushedIsLast'
  BY <1>0, <1>8 DEF UnpushedIsLast, Q
<1> QED
  BY <1>7, <1>9

\* A new call, by whoever: it is younger than all others.
LEMMA EnterOrder ==
  ASSUME Types, OrderInv, NEW t \in Threads, scheduleEnter(t)
  PROVE  PendingInOrder' /\ UnpushedIsLast'
<1>0. /\ TypeOK /\ PendingInOrder /\ UnpushedIsLast /\ OwnCall
      /\ Pending' = Pending /\ UNCHANGED ran /\ ran \in Seq(Calls) /\ by' = Append(by, t)
      /\ Len(by) \in Nat /\ t \in Callers
  BY DEF Types, OrderInv, TypeOK, scheduleEnter, Pending, loopVars, listVars, Callers
<1>1. Pending \in Seq(Calls)
  BY <1>0, PendingType
<1>2. \A n \in 1..Len(Pending) : /\ Pending[n] \in Calls /\ by'[Pending[n]] = by[Pending[n]]
                                  /\ Pending[n] < Len(by) + 1
  BY <1>0, <1>1, ElementOfSeq, MoreCalls DEF Calls
<1>3. \A m \in 1..Len(ran) : /\ ran[m] \in Calls /\ by'[ran[m]] = by[ran[m]]
                              /\ ran[m] < Len(by) + 1
  BY <1>0, ElementOfSeq, MoreCalls DEF Calls
<1>4. PendingInOrder'
  <2>1. \A n \in 1..Len(Pending) : by'[Pending[n]] \in Threads
    BY <1>0, <1>2 DEF PendingInOrder
  <2>2. \A m, n \in 1..Len(Pending) :
           m < n /\ by'[Pending[m]] = by'[Pending[n]] => Pending[m] < Pending[n]
    BY <1>0, <1>2 DEF PendingInOrder
  <2>3. \A m \in 1..Len(ran), n \in 1..Len(Pending) :
           by'[ran[m]] = by'[Pending[n]] => ran[m] < Pending[n]
    BY <1>0, <1>2, <1>3 DEF PendingInOrder, Precede
  <2> QED
    BY <1>0, <2>1, <2>2, <2>3 DEF PendingInOrder, Precede
<1>5. ASSUME NEW u \in Threads, pc'[u] \in {"lock", "push"}
      PROVE  /\ \A m \in 1..Len(ran) : by'[ran[m]] = u => ran[m] < arg'[u]
             /\ \A n \in 1..Len(Pending) : by'[Pending[n]] = u => Pending[n] < arg'[u]
  <2>1. CASE u = t
    BY <1>2, <1>3, <2>1 DEF scheduleEnter, Types, TypeOK
  <2>2. CASE u # t
    <3>1. pc[u] \in {"lock", "push"} /\ arg'[u] = arg[u]
      BY <1>0, <1>5, <2>2 DEF scheduleEnter, TypeOK
    <3> QED
      BY <1>0, <1>2, <1>3, <3>1 DEF UnpushedIsLast
  <2> QED
    BY <2>1, <2>2
<1>6. UnpushedIsLast'
  BY <1>0, <1>5 DEF UnpushedIsLast
<1> QED
  BY <1>4, <1>6

\* A call on the loop thread runs at once: no pending call is the loop's own.
LEMMA InLoopOrder ==
  ASSUME Types, OrderInv, scheduleInLoop
  PROVE  PendingInOrder' /\ UnpushedIsLast'
<1>0. /\ TypeOK /\ PendingInOrder /\ UnpushedIsLast /\ OwnCall
      /\ Pending' = Pending /\ ran \in Seq(Calls)
      /\ by' = Append(by, LoopThread) /\ ran' = Append(ran, Len(by) + 1)
      /\ Len(by) \in Nat /\ LoopThread \in Callers
      /\ UNCHANGED <<pc, arg>>
  BY DEF Types, OrderInv, TypeOK, scheduleInLoop, Pending, loopVars, listVars, callVars, Callers
<1>1. Pending \in Seq(Calls)
  BY <1>0, PendingType
<1>2. \A n \in 1..Len(Pending) : Pending[n] \in Calls /\ by'[Pending[n]] = by[Pending[n]]
  BY <1>0, <1>1, ElementOfSeq, MoreCalls
<1>3. \A m \in 1..Len(ran) : ran[m] \in Calls /\ by'[ran[m]] = by[ran[m]]
  BY <1>0, ElementOfSeq, MoreCalls
<1>4. \A m \in 1..Len(ran') : \/ m \in 1..Len(ran) /\ ran'[m] = ran[m]
                              \/ by'[ran'[m]] = LoopThread
  <2>1. by'[Len(by) + 1] = LoopThread /\ Len(by) + 1 \in Nat /\ ran \in Seq(Nat)
    BY <1>0, MoreCalls, SeqMonotonic DEF Calls
  <2>2. /\ Len(ran') = Len(ran) + 1 /\ Len(ran) \in Nat
        /\ \A m \in 1..Len(ran) : ran'[m] = ran[m]
        /\ ran'[Len(ran) + 1] = Len(by) + 1
    BY <1>0, <2>1, AppendProperties, LenProperties
  <2>3. \A m \in 1..Len(ran') : m \in 1..Len(ran) \/ m = Len(ran) + 1
    BY <2>2
  <2> TAKE m \in 1..Len(ran')
  <2>4. CASE m \in 1..Len(ran)
    BY <2>2, <2>4
  <2>5. CASE m = Len(ran) + 1
    BY <2>1, <2>2, <2>5
  <2> QED
    BY <2>3, <2>4, <2>5
<1>5. PendingInOrder'
  <2>1. \A n \in 1..Len(Pending) : by'[Pending[n]] \in Threads
    BY <1>0, <1>2 DEF PendingInOrder
  <2>2. \A m, n \in 1..Len(Pending) :
           m < n /\ by'[Pending[m]] = by'[Pending[n]] => Pending[m] < Pending[n]
    BY <1>0, <1>2 DEF PendingInOrder
  <2>3. \A m \in 1..Len(ran'), n \in 1..Len(Pending) :
           by'[ran'[m]] = by'[Pending[n]] => ran'[m] < Pending[n]
    <3> SUFFICES ASSUME NEW m \in 1..Len(ran'), NEW n \in 1..Len(Pending),
                        by'[ran'[m]] = by'[Pending[n]]
                 PROVE  ran'[m] < Pending[n]
      OBVIOUS
    <3>1. by'[ran'[m]] # LoopThread
      BY <2>1, ThreadsAssumption
    <3>2. m \in 1..Len(ran) /\ ran'[m] = ran[m]
      BY <1>4, <3>1
    <3>3. by[ran[m]] = by[Pending[n]]
      BY <1>2, <1>3, <3>2
    <3> QED
      BY <1>0, <3>2, <3>3 DEF PendingInOrder, Precede
  <2> QED
    BY <1>0, <2>1, <2>2, <2>3 DEF PendingInOrder, Precede
<1>6. UnpushedIsLast'
  <2>1. ASSUME NEW t \in Threads, pc[t] \in {"lock", "push"}
        PROVE  /\ \A m \in 1..Len(ran') : by'[ran'[m]] = t => ran'[m] < arg[t]
               /\ \A n \in 1..Len(Pending) : by'[Pending[n]] = t => Pending[n] < arg[t]
    <3>1. /\ \A m \in 1..Len(ran) : by[ran[m]] = t => ran[m] < arg[t]
          /\ \A n \in 1..Len(Pending) : by[Pending[n]] = t => Pending[n] < arg[t]
      BY <1>0, <2>1 DEF UnpushedIsLast
    <3>2. t # LoopThread
      BY ThreadsAssumption
    <3> QED
      BY <1>2, <1>3, <1>4, <3>1, <3>2
  <2> QED
    BY <1>0, <2>1 DEF UnpushedIsLast
<1> QED
  BY <1>5, <1>6

LEMMA OrderInit == Init => OrderInv
<1> SUFFICES ASSUME Init PROVE OrderInv
  OBVIOUS
<1>1. Pending = <<>> /\ ran = <<>> /\ overlap = "none"
  BY DEF Init, Pending
<1>2. PendingInOrder
  BY <1>1 DEF PendingInOrder, Precede
<1>3. OwnCall /\ UnpushedIsLast
  BY DEF Init, OwnCall, UnpushedIsLast
<1> QED
  BY <1>1, <1>2, <1>3 DEF OrderInv, OverlapInClear

LEMMA OrderNext == Types /\ OrderInv /\ [Next]_vars => OrderInv'
<1> SUFFICES ASSUME Types, OrderInv, [Next]_vars PROVE OrderInv'
  OBVIOUS
<1>0. OwnCall'
  BY TypesNext DEF Types
<1>1. TypeOK /\ PendingInOrder /\ UnpushedIsLast /\ OverlapInClear
  BY DEF OrderInv, Types
<1>2. OverlapInClear'
  <2>1. ASSUME NEW t \in Threads, scheduleEnter(t) \/ threadStep(t) PROVE OverlapInClear'
    BY <1>1, <2>1 DEF threadStep, scheduleEnter, scheduleLock, schedulePush, scheduleNotify,
                      OverlapInClear, listVars, loopVars
  <2>2. CASE loopStep
    BY <1>1, <2>2 DEF loopStep, start, checkStop, pollReturns, iterBegin, runFunctor, iterEnd,
       clearList, triggerTimer, wakeUpCallBack, enterPhase, OverlapInClear, listVars, loopVars
  <2> QED
    BY <1>1, <2>1, <2>2 DEF Next, scheduleInLoop, stop, finished, vars, OverlapInClear,
                            listVars, loopVars
<1>3. PendingInOrder' /\ UnpushedIsLast'
  <2>1. ASSUME NEW t \in Threads, scheduleEnter(t) PROVE PendingInOrder' /\ UnpushedIsLast'
    BY <2>1, EnterOrder
  <2>2. ASSUME NEW t \in Threads, scheduleLock(t) \/ scheduleNotify(t)
        PROVE  PendingInOrder' /\ UnpushedIsLast'
    <3>1. UNCHANGED <<by, ran, arg>> /\ Pending' = Pending
      BY <2>2 DEF scheduleLock, scheduleNotify, Pending, listVars, loopVars
    <3>2. \A u \in Threads : pc'[u] \in {"lock", "push"} => pc[u] \in {"lock", "push"}
      BY <1>1, <2>2 DEF scheduleLock, scheduleNotify, TypeOK
    <3> QED
      BY <1>1, <3>1, <3>2, KeepPending
  <2>3. ASSUME NEW t \in Threads, schedulePush(t) PROVE PendingInOrder' /\ UnpushedIsLast'
    BY <2>3, PushOrder
  <2>4. CASE scheduleInLoop
    BY <2>4, InLoopOrder
  <2>5. CASE runFunctor
    BY <2>5, RunOrder
  <2>6. CASE start \/ checkStop \/ pollReturns \/ wakeUpCallBack \/ iterBegin \/ iterEnd
             \/ clearList \/ triggerTimer \/ stop \/ finished \/ UNCHANGED vars
    <3>1. UNCHANGED <<by, ran, arg, pc>>
      BY <2>6 DEF start, checkStop, pollReturns, wakeUpCallBack, iterBegin, iterEnd, clearList,
                  triggerTimer, stop, finished, vars, callVars
    <3>2. Pending' = Pending \/ Pending' = <<>>
      <4>1. CASE start \/ checkStop \/ pollReturns \/ wakeUpCallBack \/ triggerTimer
                 \/ stop \/ finished \/ UNCHANGED vars
        BY <4>1 DEF start, checkStop, pollReturns, wakeUpCallBack, triggerTimer, stop, finished,
                    vars, enterPhase, listVars, loopVars, Pending
      <4>2. CASE iterBegin
        BY <4>2 DEF iterBegin, enterPhase, Pending
      <4>3. CASE iterEnd
        BY <1>1, <4>3 DEF iterEnd, enterPhase, Pending, OverlapInClear, listVars
      <4>4. CASE clearList
        BY <4>4 DEF clearList, clearOutcome, enterPhase, Pending
      <4> QED
        BY <2>6, <4>1, <4>2, <4>3, <4>4
    <3> QED
      BY <1>1, <3>1, <3>2, KeepPending
  <2> QED
    BY <2>1, <2>2, <2>3, <2>4, <2>5, <2>6 DEF Next, threadStep, loopStep
<1> QED
  BY <1>0, <1>2, <1>3 DEF OrderInv

-----------------------------------------------------------------------------
\* The loop thread empties the eventfd only before its walk, so whatever is in
\* the list after the walk still has its notify to come or to be seen.
LEMMA AwakeInit == Init => AwakeInv
  BY DEF Init, AwakeInv

LEMMA AwakeNext == Types /\ OrderInv /\ AwakeInv /\ [Next]_vars => AwakeInv'
<1> SUFFICES ASSUME Types, OrderInv, AwakeInv, [Next]_vars PROVE AwakeInv'
  OBVIOUS
<1>0. TypeOK /\ OverlapInClear
  BY DEF Types, OrderInv
<1> USE DEF AwakeInv, Awake, listVars, loopVars, wakeVars, callVars, enterPhase
<1>1. ASSUME NEW t \in Threads, scheduleEnter(t) PROVE AwakeInv'
  <2>1. Awake => Awake'
    BY <1>0, <1>1 DEF scheduleEnter, TypeOK
  <2> QED
    BY <1>1, <2>1 DEF scheduleEnter
<1>2. ASSUME NEW t \in Threads, scheduleLock(t) PROVE AwakeInv'
  <2>1. Awake => Awake'
    BY <1>0, <1>2 DEF scheduleLock, TypeOK
  <2> QED
    BY <1>2, <2>1 DEF scheduleLock
<1>3. ASSUME NEW t \in Threads, schedulePush(t) PROVE AwakeInv'
  <2>1. pc'[t] = "notify"
    BY <1>0, <1>3 DEF schedulePush, TypeOK
  <2> QED
    BY <2>1
<1>4. ASSUME NEW t \in Threads, scheduleNotify(t) PROVE AwakeInv'
  <2>1. wakeupFd_' > 0
    BY <1>0, <1>4 DEF scheduleNotify, TypeOK
  <2> QED
    BY <2>1
<1>5. CASE scheduleInLoop \/ stop \/ finished \/ UNCHANGED vars
  BY <1>5 DEF scheduleInLoop, stop, finished, vars
<1>6. CASE loopStep
  <2>1. CASE start \/ checkStop \/ triggerTimer
    BY <2>1 DEF start, checkStop, triggerTimer
  <2>2. CASE pollReturns \/ wakeUpCallBack \/ iterBegin \/ runFunctor
    BY <2>2 DEF pollReturns, wakeUpCallBack, iterBegin, runFunctor
  <2>3. CASE iterEnd
    BY <1>0, <2>3 DEF iterEnd, OverlapInClear
  <2>4. CASE clearList
    BY <2>4 DEF clearList, clearOutcome
  <2> QED
    BY <1>6, <2>1, <2>2, <2>3, <2>4 DEF loopStep
<1> QED
  BY <1>1, <1>2, <1>3, <1>4, <1>5, <1>6 DEF Next, threadStep

\* The whole invariant.
THEOREM InductiveInvariant == Spec => []IInv
<1>1. Init => Types /\ OrderInv /\ AwakeInv
  BY TypesInit, OrderInit, AwakeInit
<1>2. Types /\ OrderInv /\ AwakeInv /\ [Next]_vars => (Types /\ OrderInv /\ AwakeInv)'
  BY TypesNext, OrderNext, AwakeNext
<1>3. Types /\ OrderInv /\ AwakeInv => IInv
  BY DEF Types, IInv
<1> QED
  BY <1>1, <1>2, <1>3, PTL DEF Spec

\* epoll_wait is never entered with a functor in the list and nothing to wake
\* it: the race on extraEvents_ may lose a functor, never strand one.
THEOREM NoSleep == Spec => []NoSleepWithPendingTask
<1>1. IInv => NoSleepWithPendingTask
  BY DEF IInv, AwakeInv, NoSleepWithPendingTask
<1> QED
  BY <1>1, InductiveInvariant, PTL

\* Every step of the loop and its callers is a step of Dispatcher or changes
\* nothing it sees: at most once, and in order caller by caller.
THEOREM ImplementsDispatcher == Spec => DispatcherSpec
<1>1. Init => D!Init
  BY DEF Init, D!Init
<1>2. IInv /\ [Next]_vars => [D!Next]_(D!dvars)
  <2> SUFFICES ASSUME IInv, [Next]_vars PROVE D!Next \/ UNCHANGED D!dvars
    OBVIOUS
  <2>1. ASSUME NEW t \in Threads, scheduleEnter(t) PROVE D!Next
    <3>1. t \in Callers /\ D!Call(t)
      BY <2>1 DEF scheduleEnter, Callers, D!Call
    <3> QED
      BY <3>1 DEF D!Next
  <2>2. CASE scheduleInLoop
    BY <2>2 DEF scheduleInLoop, D!Next, D!CallAndRun
  <2>3. CASE runFunctor
    <3> DEFINE i == Head(todo)
    <3>1. /\ todo \in Seq(Calls) /\ todo # <<>> /\ ran \in Seq(Calls)
          /\ Pending = todo /\ Precede(ran, Pending)
          /\ ran' = Append(ran, i) /\ UNCHANGED by
      BY <2>3 DEF IInv, OrderInv, PendingInOrder, TypeOK, runFunctor, Pending
    <3>2. 1 \in 1..Len(todo) /\ i = todo[1] /\ i \in Calls
      BY <3>1, HeadTailProperties, ElementOfSeq, LenProperties
    <3>3. \A m \in 1..Len(ran) : by[ran[m]] = by[i] => ran[m] < i
      BY <3>1, <3>2 DEF Precede
    <3>4. D!MayRun(i)
      BY <3>2, <3>3 DEF D!MayRun, D!Ran, Calls
    <3>5. D!Run(i) /\ i \in D!Calls
      BY <3>1, <3>2, <3>4 DEF D!Run, D!Calls, Calls
    <3> QED
      BY <3>5 DEF D!Next
  <2>4. ASSUME NEW t \in Threads, threadStep(t) PROVE UNCHANGED D!dvars
    BY <2>4 DEF threadStep, scheduleLock, schedulePush, scheduleNotify, D!dvars
  <2>5. CASE loopStep /\ ~runFunctor
    BY <2>5 DEF loopStep, start, checkStop, pollReturns, wakeUpCallBack, iterBegin, iterEnd,
                clearList, triggerTimer, D!dvars
  <2>6. CASE stop \/ finished \/ UNCHANGED vars
    BY <2>6 DEF stop, finished, vars, D!dvars
  <2> QED
    BY <2>1, <2>2, <2>3, <2>4, <2>5, <2>6 DEF Next
<1> QED
  BY <1>1, <1>2, InductiveInvariant, PTL DEF Spec, DispatcherSpec, D!Spec
=============================================================================
