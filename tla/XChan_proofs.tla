---------------------------- MODULE XChan_proofs ----------------------------
(***************************************************************************)
(* XChan for any producers and consumers, any waiting times, signal(),     *)
(* clear() and spurious wake-ups: the element count, no lost wake-up, the  *)
(* assertion of pop_front, and the refinement of Channel.                  *)
(***************************************************************************)
EXTENDS XChanProps, SequenceTheorems, FiniteSetTheorems, TLAPS

LEMMA CountingFinite == IsFiniteSet(Counting) /\ Cardinality(Counting) \in Nat
  BY ProducersAssumption, FS_Subset, FS_CardinalityType DEF Counting

\* A push that begins is one more to be counted, one that links one less.
LEMMA CountBegin ==
  ASSUME NEW p \in Producers, TypeOK, pushIncr(p)
  PROVE  Cardinality(Counting') = Cardinality(Counting) + 1
<1>1. Counting' = Counting \cup {p} /\ p \notin Counting
  BY DEF Counting, TypeOK, pushIncr, incr, getAndAdd
<1> QED
  BY <1>1, CountingFinite, FS_AddElement

LEMMA CountLink ==
  ASSUME NEW p \in Producers, TypeOK, pushLink(p)
  PROVE  Cardinality(Counting') = Cardinality(Counting) - 1
<1>1. Counting' = Counting \ {p} /\ p \in Counting
  BY DEF Counting, TypeOK, pushLink
<1> QED
  BY <1>1, CountingFinite, FS_RemoveElement

\* What both ends of a push do to the queue.
LEMMA QueueLink ==
  ASSUME NEW p \in Producers, TypeOK, pushLink(p)
  PROVE  /\ item[p] \in Items
         /\ queue_' \in Seq(Items)
         /\ Len(queue_') = Len(queue_) + 1
<1>1. item[p] \in Items /\ queue_ \in Seq(Items) /\ Len(queue_) \in Nat
  BY DEF TypeOK, pushLink
<1>2. <<item[p]>> \in Seq(Items) /\ Len(<<item[p]>>) = 1
  BY <1>1
<1>3. CASE queue_' = Append(queue_, item[p])
  BY <1>1, <1>3, AppendProperties
<1>4. CASE queue_' = <<item[p]>> \o queue_
  <2>1. /\ <<item[p]>> \o queue_ \in Seq(Items)
        /\ Len(<<item[p]>> \o queue_) = 1 + Len(queue_)
    BY <1>1, <1>2, ConcatProperties
  <2> QED
    BY <1>1, <1>4, <2>1
<1> QED
  BY <1>1, <1>3, <1>4 DEF pushLink

\* What appending, prepending and taking do to the elements of a sequence.
LEMMA ElementsAppend ==
  ASSUME NEW S, NEW s \in Seq(S), NEW i \in S
  PROVE  /\ Elements(Append(s, i)) = Elements(s) \cup {i}
         /\ Elements(<<i>> \o s) = Elements(s) \cup {i}
<1>1. /\ Len(Append(s, i)) = Len(s) + 1 /\ Len(s) \in Nat
      /\ \A n \in 1..(Len(s) + 1) : Append(s, i)[n] = IF n <= Len(s) THEN s[n] ELSE i
  BY AppendProperties
<1>2. <<i>> \in Seq(S) /\ Len(<<i>>) = 1 /\ <<i>>[1] = i
  OBVIOUS
<1>3. /\ Len(<<i>> \o s) = Len(s) + 1
      /\ \A n \in 1..(Len(s) + 1) : (<<i>> \o s)[n] = IF n <= 1 THEN i ELSE s[n - 1]
  BY <1>1, <1>2, ConcatProperties
<1>4. Elements(Append(s, i)) = Elements(s) \cup {i}
  <2>1. Len(s) + 1 \in 1..(Len(s) + 1) /\ Append(s, i)[Len(s) + 1] = i
    BY <1>1
  <2>2. \A n \in 1..Len(s) : n \in 1..(Len(s) + 1) /\ Append(s, i)[n] = s[n]
    BY <1>1
  <2>3. \A n \in 1..(Len(s) + 1) : n \in 1..Len(s) \/ n = Len(s) + 1
    BY <1>1
  <2>4. Elements(Append(s, i)) \subseteq Elements(s) \cup {i}
    BY <1>1, <2>1, <2>2, <2>3 DEF Elements
  <2>5. Elements(s) \cup {i} \subseteq Elements(Append(s, i))
    BY <1>1, <2>1, <2>2 DEF Elements
  <2> QED
    BY <2>4, <2>5
<1>5. Elements(<<i>> \o s) \subseteq Elements(s) \cup {i}
  BY <1>1, <1>3 DEF Elements
<1>6. i \in Elements(<<i>> \o s)
  BY <1>1, <1>3 DEF Elements
<1>7. ASSUME NEW n \in 1..Len(s) PROVE s[n] \in Elements(<<i>> \o s)
  <2>1. n + 1 \in 1..(Len(s) + 1) /\ (<<i>> \o s)[n + 1] = s[n]
    BY <1>1, <1>3
  <2> QED
    BY <1>3, <2>1 DEF Elements
<1> QED
  BY <1>4, <1>5, <1>6, <1>7 DEF Elements

LEMMA ElementsTake ==
  ASSUME NEW S, NEW s \in Seq(S), s # <<>>
  PROVE  Elements(s) = Elements(Tail(s)) \cup {Head(s)}
<1>1. /\ Len(s) \in Nat /\ Len(s) > 0 /\ Head(s) = s[1] /\ Len(Tail(s)) = Len(s) - 1
      /\ \A n \in 1..(Len(s) - 1) : Tail(s)[n] = s[n + 1]
  BY HeadTailProperties, EmptySeq
<1>2. ASSUME NEW n \in 1..Len(s), n # 1 PROVE s[n] \in Elements(Tail(s))
  <2>1. n - 1 \in 1..(Len(s) - 1) /\ Tail(s)[n - 1] = s[n]
    BY <1>1, <1>2
  <2> QED
    BY <1>1, <2>1 DEF Elements
<1>3. \A n \in 1..(Len(s) - 1) : n + 1 \in 1..Len(s)
  BY <1>1
<1> QED
  BY <1>1, <1>2, <1>3 DEF Elements

\* What the locked part of pop_front does: the count follows the queue, the
\* element changes sides, and the assertion can only fail after a clear().
LEMMA TakeEffect ==
  ASSUME NEW c \in Consumers, Accounting, takeFront(c), UNCHANGED cleared
  PROVE  /\ aborted' \in BOOLEAN /\ (~cleared => ~aborted')
         /\ queue_' \in Seq(Items) /\ size_' \in Int /\ size_' >= 0
         /\ popped' \in Seq(Items)
         /\ res' \in [Consumers -> {"none", "data", "nodata"}]
         /\ size_' - Len(queue_') = size_ - Len(queue_)
         /\ queue_ = <<>> => queue_' = <<>>
         /\ Elements(queue_') \cup Elements(popped') = Elements(queue_) \cup Elements(popped)
<1>0. /\ queue_ \in Seq(Items) /\ size_ \in Int /\ Len(queue_) \in Nat /\ aborted \in BOOLEAN
      /\ popped \in Seq(Items) /\ res \in [Consumers -> {"none", "data", "nodata"}]
      /\ ~cleared => size_ = Len(queue_) + Cardinality(Counting) /\ ~aborted
      /\ size_ >= 0 /\ Cardinality(Counting) \in Nat
  BY CountingFinite DEF Accounting, TypeOK, SizeAccounting
<1>1. CASE queue_ = <<>>
  BY <1>0, <1>1 DEF takeFront, decr, getAndAdd
<1>2. CASE queue_ # <<>>
  <2>1. /\ Head(queue_) \in Items /\ Tail(queue_) \in Seq(Items)
        /\ Len(Tail(queue_)) = Len(queue_) - 1 /\ Len(queue_) > 0
    BY <1>0, <1>2, HeadTailProperties, EmptySeq
  <2>2. CASE size_ <= 0
    <3>1. /\ aborted' = TRUE /\ UNCHANGED <<queue_, size_, popped, res>>
      BY <1>0, <1>2, <2>2 DEF takeFront, decr, getAndAdd
    <3>2. cleared
      <4>1. ~(size_ = Len(queue_) + Cardinality(Counting))
        BY <1>0, <2>1, <2>2
      <4> QED
        BY <1>0, <4>1
    <3> QED
      BY <1>0, <1>2, <3>1, <3>2
  <2>3. CASE size_ > 0
    <3>1. /\ size_' = size_ - 1 /\ queue_' = Tail(queue_) /\ UNCHANGED aborted
          /\ popped' = Append(popped, Head(queue_)) /\ res' = [res EXCEPT ![c] = "data"]
      BY <1>0, <1>2, <2>3 DEF takeFront, decr, getAndAdd
    <3>2. popped' \in Seq(Items)
      BY <1>0, <2>1, <3>1, AppendProperties
    <3>3. /\ Elements(queue_) = Elements(queue_') \cup {Head(queue_)}
          /\ Elements(popped') = Elements(popped) \cup {Head(queue_)}
      <4>1. Elements(queue_) = Elements(Tail(queue_)) \cup {Head(queue_)}
        BY <1>0, <1>2, ElementsTake
      <4>2. /\ Elements(Append(popped, Head(queue_))) = Elements(popped) \cup {Head(queue_)}
            /\ Elements(<<Head(queue_)>> \o popped) = Elements(popped) \cup {Head(queue_)}
        <5>1. popped \in Seq(Items) /\ Head(queue_) \in Items
          BY <1>0, <2>1
        <5> QED
          BY <5>1, ElementsAppend
      <4>3. queue_' = Tail(queue_) /\ popped' = Append(popped, Head(queue_))
        BY <3>1
      <4>4. Elements(queue_') = Elements(Tail(queue_))
        BY <4>3 DEF Elements
      <4>5. Elements(popped') = Elements(Append(popped, Head(queue_)))
        BY <4>3 DEF Elements
      <4> QED
        BY <4>1, <4>2, <4>4, <4>5
    <3> QED
      BY <1>0, <1>2, <2>1, <2>3, <3>1, <3>2, <3>3
  <2> QED
    BY <1>0, <2>2, <2>3
<1> QED
  BY <1>1, <1>2

LEMMA AccountingInit == Init => Accounting
<1> SUFFICES ASSUME Init PROVE Accounting
  OBVIOUS
<1>1. Counting = {} /\ Cardinality(Counting) = 0
  BY FS_EmptySet DEF Init, Counting
<1>2. <<>> \in Seq(Items) /\ Len(queue_) = 0
  BY DEF Init
<1>3. TypeOK
  <2>1. queue_ \in Seq(Items) /\ popped \in Seq(Items)
    BY <1>2 DEF Init
  <2>3. size_ \in Int /\ calls \in 0..MaxPushes
    BY MaxPushesAssumption DEF Init
  <2>4. aborted \in BOOLEAN /\ cleared \in BOOLEAN
    BY DEF Init
  <2>2. /\ item \in [Producers -> Items \cup {0}]
        /\ cpc \in [Consumers -> {"idle", "waiting", "woken"}]
        /\ mode \in [Consumers -> {"none", "timed", "forever"}]
        /\ res \in [Consumers -> {"none", "data", "nodata"}]
    BY DEF Init
  <2> QED
    BY <2>1, <2>2, <2>3, <2>4 DEF TypeOK
<1>4. SizeAccounting
  BY <1>1, <1>2 DEF Init, SizeAccounting
<1>5. Elements(queue_) = {} /\ Elements(popped) = {}
  BY DEF Init, Elements
<1> QED
  BY <1>1, <1>3, <1>4, <1>5 DEF Accounting, Init, NoWaitOnData, Unlinked

\* Every step keeps it.
LEMMA AccountingNext ==
  ASSUME Accounting, [Next]_vars
  PROVE  Accounting'
<1>0. TypeOK /\ SizeAccounting /\ NoWaitOnData /\ Unlinked
  BY DEF Accounting
<1>1. ASSUME NEW p \in Producers, pushIncr(p) PROVE Accounting'
  <2>1. Cardinality(Counting') = Cardinality(Counting) + 1
    BY <1>0, <1>1, CountBegin
  <2>2. TypeOK'
    BY <1>0, <1>1, MaxPushesAssumption DEF TypeOK, pushIncr, Items, incr, getAndAdd
  <2>3. SizeAccounting'
    BY <1>0, <1>1, <2>1, CountingFinite DEF SizeAccounting, pushIncr, TypeOK, incr, getAndAdd
  <2>4. NoWaitOnData'
    BY <1>0, <1>1 DEF NoWaitOnData, pushIncr, incr, getAndAdd
  <2>5. Unlinked'
    <3>1. /\ calls \in Nat /\ calls' = calls + 1 /\ UNCHANGED <<queue_, popped>>
          /\ Counting' = Counting \cup {p} /\ p \notin Counting
          /\ item'[p] = calls + 1 /\ \A q \in Counting : item'[q] = item[q]
          /\ \A q \in Counting : item[q] \in Nat
      BY <1>0, <1>1, MaxPushesAssumption DEF pushIncr, Counting, TypeOK, Items, incr, getAndAdd
    <3>2. Elements(queue_) \cup Elements(popped) \subseteq Nat
      BY <1>0, MaxPushesAssumption DEF TypeOK, Elements, Items
    <3>3. /\ calls + 1 \notin Elements(queue_) \cup Elements(popped)
          /\ \A q \in Counting : item[q] # calls + 1
      BY <1>0, <3>1, <3>2 DEF Unlinked
    <3>4. /\ \A q \in Counting' : item'[q] \notin Elements(queue_) \cup Elements(popped)
          /\ \A q, r \in Counting' : item'[q] = item'[r] => q = r
      BY <1>0, <3>1, <3>3 DEF Unlinked
    <3>5. /\ \A q \in Counting' : item'[q] <= calls'
          /\ \A i \in Elements(queue_) \cup Elements(popped) : i <= calls'
      BY <1>0, <3>1, <3>2 DEF Unlinked
    <3>6. Elements(queue_') = Elements(queue_) /\ Elements(popped') = Elements(popped)
      BY <3>1
    <3> QED
      BY <3>4, <3>5, <3>6 DEF Unlinked
  <2> QED
    BY <2>2, <2>3, <2>4, <2>5 DEF Accounting
<1>2. ASSUME NEW p \in Producers, pushLink(p) PROVE Accounting'
  <2>1. Cardinality(Counting') = Cardinality(Counting) - 1
    BY <1>0, <1>2, CountLink
  <2>2. queue_' \in Seq(Items) /\ Len(queue_') = Len(queue_) + 1
    BY <1>0, <1>2, QueueLink
  <2>3. /\ cpc' \in [Consumers -> {"idle", "waiting", "woken"}]
        /\ \A c \in Consumers : cpc'[c] # "waiting"
    BY <1>0, <1>2 DEF TypeOK, pushLink, broadcast
  <2>4. TypeOK'
    BY <1>0, <1>2, <2>2, <2>3 DEF TypeOK, pushLink
  <2>5. SizeAccounting'
    BY <1>0, <1>2, <2>1, <2>2, CountingFinite DEF SizeAccounting, pushLink, TypeOK
  <2>6. NoWaitOnData'
    BY <1>0, <1>2, <2>3 DEF NoWaitOnData, pushLink
  <2>7. Unlinked'
    <3>1. /\ Counting' = Counting \ {p} /\ p \in Counting /\ UNCHANGED <<calls, popped>>
          /\ \A q \in Counting' : item'[q] = item[q]
      BY <1>0, <1>2 DEF pushLink, Counting, TypeOK
    <3>2. Elements(queue_') = Elements(queue_) \cup {item[p]} /\ Elements(popped') = Elements(popped)
      <4>1. queue_ \in Seq(Items) /\ item[p] \in Items
        BY <1>0, <1>2, QueueLink DEF TypeOK
      <4>2. /\ Elements(Append(queue_, item[p])) = Elements(queue_) \cup {item[p]}
            /\ Elements(<<item[p]>> \o queue_) = Elements(queue_) \cup {item[p]}
        BY <4>1, ElementsAppend
      <4>3. queue_' = Append(queue_, item[p]) \/ queue_' = <<item[p]>> \o queue_
        BY <1>2 DEF pushLink
      <4>4. Elements(queue_') = Elements(queue_) \cup {item[p]}
        <5>1. CASE queue_' = Append(queue_, item[p])
          BY <4>2, <5>1
        <5>2. CASE queue_' = <<item[p]>> \o queue_
          BY <4>2, <5>2
        <5> QED
          BY <4>3, <5>1, <5>2
      <4> QED
        BY <3>1, <4>4
    <3> QED
      BY <1>0, <3>1, <3>2 DEF Unlinked
  <2> QED
    BY <2>4, <2>5, <2>6, <2>7 DEF Accounting
<1>3. ASSUME NEW c \in Consumers, takeFront(c), UNCHANGED <<calls, item, cleared>>,
             mode' \in [Consumers -> {"none", "timed", "forever"}],
             cpc' \in [Consumers -> {"idle", "waiting", "woken"}],
             \A d \in Consumers : cpc'[d] = "waiting" => cpc[d] = "waiting"
      PROVE  Accounting'
  <2>1. /\ aborted' \in BOOLEAN /\ (~cleared => ~aborted')
        /\ queue_' \in Seq(Items) /\ size_' \in Int /\ size_' >= 0
        /\ popped' \in Seq(Items)
        /\ res' \in [Consumers -> {"none", "data", "nodata"}]
        /\ size_' - Len(queue_') = size_ - Len(queue_)
        /\ queue_ = <<>> => queue_' = <<>>
        /\ Elements(queue_') \cup Elements(popped') = Elements(queue_) \cup Elements(popped)
    BY <1>3, TakeEffect
  <2>2. TypeOK'
    BY <1>0, <1>3, <2>1 DEF TypeOK
  <2>3. Counting' = Counting
    BY <1>3 DEF Counting
  <2>4. SizeAccounting'
    <3>1. /\ Len(queue_') \in Nat /\ Len(queue_) \in Nat /\ size_ \in Int /\ size_' \in Int
          /\ Cardinality(Counting) \in Nat /\ size_' - Len(queue_') = size_ - Len(queue_)
      BY <1>0, <2>1, CountingFinite DEF TypeOK
    <3>2. size_' <= Len(queue_') + Cardinality(Counting)
      BY <1>0, <3>1 DEF SizeAccounting
    <3>3. size_ = Len(queue_) + Cardinality(Counting) => size_' = Len(queue_') + Cardinality(Counting)
      BY <3>1
    <3>4. ~cleared' => size_' = Len(queue_') + Cardinality(Counting) /\ ~aborted'
      BY <1>0, <1>3, <2>1, <3>3 DEF SizeAccounting
    <3>5. 0 <= size_'
      BY <2>1
    <3> QED
      BY <2>3, <3>2, <3>4, <3>5 DEF SizeAccounting
  <2>5. NoWaitOnData'
    BY <1>0, <1>3, <2>1 DEF NoWaitOnData
  <2>6. Unlinked'
    BY <1>0, <1>3, <2>1, <2>3 DEF Unlinked
  <2> QED
    BY <2>2, <2>4, <2>5, <2>6 DEF Accounting
<1>4. ASSUME NEW c \in Consumers, popResume(c) PROVE Accounting'
  BY <1>0, <1>3, <1>4 DEF popResume, TypeOK
<1>5. ASSUME NEW c \in Consumers, NEW m \in Modes, popEnter(c, m) PROVE Accounting'
  <2>0. mode' \in [Consumers -> {"none", "timed", "forever"}] /\ UNCHANGED <<calls, item, cleared>>
    BY <1>0, <1>5, ModesAssumption DEF popEnter, TypeOK
  <2>1. CASE takeFront(c) /\ UNCHANGED cpc
    BY <1>0, <1>3, <2>0, <2>1 DEF TypeOK
  <2>2. CASE /\ size_ = 0 /\ UNCHANGED <<queue_, size_, popped, aborted>>
             /\ res' = [res EXCEPT ![c] = "nodata"] \/ res' = [res EXCEPT ![c] = "none"]
             /\ UNCHANGED cpc \/ cpc' = [cpc EXCEPT ![c] = "waiting"]
    <3>1. ~cleared => queue_ = <<>>
      BY <1>0, <2>2, CountingFinite, EmptySeq DEF SizeAccounting, TypeOK
    <3>2. TypeOK'
      BY <1>0, <2>0, <2>2 DEF TypeOK
    <3>3. Counting' = Counting
      BY <2>0 DEF Counting
    <3>4. SizeAccounting' /\ NoWaitOnData' /\ Unlinked'
      BY <1>0, <2>0, <2>2, <3>1, <3>3 DEF SizeAccounting, NoWaitOnData, Unlinked
    <3> QED
      BY <3>2, <3>4 DEF Accounting
  <2> QED
    BY <1>5, <2>1, <2>2 DEF popEnter
<1>6. CASE (\E c \in Consumers : timeout(c) \/ spurious(c)) \/ signal \/ UNCHANGED vars
  <2>1. UNCHANGED <<queue_, size_, calls, item, mode, popped, res, aborted, cleared>>
    BY <1>6 DEF timeout, spurious, wake, signal, vars
  <2>2. /\ cpc' \in [Consumers -> {"idle", "waiting", "woken"}]
        /\ \A d \in Consumers : cpc'[d] = "waiting" => cpc[d] = "waiting"
    BY <1>0, <1>6 DEF timeout, spurious, wake, signal, broadcast, vars, TypeOK
  <2>3. TypeOK' /\ Counting' = Counting
    BY <1>0, <2>1, <2>2 DEF TypeOK, Counting
  <2> QED
    BY <1>0, <2>1, <2>2, <2>3 DEF Accounting, SizeAccounting, NoWaitOnData, Unlinked
<1>7. CASE clear
  <2>1. queue_' = <<>> /\ size_' = 0 /\ cleared' /\ UNCHANGED <<calls, item, cpc, mode, popped, res, aborted>>
    BY <1>7 DEF clear, getAndSet
  <2>2. queue_' \in Seq(Items) /\ Len(queue_') = 0 /\ Elements(queue_') = {}
    BY <2>1 DEF Elements
  <2>3. TypeOK' /\ Counting' = Counting
    BY <1>0, <1>7, <2>2 DEF TypeOK, Counting, clear, getAndSet
  <2>4. SizeAccounting' /\ NoWaitOnData'
    BY <2>1, <2>2, <2>3, CountingFinite DEF SizeAccounting, NoWaitOnData
  <2>5. Unlinked'
    BY <1>0, <2>1, <2>2, <2>3 DEF Unlinked
  <2> QED
    BY <2>3, <2>4, <2>5 DEF Accounting
<1> QED
  BY <1>1, <1>2, <1>4, <1>5, <1>6, <1>7 DEF Next, producerStep, popStep

\* size_ accounts for every element, a waiter never sleeps on one, and an element
\* about to be linked is new, whatever the threads do.
THEOREM ChannelAccounts == Spec => []Accounting
<1>1. Init => Accounting
  BY AccountingInit
<1>2. Accounting /\ [Next]_vars => Accounting'
  BY AccountingNext
<1> QED
  BY <1>1, <1>2, PTL DEF Spec

\* Up to the first clear() the count is exact, so the assertion of pop_front
\* holds; the count never runs ahead.
THEOREM CountIsExact == Spec => []SizeAccounting
  BY ChannelAccounts, PTL DEF Accounting

\* No lost wake-up: a consumer that sleeps in pop_front sleeps on an empty queue,
\* up to the first clear().
THEOREM NoLostWakeup == Spec => []NoWaitOnData
  BY ChannelAccounts, PTL DEF Accounting

\* The variables of the channel keep their types.
THEOREM TypeInvariant == Spec => []TypeOK
  BY ChannelAccounts, PTL DEF Accounting

\* Every step is one of Channel's: a push links an element that is new,
\* pop_front finds the first element, and finds none only on an empty queue (or
\* after a clear()).
THEOREM ImplementsChannel == Spec => ChannelSpec
<1>1. Init => C!Init
  BY DEF Init, C!Init
<1>2. Accounting /\ [Next]_vars => [C!Next]_(C!chvars)
  <2> SUFFICES ASSUME Accounting, [Next]_vars PROVE C!Next \/ UNCHANGED C!chvars
    OBVIOUS
  <2>0. TypeOK /\ SizeAccounting /\ Unlinked
    BY DEF Accounting
  <2>1. ASSUME NEW p \in Producers, pushIncr(p) PROVE UNCHANGED C!chvars
    BY <2>1 DEF pushIncr, C!chvars, incr, getAndAdd
  <2>2. ASSUME NEW p \in Producers, pushLink(p) PROVE C!Next
    <3>1. item[p] \in Items
      BY <2>0, <2>2, QueueLink
    <3>2. C!New(item[p])
      BY <2>0, <2>2 DEF Unlinked, pushLink, Counting, C!New, C!Elements, Elements
    <3>3. C!PushBack(item[p]) \/ C!PushFront(item[p])
      BY <2>2, <3>2 DEF pushLink, C!PushBack, C!PushFront
    <3> QED
      BY <3>1, <3>3 DEF C!Next
  <2>3. ASSUME NEW c \in Consumers, takeFront(c), UNCHANGED cleared PROVE C!Next \/ UNCHANGED C!chvars
    <3>1. CASE queue_ = <<>>
      <4>1. C!PopNothing(c)
        BY <2>3, <3>1 DEF takeFront, C!PopNothing, decr, getAndAdd
      <4> QED
        BY <4>1 DEF C!Next
    <3>2. CASE queue_ # <<>>
      <4>1. CASE size_ > 0
        <5>1. C!Pop(c)
          BY <2>0, <2>3, <3>2, <4>1 DEF takeFront, C!Pop, TypeOK, decr, getAndAdd
        <5> QED
          BY <5>1 DEF C!Next
      <4>2. CASE ~(size_ > 0)
        BY <2>0, <2>3, <3>2, <4>2 DEF takeFront, C!chvars, TypeOK, decr, getAndAdd
      <4> QED
        BY <4>1, <4>2
    <3> QED
      BY <3>1, <3>2
  <2>4. ASSUME NEW c \in Consumers, popStep(c) PROVE C!Next \/ UNCHANGED C!chvars
    <3>1. CASE takeFront(c) /\ UNCHANGED cleared
      BY <2>3, <3>1
    <3>2. CASE size_ = 0 /\ res' = [res EXCEPT ![c] = "nodata"] /\ UNCHANGED <<queue_, popped, cleared>>
      <4>1. queue_ = <<>> \/ cleared
        BY <2>0, <3>2, CountingFinite, EmptySeq DEF SizeAccounting, TypeOK
      <4>2. C!PopNothing(c)
        BY <3>2, <4>1 DEF C!PopNothing
      <4> QED
        BY <4>2 DEF C!Next
    <3>3. CASE res' = [res EXCEPT ![c] = "none"] /\ UNCHANGED <<queue_, popped, cleared>>
      BY <3>3 DEF C!Next, C!Ask
    <3> QED
      BY <2>4, <3>1, <3>2, <3>3 DEF popStep, popEnter, popResume
  <2>5. CASE (\E c \in Consumers : timeout(c) \/ spurious(c)) \/ signal \/ UNCHANGED vars
    BY <2>5 DEF timeout, spurious, wake, signal, vars, C!chvars
  <2>6. CASE clear
    BY <2>6 DEF clear, C!Clear, C!Next, getAndSet
  <2> QED
    BY <2>1, <2>2, <2>4, <2>5, <2>6 DEF Next, producerStep
<1> QED
  BY <1>1, <1>2, ChannelAccounts, PTL DEF Spec, ChannelSpec, C!Spec
=============================================================================
