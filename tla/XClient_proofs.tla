--------------------------- MODULE XClient_proofs ---------------------------
(***************************************************************************)
(* IInv of XClientProps is inductive: for any number of threads, starts    *)
(* and retries, and whichever calls fail, no descriptor is leaked or       *)
(* closed under its owner, every start() has one outcome at most, and the  *)
(* retries of all chains together end.                                     *)
(***************************************************************************)
EXTENDS XClientProps, FiniteSetTheorems, FunctionTheorems, TLAPS

USE DEF histories, connector, client

-----------------------------------------------------------------------------
(* Constants, queues, descriptors                                          *)

\* The retries fill the time exactly.
LEMMA RetriesNat == /\ Retries \in Nat /\ Retries > 0
                    /\ Retries * ReConnntervalMs = ReConnMaxTimeMs
BY TimesAssumption, Z3 DEF Retries

\* Attempts are numbers from 1 on.
LEMMA AttemptsFinite ==
    /\ IsFiniteSet(Attempts) /\ 0 \notin Attempts
    /\ \A k \in Attempts : k \in Nat
<1>1. 2 * MaxStarts + Retries \in Nat
  BY RetriesNat, BoundsAssumption
<1> QED
  BY <1>1, FS_Interval DEF Attempts

\* While the time is not up, fewer retries were made than fit in it.
LEMMA TimeLeft ==
    ASSUME NEW r \in Nat, r * ReConnntervalMs < ReConnMaxTimeMs
    PROVE  r < Retries
<1>1. ReConnntervalMs \in Nat /\ ReConnntervalMs > 0
  BY TimesAssumption
<1>2. ASSUME r >= Retries
      PROVE  r * ReConnntervalMs >= Retries * ReConnntervalMs
  <2> DEFINE I == ReConnntervalMs
  <2>1. PICK d \in Nat : r = Retries + d
    BY <1>2, RetriesNat
  <2>2. d * I >= 0 /\ d * I \in Int /\ Retries * I \in Int
    BY <1>1, RetriesNat
  <2>3. (Retries + d) * I = Retries * I + d * I
    BY <1>1, RetriesNat
  <2>4. r * I = Retries * I + d * I
    BY <2>1, <2>3
  <2> HIDE DEF I
  <2>5. r * I >= Retries * I
    BY <2>2, <2>4
  <2> QED
    BY <2>5 DEF I
<1>3. ~(r >= Retries)
  <2> DEFINE x == r * ReConnntervalMs
  <2>1. x \in Int /\ x < ReConnMaxTimeMs /\ ReConnMaxTimeMs \in Int
    BY <1>1, TimesAssumption
  <2>2. r >= Retries => x >= ReConnMaxTimeMs
    BY <1>2, RetriesNat
  <2> HIDE DEF x
  <2> QED
    BY <2>1, <2>2
<1> QED
  BY <1>3, RetriesNat

\* What is appended to a queue comes last.
LEMMA AppendElems ==
    ASSUME NEW S, NEW s \in Seq(S), NEW x \in S
    PROVE  /\ Append(s, x) \in Seq(S) /\ Len(s) \in Nat
           /\ Len(Append(s, x)) = Len(s) + 1
           /\ \A n \in 1..Len(s) : Append(s, x)[n] = s[n]
           /\ Append(s, x)[Len(s) + 1] = x
OBVIOUS

\* What is taken from a queue is its first element.
LEMMA TailElems ==
    ASSUME NEW S, NEW s \in Seq(S), s # <<>>
    PROVE  /\ Tail(s) \in Seq(S) /\ Len(s) \in Nat
           /\ Len(Tail(s)) = Len(s) - 1 /\ 1 \in 1..Len(s)
           /\ Head(s) = s[1] /\ Head(s) \in S
           /\ \A n \in 1..Len(Tail(s)) : n + 1 \in 1..Len(s) /\ Tail(s)[n] = s[n + 1]
OBVIOUS

\* Whichever call of a connect fails, no descriptor is left open; and if none
\* does, the one returned is (connectNonblock of XSocket).
LEMMA ConnectLeaksNothing ==
    ASSUME NEW opened, NEW f, f \notin opened, f # 0,
           NEW R \in connectNonblock(opened, f)
    PROVE  \/ failed(R) /\ R.open = opened
           \/ ~failed(R) /\ R.fd = f /\ R.open = opened \cup {f}
<1> DEFINE None == [fd |-> INVALID_SOCK, open |-> opened]
           Open == [fd |-> f, open |-> opened \cup {f}]
<1>1. /\ None.fd = 0 /\ None.open = opened
      /\ Open.fd = f /\ Open.open = opened \cup {f} /\ Open.open \ {Open.fd} = opened
      /\ invalid(opened) = None
  BY DEF INVALID_SOCK, invalid
<1>2. \A P, fails : P \in {None, Open} /\ (fails => P = Open)
                      => orClose(P, fails) = IF fails THEN None ELSE P
  BY <1>1 DEF orClose
<1>3. failed(None) /\ ~failed(Open)
  BY <1>1 DEF failed, INVALID_SOCK
<1>4. \A fails \in ConnectCalls : tcpConnect(opened, f, fails) \in {None, Open}
  <2> SUFFICES ASSUME NEW fails \in ConnectCalls
               PROVE  tcpConnect(opened, f, fails) \in {None, Open}
    OBVIOUS
  <2> DEFINE created   == createSocket(opened, f, fails)
             prepared  == orClose(created, ~failed(created) /\ setBlockFails(fails))
             connected == orClose(prepared, ~failed(prepared) /\ fails = "connect")
  <2>1. created \in {None, Open}
    <3>1. CASE fails = "socket"
      BY <1>1, <3>1 DEF createSocket
    <3>2. CASE fails # "socket"
      <4>1. created = orClose(Open, fails = "reuseAddr")
        BY <3>2 DEF createSocket
      <4> QED
        BY <1>2, <4>1
    <3> QED
      BY <3>1, <3>2
  <2> HIDE DEF created
  <2>2. prepared \in {None, Open}
    BY <1>2, <1>3, <2>1
  <2> HIDE DEF prepared
  <2>3. connected \in {None, Open}
    BY <1>2, <1>3, <2>2
  <2> HIDE DEF connected
  <2>4. orClose(connected, ~failed(connected) /\ fails = "getsockname") \in {None, Open}
    BY <1>2, <1>3, <2>3
  <2> QED
    BY <2>4 DEF tcpConnect, created, prepared, connected
<1>5. R \in {None, Open}
  BY <1>4 DEF connectNonblock
<1> QED
  BY <1>1, <1>3, <1>5

-----------------------------------------------------------------------------
(* What is in the queue, and how much of it waits to connect               *)

\* The queue as a set, when a functor joins it ...
LEMMA QueuedAppend ==
    ASSUME tasks \in Seq(Tasks), NEW t \in Tasks, tasks' = Append(tasks, t)
    PROVE  tasks' \in Seq(Tasks) /\ Queued' = Queued \cup {t}
<1>1. /\ tasks' \in Seq(Tasks) /\ Len(tasks) \in Nat /\ Len(tasks') = Len(tasks) + 1
      /\ \A n \in 1..Len(tasks) : tasks'[n] = tasks[n]
      /\ tasks'[Len(tasks) + 1] = t
  BY AppendElems
<1>2. /\ \A n \in 1..Len(tasks') : n \in 1..Len(tasks) \/ n = Len(tasks) + 1
      /\ \A n \in 1..Len(tasks) : n \in 1..Len(tasks')
      /\ Len(tasks) + 1 \in 1..Len(tasks')
  BY <1>1
<1> QED
  BY <1>1, <1>2 DEF Queued

\* ... and when its first one runs.
LEMMA QueuedTail ==
    ASSUME tasks \in Seq(Tasks), tasks # <<>>, tasks' = Tail(tasks)
    PROVE  /\ tasks' \in Seq(Tasks) /\ Head(tasks) \in Tasks
           /\ Queued = Queued' \cup {Head(tasks)}
<1>1. /\ tasks' \in Seq(Tasks) /\ Len(tasks) \in Nat /\ Len(tasks') = Len(tasks) - 1
      /\ 1 \in 1..Len(tasks) /\ Head(tasks) = tasks[1] /\ Head(tasks) \in Tasks
      /\ \A n \in 1..Len(tasks') : n + 1 \in 1..Len(tasks) /\ tasks'[n] = tasks[n + 1]
  BY TailElems
<1>2. ASSUME NEW n \in 1..Len(tasks), n # 1
      PROVE  n - 1 \in 1..Len(tasks') /\ tasks'[n - 1] = tasks[n]
  <2>1. n - 1 \in 1..Len(tasks') /\ (n - 1) + 1 = n
    BY <1>1, <1>2
  <2> QED
    BY <1>1, <2>1
<1>3. ASSUME NEW x \in Queued
      PROVE  x \in Queued' \cup {Head(tasks)}
  BY <1>1, <1>2 DEF Queued
<1>4. ASSUME NEW x \in Queued'
      PROVE  x \in Queued
  BY <1>1 DEF Queued
<1>5. Head(tasks) \in Queued
  BY <1>1 DEF Queued
<1> QED
  BY <1>1, <1>3, <1>4, <1>5

\* A reference to a connection in terms of the queue as a set.
LEMMA ReferencedQueued ==
    ASSUME NEW k
    PROVE  Referenced(k) <=> \/ k \in held \cup {connectionPtr_, loop.conn}
                             \/ register_[k] = "connection"
                             \/ [kind |-> "close", conn |-> k] \in Queued
BY DEF Referenced, Queued

\* The counts are of finite sets.
LEMMA Counts ==
    ASSUME TypeOK
    PROVE  /\ IsFiniteSet(Waiting) /\ Cardinality(Waiting) \in Nat
           /\ IsFiniteSet(Connecting) /\ Cardinality(Connecting) \in Nat
           /\ IsFiniteSet(Made) /\ Cardinality(Made) \in Nat
<1>1. Len(tasks) \in Nat
  BY DEF TypeOK
<1>2. IsFiniteSet(1..Len(tasks))
  BY <1>1, FS_Interval
<1>3. IsFiniteSet(Waiting)
  BY <1>2, FS_Subset DEF Waiting
<1>4. IsFiniteSet(Connecting) /\ IsFiniteSet(Made)
  BY AttemptsFinite, FS_Subset DEF Connecting, Made
<1> QED
  BY <1>3, <1>4, FS_CardinalityType

\* A connect that joins the queue is one more that waits; a close is not.
LEMMA WaitingAppend ==
    ASSUME tasks \in Seq(Tasks), NEW t \in Tasks, tasks' = Append(tasks, t), IsFiniteSet(Waiting)
    PROVE  Cardinality(Waiting') = Cardinality(Waiting) + IF t.kind = "connect" THEN 1 ELSE 0
<1>1. /\ Len(tasks) \in Nat /\ Len(tasks') = Len(tasks) + 1
      /\ \A n \in 1..Len(tasks) : tasks'[n] = tasks[n]
      /\ tasks'[Len(tasks) + 1] = t
  BY AppendElems
<1>2. /\ \A n \in 1..Len(tasks') : n \in 1..Len(tasks) \/ n = Len(tasks) + 1
      /\ \A n \in 1..Len(tasks) : n \in 1..Len(tasks') /\ n # Len(tasks) + 1
      /\ Len(tasks) + 1 \in 1..Len(tasks')
  BY <1>1
<1>3. Cardinality(Waiting) \in Nat
  BY FS_CardinalityType
<1>4. CASE t.kind = "connect"
  <2>1. Waiting' = Waiting \cup {Len(tasks) + 1} /\ Len(tasks) + 1 \notin Waiting
    BY <1>1, <1>2, <1>4 DEF Waiting
  <2>2. Cardinality(Waiting') = Cardinality(Waiting) + 1
    BY <2>1, FS_AddElement
  <2> QED
    BY <1>4, <2>2
<1>5. CASE t.kind # "connect"
  <2>1. Waiting' = Waiting
    BY <1>1, <1>2, <1>5 DEF Waiting
  <2> QED
    BY <1>3, <1>5, <2>1
<1> QED
  BY <1>4, <1>5

\* The first functor of the queue leaves it: the others move up.
LEMMA WaitingTail ==
    ASSUME tasks \in Seq(Tasks), tasks # <<>>, tasks' = Tail(tasks), IsFiniteSet(Waiting)
    PROVE  Cardinality(Waiting) = Cardinality(Waiting') + IF Head(tasks).kind = "connect" THEN 1 ELSE 0
<1>1. /\ Len(tasks) \in Nat /\ Len(tasks') = Len(tasks) - 1
      /\ 1 \in 1..Len(tasks) /\ Head(tasks) = tasks[1]
      /\ \A n \in 1..Len(tasks') : n + 1 \in 1..Len(tasks) /\ tasks'[n] = tasks[n + 1]
  BY TailElems
<1> DEFINE Later == Waiting \ {1}
           up    == [n \in Later |-> n - 1]
<1>2. \A n \in Later : /\ n \in Nat /\ n - 1 \in 1..Len(tasks') /\ (n - 1) + 1 = n
                       /\ tasks'[n - 1] = tasks[n]
  <2>1. \A n \in Later : n \in Nat /\ n - 1 \in 1..Len(tasks') /\ (n - 1) + 1 = n
    BY <1>1 DEF Waiting
  <2> QED
    BY <1>1, <2>1
<1>3. \A n \in Waiting' : n + 1 \in Later /\ (n + 1) - 1 = n
  <2>1. \A n \in Waiting' : n \in 1..Len(tasks') /\ tasks'[n].kind = "connect"
    BY DEF Waiting
  <2>2. \A n \in 1..Len(tasks') : n + 1 # 1 /\ (n + 1) - 1 = n
    BY <1>1
  <2> QED
    BY <1>1, <2>1, <2>2 DEF Waiting
<1>4. up \in Bijection(Later, Waiting')
  <2>1. \A n \in Later : up[n] \in Waiting'
    BY <1>2 DEF Waiting
  <2>2. up \in [Later -> Waiting']
    BY <2>1
  <2>3. \A m, n \in Later : up[m] = up[n] => m = n
    BY <1>2
  <2>4. \A n \in Waiting' : \E m \in Later : up[m] = n
    BY <1>3
  <2> HIDE DEF up, Later
  <2> QED
    BY <2>2, <2>3, <2>4, Fun_IsBij
<1>5. IsFiniteSet(Later)
  BY FS_Subset
<1>6. Cardinality(Waiting') = Cardinality(Later)
  <2> HIDE DEF Later, up
  <2> QED
    BY <1>4, <1>5, FS_Bijection DEF ExistsBijection
<1> HIDE DEF Later
<1>7. Cardinality(Waiting) = Cardinality(Later) + IF 1 \in Waiting THEN 1 ELSE 0
  <2>1. Cardinality(Waiting) \in Nat
    BY FS_CardinalityType
  <2>2. Cardinality(Later) = IF 1 \in Waiting THEN Cardinality(Waiting) - 1 ELSE Cardinality(Waiting)
    BY FS_RemoveElement DEF Later
  <2> QED
    BY <2>1, <2>2
<1>8. 1 \in Waiting <=> Head(tasks).kind = "connect"
  BY <1>1 DEF Waiting
<1> QED
  BY <1>6, <1>7, <1>8

-----------------------------------------------------------------------------
(* Steps that leave the connections alone                                  *)

\* Functors may join the queue and threads move inside stop(): a thread that is
\* about to push, or a close that joins, is about a connection that was made.
LEMMA ConnFrame ==
    ASSUME IInv,
           UNCHANGED <<connStatus_, register_, connectionPtr_, loop, held, overlap, stuck, open, tries>>,
           Queued \subseteq Queued',
           \A t \in Queued' : \/ t \in Queued \/ t.kind # "close"
                              \/ t.conn = connectionPtr_ /\ connStatus_[connectionPtr_] \in Live,
           \A c \in Callers : pc'[c] = "push" =>
              pc[c] = "push" \/ (connectionPtr_ # 0 /\ connStatus_[connectionPtr_] \in Live)
    PROVE  LoopInv' /\ StatusInv' /\ ConnectionsOwned'
<1>1. \A k : Referenced(k)' <=> Referenced(k)
  <2>1. ASSUME NEW k
        PROVE  Referenced(k)' <=> Referenced(k)
    <3> DEFINE t == [kind |-> "close", conn |-> k]
    <3>1. t.kind = "close" /\ t.conn = k
      OBVIOUS
    <3>2. Referenced(k) <=> \/ k \in held \cup {connectionPtr_, loop.conn}
                            \/ register_[k] = "connection" \/ t \in Queued
      BY ReferencedQueued
    <3>3. Referenced(k)' <=> \/ k \in held' \cup {connectionPtr_', loop'.conn}
                             \/ register_'[k] = "connection" \/ t \in Queued'
      BY DEF Referenced, Queued
    <3> HIDE DEF t
    <3> QED
      BY <3>1, <3>2, <3>3
  <2> QED
    BY <2>1
<1>2. LoopInv'
  BY DEF IInv, LoopInv
<1>3. StatusInv'
  <2>1. \A k \in Attempts :
          /\ connStatus_[k] = "connected" <=> register_[k] = "connection"
          /\ connStatus_[k] = "connecting" <=> loop.at \in {"assign", "make"} /\ loop.conn = k
          /\ register_[k] = "connector" => connStatus_[k] \in {"none", "connecting"}
          /\ k > tries => register_[k] = "none" /\ connStatus_[k] = "none"
          /\ Referenced(k)' => connStatus_[k] # "none"
    BY <1>1 DEF IInv, StatusInv
  <2>2. \A t \in Queued' : t.kind = "close" => connStatus_[t.conn] \in Live
    BY DEF IInv, StatusInv
  <2> QED
    BY <2>1, <2>2 DEF IInv, StatusInv
<1>4. ConnectionsOwned'
  BY <1>1 DEF IInv, ConnectionsOwned, Connecting
<1> QED
  BY <1>2, <1>3, <1>4

\* The counts when no attempt and no connection changes.
LEMMA SameMade ==
    ASSUME UNCHANGED <<connStatus_, register_>>
    PROVE  Cardinality(Made') = Cardinality(Made) /\ Cardinality(Connecting') = Cardinality(Connecting)
<1>1. Made' = Made /\ Connecting' = Connecting
  BY DEF Made, Connecting
<1> QED
  BY <1>1

\* start() by another thread: one more start that waits.
LEMMA startKeeps ==
    ASSUME IInv, start
    PROVE  IInv'
<1> DEFINE t == [kind |-> "connect", conn |-> 0]
<1>1. t \in Tasks /\ t.kind = "connect"
  BY DEF Tasks
<1>2. tasks \in Seq(Tasks) /\ tasks' = Append(tasks, t) /\ IsFiniteSet(Waiting)
  BY Counts DEF IInv, TypeOK, start
<1> HIDE DEF t
<1>3. tasks' \in Seq(Tasks) /\ Queued' = Queued \cup {t}
  BY <1>1, <1>2, QueuedAppend
<1>4. Cardinality(Waiting') = Cardinality(Waiting) + 1
  BY <1>1, <1>2, WaitingAppend
<1>5. TypeOK'
  BY <1>3, BoundsAssumption DEF IInv, TypeOK, start
<1>6. LoopInv' /\ StatusInv' /\ ConnectionsOwned'
  <2>1. UNCHANGED <<connStatus_, register_, connectionPtr_, loop, held, overlap, stuck, open, tries>>
    BY DEF start
  <2>2. /\ Queued \subseteq Queued'
        /\ \A u \in Queued' : \/ u \in Queued \/ u.kind # "close"
                              \/ u.conn = connectionPtr_ /\ connStatus_[connectionPtr_] \in Live
    BY <1>1, <1>3
  <2>3. \A c \in Callers : pc'[c] = "push" =>
           pc[c] = "push" \/ (connectionPtr_ # 0 /\ connStatus_[connectionPtr_] \in Live)
    BY DEF start
  <2> QED
    BY <2>1, <2>2, <2>3, ConnFrame
<1>7. Cardinality(Made') = Cardinality(Made) /\ Cardinality(Connecting') = Cardinality(Connecting)
  BY SameMade DEF start
<1>8. /\ starts \in Nat /\ failures \in Nat /\ retries \in Nat /\ tries \in Nat /\ reConnMs_ \in Nat
      /\ Cardinality(Waiting) \in Nat /\ Cardinality(Made) \in Nat /\ Cardinality(Connecting) \in Nat
  BY Counts, AttemptsFinite, BoundsAssumption DEF IInv, TypeOK
<1>9. OneOutcomePerStart'
  BY <1>4, <1>7, <1>8 DEF IInv, OneOutcomePerStart, start
<1>10. RetryInv'
  <2>1. PICK r \in 0..reConnMs_ :
           /\ reConnMs_ = r * ReConnntervalMs
           /\ tries + Cardinality(Waiting) = starts + r
           /\ r + retries < Retries + starts
    BY DEF IInv, RetryInv
  <2>2. /\ tries' = tries /\ reConnMs_' = reConnMs_ /\ retries' = retries /\ starts' = starts + 1
    BY DEF start
  <2>3. /\ tries + (Cardinality(Waiting) + 1) = (starts + 1) + r
        /\ r + retries < Retries + (starts + 1)
    BY <2>1, <1>8, RetriesNat
  <2> QED
    BY <1>4, <2>1, <2>2, <2>3 DEF RetryInv
<1> QED
  BY <1>5, <1>6, <1>9, <1>10 DEF IInv

\* The counts when the chains of attempts are left alone too.
LEMMA ChainsFrame ==
    ASSUME IInv, UNCHANGED <<connector, Cardinality(Waiting), Cardinality(Made), Cardinality(Connecting)>>
    PROVE  OneOutcomePerStart' /\ RetryInv'
<1>1. OneOutcomePerStart'
  BY DEF IInv, OneOutcomePerStart
<1>2. RetryInv'
  BY DEF IInv, RetryInv
<1> QED
  BY <1>1, <1>2

\* Threads inside stop() (xclient.cpp:39-45).
LEMMA stopLockKeeps ==
    ASSUME IInv, NEW c \in Callers, stopLock(c)
    PROVE  IInv'
<1>1. TypeOK'
  BY CallersAssumption DEF IInv, TypeOK, stopLock, lock
<1>2. Queued' = Queued /\ Waiting' = Waiting
  BY DEF Queued, Waiting, stopLock
<1>3. \A b \in Callers : pc'[b] = "push" => pc[b] = "push"
  BY DEF IInv, TypeOK, stopLock
<1>4. LoopInv' /\ StatusInv' /\ ConnectionsOwned'
  <2>1. UNCHANGED <<connStatus_, register_, connectionPtr_, loop, held, overlap, stuck, open, tries>>
    BY DEF stopLock
  <2>2. /\ Queued \subseteq Queued'
        /\ \A t \in Queued' : \/ t \in Queued \/ t.kind # "close"
                              \/ t.conn = connectionPtr_ /\ connStatus_[connectionPtr_] \in Live
    BY <1>2
  <2>3. \A b \in Callers : pc'[b] = "push" =>
           pc[b] = "push" \/ (connectionPtr_ # 0 /\ connStatus_[connectionPtr_] \in Live)
    BY <1>3
  <2> QED
    BY <2>1, <2>2, <2>3, ConnFrame
<1>5. OneOutcomePerStart' /\ RetryInv'
  BY <1>2, SameMade, ChainsFrame DEF stopLock
<1> QED
  BY <1>1, <1>4, <1>5 DEF IInv

\* closeConnection finds the connection that connectionPtr_ points to connected.
LEMMA stopLookKeeps ==
    ASSUME IInv, NEW c \in Callers, stopLook(c)
    PROVE  IInv'
<1>1. TypeOK'
  BY CallersAssumption DEF IInv, TypeOK, stopLook, unlock
<1>2. Queued' = Queued /\ Waiting' = Waiting
  BY DEF Queued, Waiting, stopLook
<1>3. \A b \in Callers : pc'[b] = "push" =>
         pc[b] = "push" \/ (connectionPtr_ # 0 /\ connStatus_[connectionPtr_] \in Live)
  <2>1. current # {} => connectionPtr_ # 0 /\ connStatus_[connectionPtr_] \in Live
    BY AttemptsFinite DEF current, Live
  <2> QED
    BY <2>1 DEF IInv, TypeOK, stopLook
<1>4. LoopInv' /\ StatusInv' /\ ConnectionsOwned'
  <2>1. UNCHANGED <<connStatus_, register_, connectionPtr_, loop, held, overlap, stuck, open, tries>>
    BY DEF stopLook
  <2>2. /\ Queued \subseteq Queued'
        /\ \A t \in Queued' : \/ t \in Queued \/ t.kind # "close"
                              \/ t.conn = connectionPtr_ /\ connStatus_[connectionPtr_] \in Live
    BY <1>2
  <2>3. \A b \in Callers : pc'[b] = "push" =>
           pc[b] = "push" \/ (connectionPtr_ # 0 /\ connStatus_[connectionPtr_] \in Live)
    BY <1>3
  <2> QED
    BY <2>1, <2>2, <2>3, ConnFrame
<1>5. OneOutcomePerStart' /\ RetryInv'
  BY <1>2, SameMade, ChainsFrame DEF stopLook
<1> QED
  BY <1>1, <1>4, <1>5 DEF IInv

\* The close joins the queue and holds a reference of its own.
LEMMA stopPushKeeps ==
    ASSUME IInv, NEW c \in Callers, stopPush(c)
    PROVE  IInv'
<1> DEFINE t == [kind |-> "close", conn |-> connectionPtr_]
<1>1. connectionPtr_ \in Attempts /\ connStatus_[connectionPtr_] \in Live
  BY DEF IInv, TypeOK, StatusInv, stopPush
<1>2. t \in Tasks /\ t.kind = "close" /\ t.conn = connectionPtr_
  BY <1>1 DEF Tasks
<1>3. tasks \in Seq(Tasks) /\ tasks' = Append(tasks, t) /\ IsFiniteSet(Waiting)
  BY Counts DEF IInv, TypeOK, stopPush
<1> HIDE DEF t
<1>4. tasks' \in Seq(Tasks) /\ Queued' = Queued \cup {t}
  BY <1>2, <1>3, QueuedAppend
<1>5. Cardinality(Waiting') = Cardinality(Waiting)
  <2>1. Cardinality(Waiting') = Cardinality(Waiting) + 0
    BY <1>2, <1>3, WaitingAppend
  <2> QED
    BY <1>3, <2>1, FS_CardinalityType
<1>6. TypeOK'
  BY <1>1, <1>4, CallersAssumption DEF IInv, TypeOK, stopPush, unlock
<1>7. \A b \in Callers : pc'[b] = "push" => pc[b] = "push"
  BY DEF IInv, TypeOK, stopPush
<1>8. LoopInv' /\ StatusInv' /\ ConnectionsOwned'
  BY <1>1, <1>2, <1>4, <1>7, ConnFrame DEF stopPush
<1>9. OneOutcomePerStart' /\ RetryInv'
  BY <1>5, SameMade, ChainsFrame DEF stopPush
<1> QED
  BY <1>6, <1>8, <1>9 DEF IInv

-----------------------------------------------------------------------------
(* An attempt begins                                                       *)

\* connector.cpp, beforeConnect: the attempt gets a descriptor of its own, or
\* no descriptor is left open.
LEMMA beforeConnectOutcome ==
    ASSUME IInv, loop = Idle, beforeConnect
    PROVE  \E k \in Attempts :
              /\ k = tries + 1 /\ tries' = k
              /\ register_[k] = "none" /\ connStatus_[k] = "none" /\ k \notin open /\ ~Referenced(k)
              /\ \/ /\ failures' = failures + 1 /\ status_' = "unknown"
                    /\ UNCHANGED <<open, register_>>
                 \/ /\ open' = open \cup {k} /\ status_' = "connecting"
                    /\ register_' = [register_ EXCEPT ![k] = "connector"]
                    /\ UNCHANGED failures
<1>1. PICK k \in Attempts : k = tries + 1
  BY DEF beforeConnect
<1>2. k # 0 /\ k \in Nat /\ tries \in Nat /\ k > tries /\ tries' = k
  BY <1>1, AttemptsFinite DEF IInv, TypeOK, beforeConnect
<1>3. register_[k] = "none" /\ connStatus_[k] = "none" /\ ~Referenced(k)
  BY <1>2 DEF IInv, StatusInv
<1>4. k \notin open
  BY <1>3 DEF IInv, ConnectionsOwned, Connecting
<1>5. PICK R \in connectNonblock(open, k) :
         /\ open' = R.open
         /\ \/ /\ failed(R)
               /\ status_' = "unknown" /\ failures' = failures + 1
               /\ UNCHANGED register_
            \/ /\ ~failed(R)
               /\ status_' = "connecting"
               /\ register_' = [register_ EXCEPT ![R.fd] = "connector"]
               /\ UNCHANGED failures
  BY <1>1 DEF beforeConnect
<1>6. \/ failed(R) /\ R.open = open
      \/ ~failed(R) /\ R.fd = k /\ R.open = open \cup {k}
  BY <1>2, <1>4, ConnectLeaksNothing
<1> QED
  BY <1>1, <1>2, <1>3, <1>4, <1>5, <1>6

\* An attempt leaves the connections alone.
LEMMA beforeConnectOwned ==
    ASSUME IInv, loop = Idle, beforeConnect,
           UNCHANGED <<connStatus_, connectionPtr_, loop, held, overlap, stuck, pc>>,
           Queued' \subseteq Queued, \A t \in Queued : t \in Queued' \/ t.kind # "close"
    PROVE  /\ LoopInv' /\ StatusInv' /\ ConnectionsOwned'
           /\ open' \subseteq Attempts /\ register_' \in [Attempts -> {"none", "connector", "connection"}]
           /\ tries' \in Attempts
           /\ status_' \in {"unknown", "connecting"} /\ failures' \in Nat
<1>1. PICK k \in Attempts :
              /\ k = tries + 1 /\ tries' = k
              /\ register_[k] = "none" /\ connStatus_[k] = "none" /\ k \notin open /\ ~Referenced(k)
              /\ \/ /\ failures' = failures + 1 /\ status_' = "unknown"
                    /\ UNCHANGED <<open, register_>>
                 \/ /\ open' = open \cup {k} /\ status_' = "connecting"
                    /\ register_' = [register_ EXCEPT ![k] = "connector"]
                    /\ UNCHANGED failures
  BY beforeConnectOutcome
<1>2. /\ open' \subseteq Attempts /\ register_' \in [Attempts -> {"none", "connector", "connection"}]
      /\ tries' \in Attempts
      /\ status_' \in {"unknown", "connecting"} /\ failures' \in Nat
  <2>1. /\ open \subseteq Attempts /\ register_ \in [Attempts -> {"none", "connector", "connection"}]
        /\ failures \in Nat
    BY DEF IInv, TypeOK
  <2>2. failures' \in Nat /\ open' \subseteq Attempts /\ status_' \in {"unknown", "connecting"}
    <3>1. CASE failures' = failures + 1 /\ status_' = "unknown" /\ UNCHANGED <<open, register_>>
      BY <2>1, <3>1
    <3>2. CASE open' = open \cup {k} /\ status_' = "connecting" /\ UNCHANGED failures
      BY <2>1, <3>2
    <3> QED
      BY <1>1, <3>1, <3>2
  <2>3. register_' \in [Attempts -> {"none", "connector", "connection"}]
    BY <1>1, <2>1
  <2> QED
    BY <1>1, <2>2, <2>3
<1>3. /\ \A j \in Attempts : j # k => register_'[j] = register_[j] /\ (j \in open' <=> j \in open)
      /\ \/ register_'[k] = "none" /\ k \notin open'
         \/ register_'[k] = "connector" /\ k \in open'
  BY <1>1 DEF IInv, TypeOK
<1>4. \A j \in Attempts : Referenced(j)' <=> Referenced(j)
  <2>1. ASSUME NEW j \in Attempts
        PROVE  Referenced(j)' <=> Referenced(j)
    <3> DEFINE t == [kind |-> "close", conn |-> j]
    <3>1. t.kind = "close"
      OBVIOUS
    <3>2. Referenced(j) <=> \/ j \in held \cup {connectionPtr_, loop.conn}
                            \/ register_[j] = "connection" \/ t \in Queued
      BY ReferencedQueued
    <3>3. Referenced(j)' <=> \/ j \in held' \cup {connectionPtr_', loop'.conn}
                             \/ register_'[j] = "connection" \/ t \in Queued'
      BY DEF Referenced, Queued
    <3> HIDE DEF t
    <3>4. register_'[j] = "connection" <=> register_[j] = "connection"
      BY <1>1, <1>3
    <3> QED
      BY <3>1, <3>2, <3>3, <3>4
  <2> QED
    BY <2>1
<1>5. LoopInv'
  BY DEF IInv, LoopInv, Idle
<1>6. StatusInv'
  <2>1. ASSUME NEW j \in Attempts
        PROVE  /\ connStatus_'[j] = "connected" <=> register_'[j] = "connection"
               /\ connStatus_'[j] = "connecting" <=> loop'.at \in {"assign", "make"} /\ loop'.conn = j
               /\ register_'[j] = "connector" => connStatus_'[j] \in {"none", "connecting"}
               /\ j > tries' => register_'[j] = "none" /\ connStatus_'[j] = "none"
               /\ Referenced(j)' => connStatus_'[j] # "none"
    <3>1. j > tries' => j > tries /\ j # k
      BY <1>1, AttemptsFinite DEF IInv, TypeOK
    <3>2. CASE j = k
      BY <1>1, <1>3, <1>4, <3>1, <3>2 DEF IInv, StatusInv
    <3>3. CASE j # k
      BY <1>3, <1>4, <3>1, <3>3 DEF IInv, StatusInv
    <3> QED
      BY <3>2, <3>3
  <2>2. \A t \in Queued' : t.kind = "close" => connStatus_'[t.conn] \in Live
    BY DEF IInv, StatusInv
  <2> QED
    BY <2>1, <2>2 DEF IInv, StatusInv
<1>7. ConnectionsOwned'
  <2>1. ASSUME NEW j \in Attempts
        PROVE  j \in open' <=> register_'[j] = "connector" \/ Referenced(j)'
    <3>1. CASE j = k
      BY <1>1, <1>3, <1>4, <3>1
    <3>2. CASE j # k
      BY <1>3, <1>4, <3>2 DEF IInv, ConnectionsOwned, Connecting
    <3> QED
      BY <3>1, <3>2
  <2> QED
    BY <2>1 DEF IInv, ConnectionsOwned, Connecting
<1> QED
  BY <1>2, <1>5, <1>6, <1>7

\* It is one more that fails at once, or one more that is connecting.
LEMMA beforeConnectCounts ==
    ASSUME IInv, loop = Idle, beforeConnect, UNCHANGED connStatus_
    PROVE  /\ tries' = tries + 1 /\ Cardinality(Made') = Cardinality(Made)
           /\ failures' + Cardinality(Connecting') = failures + Cardinality(Connecting) + 1
<1>1. PICK k \in Attempts :
              /\ k = tries + 1 /\ tries' = k
              /\ register_[k] = "none"
              /\ \/ failures' = failures + 1 /\ UNCHANGED register_
                 \/ register_' = [register_ EXCEPT ![k] = "connector"] /\ UNCHANGED failures
  BY beforeConnectOutcome
<1>2. /\ IsFiniteSet(Connecting) /\ Cardinality(Connecting) \in Nat /\ failures \in Nat
  BY Counts DEF IInv, TypeOK
<1>3. Made' = Made
  BY DEF Made
<1>4. CASE failures' = failures + 1 /\ UNCHANGED register_
  <2>1. Connecting' = Connecting
    BY <1>4 DEF Connecting
  <2> QED
    BY <1>1, <1>2, <1>3, <1>4, <2>1
<1>5. CASE register_' = [register_ EXCEPT ![k] = "connector"] /\ UNCHANGED failures
  <2>1. Connecting' = Connecting \cup {k} /\ k \notin Connecting
    BY <1>1, <1>5 DEF IInv, TypeOK, Connecting
  <2>2. Cardinality(Connecting') = Cardinality(Connecting) + 1
    BY <1>2, <2>1, FS_AddElement
  <2> QED
    BY <1>1, <1>2, <1>3, <1>5, <2>2
<1> QED
  BY <1>1, <1>4, <1>5

\* The numbers of a state and the r of RetryInv.
LEMMA Numbers ==
    ASSUME IInv
    PROVE  /\ starts \in Nat /\ failures \in Nat /\ retries \in Nat /\ tries \in Nat /\ reConnMs_ \in Nat
           /\ Cardinality(Waiting) \in Nat /\ Cardinality(Made) \in Nat /\ Cardinality(Connecting) \in Nat
           /\ Retries \in Nat
BY Counts, AttemptsFinite, BoundsAssumption, RetriesNat DEF IInv, TypeOK

\* start() on the loop thread.
LEMMA startInLoopKeeps ==
    ASSUME IInv, startInLoop
    PROVE  IInv'
<1>1. /\ loop = Idle /\ beforeConnect /\ starts' = starts + 1 /\ starts < MaxStarts
      /\ UNCHANGED <<reConnMs_, client, retries, tasks, loop>>
  BY DEF startInLoop
<1>2. Queued' = Queued /\ Waiting' = Waiting
  BY <1>1 DEF Queued, Waiting
<1>3. /\ LoopInv' /\ StatusInv' /\ ConnectionsOwned'
      /\ open' \subseteq Attempts /\ register_' \in [Attempts -> {"none", "connector", "connection"}]
      /\ tries' \in Attempts /\ status_' \in {"unknown", "connecting"} /\ failures' \in Nat
  BY <1>1, <1>2, beforeConnectOwned
<1>4. TypeOK'
  BY <1>1, <1>3, BoundsAssumption DEF IInv, TypeOK
<1>5. /\ tries' = tries + 1 /\ Cardinality(Made') = Cardinality(Made)
      /\ failures' + Cardinality(Connecting') = failures + Cardinality(Connecting) + 1
  BY <1>1, beforeConnectCounts
<1>6. Cardinality(Connecting') \in Int /\ failures' \in Nat
  <2>1. TypeOK' => Cardinality(Connecting') \in Nat
    <3>1. IsFiniteSet(Connecting')
      BY AttemptsFinite, FS_Subset DEF Connecting
    <3> QED
      BY <3>1, FS_CardinalityType
  <2> QED
    BY <1>3, <1>4, <2>1
<1>7. OneOutcomePerStart'
  BY <1>1, <1>2, <1>5, <1>6, Numbers DEF IInv, OneOutcomePerStart
<1>8. RetryInv'
  <2>1. PICK r \in 0..reConnMs_ :
           /\ reConnMs_ = r * ReConnntervalMs
           /\ tries + Cardinality(Waiting) = starts + r
           /\ r + retries < Retries + starts
    BY DEF IInv, RetryInv
  <2>2. /\ (tries + 1) + Cardinality(Waiting) = (starts + 1) + r
        /\ r + retries < Retries + (starts + 1)
    BY <2>1, Numbers
  <2> QED
    BY <1>1, <1>2, <1>5, <2>1, <2>2 DEF RetryInv
<1> QED
  BY <1>3, <1>4, <1>7, <1>8 DEF IInv

\* The functor of start() by another thread: it waits no more.
LEMMA doConnectKeeps ==
    ASSUME IInv, doConnect
    PROVE  IInv'
<1>1. /\ loop = Idle /\ beforeConnect /\ Head(tasks).kind = "connect"
      /\ tasks \in Seq(Tasks) /\ tasks # <<>> /\ tasks' = Tail(tasks) /\ IsFiniteSet(Waiting)
      /\ UNCHANGED <<reConnMs_, client, retries, loop, starts>>
  BY Counts DEF IInv, TypeOK, doConnect
<1>2. /\ tasks' \in Seq(Tasks) /\ Queued = Queued' \cup {Head(tasks)}
  BY <1>1, QueuedTail
<1>3. Cardinality(Waiting) = Cardinality(Waiting') + 1
  BY <1>1, WaitingTail
<1>4. /\ LoopInv' /\ StatusInv' /\ ConnectionsOwned'
      /\ open' \subseteq Attempts /\ register_' \in [Attempts -> {"none", "connector", "connection"}]
      /\ tries' \in Attempts /\ status_' \in {"unknown", "connecting"} /\ failures' \in Nat
  <2>1. Queued' \subseteq Queued /\ \A t \in Queued : t \in Queued' \/ t.kind # "close"
    BY <1>1, <1>2
  <2> QED
    BY <1>1, <2>1, beforeConnectOwned
<1>5. TypeOK'
  BY <1>1, <1>2, <1>4 DEF IInv, TypeOK
<1>6. /\ tries' = tries + 1 /\ Cardinality(Made') = Cardinality(Made)
      /\ failures' + Cardinality(Connecting') = failures + Cardinality(Connecting) + 1
  BY <1>1, beforeConnectCounts
<1>7. Cardinality(Connecting') \in Nat /\ Cardinality(Waiting') \in Nat
  <2>1. IsFiniteSet(Connecting')
    BY AttemptsFinite, FS_Subset DEF Connecting
  <2>2. Len(tasks') \in Nat
    BY <1>2
  <2>3. IsFiniteSet(1..Len(tasks'))
    BY <2>2, FS_Interval
  <2>4. IsFiniteSet(Waiting')
    BY <2>3, FS_Subset DEF Waiting
  <2> QED
    BY <2>1, <2>4, FS_CardinalityType
<1>8. OneOutcomePerStart'
  <2>1. starts = failures + Cardinality(Made) + Cardinality(Connecting) + Cardinality(Waiting) + retries
    BY DEF IInv, OneOutcomePerStart
  <2>2. starts' = starts /\ retries' = retries
    BY <1>1
  <2> QED
    BY <2>1, <2>2, <1>3, <1>4, <1>6, <1>7, Numbers DEF OneOutcomePerStart
<1>9. RetryInv'
  <2>1. PICK r \in 0..reConnMs_ :
           /\ reConnMs_ = r * ReConnntervalMs
           /\ tries + Cardinality(Waiting) = starts + r
           /\ r + retries < Retries + starts
    BY DEF IInv, RetryInv
  <2>2. (tries + 1) + Cardinality(Waiting') = starts + r
    BY <1>3, <1>7, <2>1, Numbers
  <2> QED
    BY <1>1, <1>6, <2>1, <2>2 DEF RetryInv
<1> QED
  BY <1>4, <1>5, <1>8, <1>9 DEF IInv

\* A retry: the interval is added to the time spent.
LEMMA onReConnectKeeps ==
    ASSUME IInv, onReConnect
    PROVE  IInv'
<1>1. /\ loop = Idle /\ beforeConnect /\ retries > 0 /\ retries' = retries - 1
      /\ reConnMs_' = reConnMs_ + ReConnntervalMs
      /\ UNCHANGED <<client, tasks, loop, starts>>
  BY DEF onReConnect
<1>2. Queued' = Queued /\ Waiting' = Waiting
  BY <1>1 DEF Queued, Waiting
<1>3. /\ LoopInv' /\ StatusInv' /\ ConnectionsOwned'
      /\ open' \subseteq Attempts /\ register_' \in [Attempts -> {"none", "connector", "connection"}]
      /\ tries' \in Attempts /\ status_' \in {"unknown", "connecting"} /\ failures' \in Nat
  BY <1>1, <1>2, beforeConnectOwned
<1>4. TypeOK'
  <2>1. retries' \in Nat /\ reConnMs_' \in Nat
    BY <1>1, Numbers, TimesAssumption
  <2> QED
    BY <1>1, <1>3, <2>1 DEF IInv, TypeOK
<1>5. /\ tries' = tries + 1 /\ Cardinality(Made') = Cardinality(Made)
      /\ failures' + Cardinality(Connecting') = failures + Cardinality(Connecting) + 1
  BY <1>1, beforeConnectCounts
<1>6. Cardinality(Connecting') \in Nat
  <2>1. IsFiniteSet(Connecting')
    BY AttemptsFinite, FS_Subset DEF Connecting
  <2> QED
    BY <2>1, FS_CardinalityType
<1>7. OneOutcomePerStart'
  <2>1. starts = failures + Cardinality(Made) + Cardinality(Connecting) + Cardinality(Waiting) + retries
    BY DEF IInv, OneOutcomePerStart
  <2>2. starts' = starts /\ retries' = retries - 1 /\ Waiting' = Waiting
    BY <1>1, <1>2
  <2> QED
    BY <2>1, <2>2, <1>3, <1>5, <1>6, Numbers DEF OneOutcomePerStart
<1>8. RetryInv'
  <2> DEFINE I == ReConnntervalMs
  <2>1. PICK r \in 0..reConnMs_ :
           /\ reConnMs_ = r * I
           /\ tries + Cardinality(Waiting) = starts + r
           /\ r + retries < Retries + starts
    BY DEF IInv, RetryInv
  <2>2. I \in Nat /\ I >= 1 /\ r \in Nat
    BY <2>1, Numbers, TimesAssumption
  <2>3. reConnMs_' = (r + 1) * I
    <3>1. (r + 1) * I = r * I + I
      BY <2>2
    <3> QED
      BY <1>1, <2>1, <3>1
  <2> HIDE DEF I
  <2>4. r + 1 \in 0..reConnMs_'
    <3>1. reConnMs_' = reConnMs_ + I
      BY <1>1 DEF I
    <3> QED
      BY <2>1, <2>2, <3>1, Numbers
  <2>5. /\ (tries + 1) + Cardinality(Waiting) = starts + (r + 1)
        /\ (r + 1) + (retries - 1) < Retries + starts
    BY <2>1, <2>2, Numbers
  <2> QED
    BY <1>1, <1>2, <1>5, <2>3, <2>4, <2>5 DEF RetryInv, I
<1> QED
  BY <1>3, <1>4, <1>7, <1>8 DEF IInv

-----------------------------------------------------------------------------
(* The outcome of an attempt                                               *)

\* While the loop thread turns, an attempt that is connecting has no connection.
LEMMA ConnectingAlone ==
    ASSUME IInv, NEW k \in Attempts, register_[k] = "connector"
    PROVE  /\ k \in open /\ k \in Nat /\ k # 0
           /\ Referenced(k) => loop.at \in {"assign", "make"} /\ loop.conn = k
           /\ loop = Idle => connStatus_[k] = "none" /\ ~Referenced(k)
<1>1. k \in open
  BY DEF IInv, ConnectionsOwned, Connecting
<1>2. Referenced(k) => loop.at \in {"assign", "make"} /\ loop.conn = k
  BY DEF IInv, StatusInv
<1>3. connStatus_[k] = "connecting" <=> loop.at \in {"assign", "make"} /\ loop.conn = k
  BY DEF IInv, StatusInv
<1>4. connStatus_[k] \in {"none", "connecting"}
  BY DEF IInv, StatusInv
<1> QED
  BY <1>1, <1>2, <1>3, <1>4, AttemptsFinite DEF Idle

\* connector.cpp: a failed attempt closes its descriptor; a retry is scheduled
\* only while the time lasts.
LEMMA connectOnErrorKeeps ==
    ASSUME IInv, NEW k \in Attempts, loop = Idle, register_[k] = "connector", connectOnError(k),
           UNCHANGED <<reConnMs_, connectionPtr_, lock_, held, tasks, pc, tries, starts, asked, stuck>>
    PROVE  IInv'
<1>1. /\ status_' = "disconnected" /\ register_' = [register_ EXCEPT ![k] = "none"]
      /\ open' = open \ {k} /\ UNCHANGED <<connStatus_, loop, overlap>>
      /\ \/ retries' = retries + 1 /\ failures' = failures /\ reConnMs_ < ReConnMaxTimeMs
         \/ failures' = failures + 1 /\ retries' = retries
  BY DEF connectOnError
<1>2. connStatus_[k] = "none" /\ ~Referenced(k) /\ k \in open
  BY ConnectingAlone
<1>3. /\ register_'[k] = "none" /\ k \notin open'
      /\ \A j \in Attempts : j # k => register_'[j] = register_[j] /\ (j \in open' <=> j \in open)
  BY <1>1 DEF IInv, TypeOK
<1>4. \A j \in Attempts : Referenced(j)' <=> Referenced(j)
  <2>1. \A j \in Attempts : register_'[j] = "connection" <=> register_[j] = "connection"
    BY <1>3
  <2> QED
    BY <1>1, <2>1 DEF Referenced
<1>5. TypeOK'
  <2>1. retries' \in Nat /\ failures' \in Nat
    BY <1>1, Numbers
  <2> QED
    BY <1>1, <2>1 DEF IInv, TypeOK
<1>6. LoopInv'
  BY <1>1 DEF IInv, LoopInv, Idle
<1>7. StatusInv'
  <2>1. ASSUME NEW j \in Attempts
        PROVE  /\ connStatus_'[j] = "connected" <=> register_'[j] = "connection"
               /\ connStatus_'[j] = "connecting" <=> loop'.at \in {"assign", "make"} /\ loop'.conn = j
               /\ register_'[j] = "connector" => connStatus_'[j] \in {"none", "connecting"}
               /\ j > tries' => register_'[j] = "none" /\ connStatus_'[j] = "none"
               /\ Referenced(j)' => connStatus_'[j] # "none"
    <3>1. CASE j = k
      BY <1>1, <1>2, <1>3, <1>4, <3>1 DEF IInv, StatusInv
    <3>2. CASE j # k
      BY <1>1, <1>3, <1>4, <3>2 DEF IInv, StatusInv
    <3> QED
      BY <3>1, <3>2
  <2> QED
    BY <1>1, <2>1 DEF IInv, StatusInv, Queued
<1>8. ConnectionsOwned'
  <2>1. ASSUME NEW j \in Attempts
        PROVE  j \in open' <=> register_'[j] = "connector" \/ Referenced(j)'
    <3>1. CASE j = k
      BY <1>2, <1>3, <1>4, <3>1
    <3>2. CASE j # k
      BY <1>3, <1>4, <3>2 DEF IInv, ConnectionsOwned, Connecting
    <3> QED
      BY <3>1, <3>2
  <2> QED
    BY <1>1, <2>1 DEF IInv, ConnectionsOwned, Connecting
<1>9. /\ Made' = Made /\ Waiting' = Waiting
      /\ Cardinality(Connecting') = Cardinality(Connecting) - 1 /\ Cardinality(Connecting') \in Nat
  <2>1. Connecting' = Connecting \ {k} /\ k \in Connecting
    BY <1>3 DEF Connecting
  <2>2. IsFiniteSet(Connecting)
    BY Counts DEF IInv
  <2> QED
    BY <1>1, <2>1, <2>2, FS_RemoveElement, FS_CardinalityType DEF Made, Waiting
<1>10. OneOutcomePerStart'
  <2>1. starts = failures + Cardinality(Made) + Cardinality(Connecting) + Cardinality(Waiting) + retries
    BY DEF IInv, OneOutcomePerStart
  <2>2. failures' + retries' = failures + retries + 1 /\ failures' \in Nat /\ retries' \in Nat
    BY <1>1, Numbers
  <2> QED
    BY <1>9, <2>1, <2>2, Numbers DEF OneOutcomePerStart
<1>11. RetryInv'
  <2>1. PICK r \in 0..reConnMs_ :
           /\ reConnMs_ = r * ReConnntervalMs
           /\ tries + Cardinality(Waiting) = starts + r
           /\ r + retries < Retries + starts
    BY DEF IInv, RetryInv
  <2>2. r + retries' < Retries + starts
    <3>1. CASE retries' = retries
      BY <2>1, <3>1
    <3>2. CASE retries' = retries + 1 /\ reConnMs_ < ReConnMaxTimeMs
      <4>1. r \in Nat /\ r < Retries
        BY <2>1, <3>2, TimeLeft, Numbers
      <4>2. retries' \in Nat /\ failures' \in Nat
        BY <1>5 DEF TypeOK
      <4>3. retries' <= starts
        BY <1>9, <1>10, <4>2, Numbers DEF OneOutcomePerStart
      <4> QED
        BY <4>1, <4>2, <4>3, Numbers
    <3> QED
      BY <1>1, <3>1, <3>2
  <2> QED
    BY <1>9, <2>1, <2>2 DEF RetryInv
<1> QED
  BY <1>5, <1>6, <1>7, <1>8, <1>10, <1>11 DEF IInv

\* connector.cpp: the xConnection is built; the loop thread holds it.
LEMMA connectOnSuccKeeps ==
    ASSUME IInv, NEW k \in Attempts, loop = Idle, register_[k] = "connector", connectOnSucc(k),
           UNCHANGED <<reConnMs_, connectionPtr_, lock_, held, tasks, pc, tries, starts, asked, stuck>>
    PROVE  IInv'
<1>1. /\ status_' = "connected" /\ connStatus_' = [connStatus_ EXCEPT ![k] = "connecting"]
      /\ loop' = [at |-> "assign", conn |-> k] /\ loop'.at = "assign" /\ loop'.conn = k
      /\ UNCHANGED <<register_, open, retries, failures>>
      /\ overlap \subseteq overlap' /\ overlap' \subseteq Attempts
      /\ \A j \in Attempts : connStatus_[j] = "connected" => {j, k} \subseteq overlap'
  BY DEF IInv, TypeOK, connectOnSucc
<1>2. connStatus_[k] = "none" /\ ~Referenced(k) /\ k \in open /\ loop.conn = 0 /\ loop.at = "idle"
  BY ConnectingAlone DEF Idle
<1>3. /\ connStatus_'[k] = "connecting"
      /\ \A j \in Attempts : j # k => connStatus_'[j] = connStatus_[j]
  BY <1>1 DEF IInv, TypeOK
<1>4. \A j \in Attempts : Referenced(j)' <=> Referenced(j) \/ j = k
  BY <1>1, <1>2, AttemptsFinite DEF Referenced
<1>5. TypeOK'
  BY <1>1 DEF IInv, TypeOK
<1>6. LoopInv'
  BY <1>1, <1>3 DEF LoopInv
<1>7. StatusInv'
  <2>1. ASSUME NEW j \in Attempts
        PROVE  /\ connStatus_'[j] = "connected" <=> register_'[j] = "connection"
               /\ connStatus_'[j] = "connecting" <=> loop'.at \in {"assign", "make"} /\ loop'.conn = j
               /\ register_'[j] = "connector" => connStatus_'[j] \in {"none", "connecting"}
               /\ j > tries' => register_'[j] = "none" /\ connStatus_'[j] = "none"
               /\ Referenced(j)' => connStatus_'[j] # "none"
    <3>1. CASE j = k
      BY <1>1, <1>2, <1>3, <1>4, <3>1 DEF IInv, StatusInv
    <3>2. CASE j # k
      BY <1>1, <1>2, <1>3, <1>4, <3>2 DEF IInv, StatusInv
    <3> QED
      BY <3>1, <3>2
  <2>2. /\ \A j \in held : connStatus_'[j] \in Live
        /\ \A t \in Queued : t.kind = "close" => connStatus_'[t.conn] \in Live
        /\ \A c \in Callers : pc[c] = "push" => connectionPtr_ # 0 /\ connStatus_'[connectionPtr_] \in Live
    BY <1>1, <1>2 DEF IInv, TypeOK, StatusInv, Live
  <2>3. \A i, j \in Attempts :
           i # j /\ connStatus_'[i] = "connected" /\ connStatus_'[j] = "connected" => i \in overlap'
    BY <1>1, <1>3 DEF IInv, StatusInv
  <2>4. Queued' = Queued
    BY DEF Queued
  <2> QED
    BY <1>1, <2>1, <2>2, <2>3, <2>4 DEF StatusInv
<1>8. ConnectionsOwned'
  <2>1. ASSUME NEW j \in Attempts
        PROVE  j \in open' <=> register_'[j] = "connector" \/ Referenced(j)'
    BY <1>1, <1>2, <1>4 DEF IInv, ConnectionsOwned, Connecting
  <2>2. connectionPtr_ # k
    BY <1>2 DEF Referenced
  <2>3. ASSUME NEW j \in Attempts
        PROVE  /\ connectionPtr_ = j /\ connStatus_'[j] = "disconnecting" => j \in stuck
               /\ connStatus_'[j] = "connected" => connectionPtr_ = j \/ j \in overlap'
    BY <1>1, <1>2, <1>3, <2>2 DEF IInv, ConnectionsOwned
  <2> QED
    BY <2>1, <2>3 DEF ConnectionsOwned, Connecting
<1>9. Made' = Made /\ Connecting' = Connecting /\ Waiting' = Waiting
  BY <1>1, <1>2, <1>3 DEF Made, Connecting, Waiting
<1>10. OneOutcomePerStart' /\ RetryInv'
  BY <1>1, <1>9 DEF IInv, OneOutcomePerStart, RetryInv
<1> QED
  BY <1>5, <1>6, <1>7, <1>8, <1>10 DEF IInv

\* connector.cpp, onEventHandle.
LEMMA onEventHandleKeeps ==
    ASSUME IInv, NEW k \in Attempts, onEventHandle(k)
    PROVE  IInv'
<1>1. connectOnError(k) \/ connectOnSucc(k)
  BY DEF onEventHandle
<1> QED
  BY <1>1, connectOnErrorKeeps, connectOnSuccKeeps DEF onEventHandle

-----------------------------------------------------------------------------
(* A connection is let go                                                  *)

\* The last reference closes the descriptor, and nothing else does.
LEMMA UnreferencedClosed ==
    ASSUME IInv, closeUnreferenced,
           \A k \in Attempts : register_'[k] = "connector" <=> register_[k] = "connector",
           \A k \in Attempts : Referenced(k)' => Referenced(k),
           \A k \in Attempts : register_[k] = "connector" /\ Referenced(k) => Referenced(k)'
    PROVE  /\ open' \subseteq Attempts
           /\ \A k \in Attempts : k \in open' <=> register_'[k] = "connector" \/ Referenced(k)'
<1>1. /\ open \subseteq Attempts
      /\ \A k \in Attempts : k \in open <=> register_[k] = "connector" \/ Referenced(k)
  BY DEF IInv, TypeOK, ConnectionsOwned, Connecting
<1>2. open' = open \ {k \in Attempts : Referenced(k) /\ ~Referenced(k)'}
  BY DEF closeUnreferenced
<1>3. open' \subseteq Attempts
  BY <1>1, <1>2
<1>4. ASSUME NEW k \in Attempts
      PROVE  k \in open' <=> register_'[k] = "connector" \/ Referenced(k)'
  BY <1>1, <1>2
<1> QED
  BY <1>3, <1>4

\* connectedToServer: connectionPtr_ takes the new connection; the one it had
\* was connected only beside another.
LEMMA assignKeeps ==
    ASSUME IInv, assign
    PROVE  IInv'
<1>1. /\ loop.at = "assign" /\ lock_ = "free" /\ lock_' = lock_
      /\ connectionPtr_' = loop.conn /\ loop' = [loop EXCEPT !.at = "make"] /\ closeUnreferenced
      /\ UNCHANGED <<connector, connStatus_, register_, held, tasks, pc, histories>>
  BY DEF assign, guarded
<1>2. PICK k \in Attempts : loop = [at |-> "assign", conn |-> k]
  BY <1>1 DEF IInv, TypeOK, Idle
<1>3. /\ loop.conn = k /\ loop' = [at |-> "make", conn |-> k] /\ loop'.at = "make" /\ loop'.conn = k
      /\ connectionPtr_' = k
  BY <1>1, <1>2
<1>4. register_[k] = "connector" /\ connStatus_[k] = "connecting"
  BY <1>1, <1>3 DEF IInv, LoopInv, StatusInv
<1>5. \A c \in Callers : pc[c] # "push"
  BY <1>1, CallersAssumption DEF IInv, TypeOK
<1>6. \A j \in Attempts : connStatus_[j] = "connected" => {j, k} \subseteq overlap
  BY <1>1, <1>3 DEF IInv, LoopInv
<1>7. Queued' = Queued /\ Waiting' = Waiting /\ Made' = Made /\ Connecting' = Connecting
  BY <1>1 DEF Queued, Waiting, Made, Connecting
<1>8. /\ \A j \in Attempts : Referenced(j)' => Referenced(j)
      /\ \A j \in Attempts : register_[j] = "connector" /\ Referenced(j) => Referenced(j)'
  <2>1. \A j \in Attempts : register_[j] = "connector" /\ Referenced(j) => j = k
    BY <1>3, ConnectingAlone
  <2> QED
    BY <1>1, <1>3, <2>1 DEF Referenced
<1>9. /\ open' \subseteq Attempts
      /\ \A j \in Attempts : j \in open' <=> register_'[j] = "connector" \/ Referenced(j)'
  BY <1>1, <1>8, UnreferencedClosed
<1>10. TypeOK'
  <2>1. loop' \in [at : {"assign", "make", "drop"}, conn : Attempts] /\ connectionPtr_' \in Attempts
    BY <1>3
  <2>2. /\ lock_' = lock_ /\ pc' = pc /\ tasks' = tasks
        /\ UNCHANGED <<connector, connStatus_, register_, held, histories>>
    BY <1>1
  <2> QED
    BY <1>9, <2>1, <2>2 DEF IInv, TypeOK
<1>11. LoopInv'
  BY <1>1, <1>3, <1>4, <1>6 DEF LoopInv
<1>12. StatusInv'
  <2>1. ASSUME NEW j \in Attempts
        PROVE  connStatus_'[j] = "connecting" <=> loop'.at \in {"assign", "make"} /\ loop'.conn = j
    BY <1>1, <1>3 DEF IInv, StatusInv
  <2>2. ASSUME NEW j \in Attempts
        PROVE  Referenced(j)' => connStatus_'[j] # "none"
    BY <1>1, <1>8 DEF IInv, StatusInv
  <2> QED
    BY <1>1, <1>5, <1>7, <2>1, <2>2 DEF IInv, StatusInv
<1>13. ConnectionsOwned'
  BY <1>1, <1>3, <1>4, <1>6, <1>9 DEF ConnectionsOwned, Connecting
<1>14. OneOutcomePerStart' /\ RetryInv'
  BY <1>1, <1>7, ChainsFrame
<1> QED
  BY <1>10, <1>11, <1>12, <1>13, <1>14 DEF IInv

\* makeConnected: the loop's entry for the descriptor passes from the connector
\* to the connection, and an attempt in progress becomes a connection made.
LEMMA makeConnectedKeeps ==
    ASSUME IInv, makeConnected
    PROVE  IInv'
<1>1. PICK k \in Attempts : loop = [at |-> "make", conn |-> k]
  BY DEF IInv, TypeOK, Idle, makeConnected
<1>2. loop.at = "make" /\ loop.conn = k /\ k # 0
  BY <1>1, AttemptsFinite
<1>3. /\ loop' = Idle /\ loop'.at = "idle" /\ loop'.conn = 0
      /\ connStatus_' = [connStatus_ EXCEPT ![k] = "connected"]
      /\ register_' = [register_ EXCEPT ![k] = "connection"]
      /\ held' \in {held, held \cup {k}}
      /\ UNCHANGED <<connector, connectionPtr_, lock_, open, tasks, pc, histories>>
  BY <1>2 DEF makeConnected, connectionFinished, Idle
<1>4. /\ register_[k] = "connector" /\ connStatus_[k] = "connecting" /\ connectionPtr_ = k
      /\ \A j \in Attempts : connStatus_[j] = "connected" => {j, k} \subseteq overlap
  BY <1>2 DEF IInv, LoopInv, StatusInv
<1>5. /\ connStatus_'[k] = "connected" /\ register_'[k] = "connection"
      /\ \A j \in Attempts : j # k => connStatus_'[j] = connStatus_[j] /\ register_'[j] = register_[j]
  BY <1>3 DEF IInv, TypeOK
<1>6. \A j \in Attempts : Referenced(j)' <=> Referenced(j)
  BY <1>2, <1>3, <1>4, <1>5, AttemptsFinite DEF Referenced
<1>7. TypeOK'
  BY <1>3 DEF IInv, TypeOK
<1>8. LoopInv'
  BY <1>3 DEF LoopInv
<1>9. StatusInv'
  <2>1. ASSUME NEW j \in Attempts
        PROVE  /\ connStatus_'[j] = "connected" <=> register_'[j] = "connection"
               /\ connStatus_'[j] = "connecting" <=> loop'.at \in {"assign", "make"} /\ loop'.conn = j
               /\ register_'[j] = "connector" => connStatus_'[j] \in {"none", "connecting"}
               /\ j > tries' => register_'[j] = "none" /\ connStatus_'[j] = "none"
               /\ Referenced(j)' => connStatus_'[j] # "none"
    <3>1. CASE j = k
      <4>1. ~(k > tries)
        BY <1>4 DEF IInv, StatusInv
      <4> QED
        BY <1>3, <1>5, <3>1, <4>1
    <3>2. CASE j # k
      BY <1>2, <1>3, <1>5, <1>6, <3>2 DEF IInv, StatusInv
    <3> QED
      BY <3>1, <3>2
  <2>2. \A j \in Attempts : connStatus_[j] \in Live => connStatus_'[j] \in Live
    BY <1>5 DEF Live
  <2>3. /\ \A j \in held' : connStatus_'[j] \in Live
        /\ \A t \in Queued : t.kind = "close" => connStatus_'[t.conn] \in Live
        /\ connStatus_'[connectionPtr_] \in Live /\ connectionPtr_ # 0
    <3>1. \A j \in held' : connStatus_'[j] \in Live
      BY <1>3, <1>5, <2>2 DEF IInv, TypeOK, StatusInv, Live
    <3>2. ASSUME NEW t \in Queued, t.kind = "close"
          PROVE  connStatus_'[t.conn] \in Live
      <4>1. t \in Tasks
        BY DEF IInv, TypeOK, Queued
      <4>2. t.conn \in Attempts
        BY <3>2, <4>1 DEF Tasks
      <4> QED
        BY <2>2, <3>2, <4>2 DEF IInv, StatusInv
    <3> QED
      BY <1>2, <1>4, <1>5, <3>1, <3>2 DEF Live
  <2>4. \A i, j \in Attempts :
           i # j /\ connStatus_'[i] = "connected" /\ connStatus_'[j] = "connected" => i \in overlap
    BY <1>4, <1>5 DEF IInv, StatusInv
  <2>5. Queued' = Queued
    BY <1>3 DEF Queued
  <2> QED
    BY <1>3, <2>1, <2>3, <2>4, <2>5 DEF StatusInv
<1>10. ConnectionsOwned'
  <2>1. ASSUME NEW j \in Attempts
        PROVE  j \in open' <=> register_'[j] = "connector" \/ Referenced(j)'
    <3>1. CASE j = k
      <4>1. Referenced(k)
        BY <1>2 DEF Referenced
      <4> QED
        BY <1>3, <1>6, <3>1, <4>1 DEF IInv, ConnectionsOwned, Connecting
    <3>2. CASE j # k
      BY <1>3, <1>5, <1>6, <3>2 DEF IInv, ConnectionsOwned, Connecting
    <3> QED
      BY <3>1, <3>2
  <2> QED
    BY <1>3, <1>4, <1>5, <2>1 DEF ConnectionsOwned, Connecting
<1>11. /\ Waiting' = Waiting
       /\ Cardinality(Made') = Cardinality(Made) + 1
       /\ Cardinality(Connecting') = Cardinality(Connecting) - 1
  <2>1. /\ Connecting' = Connecting \ {k} /\ k \in Connecting
        /\ Made' = Made \cup {k} /\ k \notin Made /\ Waiting' = Waiting
    BY <1>3, <1>4, <1>5 DEF Connecting, Made, Waiting
  <2>2. IsFiniteSet(Connecting) /\ IsFiniteSet(Made)
    BY Counts DEF IInv
  <2> QED
    BY <2>1, <2>2, FS_RemoveElement, FS_AddElement
<1>12. OneOutcomePerStart'
  <2>1. starts = failures + Cardinality(Made) + Cardinality(Connecting) + Cardinality(Waiting) + retries
    BY DEF IInv, OneOutcomePerStart
  <2> QED
    BY <1>3, <1>11, <2>1, Numbers DEF OneOutcomePerStart
<1>13. RetryInv'
  BY <1>3, <1>11 DEF IInv, RetryInv
<1> QED
  BY <1>7, <1>8, <1>9, <1>10, <1>12, <1>13 DEF IInv

-----------------------------------------------------------------------------
(* A connection closes                                                     *)

\* closeConn of a connected one: its status and the loop's entry go together,
\* and it stays one of those that were made.
LEMMA ClosedFrame ==
    ASSUME IInv, NEW k \in Attempts, loop = Idle, connStatus_[k] = "connected",
           connStatus_' = [connStatus_ EXCEPT ![k] = "disconnecting"],
           register_' = [register_ EXCEPT ![k] = "none"],
           loop' \in {Idle, [at |-> "drop", conn |-> k]},
           UNCHANGED <<connectionPtr_, held, pc, tries, overlap>>,
           Queued' \subseteq Queued
    PROVE  /\ connStatus_' \in [Attempts -> {"none", "connecting", "connected", "disconnecting"}]
           /\ register_' \in [Attempts -> {"none", "connector", "connection"}]
           /\ loop' \in [at : {"assign", "make", "drop"}, conn : Attempts] \cup {Idle}
           /\ LoopInv' /\ StatusInv'
           /\ Made' = Made /\ Connecting' = Connecting
           /\ \A j \in Attempts : Referenced(j)' => Referenced(j)
<1>1. /\ connStatus_'[k] = "disconnecting" /\ register_'[k] = "none" /\ register_[k] = "connection"
      /\ \A j \in Attempts : j # k => connStatus_'[j] = connStatus_[j] /\ register_'[j] = register_[j]
  BY DEF IInv, TypeOK, StatusInv
<1>2. loop.conn = 0 /\ loop'.at \in {"idle", "drop"} /\ loop'.conn \in {0, k}
      /\ (loop'.at = "drop" => loop'.conn = k)
  BY DEF Idle
<1>3. \A j \in Attempts : Referenced(j)' => Referenced(j)
  <2>1. ASSUME NEW j \in Attempts, Referenced(j)'
        PROVE  Referenced(j)
    <3> DEFINE t == [kind |-> "close", conn |-> j]
    <3>1. \/ j \in held' \cup {connectionPtr_', loop'.conn}
          \/ register_'[j] = "connection" \/ t \in Queued'
      BY <2>1 DEF Referenced, Queued
    <3>2. CASE j = k
      BY <1>1, <3>2 DEF Referenced
    <3>3. CASE j # k
      <4>1. j \in held \cup {connectionPtr_, loop.conn} \/ register_[j] = "connection" \/ t \in Queued
        BY <1>1, <1>2, <3>1, <3>3, AttemptsFinite
      <4> QED
        BY <4>1, ReferencedQueued
    <3> QED
      BY <3>2, <3>3
  <2> QED
    BY <2>1
<1>4. Made' = Made /\ Connecting' = Connecting
  BY <1>1 DEF Made, Connecting
<1>5. LoopInv'
  <2>1. \A j \in Attempts : connStatus_'[j] = "connected" => j \in overlap
    BY <1>1 DEF IInv, StatusInv
  <2> QED
    BY <1>1, <1>2, <2>1 DEF LoopInv
<1>6. StatusInv'
  <2>1. ASSUME NEW j \in Attempts
        PROVE  /\ connStatus_'[j] = "connected" <=> register_'[j] = "connection"
               /\ connStatus_'[j] = "connecting" <=> loop'.at \in {"assign", "make"} /\ loop'.conn = j
               /\ register_'[j] = "connector" => connStatus_'[j] \in {"none", "connecting"}
               /\ j > tries' => register_'[j] = "none" /\ connStatus_'[j] = "none"
               /\ Referenced(j)' => connStatus_'[j] # "none"
    <3>1. CASE j = k
      <4>1. ~(k > tries)
        BY DEF IInv, StatusInv
      <4> QED
        BY <1>1, <1>2, <3>1, <4>1
    <3>2. CASE j # k
      <4>1. ~(loop.at \in {"assign", "make"} /\ loop.conn = j)
        BY DEF Idle
      <4> QED
        BY <1>1, <1>2, <1>3, <3>2, <4>1 DEF IInv, StatusInv
    <3> QED
      BY <3>1, <3>2
  <2>2. \A j \in Attempts : connStatus_[j] \in Live => connStatus_'[j] \in Live
    BY <1>1 DEF Live
  <2>3. \A j \in held' : connStatus_'[j] \in Live
    BY <2>2 DEF IInv, TypeOK, StatusInv
  <2>4. ASSUME NEW t \in Queued', t.kind = "close"
        PROVE  connStatus_'[t.conn] \in Live
    <3>0. t \in Queued
      OBVIOUS
    <3>1. t \in Tasks /\ t \in Queued
      BY <3>0 DEF IInv, TypeOK, Queued
    <3>2. t.conn \in Attempts
      BY <2>4, <3>1 DEF Tasks
    <3> QED
      BY <2>2, <2>4, <3>1, <3>2 DEF IInv, StatusInv
  <2>5. \A c \in Callers : pc'[c] = "push" => connectionPtr_' # 0 /\ connStatus_'[connectionPtr_'] \in Live
    BY <2>2 DEF IInv, TypeOK, StatusInv
  <2>6. \A i, j \in Attempts :
           i # j /\ connStatus_'[i] = "connected" /\ connStatus_'[j] = "connected" => i \in overlap'
    BY <1>1 DEF IInv, StatusInv
  <2> QED
    BY <2>1, <2>3, <2>4, <2>5, <2>6 DEF StatusInv
<1>7. /\ connStatus_' \in [Attempts -> {"none", "connecting", "connected", "disconnecting"}]
      /\ register_' \in [Attempts -> {"none", "connector", "connection"}]
      /\ loop' \in [at : {"assign", "make", "drop"}, conn : Attempts] \cup {Idle}
  BY DEF IInv, TypeOK
<1> QED
  BY <1>3, <1>4, <1>5, <1>6, <1>7

\* The close of a connection by the loop thread, up to lock_.
LEMMA closeInLoopKeeps ==
    ASSUME IInv, NEW k \in Attempts, closeInLoop(k)
    PROVE  IInv'
<1>1. /\ loop = Idle /\ connStatus_[k] = "connected"
      /\ connStatus_' = [connStatus_ EXCEPT ![k] = "disconnecting"]
      /\ register_' = [register_ EXCEPT ![k] = "none"]
      /\ loop' = [at |-> "drop", conn |-> k]
      /\ UNCHANGED <<connector, connectionPtr_, lock_, open, held, tasks, pc, histories>>
  BY DEF closeInLoop, closeConn
<1>2. Queued' = Queued /\ Waiting' = Waiting
  BY <1>1 DEF Queued, Waiting
<1>3. /\ connStatus_' \in [Attempts -> {"none", "connecting", "connected", "disconnecting"}]
      /\ register_' \in [Attempts -> {"none", "connector", "connection"}]
      /\ loop' \in [at : {"assign", "make", "drop"}, conn : Attempts] \cup {Idle}
      /\ LoopInv' /\ StatusInv'
      /\ Made' = Made /\ Connecting' = Connecting
      /\ \A j \in Attempts : Referenced(j)' => Referenced(j)
  BY <1>1, <1>2, ClosedFrame
<1>4. TypeOK'
  BY <1>1, <1>3 DEF IInv, TypeOK
<1>5. /\ connStatus_'[k] = "disconnecting" /\ register_'[k] = "none" /\ register_[k] = "connection"
      /\ \A j \in Attempts : j # k => connStatus_'[j] = connStatus_[j] /\ register_'[j] = register_[j]
  BY <1>1 DEF IInv, TypeOK, StatusInv
<1>6. ConnectionsOwned'
  <2>1. ASSUME NEW j \in Attempts
        PROVE  Referenced(j) => Referenced(j)'
    BY <1>1, <1>5, AttemptsFinite DEF Referenced, Idle
  <2>2. ASSUME NEW j \in Attempts
        PROVE  j \in open' <=> j \in Connecting' \/ Referenced(j)'
    BY <1>1, <1>3, <2>1 DEF IInv, ConnectionsOwned
  <2>3. ASSUME NEW j \in Attempts, j # k
        PROVE  /\ connectionPtr_ = j /\ connStatus_[j] = "disconnecting" => j \in stuck
               /\ connStatus_[j] = "connected" => connectionPtr_ = j \/ j \in overlap
    BY <1>1 DEF IInv, ConnectionsOwned, Idle
  <2> QED
    BY <1>1, <1>5, <2>2, <2>3 DEF ConnectionsOwned
<1>7. OneOutcomePerStart' /\ RetryInv'
  BY <1>1, <1>2, <1>3, ChainsFrame
<1> QED
  BY <1>3, <1>4, <1>6, <1>7 DEF IInv

\* stop() on the loop thread.
LEMMA stopInLoopKeeps ==
    ASSUME IInv, stopInLoop
    PROVE  IInv'
<1>1. PICK k \in Attempts :
         /\ loop = Idle /\ connStatus_[k] = "connected" /\ connectionPtr_ = k
         /\ connStatus_' = [connStatus_ EXCEPT ![k] = "disconnecting"]
         /\ register_' = [register_ EXCEPT ![k] = "none"]
         /\ stuck' = stuck \cup {k}
         /\ UNCHANGED <<connector, connectionPtr_, lock_, open, held, tasks, loop, pc, asked, overlap>>
  BY DEF stopInLoop, guarded, current
<1>2. Queued' = Queued /\ Waiting' = Waiting
  BY <1>1 DEF Queued, Waiting
<1>3. /\ connStatus_' \in [Attempts -> {"none", "connecting", "connected", "disconnecting"}]
      /\ register_' \in [Attempts -> {"none", "connector", "connection"}]
      /\ LoopInv' /\ StatusInv'
      /\ Made' = Made /\ Connecting' = Connecting
      /\ \A j \in Attempts : Referenced(j)' => Referenced(j)
  BY <1>1, <1>2, ClosedFrame
<1>4. TypeOK'
  BY <1>1, <1>3 DEF IInv, TypeOK
<1>5. /\ connStatus_'[k] = "disconnecting" /\ register_'[k] = "none"
      /\ \A j \in Attempts : j # k => connStatus_'[j] = connStatus_[j] /\ register_'[j] = register_[j]
  BY <1>1 DEF IInv, TypeOK
<1>6. ConnectionsOwned'
  <2>1. ASSUME NEW j \in Attempts
        PROVE  Referenced(j) => Referenced(j)'
    BY <1>1, <1>5 DEF Referenced
  <2>2. ASSUME NEW j \in Attempts
        PROVE  j \in open' <=> j \in Connecting' \/ Referenced(j)'
    BY <1>1, <1>3, <2>1 DEF IInv, ConnectionsOwned
  <2>3. ASSUME NEW j \in Attempts, j # k
        PROVE  /\ connectionPtr_ = j /\ connStatus_[j] = "disconnecting" => j \in stuck
               /\ connStatus_[j] = "connected" => connectionPtr_ = j \/ j \in overlap
    BY <1>1 DEF IInv, ConnectionsOwned, Idle
  <2> QED
    BY <1>1, <1>5, <2>2, <2>3 DEF ConnectionsOwned
<1>7. OneOutcomePerStart' /\ RetryInv'
  BY <1>1, <1>2, <1>3, ChainsFrame
<1> QED
  BY <1>3, <1>4, <1>6, <1>7 DEF IInv

\* The functor of stop() by another thread, for a connection that closed before:
\* one reference less.
LEMMA staleCloseKeeps ==
    ASSUME IInv, NEW k \in Attempts, loop = Idle, connStatus_[k] = "disconnecting",
           tasks' \in Seq(Tasks), Queued = Queued' \cup {[kind |-> "close", conn |-> k]},
           Cardinality(Waiting') = Cardinality(Waiting), closeUnreferenced,
           UNCHANGED <<connector, connectionPtr_, lock_, connStatus_, register_, held, loop, pc, histories>>
    PROVE  IInv'
<1>1. \A j \in Attempts : Referenced(j)' => Referenced(j)
  <2>1. ASSUME NEW j \in Attempts, Referenced(j)'
        PROVE  Referenced(j)
    <3> DEFINE t == [kind |-> "close", conn |-> j]
    <3>1. \/ j \in held' \cup {connectionPtr_', loop'.conn}
          \/ register_'[j] = "connection" \/ t \in Queued'
      BY <2>1 DEF Referenced, Queued
    <3>2. j \in held \cup {connectionPtr_, loop.conn} \/ register_[j] = "connection" \/ t \in Queued
      BY <3>1
    <3> QED
      BY <3>2, ReferencedQueued
  <2> QED
    BY <2>1
<1>2. \A j \in Attempts : ~(register_[j] = "connector" /\ Referenced(j))
  BY ConnectingAlone
<1>3. /\ open' \subseteq Attempts
      /\ \A j \in Attempts : j \in open' <=> register_'[j] = "connector" \/ Referenced(j)'
  BY <1>1, <1>2, UnreferencedClosed
<1>4. TypeOK'
  BY <1>3 DEF IInv, TypeOK
<1>5. LoopInv'
  BY DEF IInv, LoopInv
<1>6. StatusInv'
  <2>1. \A j \in Attempts : Referenced(j)' => connStatus_'[j] # "none"
    BY <1>1 DEF IInv, StatusInv
  <2>2. \A t \in Queued' : t.kind = "close" => connStatus_'[t.conn] \in Live
    BY DEF IInv, StatusInv
  <2> QED
    BY <2>1, <2>2 DEF IInv, StatusInv
<1>7. ConnectionsOwned'
  BY <1>3 DEF IInv, ConnectionsOwned, Connecting
<1>8. Made' = Made /\ Connecting' = Connecting
  BY DEF Made, Connecting
<1>9. OneOutcomePerStart' /\ RetryInv'
  BY <1>8, ChainsFrame
<1> QED
  BY <1>4, <1>5, <1>6, <1>7, <1>9 DEF IInv

\* The same functor for a connection that is connected: it keeps the reference
\* until lock_ is had.
LEMMA functorCloseKeeps ==
    ASSUME IInv, NEW k \in Attempts, loop = Idle, connStatus_[k] = "connected",
           connStatus_' = [connStatus_ EXCEPT ![k] = "disconnecting"],
           register_' = [register_ EXCEPT ![k] = "none"],
           loop' = [at |-> "drop", conn |-> k],
           tasks' \in Seq(Tasks), Queued = Queued' \cup {[kind |-> "close", conn |-> k]},
           Cardinality(Waiting') = Cardinality(Waiting), closeUnreferenced,
           UNCHANGED <<connector, connectionPtr_, lock_, held, pc, histories>>
    PROVE  IInv'
<1>1. /\ connStatus_' \in [Attempts -> {"none", "connecting", "connected", "disconnecting"}]
      /\ register_' \in [Attempts -> {"none", "connector", "connection"}]
      /\ loop' \in [at : {"assign", "make", "drop"}, conn : Attempts] \cup {Idle}
      /\ LoopInv' /\ StatusInv'
      /\ Made' = Made /\ Connecting' = Connecting
      /\ \A j \in Attempts : Referenced(j)' => Referenced(j)
  BY ClosedFrame
<1>2. \A j \in Attempts : ~(register_[j] = "connector" /\ Referenced(j))
  BY ConnectingAlone
<1>3. /\ connStatus_'[k] = "disconnecting" /\ register_'[k] = "none" /\ register_[k] = "connection"
      /\ \A j \in Attempts : j # k => connStatus_'[j] = connStatus_[j] /\ register_'[j] = register_[j]
  BY DEF IInv, TypeOK, StatusInv
<1>4. /\ open' \subseteq Attempts
      /\ \A j \in Attempts : j \in open' <=> register_'[j] = "connector" \/ Referenced(j)'
  <2>1. \A j \in Attempts : register_'[j] = "connector" <=> register_[j] = "connector"
    BY <1>3
  <2> QED
    BY <1>1, <1>2, <2>1, UnreferencedClosed
<1>5. TypeOK'
  BY <1>1, <1>4 DEF IInv, TypeOK
<1>6. ConnectionsOwned'
  <2>1. ASSUME NEW j \in Attempts, j # k
        PROVE  /\ connectionPtr_ = j /\ connStatus_[j] = "disconnecting" => j \in stuck
               /\ connStatus_[j] = "connected" => connectionPtr_ = j \/ j \in overlap
    BY DEF IInv, ConnectionsOwned, Idle
  <2> QED
    BY <1>3, <1>4, <2>1 DEF ConnectionsOwned, Connecting
<1>7. OneOutcomePerStart' /\ RetryInv'
  BY <1>1, ChainsFrame
<1> QED
  BY <1>1, <1>5, <1>6, <1>7 DEF IInv

\* The functor of stop().
LEMMA queuedCloseKeeps ==
    ASSUME IInv, doClose
    PROVE  IInv'
<1>1. /\ loop = Idle /\ tasks # <<>> /\ Head(tasks).kind = "close" /\ tasks' = Tail(tasks)
      /\ tasks \in Seq(Tasks) /\ IsFiniteSet(Waiting)
      /\ UNCHANGED <<connector, connectionPtr_, lock_, held, pc, histories>> /\ closeUnreferenced
  BY Counts DEF IInv, TypeOK, doClose
<1>2. /\ tasks' \in Seq(Tasks) /\ Head(tasks) \in Tasks /\ Queued = Queued' \cup {Head(tasks)}
  BY <1>1, QueuedTail
<1>3. PICK k \in Attempts : Head(tasks) = [kind |-> "close", conn |-> k]
  BY <1>1, <1>2 DEF Tasks
<1>4. Cardinality(Waiting') = Cardinality(Waiting)
  <2>1. Cardinality(Waiting) = Cardinality(Waiting') + 0
    BY <1>1, WaitingTail
  <2>2. Len(tasks') \in Nat
    BY <1>2
  <2>3. IsFiniteSet(1..Len(tasks'))
    BY <2>2, FS_Interval
  <2>4. IsFiniteSet(Waiting')
    BY <2>3, FS_Subset DEF Waiting
  <2> QED
    BY <2>1, <2>4, FS_CardinalityType
<1>5. Queued = Queued' \cup {[kind |-> "close", conn |-> k]}
  BY <1>2, <1>3
<1>6. connStatus_[k] \in {"connected", "disconnecting"}
  <2> DEFINE t == [kind |-> "close", conn |-> k]
  <2>1. t \in Queued /\ t.kind = "close" /\ t.conn = k
    BY <1>5
  <2> HIDE DEF t
  <2> QED
    BY <2>1 DEF IInv, StatusInv, Live
<1>7. closeConn(k)
  <2>1. Head(tasks).conn = k
    BY <1>3
  <2> QED
    BY <2>1 DEF doClose, closeConn
<1>8. CASE connStatus_[k] = "disconnecting"
  <2>1. UNCHANGED <<connStatus_, register_, loop>>
    BY <1>7, <1>8 DEF closeConn
  <2> QED
    BY <1>1, <1>2, <1>4, <1>5, <1>8, <2>1, staleCloseKeeps
<1>9. CASE connStatus_[k] = "connected"
  <2>1. /\ connStatus_' = [connStatus_ EXCEPT ![k] = "disconnecting"]
        /\ register_' = [register_ EXCEPT ![k] = "none"]
        /\ loop' = [at |-> "drop", conn |-> k]
    BY <1>7, <1>9 DEF closeConn
  <2> QED
    BY <1>1, <1>2, <1>4, <1>5, <1>9, <2>1, functorCloseKeeps
<1> QED
  BY <1>6, <1>8, <1>9

\* doCloseConnection: connectionPtr_ is reset, and the loop thread lets go.
LEMMA doCloseConnectionKeeps ==
    ASSUME IInv, doCloseConnection
    PROVE  IInv'
<1>1. /\ loop.at = "drop" /\ lock_ = "free" /\ lock_' = lock_ /\ connectionPtr_' = 0 /\ loop' = Idle
      /\ loop'.at = "idle" /\ loop'.conn = 0 /\ closeUnreferenced
      /\ UNCHANGED <<connector, connStatus_, register_, held, tasks, pc, histories>>
  BY DEF doCloseConnection, guarded, Idle
<1>2. \A c \in Callers : pc[c] # "push"
  BY <1>1, CallersAssumption DEF IInv, TypeOK
<1>3. \A j \in Attempts : connStatus_[j] = "connected" => j \in overlap
  BY <1>1 DEF IInv, LoopInv
<1>4. Queued' = Queued /\ Waiting' = Waiting /\ Made' = Made /\ Connecting' = Connecting
  BY <1>1 DEF Queued, Waiting, Made, Connecting
<1>5. /\ \A j \in Attempts : Referenced(j)' => Referenced(j)
      /\ \A j \in Attempts : ~(register_[j] = "connector" /\ Referenced(j))
  <2>1. \A j \in Attempts : register_[j] = "connector" => ~Referenced(j)
    BY <1>1, ConnectingAlone
  <2> QED
    BY <1>1, <2>1, AttemptsFinite DEF Referenced
<1>6. /\ open' \subseteq Attempts
      /\ \A j \in Attempts : j \in open' <=> register_'[j] = "connector" \/ Referenced(j)'
  BY <1>1, <1>5, UnreferencedClosed
<1>7. TypeOK'
  <2>1. loop' \in {Idle} /\ connectionPtr_' \in {0}
    BY <1>1
  <2> QED
    BY <1>1, <1>6, <2>1 DEF IInv, TypeOK
<1>8. LoopInv'
  BY <1>1 DEF LoopInv
<1>9. StatusInv'
  <2>1. ASSUME NEW j \in Attempts
        PROVE  connStatus_'[j] = "connecting" <=> loop'.at \in {"assign", "make"} /\ loop'.conn = j
    BY <1>1 DEF IInv, StatusInv
  <2>2. ASSUME NEW j \in Attempts
        PROVE  Referenced(j)' => connStatus_'[j] # "none"
    BY <1>1, <1>5 DEF IInv, StatusInv
  <2> QED
    BY <1>1, <1>2, <1>4, <2>1, <2>2 DEF IInv, StatusInv
<1>10. ConnectionsOwned'
  BY <1>1, <1>3, <1>6, AttemptsFinite DEF ConnectionsOwned, Connecting
<1>11. OneOutcomePerStart' /\ RetryInv'
  BY <1>1, <1>4, ChainsFrame
<1> QED
  BY <1>7, <1>8, <1>9, <1>10, <1>11 DEF IInv

\* User code lets a connection go.
LEMMA releaseKeeps ==
    ASSUME IInv, NEW k \in Attempts, release(k)
    PROVE  IInv'
<1>1. /\ held' = held \ {k} /\ closeUnreferenced
      /\ UNCHANGED <<connector, connectionPtr_, lock_, connStatus_, register_, tasks, loop, pc, histories>>
  BY DEF release
<1>2. Queued' = Queued /\ Waiting' = Waiting /\ Made' = Made /\ Connecting' = Connecting
  BY <1>1 DEF Queued, Waiting, Made, Connecting
<1>3. /\ \A j \in Attempts : Referenced(j)' => Referenced(j)
      /\ \A j \in Attempts : register_[j] = "connector" /\ Referenced(j) => Referenced(j)'
  <2>1. \A j \in Attempts : register_[j] = "connector" /\ Referenced(j) => loop.conn = j
    BY ConnectingAlone
  <2> QED
    BY <1>1, <2>1 DEF Referenced
<1>4. /\ open' \subseteq Attempts
      /\ \A j \in Attempts : j \in open' <=> register_'[j] = "connector" \/ Referenced(j)'
  BY <1>1, <1>3, UnreferencedClosed
<1>5. TypeOK'
  BY <1>1, <1>4 DEF IInv, TypeOK
<1>6. LoopInv'
  BY <1>1 DEF IInv, LoopInv
<1>7. StatusInv'
  <2>1. \A j \in Attempts : Referenced(j)' => connStatus_'[j] # "none"
    BY <1>1, <1>3 DEF IInv, StatusInv
  <2> QED
    BY <1>1, <1>2, <2>1 DEF IInv, StatusInv
<1>8. ConnectionsOwned'
  BY <1>1, <1>4 DEF IInv, ConnectionsOwned, Connecting
<1>9. OneOutcomePerStart' /\ RetryInv'
  BY <1>1, <1>2, ChainsFrame
<1> QED
  BY <1>5, <1>6, <1>7, <1>8, <1>9 DEF IInv

-----------------------------------------------------------------------------
(* The theorems                                                            *)

\* Before the first start() there is nothing.
LEMMA InitIInv == Init => IInv
<1> SUFFICES ASSUME Init PROVE IInv
  OBVIOUS
<1> USE DEF Init
<1>1. TypeOK
  <2>1. <<>> \in Seq(Tasks) /\ 0 \in 0..MaxStarts
    BY BoundsAssumption
  <2> QED
    BY <2>1, CallersAssumption DEF TypeOK
<1>2. LoopInv
  BY DEF LoopInv, Idle
<1>3. Queued = {} /\ Waiting = {} /\ Made = {} /\ Connecting = {}
  BY DEF Queued, Waiting, Made, Connecting
<1>4. \A k \in Attempts : ~Referenced(k)
  BY <1>3, ReferencedQueued, AttemptsFinite DEF Idle
<1>5. StatusInv
  BY <1>3, <1>4 DEF StatusInv, Idle
<1>6. ConnectionsOwned
  BY <1>3, <1>4 DEF ConnectionsOwned
<1>7. Cardinality(Waiting) = 0 /\ Cardinality(Made) = 0 /\ Cardinality(Connecting) = 0
  BY <1>3, FS_EmptySet
<1>8. OneOutcomePerStart
  BY <1>7 DEF OneOutcomePerStart
<1>9. RetryInv
  <2>1. /\ 0 \in 0..reConnMs_ /\ reConnMs_ = 0 * ReConnntervalMs
        /\ tries + Cardinality(Waiting) = starts + 0 /\ 0 + retries < Retries + starts
    BY <1>7, RetriesNat, TimesAssumption
  <2> QED
    BY <2>1 DEF RetryInv
<1> QED
  BY <1>1, <1>2, <1>5, <1>6, <1>8, <1>9 DEF IInv

\* Every action preserves IInv.
LEMMA StepKeeps == IInv /\ [Next]_vars => IInv'
<1> SUFFICES ASSUME IInv, [Next]_vars PROVE IInv'
  OBVIOUS
<1>1. CASE startInLoop \/ start \/ stopInLoop
  BY <1>1, startInLoopKeeps, startKeeps, stopInLoopKeeps
<1>2. CASE assign \/ makeConnected
  BY <1>2, assignKeeps, makeConnectedKeeps
<1>3. CASE doConnect \/ doClose
  BY <1>3, doConnectKeeps, queuedCloseKeeps
<1>4. CASE onReConnect \/ doCloseConnection
  BY <1>4, onReConnectKeeps, doCloseConnectionKeeps
<1>5. ASSUME NEW k \in Attempts, onEventHandle(k) \/ closeInLoop(k) \/ release(k)
      PROVE  IInv'
  BY <1>5, onEventHandleKeeps, closeInLoopKeeps, releaseKeeps
<1>6. ASSUME NEW c \in Callers, stopLock(c) \/ stopLook(c) \/ stopPush(c)
      PROVE  IInv'
  BY <1>6, stopLockKeeps, stopLookKeeps, stopPushKeeps
<1>7. CASE UNCHANGED vars
  <2>1. /\ UNCHANGED <<connector, client, register_, open, tasks, loop>>
        /\ Waiting' = Waiting /\ Queued' = Queued
    BY <1>7 DEF vars, Waiting, Queued
  <2>2. TypeOK'
    BY <2>1 DEF IInv, TypeOK
  <2>3. LoopInv' /\ StatusInv' /\ ConnectionsOwned'
    BY <2>1, ConnFrame
  <2>4. OneOutcomePerStart' /\ RetryInv'
    BY <2>1, SameMade, ChainsFrame
  <2> QED
    BY <2>2, <2>3, <2>4 DEF IInv
<1> QED
  BY <1>1, <1>2, <1>3, <1>4, <1>5, <1>6, <1>7 DEF Next, connecting, functorStep, stopStep

\* IInv holds throughout.
THEOREM InductiveInvariant == Spec => []IInv
<1>1. Init => IInv
  BY InitIInv
<1>2. IInv /\ [Next]_vars => IInv'
  BY StepKeeps
<1> QED
  BY <1>1, <1>2, PTL DEF Spec

\* The type of every variable; and lock_ is held exactly by a thread inside
\* stop(), so that every return unlocks it.
THEOREM TypeInvariant == Spec => []TypeOK
<1>1. IInv => TypeOK
  BY DEF IInv
<1> QED
  BY <1>1, InductiveInvariant, PTL

\* Every start() is answered at most once, and is never forgotten: what it has
\* not become is still on its way.
THEOREM EachStartHasOneOutcome == Spec => []OneOutcomePerStart
<1>1. IInv => OneOutcomePerStart
  BY DEF IInv
<1> QED
  BY <1>1, InductiveInvariant, PTL

\* No descriptor leaks and none is closed under its owner; connectionPtr_
\* points to what stop() has to close.
THEOREM DescriptorsHaveOwners == Spec => []ConnectionsOwned
<1>1. IInv => ConnectionsOwned
  BY DEF IInv
<1> QED
  BY <1>1, InductiveInvariant, PTL

\* The retries end, whatever the number of chains ("reach max times",
\* connector.cpp:59).
THEOREM RetriesEnd == Spec => []RetriesBounded
<1>1. IInv => RetriesBounded
  <2> SUFFICES ASSUME IInv PROVE RetriesBounded
    OBVIOUS
  <2>1. PICK r \in 0..reConnMs_ :
           /\ reConnMs_ = r * ReConnntervalMs
           /\ tries + Cardinality(Waiting) = starts + r
           /\ r + retries < Retries + starts
    BY DEF IInv, RetryInv
  <2>2. tries < 2 * starts + Retries
    BY <2>1, Numbers
  <2> QED
    BY <2>2 DEF RetriesBounded
<1> QED
  BY <1>1, InductiveInvariant, PTL
=============================================================================
