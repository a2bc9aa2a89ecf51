--------------------------- MODULE XServer_proofs ---------------------------
(***************************************************************************)
(* IInv of XServerProps is inductive: for every number of descriptors,     *)
(* handlers and connections, and whether a handler's Connected may throw,  *)
(* the tables of the server and of the loop agree with the descriptors     *)
(* that are open, and an answer or an event goes astray only to a          *)
(* connection accepted after the one it was for was closed.                *)
(***************************************************************************)
EXTENDS XServerProps, FiniteSetTheorems, TLAPS

USE DEF startVars, loopVars, connVars, kernelVars, handlerVars, histories

-----------------------------------------------------------------------------
(* Sequences and the constants                                             *)

\* The bounds are naturals.
LEMMA Bounds == MaxConns \in Nat /\ MaxMsgs \in Nat /\ MaxCloses \in Nat
BY BoundsAssumption

\* What is appended to a queue comes last.
LEMMA AppendElems ==
    ASSUME NEW S, NEW s \in Seq(S), NEW x \in S
    PROVE  /\ Append(s, x) \in Seq(S)
           /\ Len(Append(s, x)) = Len(s) + 1
           /\ \A n \in 1..Len(s) : Append(s, x)[n] = s[n]
           /\ Append(s, x)[Len(s) + 1] = x
OBVIOUS

\* What is taken from a queue is its first element.
LEMMA TailElems ==
    ASSUME NEW S, NEW s \in Seq(S), s # <<>>
    PROVE  /\ Tail(s) \in Seq(S)
           /\ Len(Tail(s)) = Len(s) - 1 /\ 1 \in 1..Len(s)
           /\ Head(s) = s[1] /\ Head(s) \in S
           /\ \A n \in 1..Len(Tail(s)) : n + 1 \in 1..Len(s) /\ Tail(s)[n] = s[n + 1]
OBVIOUS

\* xSocket's accept: it returns the descriptor and opens it, or a failing call
\* leaves what was open (tcpAccept of XSocket).
LEMMA AcceptOpens ==
    ASSUME NEW opened, NEW f, f \notin opened, f # 0
    PROVE  /\ tcpAccept(opened, f, "none").open = opened \cup {f}
           /\ \A fails \in AcceptCalls :
                 failed(tcpAccept(opened, f, fails)) => tcpAccept(opened, f, fails).open = opened
<1> DEFINE R == [fd |-> f, open |-> opened \cup {f}]
<1>1. R.open = opened \cup {f} /\ R.open \ {R.fd} = opened /\ R.fd # 0
  OBVIOUS
<1>2. tcpAccept(opened, f, "none") = R
  BY DEF tcpAccept, orClose, setBlockFails
<1>3. ASSUME NEW fails \in AcceptCalls, failed(tcpAccept(opened, f, fails))
      PROVE  tcpAccept(opened, f, fails).open = opened
  <2>1. CASE fails = "accept"
    BY <2>1 DEF tcpAccept, invalid
  <2>2. CASE fails # "accept" /\ setBlockFails(fails)
    <3>1. tcpAccept(opened, f, fails) = [fd |-> INVALID_SOCK, open |-> R.open \ {R.fd}]
      BY <2>2 DEF tcpAccept, orClose, invalid
    <3> QED
      BY <3>1, <1>1
  <2>3. CASE fails # "accept" /\ ~setBlockFails(fails)
    <3>1. tcpAccept(opened, f, fails) = R
      BY <2>3 DEF tcpAccept, orClose
    <3> QED
      BY <3>1, <1>1, <1>3 DEF failed, INVALID_SOCK
  <2> QED
    BY <2>1, <2>2, <2>3
<1> QED
  BY <1>1, <1>2, <1>3

-----------------------------------------------------------------------------
(* Steps that leave the connections and the references to them alone       *)

\* Nothing that the tables, the kernel or the references are made of changes.
LEMMA Frame ==
    ASSUME IInv, UNCHANGED <<connVars, kernelVars, held, tasks, histories>>
    PROVE  TablesInv' /\ KernelInv' /\ OwnInv' /\ StrayOnlyAfterClose'
<1>1. TablesInv' /\ KernelInv' /\ StrayOnlyAfterClose'
  BY DEF IInv, TablesInv, KernelInv, StrayOnlyAfterClose
<1>2. OwnInv'
  BY DEF IInv, OwnInv, Referenced
<1> QED
  BY <1>1, <1>2

\* listener.cpp:9: the listener is registered, or the program ends.
LEMMA doListenKeeps ==
    ASSUME IInv, ended = "no", doListen
    PROVE  IInv'
<1>1. TypeOK'
  BY Bounds DEF IInv, TypeOK, doListen
<1>2. AssertionsHold'
  BY DEF IInv, AssertionsHold, doListen
<1>3. RoutesInv'
  BY DEF IInv, RoutesInv, Names, doListen
<1>4. TablesInv' /\ KernelInv' /\ OwnInv' /\ StrayOnlyAfterClose'
  BY Frame DEF doListen
<1> QED
  BY <1>1, <1>2, <1>3, <1>4 DEF IInv

\* xLoop::start, when every handler is registered.
LEMMA startKeeps ==
    ASSUME IInv, ended = "no", start
    PROVE  IInv'
<1>1. TypeOK'
  BY Bounds DEF IInv, TypeOK, start
<1>2. AssertionsHold'
  BY DEF IInv, AssertionsHold, start
<1>3. RoutesInv'
  BY DEF IInv, RoutesInv, Names, start
<1>4. TablesInv' /\ KernelInv' /\ OwnInv' /\ StrayOnlyAfterClose'
  BY Frame DEF start
<1> QED
  BY <1>1, <1>2, <1>3, <1>4 DEF IInv

\* registerHandler begins before the loop runs.
LEMMA constructKeeps ==
    ASSUME IInv, ended = "no", NEW h \in Handlers, construct(h)
    PROVE  IInv'
<1>1. TypeOK'
  BY Bounds DEF IInv, TypeOK, construct
<1>2. AssertionsHold'
  BY DEF IInv, AssertionsHold, construct
<1>3. RoutesInv'
  BY DEF IInv, RoutesInv, Names, construct
<1>4. TablesInv' /\ KernelInv' /\ OwnInv' /\ StrayOnlyAfterClose'
  BY Frame DEF construct
<1> QED
  BY <1>1, <1>2, <1>3, <1>4 DEF IInv

\* registerHandler ends.
LEMMA registerKeeps ==
    ASSUME IInv, ended = "no", NEW h \in Handlers, register(h)
    PROVE  IInv'
<1>1. TypeOK'
  BY Bounds DEF IInv, TypeOK, register
<1>2. AssertionsHold'
  BY DEF IInv, AssertionsHold, register
<1>3. RoutesInv'
  BY DEF IInv, RoutesInv, Names, register
<1>4. TablesInv' /\ KernelInv' /\ OwnInv' /\ StrayOnlyAfterClose'
  BY Frame DEF register
<1> QED
  BY <1>1, <1>2, <1>3, <1>4 DEF IInv

\* A thread finds no group, for it is not set yet.
LEMMA findNoGroupKeeps ==
    ASSUME IInv, ended = "no", NEW h \in Handlers, findNoGroup(h)
    PROVE  IInv'
<1>1. TypeOK'
  BY Bounds DEF IInv, TypeOK, findNoGroup
<1>2. AssertionsHold'
  BY DEF IInv, AssertionsHold, findNoGroup
<1>3. RoutesInv'
  BY DEF IInv, RoutesInv, Names, findNoGroup
<1>4. TablesInv' /\ KernelInv' /\ OwnInv' /\ StrayOnlyAfterClose'
  BY Frame DEF findNoGroup
<1> QED
  BY <1>1, <1>2, <1>3, <1>4 DEF IInv

\* ... and stops itself.
LEMMA stopGrouplessKeeps ==
    ASSUME IInv, ended = "no", NEW h \in Handlers, stopGroupless(h)
    PROVE  IInv'
<1>1. TypeOK'
  BY Bounds DEF IInv, TypeOK, stopGroupless
<1>2. AssertionsHold'
  BY DEF IInv, AssertionsHold, stopGroupless
<1>3. RoutesInv'
  BY DEF IInv, RoutesInv, Names, stopGroupless
<1>4. TablesInv' /\ KernelInv' /\ OwnInv' /\ StrayOnlyAfterClose'
  BY Frame DEF stopGroupless
<1> QED
  BY <1>1, <1>2, <1>3, <1>4 DEF IInv

\* ... and uses the null pointer.
LEMMA readNoGroupKeeps ==
    ASSUME IInv, ended = "no", NEW h \in Handlers, readNoGroup(h)
    PROVE  IInv'
<1>1. TypeOK'
  BY Bounds DEF IInv, TypeOK, readNoGroup
<1>2. AssertionsHold'
  BY DEF IInv, AssertionsHold, readNoGroup
<1>3. RoutesInv'
  BY DEF IInv, RoutesInv, Names, readNoGroup
<1>4. TablesInv' /\ KernelInv' /\ OwnInv' /\ StrayOnlyAfterClose'
  BY Frame DEF readNoGroup
<1> QED
  BY <1>1, <1>2, <1>3, <1>4 DEF IInv

\* A handler enters readMsg.
LEMMA enterReadKeeps ==
    ASSUME IInv, ended = "no", NEW h \in Handlers, enterRead(h)
    PROVE  IInv'
<1>1. TypeOK'
  BY Bounds DEF IInv, TypeOK, enterRead
<1>2. AssertionsHold'
  BY DEF IInv, AssertionsHold, enterRead
<1>3. RoutesInv'
  BY DEF IInv, RoutesInv, Names, enterRead
<1>4. TablesInv' /\ KernelInv' /\ OwnInv' /\ StrayOnlyAfterClose'
  BY Frame DEF enterRead
<1> QED
  BY <1>1, <1>2, <1>3, <1>4 DEF IInv

\* readMsg finds no message.
LEMMA takeNothingKeeps ==
    ASSUME IInv, ended = "no", NEW h \in Handlers, takeNothing(h)
    PROVE  IInv'
<1>1. TypeOK'
  BY Bounds DEF IInv, TypeOK, takeNothing
<1>2. AssertionsHold'
  BY DEF IInv, AssertionsHold, takeNothing
<1>3. RoutesInv'
  BY DEF IInv, RoutesInv, Names, takeNothing
<1>4. TablesInv' /\ KernelInv' /\ OwnInv' /\ StrayOnlyAfterClose'
  BY Frame DEF takeNothing
<1> QED
  BY <1>1, <1>2, <1>3, <1>4 DEF IInv

\* A handler is stopped.
LEMMA stopKeeps ==
    ASSUME IInv, ended = "no", NEW h \in Handlers, stop(h)
    PROVE  IInv'
<1>1. TypeOK'
  BY Bounds DEF IInv, TypeOK, stop, active
<1>2. AssertionsHold'
  BY DEF IInv, AssertionsHold, stop
<1>3. RoutesInv'
  BY DEF IInv, RoutesInv, Names, stop
<1>4. TablesInv' /\ KernelInv' /\ OwnInv' /\ StrayOnlyAfterClose'
  BY Frame DEF stop, active
<1> QED
  BY <1>1, <1>2, <1>3, <1>4 DEF IInv

\* An event that changes nothing.
LEMMA ignoreKeeps ==
    ASSUME IInv, ended = "no", NEW e \in fired_, ignore(e)
    PROVE  IInv'
<1>1. TypeOK'
  BY Bounds DEF IInv, TypeOK, ignore, handled, owner
<1>2. AssertionsHold'
  BY DEF IInv, AssertionsHold, ignore, handled
<1>3. RoutesInv'
  BY DEF IInv, RoutesInv, Names, ignore, handled
<1>4. TablesInv' /\ KernelInv' /\ OwnInv' /\ StrayOnlyAfterClose'
  BY Frame DEF ignore, handled, owner
<1> QED
  BY <1>1, <1>2, <1>3, <1>4 DEF IInv

\* The listener is removed.
LEMMA listenerErrorKeeps ==
    ASSUME IInv, ended = "no", NEW e \in fired_, listenerError(e)
    PROVE  IInv'
<1>1. TypeOK'
  BY Bounds DEF IInv, TypeOK, listenerError, handled
<1>2. AssertionsHold'
  BY DEF IInv, AssertionsHold, listenerError, handled
<1>3. RoutesInv'
  BY DEF IInv, RoutesInv, Names, listenerError, handled
<1>4. TablesInv' /\ KernelInv' /\ OwnInv' /\ StrayOnlyAfterClose'
  BY Frame DEF listenerError, handled
<1> QED
  BY <1>1, <1>2, <1>3, <1>4 DEF IInv

\* xLoop's poll: what is fetched carries the connection it was fetched for.
LEMMA pollKeeps ==
    ASSUME IInv, ended = "no", poll
    PROVE  IInv'
<1>1. \A e \in fetchable : /\ e \in [fd : Fds \cup {Listener}, for : Conns \cup {Listener}]
                           /\ e.fd # Listener => Names(e.fd, e.for)
  <2>1. ASSUME NEW f \in watched
        PROVE  f \in Fds /\ register_[f] \in Conns /\ Names(f, register_[f])
    <3>1. register_[f] = connections_[f] /\ connections_[f] # 0 /\ f \in Fds
      BY DEF IInv, TypeOK, TablesInv, KernelInv
    <3>2. connections_[f] \in Conns
      BY <3>1 DEF IInv, TypeOK
    <3>3. fd[connections_[f]] = f /\ connStatus_[connections_[f]] = "connected"
      BY <3>1 DEF IInv, TablesInv
    <3>4. connections_[f] \in Nat /\ accepted \in Nat
      BY <3>2, Bounds DEF IInv, TypeOK, Conns
    <3>5. ~(connections_[f] > accepted)
      BY <3>2, <3>3 DEF IInv, TablesInv
    <3> QED
      BY <3>1, <3>2, <3>3, <3>4, <3>5 DEF Names
  <2> QED
    BY <2>1 DEF fetchable, Listener
<1>2. fired_' \subseteq fetchable /\ fired_' # {}
  BY DEF poll
<1>3. TypeOK'
  BY <1>1, <1>2 DEF IInv, TypeOK, poll
<1>4. AssertionsHold'
  BY DEF IInv, AssertionsHold, poll
<1>5. RoutesInv'
  BY <1>1, <1>2 DEF IInv, RoutesInv, Names, poll
<1>6. TablesInv' /\ KernelInv' /\ OwnInv' /\ StrayOnlyAfterClose'
  BY Frame DEF poll
<1> QED
  BY <1>3, <1>4, <1>5, <1>6 DEF IInv

\* listener.cpp: an accept that fails leaves the descriptors as they are.
LEMMA acceptNothingKeeps ==
    ASSUME IInv, ended = "no", NEW f \in Fds, acceptNothing(f)
    PROVE  IInv'
<1>1. open' = open
  BY AcceptOpens, FdsAssumption DEF acceptNothing
<1>2. TypeOK'
  BY <1>1 DEF IInv, TypeOK, acceptNothing, handled
<1>3. AssertionsHold'
  BY DEF IInv, AssertionsHold, acceptNothing
<1>4. RoutesInv'
  BY DEF IInv, RoutesInv, Names, acceptNothing, handled
<1>5. TablesInv' /\ KernelInv' /\ OwnInv' /\ StrayOnlyAfterClose'
  BY <1>1, Frame DEF acceptNothing
<1> QED
  BY <1>2, <1>3, <1>4, <1>5 DEF IInv

\* The loop has an entry for the descriptor that epoll does not know: the
\* connection's Connected threw.
LEMMA StaleEntry ==
    ASSUME IInv, NEW f \in Fds, connections_[f] # 0, f \notin watched
    PROVE  connections_[f] \in threw
<1>1. connections_[f] \in Conns
  BY DEF IInv, TypeOK
<1>2. connStatus_[connections_[f]] = "connected" /\ fd[connections_[f]] = f
  BY DEF IInv, TablesInv
<1> QED
  BY <1>1, <1>2 DEF IInv, KernelInv

\* epoller.cpp:51 fails only on such an entry.
LEMMA acceptOnStaleKeeps ==
    ASSUME IInv, ended = "no", NEW f \in Fds, acceptOnStale(f)
    PROVE  IInv'
<1>1. TypeOK'
  BY DEF IInv, TypeOK, acceptOnStale, handled
<1>2. threw # {}
  BY StaleEntry DEF IInv, TablesInv, acceptOnStale, ctrlAsserts
<1>3. AssertionsHold'
  BY <1>2 DEF IInv, AssertionsHold, acceptOnStale
<1>4. RoutesInv'
  BY DEF IInv, RoutesInv, Names, acceptOnStale, handled
<1>5. TablesInv' /\ KernelInv' /\ OwnInv' /\ StrayOnlyAfterClose'
  BY Frame DEF acceptOnStale
<1> QED
  BY <1>1, <1>3, <1>4, <1>5 DEF IInv

\* The connection the loop calls for a descriptor has that descriptor.
LEMMA OwnerNamed ==
    ASSUME IInv, NEW f \in Fds, register_[f] # 0
    PROVE  /\ Names(f, register_[f]) /\ connStatus_[register_[f]] = "connected"
           /\ Referenced(register_[f])
<1>1. register_[f] = connections_[f] /\ connections_[f] \in Conns
  BY DEF IInv, TypeOK, TablesInv
<1>2. fd[connections_[f]] = f /\ connStatus_[connections_[f]] = "connected"
  BY <1>1 DEF IInv, TablesInv
<1>3. connections_[f] \in Nat /\ accepted \in Nat
  BY <1>1, Bounds DEF IInv, TypeOK, Conns
<1>4. ~(connections_[f] > accepted)
  BY <1>1, <1>2 DEF IInv, TablesInv
<1> QED
  BY <1>1, <1>2, <1>3, <1>4 DEF Names, Referenced

\* xserver.cpp:80: a message carries its connection's descriptor.
LEMMA messageComingKeeps ==
    ASSUME IInv, ended = "no", NEW e \in fired_, messageComing(e)
    PROVE  IInv'
<1> DEFINE m == [uid |-> e.fd, from |-> register_[e.fd]]
<1>1. e.fd \in Fds /\ register_[e.fd] # 0
  BY DEF IInv, TypeOK, messageComing, owner, Listener
<1>2. Names(m.uid, m.from) /\ m \in Msgs
  <2>1. m.uid = e.fd /\ m.from = register_[e.fd]
    OBVIOUS
  <2>2. Names(e.fd, register_[e.fd])
    BY <1>1, OwnerNamed
  <2> QED
    BY <1>1, <2>1, <2>2 DEF Msgs, Names
<1>3. msgQueue_' = msgQueue_ \/ msgQueue_' = Append(msgQueue_, m)
  BY DEF messageComing, addMsg, owner
<1>4. msgQueue_ \in Seq(Msgs)
  BY DEF IInv, TypeOK
<1>5. /\ msgQueue_' \in Seq(Msgs)
      /\ \A n \in 1..Len(msgQueue_') : Names(msgQueue_'[n].uid, msgQueue_'[n].from)
  <2>1. CASE msgQueue_' = msgQueue_
    BY <1>4, <2>1 DEF IInv, RoutesInv
  <2>2. CASE msgQueue_' = Append(msgQueue_, m)
    <3> HIDE DEF m
    <3>1. /\ msgQueue_' \in Seq(Msgs) /\ Len(msgQueue_') = Len(msgQueue_) + 1
          /\ \A n \in 1..Len(msgQueue_) : msgQueue_'[n] = msgQueue_[n]
          /\ msgQueue_'[Len(msgQueue_) + 1] = m
      BY <1>2, <1>4, <2>2, AppendElems
    <3>2. Len(msgQueue_) \in Nat
      BY <1>4
    <3>3. \A n \in 1..Len(msgQueue_) : Names(msgQueue_[n].uid, msgQueue_[n].from)
      BY DEF IInv, RoutesInv
    <3> QED
      BY <1>2, <3>1, <3>2, <3>3
  <2> QED
    BY <1>3, <2>1, <2>2
<1>6. TypeOK'
  <2>1. received' \in 0..MaxMsgs
    BY Bounds DEF IInv, TypeOK, messageComing
  <2>2. fired_' \subseteq fired_ /\ (inCallback' => fired_' # {})
    BY DEF messageComing, handled
  <2> QED
    BY <1>5, <2>1, <2>2 DEF IInv, TypeOK, messageComing
<1>7. AssertionsHold'
  BY DEF IInv, AssertionsHold, messageComing
<1>8. RoutesInv'
  BY <1>5 DEF IInv, RoutesInv, Names, messageComing, handled
<1>9. TablesInv' /\ KernelInv' /\ OwnInv' /\ StrayOnlyAfterClose'
  BY Frame DEF messageComing
<1> QED
  BY <1>6, <1>7, <1>8, <1>9 DEF IInv

\* handler.cpp:17: the handler works on the first message of the queue.
LEMMA takeKeeps ==
    ASSUME IInv, ended = "no", NEW h \in Handlers, take(h)
    PROVE  IInv'
<1>1. msgQueue_ \in Seq(Msgs) /\ msgQueue_ # <<>>
  BY DEF IInv, TypeOK, take
<1>2. /\ Tail(msgQueue_) \in Seq(Msgs) /\ Head(msgQueue_) \in Msgs
      /\ Head(msgQueue_) = msgQueue_[1] /\ 1 \in 1..Len(msgQueue_)
      /\ \A n \in 1..Len(Tail(msgQueue_)) :
            n + 1 \in 1..Len(msgQueue_) /\ Tail(msgQueue_)[n] = msgQueue_[n + 1]
  BY <1>1, TailElems
<1>3. /\ Names(Head(msgQueue_).uid, Head(msgQueue_).from)
      /\ \A n \in 1..Len(Tail(msgQueue_)) :
            Names(Tail(msgQueue_)[n].uid, Tail(msgQueue_)[n].from)
  BY <1>2 DEF IInv, RoutesInv
<1>4. TypeOK'
  BY <1>2 DEF IInv, TypeOK, take
<1>5. AssertionsHold'
  BY DEF IInv, AssertionsHold, take
<1>6. RoutesInv'
  <2>1. \A g \in Handlers : dispatching'[g] = IF g = h THEN Head(msgQueue_) ELSE dispatching[g]
    BY DEF IInv, TypeOK, take
  <2>2. msgQueue_' = Tail(msgQueue_)
    BY DEF take
  <2> QED
    BY <1>3, <2>1, <2>2 DEF IInv, RoutesInv, Names, take
<1>7. TablesInv' /\ KernelInv' /\ OwnInv' /\ StrayOnlyAfterClose'
  BY Frame DEF take
<1> QED
  BY <1>4, <1>5, <1>6, <1>7 DEF IInv

-----------------------------------------------------------------------------
(* Steps that queue functors, and take answers from the queue              *)

\* The tables keep agreeing where only the reasons of the references change.
LEMMA FrameRefs ==
    ASSUME IInv, UNCHANGED <<connVars, kernelVars, threw>>,
           \A k \in Conns : Referenced(k)' <=> Referenced(k)
    PROVE  TablesInv' /\ KernelInv' /\ OwnInv'
<1>1. TablesInv' /\ KernelInv'
  BY DEF IInv, TablesInv, KernelInv
<1>2. OwnInv'
  <2> USE DEF IInv, OwnInv
  <2>1. \A k \in Conns : Referenced(k)' => k <= accepted'
    OBVIOUS
  <2>2. \A k \in Conns \ threw' : Referenced(k)' => fd'[k] \in open'
    OBVIOUS
  <2>3. \A f \in open' : \E k \in Conns : Referenced(k)' /\ fd'[k] = f
    OBVIOUS
  <2>4. \A j, k \in Conns : Referenced(j)' /\ Referenced(k)' /\ fd'[j] = fd'[k] => j = k
    OBVIOUS
  <2> QED
    BY <2>1, <2>2, <2>3, <2>4
<1> QED
  BY <1>1, <1>2

\* A functor that is queued adds a reference only if it is a close.
LEMMA QueuedRefs ==
    ASSUME tasks \in Seq(Tasks), NEW t \in Tasks, tasks' = Append(tasks, t),
           UNCHANGED <<held, connections_, register_>>,
           NEW k \in Conns
    PROVE  Referenced(k)' <=> Referenced(k) \/ (t.kind = "close" /\ t.conn = k)
<1>1. /\ Len(tasks') = Len(tasks) + 1 /\ Len(tasks) \in Nat
      /\ \A n \in 1..Len(tasks) : tasks'[n] = tasks[n]
      /\ tasks'[Len(tasks) + 1] = t
  BY AppendElems
<1>2. (\E n \in 1..Len(tasks') : tasks'[n].kind = "close" /\ tasks'[n].conn = k)
      <=> \/ \E n \in 1..Len(tasks) : tasks[n].kind = "close" /\ tasks[n].conn = k
          \/ t.kind = "close" /\ t.conn = k
  <2>1. \A n \in 1..(Len(tasks) + 1) : n \in 1..Len(tasks) \/ n = Len(tasks) + 1
    BY <1>1
  <2>2. \A n \in 1..Len(tasks) : n \in 1..(Len(tasks) + 1)
    BY <1>1
  <2>3. Len(tasks) + 1 \in 1..(Len(tasks) + 1)
    BY <1>1
  <2> QED
    BY <1>1, <2>1, <2>2, <2>3
<1> QED
  BY <1>2 DEF Referenced

\* A functor that runs takes its reference with it.
LEMMA TakenRefs ==
    ASSUME tasks \in Seq(Tasks), tasks # <<>>, tasks' = Tail(tasks),
           NEW k \in Conns
    PROVE  (\E n \in 1..Len(tasks) : tasks[n].kind = "close" /\ tasks[n].conn = k)
           <=> \/ \E n \in 1..Len(tasks') : tasks'[n].kind = "close" /\ tasks'[n].conn = k
               \/ Head(tasks).kind = "close" /\ Head(tasks).conn = k
<1>1. /\ Len(tasks') = Len(tasks) - 1 /\ 1 \in 1..Len(tasks) /\ Len(tasks) \in Nat
      /\ Head(tasks) = tasks[1]
      /\ \A n \in 1..Len(tasks') : n + 1 \in 1..Len(tasks) /\ tasks'[n] = tasks[n + 1]
  BY TailElems
<1>2. ASSUME NEW n \in 1..Len(tasks), n # 1
      PROVE  n - 1 \in 1..Len(tasks') /\ tasks'[n - 1] = tasks[n]
  <2>1. n - 1 \in 1..Len(tasks') /\ (n - 1) + 1 = n
    BY <1>1, <1>2
  <2> QED
    BY <1>1, <2>1
<1> QED
  BY <1>1, <1>2

\* What is in the queue after a functor is taken was there before.
LEMMA TakenTasks ==
    ASSUME IInv, tasks # <<>>, tasks' = Tail(tasks)
    PROVE  /\ tasks' \in Seq(Tasks) /\ Head(tasks) \in Tasks
           /\ IF Head(tasks).kind = "resp" THEN Names(Head(tasks).uid, Head(tasks).from)
                                           ELSE Head(tasks).conn \in Conns
           /\ \A n \in 1..Len(tasks') :
                 IF tasks'[n].kind = "resp" THEN Names(tasks'[n].uid, tasks'[n].from)
                                            ELSE tasks'[n].conn \in Conns
<1>1. tasks \in Seq(Tasks)
  BY DEF IInv, TypeOK
<1>2. /\ tasks' \in Seq(Tasks) /\ Head(tasks) \in Tasks
      /\ Head(tasks) = tasks[1] /\ 1 \in 1..Len(tasks)
      /\ \A n \in 1..Len(tasks') : n + 1 \in 1..Len(tasks) /\ tasks'[n] = tasks[n + 1]
  BY <1>1, TailElems
<1>3. \A n \in 1..Len(tasks) :
         IF tasks[n].kind = "resp" THEN Names(tasks[n].uid, tasks[n].from)
                                   ELSE tasks[n].conn \in Conns
  BY DEF IInv, RoutesInv
<1> QED
  BY <1>2, <1>3

\* The queue with one more functor.
LEMMA QueuedTasks ==
    ASSUME IInv, NEW t \in Tasks, tasks' = Append(tasks, t),
           IF t.kind = "resp" THEN Names(t.uid, t.from) ELSE t.conn \in Conns
    PROVE  /\ tasks' \in Seq(Tasks)
           /\ \A n \in 1..Len(tasks') :
                 IF tasks'[n].kind = "resp" THEN Names(tasks'[n].uid, tasks'[n].from)
                                            ELSE tasks'[n].conn \in Conns
<1>1. tasks \in Seq(Tasks)
  BY DEF IInv, TypeOK
<1>2. /\ tasks' \in Seq(Tasks) /\ Len(tasks') = Len(tasks) + 1 /\ Len(tasks) \in Nat
      /\ \A n \in 1..Len(tasks) : tasks'[n] = tasks[n]
      /\ tasks'[Len(tasks) + 1] = t
  BY <1>1, AppendElems
<1>3. \A n \in 1..Len(tasks) :
         IF tasks[n].kind = "resp" THEN Names(tasks[n].uid, tasks[n].from)
                                   ELSE tasks[n].conn \in Conns
  BY DEF IInv, RoutesInv
<1>4. \A n \in 1..(Len(tasks) + 1) : n \in 1..Len(tasks) \/ n = Len(tasks) + 1
  BY <1>2
<1> QED
  BY <1>2, <1>3, <1>4

\* handler_group.h: the answer goes back with the descriptor of the message.
LEMMA respondKeeps ==
    ASSUME IInv, ended = "no", NEW h \in Handlers, respond(h)
    PROVE  IInv'
<1> DEFINE t == [kind |-> "resp", conn |-> 0, uid |-> dispatching[h].uid, from |-> dispatching[h].from]
<1>1. dispatching[h] \in Msgs /\ Names(dispatching[h].uid, dispatching[h].from)
  BY DEF IInv, TypeOK, RoutesInv, respond
<1>2. t \in Tasks /\ t.kind = "resp" /\ Names(t.uid, t.from)
  <2>1. t.kind = "resp" /\ t.uid = dispatching[h].uid /\ t.from = dispatching[h].from
    OBVIOUS
  <2> QED
    BY <1>1, <2>1 DEF Tasks, Msgs
<1>3. tasks' = tasks \/ tasks' = Append(tasks, t)
  BY DEF respond, sendResponse
<1> HIDE DEF t
<1>4. /\ tasks' \in Seq(Tasks)
      /\ \A n \in 1..Len(tasks') :
            IF tasks'[n].kind = "resp" THEN Names(tasks'[n].uid, tasks'[n].from)
                                       ELSE tasks'[n].conn \in Conns
  BY <1>2, <1>3, QueuedTasks DEF IInv, TypeOK, RoutesInv
<1>5. \A k \in Conns : Referenced(k)' <=> Referenced(k)
  <2>1. CASE tasks' = tasks
    BY <2>1 DEF Referenced, respond
  <2>2. CASE tasks' = Append(tasks, t)
    <3>1. tasks \in Seq(Tasks) /\ UNCHANGED <<held, connections_, register_>>
      BY DEF IInv, TypeOK, respond
    <3> QED
      BY <1>2, <2>2, <3>1, QueuedRefs
  <2> QED
    BY <1>3, <2>1, <2>2
<1>6. dispatching' \in [Handlers -> Msgs]
      /\ \A g \in Handlers : dispatching'[g] # NoMsg => dispatching'[g] = dispatching[g]
  <2>1. NoMsg \in Msgs
    BY DEF NoMsg, Msgs
  <2> QED
    BY <2>1 DEF IInv, TypeOK, respond
<1>7. TypeOK'
  BY <1>4, <1>6 DEF IInv, TypeOK, respond
<1>8. AssertionsHold' /\ StrayOnlyAfterClose'
  BY DEF IInv, AssertionsHold, StrayOnlyAfterClose, respond
<1>9. RoutesInv'
  BY <1>4, <1>6 DEF IInv, RoutesInv, Names, respond
<1>10. TablesInv' /\ KernelInv' /\ OwnInv'
  BY <1>5, FrameRefs DEF respond
<1> QED
  BY <1>7, <1>8, <1>9, <1>10 DEF IInv

\* connection.cpp: closeConnection in another thread hands closeConn to the loop.
LEMMA closeConnectionKeeps ==
    ASSUME IInv, ended = "no", NEW k \in Conns, closeConnection(k)
    PROVE  IInv'
<1> DEFINE t == [kind |-> "close", conn |-> k, uid |-> 0, from |-> 0]
<1>1. t \in Tasks /\ t.kind = "close" /\ t.conn = k
  BY DEF Tasks
<1>2. tasks' = Append(tasks, t)
  BY DEF closeConnection
<1> HIDE DEF t
<1>3. /\ tasks' \in Seq(Tasks)
      /\ \A n \in 1..Len(tasks') :
            IF tasks'[n].kind = "resp" THEN Names(tasks'[n].uid, tasks'[n].from)
                                       ELSE tasks'[n].conn \in Conns
  BY <1>1, <1>2, QueuedTasks
<1>4. \A j \in Conns : Referenced(j)' <=> Referenced(j)
  <2>1. tasks \in Seq(Tasks) /\ UNCHANGED <<held, connections_, register_>>
    BY DEF IInv, TypeOK, closeConnection
  <2>2. Referenced(k)
    BY DEF Referenced, closeConnection
  <2> QED
    BY <1>1, <1>2, <2>1, <2>2, QueuedRefs
<1>5. TypeOK'
  BY <1>3 DEF IInv, TypeOK, closeConnection
<1>6. AssertionsHold' /\ StrayOnlyAfterClose'
  BY DEF IInv, AssertionsHold, StrayOnlyAfterClose, closeConnection
<1>7. RoutesInv'
  BY <1>3 DEF IInv, RoutesInv, Names, closeConnection
<1>8. TablesInv' /\ KernelInv' /\ OwnInv'
  BY <1>4, FrameRefs DEF closeConnection
<1> QED
  BY <1>5, <1>6, <1>7, <1>8 DEF IInv

\* Of two connections with one descriptor the one that is connected came last,
\* and the other one is closed.
LEMMA StrayIsLater ==
    ASSUME IInv, NEW f, NEW j, NEW k, Names(f, j), Names(f, k),
           connStatus_[k] = "connected", j # k
    PROVE  connStatus_[j] = "disconnected" /\ fd[k] = fd[j] /\ j < k
<1>1. /\ j \in Conns /\ k \in Conns /\ j <= accepted /\ k <= accepted
      /\ fd[j] = fd[k] /\ j \in Nat /\ k \in Nat
  BY Bounds DEF Names, Conns
<1>2. j < k \/ k < j
  BY <1>1
<1>3. \A x, y \in Conns :
         x < y /\ y <= accepted /\ fd[x] = fd[y] => connStatus_[x] = "disconnected"
  BY DEF IInv, TablesInv
<1>4. ~(k < j)
  BY <1>1, <1>3
<1> QED
  BY <1>1, <1>2, <1>3, <1>4

\* xserver.cpp:127: the descriptor is looked up, and the connection found is
\* the one that asked or a later one.
LEMMA doSendResponseKeeps ==
    ASSUME IInv, ended = "no", doSendResponse
    PROVE  IInv'
<1> DEFINE u == Head(tasks).uid
           r == Head(tasks).from
           k == connections_[u]
<1>1. /\ tasks \in Seq(Tasks) /\ tasks # <<>> /\ tasks' = Tail(tasks) /\ Head(tasks).kind = "resp"
      /\ UNCHANGED <<connVars, kernelVars, held, misled, threw>>
  BY DEF IInv, TypeOK, doSendResponse
<1>2. /\ tasks' \in Seq(Tasks) /\ Names(u, r)
      /\ \A n \in 1..Len(tasks') :
            IF tasks'[n].kind = "resp" THEN Names(tasks'[n].uid, tasks'[n].from)
                                       ELSE tasks'[n].conn \in Conns
  BY <1>1, TakenTasks
<1>3. u \in Fds
  <2>1. r \in Conns /\ r <= accepted /\ fd[r] = u /\ r \in Nat /\ accepted \in Nat
    BY <1>2, Bounds DEF Names, Conns, IInv, TypeOK
  <2>2. ~(r > accepted)
    BY <2>1
  <2>3. fd[r] # 0
    BY <2>1, <2>2 DEF IInv, TablesInv
  <2> QED
    BY <2>1, <2>3 DEF IInv, TypeOK
<1>4. k # 0 => Names(u, k) /\ k \in Conns
  <2>1. k = register_[u]
    BY <1>3 DEF IInv, TablesInv
  <2> QED
    BY <1>3, <2>1, OwnerNamed DEF Names
<1>5. \/ delivered' = delivered
      \/ k # 0 /\ connStatus_[k] = "connected" /\ delivered' = delivered \cup {[to |-> k, for |-> r]}
  BY DEF doSendResponse
<1> HIDE DEF u, r, k
<1>6. \A d \in delivered' : d \in delivered \/ (Names(u, k) /\ connStatus_[k] = "connected"
                                                /\ d = [to |-> k, for |-> r])
  BY <1>4, <1>5
<1>7. \A j \in Conns : Referenced(j)' <=> Referenced(j)
  <2>1. \A j \in Conns :
           (\E n \in 1..Len(tasks) : tasks[n].kind = "close" /\ tasks[n].conn = j)
           <=> (\E n \in 1..Len(tasks') : tasks'[n].kind = "close" /\ tasks'[n].conn = j)
    BY <1>1, TakenRefs
  <2> QED
    BY <1>1, <2>1 DEF Referenced
<1>8. delivered' \subseteq [to : Conns, for : Conns]
  BY <1>2, <1>6 DEF IInv, TypeOK, Names
<1>9. TypeOK'
  BY <1>2, <1>8 DEF IInv, TypeOK, doSendResponse
<1>10. AssertionsHold'
  BY DEF IInv, AssertionsHold, doSendResponse
<1>11. RoutesInv'
  <2>1. \A d \in delivered' : {d.to, d.for} \subseteq 1..accepted
    <3>1. \A j : Names(u, j) => j \in 1..accepted
      BY Bounds DEF Names, Conns, IInv, TypeOK
    <3> QED
      BY <1>2, <1>6, <3>1 DEF IInv, RoutesInv
  <2> QED
    BY <1>2, <2>1 DEF IInv, RoutesInv, Names, doSendResponse
<1>12. StrayOnlyAfterClose'
  <2>1. r # k /\ Names(u, k) /\ connStatus_[k] = "connected" =>
           connStatus_[r] = "disconnected" /\ fd[k] = fd[r] /\ r < k
    BY <1>2, StrayIsLater
  <2> QED
    BY <1>1, <1>6, <2>1 DEF IInv, StrayOnlyAfterClose
<1>13. TablesInv' /\ KernelInv' /\ OwnInv'
  BY <1>1, <1>7, FrameRefs
<1> QED
  BY <1>9, <1>10, <1>11, <1>12, <1>13 DEF IInv

-----------------------------------------------------------------------------
(* Accepting                                                               *)

\* A descriptor that is not open belongs to no connection that is connected,
\* unless the loop still has an entry for it.
LEMMA FreeDescriptor ==
    ASSUME IInv, NEW f \in Fds, register_[f] = 0, NEW j \in Conns, fd[j] = f
    PROVE  connStatus_[j] = "disconnected"
<1>1. connections_[f] = 0 /\ j # 0 /\ j \in Nat /\ accepted \in Nat /\ f # 0
  BY Bounds, FdsAssumption DEF IInv, TypeOK, TablesInv, Conns
<1>2. connStatus_[j] # "connected"
  BY <1>1 DEF IInv, TablesInv
<1>3. connStatus_[j] # "none"
  BY <1>1 DEF IInv, TablesInv
<1> QED
  BY <1>2, <1>3 DEF IInv, TypeOK

\* xserver.cpp:45: the new connection is the only one of its descriptor that
\* is connected, and no entry is overwritten.
LEMMA acceptKeeps ==
    ASSUME IInv, ended = "no", NEW f \in Fds, accept(f)
    PROVE  IInv'
<1>0. PICK k \in Conns : k = accepted + 1
  BY Bounds DEF IInv, TypeOK, Conns, accept
<1>1. /\ k \in Conns /\ accepted \in Nat /\ k \in Nat /\ k # 0 /\ f # 0 /\ accepted' = k
      /\ \A j \in Conns : j \in Nat /\ j # 0 /\ (j > k <=> j > accepted /\ j # k)
      /\ \A j \in Conns : (j <= k <=> j <= accepted \/ j = k) /\ (j <= accepted <=> ~(j > accepted))
      /\ k > accepted
  BY <1>0, Bounds, FdsAssumption DEF IInv, TypeOK, Conns, accept
<1>2. f \notin open /\ register_[f] = 0 /\ connections_[f] = 0
  BY DEF IInv, TablesInv, accept
<1>3. /\ \A j \in Conns : fd'[j] = IF j = k THEN f ELSE fd[j]
      /\ \A j \in Conns : connStatus_'[j] = IF j = k THEN "connected" ELSE connStatus_[j]
      /\ \A g \in Fds : connections_'[g] = IF g = f THEN k ELSE connections_[g]
      /\ \A g \in Fds : register_'[g] = IF g = f THEN k ELSE register_[g]
  BY <1>0 DEF IInv, TypeOK, accept
<1>4. tcpAccept(open, f, "none").open = open \cup {f}
  BY <1>1, <1>2, AcceptOpens
<1>5. \/ open' = open \cup {f} /\ watched' = watched \cup {f} /\ threw' = threw
      \/ open' = open /\ watched' = watched /\ threw' = threw \cup {k}
  BY <1>0, <1>4 DEF accept, Add
<1>6. /\ held' = held \/ held' = held \cup {k}
      /\ UNCHANGED <<startVars, handlerVars, tasks, delivered, misled, ended>>
  BY <1>0 DEF accept, handleConnected
<1>7. connStatus_[k] = "none" /\ fd[k] = 0
  BY <1>1 DEF IInv, TablesInv
<1>8. \A j \in Conns : fd[j] = f => connStatus_[j] = "disconnected" /\ j # k
  BY <1>1, <1>2, <1>7, FreeDescriptor
<1>9. TypeOK'
  <2>1. fired_' \subseteq fired_ /\ (inCallback' => fired_' # {})
    BY DEF accept, handled
  <2>2. /\ connStatus_' \in [Conns -> {"none", "connected", "disconnected"}]
        /\ fd' \in [Conns -> Fds \cup {0}]
        /\ connections_' \in [Fds -> Conns \cup {0}] /\ register_' \in [Fds -> Conns \cup {0}]
    BY <1>1 DEF IInv, TypeOK, accept
  <2>3. open' \subseteq Fds /\ watched' \subseteq Fds /\ held' \subseteq Conns /\ threw' \subseteq Conns
    BY <1>1, <1>5, <1>6 DEF IInv, TypeOK
  <2>4. accepted' \in 0..MaxConns
    BY <1>1, Bounds DEF Conns
  <2> QED
    BY <1>6, <2>1, <2>2, <2>3, <2>4 DEF IInv, TypeOK
<1>10. AssertionsHold'
  BY <1>5, <1>6 DEF IInv, AssertionsHold
<1>11. TablesInv'
  <2>1. \A j \in Conns : (connStatus_'[j] = "none" <=> j > accepted') /\ (fd'[j] = 0 <=> j > accepted')
    BY <1>1, <1>3 DEF IInv, TablesInv
  <2>2. \A j \in Conns : connStatus_'[j] = "connected" => connections_'[fd'[j]] = j
    <3>1. ASSUME NEW j \in Conns, j # k, connStatus_[j] = "connected"
          PROVE  fd[j] # f /\ fd[j] \in Fds /\ connections_[fd[j]] = j
      <4>1. fd[j] # 0 /\ connections_[fd[j]] = j
        BY <3>1, <1>1 DEF IInv, TablesInv
      <4>2. fd[j] # f
        BY <3>1, <1>8
      <4> QED
        BY <4>1, <4>2 DEF IInv, TypeOK
    <3> QED
      BY <1>1, <1>3, <3>1
  <2>3. \A g \in Fds : connections_'[g] # 0 =>
           connStatus_'[connections_'[g]] = "connected" /\ fd'[connections_'[g]] = g
    <3>1. ASSUME NEW g \in Fds, g # f, connections_[g] # 0
          PROVE  /\ connections_[g] \in Conns /\ connections_[g] # k
                 /\ connStatus_[connections_[g]] = "connected" /\ fd[connections_[g]] = g
      BY <3>1, <1>7 DEF IInv, TypeOK, TablesInv
    <3>2. ASSUME NEW g \in Fds, connections_'[g] # 0
          PROVE  connStatus_'[connections_'[g]] = "connected" /\ fd'[connections_'[g]] = g
      <4>1. CASE g = f
        <5>1. connections_'[g] = k
          BY <1>3, <4>1
        <5> QED
          BY <1>1, <1>3, <4>1, <5>1
      <4>2. CASE g # f
        <5>1. connections_'[g] = connections_[g] /\ connections_[g] # 0
          BY <1>3, <3>2, <4>2
        <5> QED
          BY <1>3, <3>1, <4>2, <5>1
      <4> QED
        BY <4>1, <4>2
    <3> QED
      BY <3>2
  <2>4. register_' = connections_'
    BY DEF IInv, TablesInv, accept
  <2>5. \A i, j \in Conns : i < j /\ j <= accepted' /\ fd'[i] = fd'[j]
                               => connStatus_'[i] = "disconnected"
    <3> SUFFICES ASSUME NEW i \in Conns, NEW j \in Conns, i < j, j <= accepted', fd'[i] = fd'[j]
                 PROVE  connStatus_'[i] = "disconnected"
      OBVIOUS
    <3>1. i # k /\ i # j
      BY <1>1
    <3>2. CASE j = k
      BY <1>3, <1>8, <3>1, <3>2
    <3>3. CASE j # k
      <4>1. j <= accepted /\ fd[i] = fd[j]
        BY <1>1, <1>3, <3>1, <3>3
      <4>2. connStatus_[i] = "disconnected"
        BY <4>1 DEF IInv, TablesInv
      <4> QED
        BY <1>3, <3>1, <4>2
    <3> QED
      BY <3>2, <3>3
  <2> QED
    BY <2>1, <2>2, <2>3, <2>4, <2>5 DEF TablesInv
<1>12. KernelInv'
  <2>1. watched' \subseteq open'
    BY <1>5 DEF IInv, KernelInv
  <2>2. \A g \in watched' : connections_'[g] # 0
    BY <1>1, <1>3, <1>5 DEF IInv, TypeOK, KernelInv
  <2>3. f \notin watched /\ k \notin threw
    BY <1>2, <1>7 DEF IInv, KernelInv
  <2>4. \A j \in Conns : connStatus_'[j] = "connected" => (fd'[j] \in watched' <=> j \notin threw')
    <3> SUFFICES ASSUME NEW j \in Conns, connStatus_'[j] = "connected"
                 PROVE  fd'[j] \in watched' <=> j \notin threw'
      OBVIOUS
    <3>1. CASE j = k
      BY <1>3, <1>5, <2>3, <3>1
    <3>2. CASE j # k
      <4>1. connStatus_[j] = "connected" /\ fd'[j] = fd[j]
        BY <1>3, <3>2
      <4>2. fd[j] # f
        BY <1>8, <4>1
      <4>3. fd[j] \in watched <=> j \notin threw
        BY <4>1 DEF IInv, KernelInv
      <4> QED
        BY <1>5, <3>2, <4>1, <4>2, <4>3
    <3> QED
      BY <3>1, <3>2
  <2>5. \A j \in threw' : connStatus_'[j] = "connected" /\ fd'[j] \notin open'
    <3>1. ASSUME NEW j \in threw
          PROVE  /\ j \in Conns /\ j # k /\ connStatus_[j] = "connected"
                 /\ fd[j] \notin open /\ fd[j] # f
      <4>1. j \in Conns /\ connStatus_[j] = "connected" /\ fd[j] \notin open
        BY DEF IInv, TypeOK, KernelInv
      <4> QED
        BY <1>8, <2>3, <4>1
    <3>2. CASE open' = open \cup {f} /\ threw' = threw
      BY <1>3, <3>1, <3>2
    <3>3. CASE open' = open /\ threw' = threw \cup {k}
      <4>1. connStatus_'[k] = "connected" /\ fd'[k] \notin open'
        BY <1>1, <1>2, <1>3, <3>3
      <4>2. \A j \in threw : connStatus_'[j] = "connected" /\ fd'[j] \notin open'
        BY <1>3, <3>1, <3>3
      <4> QED
        BY <3>3, <4>1, <4>2
    <3> QED
      BY <1>5, <3>2, <3>3
  <2> QED
    BY <2>1, <2>2, <2>4, <2>5 DEF KernelInv
<1>13. OwnInv'
  <2>1. ~Referenced(k)
    BY <1>1 DEF IInv, OwnInv
  <2>2. \A j \in Conns : Referenced(j)' <=> Referenced(j) \/ j = k
    <3>1. \A j \in Conns : (j \in held') <=> (j \in held \/ (j = k /\ k \in held'))
      BY <1>6
    <3>2. ASSUME NEW j \in Conns
          PROVE  (\E g \in Fds : j \in {connections_'[g], register_'[g]})
                 <=> j = k \/ \E g \in Fds : j \in {connections_[g], register_[g]}
      BY <1>1, <1>2, <1>3
    <3> QED
      BY <1>6, <3>1, <3>2 DEF Referenced
  <2>3. \A j \in Conns : Referenced(j) => j # k /\ fd'[j] = fd[j] /\ j <= accepted'
    BY <1>1, <1>3, <2>1 DEF IInv, OwnInv
  <2>4. \A j \in Conns : Referenced(j)' => j <= accepted'
    BY <1>1, <2>2, <2>3
  <2>5. \A j \in Conns \ threw' : Referenced(j)' => fd'[j] \in open'
    <3> SUFFICES ASSUME NEW j \in Conns, j \notin threw', Referenced(j)'
                 PROVE  fd'[j] \in open'
      OBVIOUS
    <3>1. CASE j = k
      BY <1>3, <1>5, <3>1
    <3>2. CASE j # k
      <4>1. Referenced(j) /\ j \notin threw /\ fd'[j] = fd[j]
        BY <1>5, <2>2, <2>3, <3>2
      <4>2. fd[j] \in open
        BY <4>1 DEF IInv, OwnInv
      <4> QED
        BY <1>5, <4>1, <4>2
    <3> QED
      BY <3>1, <3>2
  <2>6. \A g \in open' : \E j \in Conns : Referenced(j)' /\ fd'[j] = g
    <3>1. ASSUME NEW g \in open
          PROVE  \E j \in Conns : Referenced(j)' /\ fd'[j] = g
      <4>1. PICK j \in Conns : Referenced(j) /\ fd[j] = g
        BY DEF IInv, OwnInv
      <4> QED
        BY <2>2, <2>3, <4>1
    <3>2. Referenced(k)' /\ fd'[k] = f
      BY <1>1, <1>3, <2>2
    <3> QED
      BY <1>1, <1>5, <3>1, <3>2
  <2>7. \A j \in Conns : Referenced(j) /\ fd[j] = f => FALSE
    <3> SUFFICES ASSUME NEW j \in Conns, Referenced(j), fd[j] = f
                 PROVE  FALSE
      OBVIOUS
    <3>1. j \notin threw
      BY <1>8 DEF IInv, KernelInv
    <3>2. fd[j] \in open
      BY <3>1 DEF IInv, OwnInv
    <3> QED
      BY <1>2, <3>2
  <2>8. \A i, j \in Conns : Referenced(i)' /\ Referenced(j)' /\ fd'[i] = fd'[j] => i = j
    <3>1. \A i, j \in Conns : Referenced(i) /\ Referenced(j) /\ fd[i] = fd[j] => i = j
      BY DEF IInv, OwnInv
    <3>2. fd'[k] = f
      BY <1>1, <1>3
    <3> QED
      BY <2>2, <2>3, <2>7, <3>1, <3>2
  <2> QED
    BY <2>4, <2>5, <2>6, <2>8 DEF OwnInv
<1>14. RoutesInv'
  <2>1. \A g, j : Names(g, j) => Names(g, j)'
    BY <1>1, <1>3 DEF Names
  <2>2. \A d \in delivered \cup misled : {d.to, d.for} \subseteq 1..accepted'
    BY <1>1 DEF IInv, RoutesInv
  <2>3. fired_' \subseteq fired_
    BY DEF accept, handled
  <2>4. /\ \A n \in 1..Len(msgQueue_) : Names(msgQueue_[n].uid, msgQueue_[n].from)
        /\ \A h \in Handlers :
              dispatching[h] # NoMsg => Names(dispatching[h].uid, dispatching[h].from)
        /\ \A n \in 1..Len(tasks) :
              IF tasks[n].kind = "resp" THEN Names(tasks[n].uid, tasks[n].from)
                                        ELSE tasks[n].conn \in Conns
        /\ \A e \in fired_ : e.fd # Listener => Names(e.fd, e.for)
    BY DEF IInv, RoutesInv
  <2> QED
    BY <1>6, <2>1, <2>2, <2>3, <2>4 DEF RoutesInv
<1>15. StrayOnlyAfterClose'
  <2>1. \A d \in delivered \cup misled : /\ d.to \in Conns /\ d.to # k
                                         /\ d.for \in Conns /\ d.for # k
    BY <1>1 DEF IInv, TypeOK, RoutesInv
  <2> QED
    BY <1>3, <1>6, <2>1 DEF IInv, StrayOnlyAfterClose
<1> QED
  BY <1>9, <1>10, <1>11, <1>12, <1>13, <1>14, <1>15 DEF IInv

-----------------------------------------------------------------------------
(* Closing, and dropping references                                        *)

\* connection.cpp, closeConn: nothing happens, or everything does; the
\* assertions fail only where Connected threw.
LEMMA CloseConnOutcome ==
    ASSUME IInv, NEW k \in Conns, closeConn(k)
    PROVE  /\ \/ UNCHANGED <<connStatus_, register_, connections_, watched>>
              \/ /\ connStatus_[k] = "connected" /\ fd[k] \in watched /\ connections_[fd[k]] # 0
                 /\ connStatus_' = [connStatus_ EXCEPT ![k] = "disconnected"]
                 /\ remove(fd[k]) /\ erase(k)
           /\ ended' = ended \/ (ended' = "abort" /\ threw # {})
<1>1. CASE connStatus_[k] = "disconnected"
  BY <1>1 DEF closeConn
<1>2. CASE connStatus_[k] = "connected" /\ (ctrlAsserts(fd[k]) \/ connections_[fd[k]] = 0)
  <2>1. connections_[fd[k]] = k /\ k # 0 /\ fd[k] \in Fds
    <3>1. connections_[fd[k]] = k /\ fd[k] # 0 /\ k # 0
      BY <1>2, Bounds DEF IInv, TablesInv, Conns
    <3> QED
      BY <3>1 DEF IInv, TypeOK
  <2>2. fd[k] \notin watched
    BY <1>2, <2>1 DEF ctrlAsserts
  <2>3. threw # {}
    BY <2>1, <2>2, StaleEntry
  <2> QED
    BY <1>2, <2>3 DEF closeConn
<1>3. CASE connStatus_[k] = "connected" /\ ~ctrlAsserts(fd[k]) /\ connections_[fd[k]] # 0
  BY <1>3 DEF closeConn, ctrlAsserts
<1> QED
  BY <1>1, <1>2, <1>3 DEF closeConn

\* A step that closes a referenced connection or drops references to it, and
\* with the last one its descriptor.
LEMMA ClosingKeeps ==
    ASSUME IInv, NEW k \in Conns, Referenced(k),
           UNCHANGED <<accepted, fd, threw>>, closeIfUnreferenced(k),
           \A j \in Conns \ {k} :
              /\ j \in held' <=> j \in held
              /\ (\E n \in 1..Len(tasks') : tasks'[n].kind = "close" /\ tasks'[n].conn = j)
                 <=> \E n \in 1..Len(tasks) : tasks[n].kind = "close" /\ tasks[n].conn = j,
           \/ UNCHANGED <<connStatus_, register_, connections_, watched>>
           \/ /\ connStatus_[k] = "connected" /\ fd[k] \in watched /\ connections_[fd[k]] # 0
              /\ connStatus_' = [connStatus_ EXCEPT ![k] = "disconnected"]
              /\ remove(fd[k]) /\ erase(k)
    PROVE  /\ TablesInv' /\ KernelInv' /\ OwnInv'
           /\ \A j \in Conns : connStatus_[j] = "disconnected" => connStatus_'[j] = "disconnected"
           /\ connStatus_' \in [Conns -> {"none", "connected", "disconnected"}]
           /\ connections_' \in [Fds -> Conns \cup {0}] /\ register_' \in [Fds -> Conns \cup {0}]
           /\ open' \subseteq Fds /\ watched' \subseteq Fds
<1> DEFINE Closes == /\ connStatus_[k] = "connected" /\ fd[k] \in watched /\ connections_[fd[k]] # 0
                     /\ connStatus_' = [connStatus_ EXCEPT ![k] = "disconnected"]
                     /\ remove(fd[k]) /\ erase(k)
           Same   == UNCHANGED <<connStatus_, register_, connections_, watched>>
<1>1. /\ \A j \in Conns : j \in Nat /\ j # 0
      /\ k <= accepted /\ ~(k > accepted) /\ fd[k] # 0 /\ fd[k] \in Fds
  <2>1. \A j \in Conns : j \in Nat /\ j # 0
    BY Bounds DEF Conns
  <2>2. k <= accepted /\ accepted \in Nat
    BY Bounds DEF IInv, TypeOK, OwnInv
  <2>3. ~(k > accepted)
    BY <2>1, <2>2
  <2>4. fd[k] # 0
    BY <2>3 DEF IInv, TablesInv
  <2> QED
    BY <2>1, <2>2, <2>3, <2>4 DEF IInv, TypeOK
<1>2. Same \/ Closes
  OBVIOUS
<1>3. ASSUME Closes
      PROVE  /\ connections_[fd[k]] = k
             /\ \A j \in Conns : connStatus_'[j] = IF j = k THEN "disconnected" ELSE connStatus_[j]
             /\ \A g \in Fds : connections_'[g] = IF g = fd[k] THEN 0 ELSE connections_[g]
             /\ \A g \in Fds : register_'[g] = IF g = fd[k] THEN 0 ELSE register_[g]
             /\ register_' = connections_' /\ watched' = watched \ {fd[k]}
             /\ \A j \in Conns : j # k /\ connStatus_[j] = "connected" =>
                   fd[j] # fd[k] /\ fd[j] \in Fds /\ connections_[fd[j]] = j
  <2>1. connections_[fd[k]] = k /\ register_ = connections_
    BY <1>3 DEF IInv, TablesInv
  <2>2. \A j \in Conns : connStatus_'[j] = IF j = k THEN "disconnected" ELSE connStatus_[j]
    BY <1>3 DEF IInv, TypeOK
  <2>3. /\ \A g \in Fds : connections_'[g] = IF g = fd[k] THEN 0 ELSE connections_[g]
        /\ \A g \in Fds : register_'[g] = IF g = fd[k] THEN 0 ELSE register_[g]
        /\ register_' = connections_' /\ watched' = watched \ {fd[k]}
    BY <1>3, <2>1 DEF IInv, TypeOK, remove, erase, Delete
  <2>4. ASSUME NEW j \in Conns, j # k, connStatus_[j] = "connected"
        PROVE  fd[j] # fd[k] /\ fd[j] \in Fds /\ connections_[fd[j]] = j
    <3>1. connections_[fd[j]] = j /\ (fd[j] = 0 <=> connStatus_[j] = "none")
      BY <2>4 DEF IInv, TablesInv
    <3> QED
      BY <2>1, <2>4, <3>1 DEF IInv, TypeOK
  <2> QED
    BY <2>1, <2>2, <2>3, <2>4
<1>4. \A j \in Conns : j # k => (Referenced(j)' <=> Referenced(j))
  <2>1. CASE Same
    BY <2>1 DEF Referenced
  <2>2. CASE Closes
    <3>1. ASSUME NEW j \in Conns, j # k
          PROVE  (\E g \in Fds : j \in {connections_'[g], register_'[g]})
                 <=> \E g \in Fds : j \in {connections_[g], register_[g]}
      <4>1. \A g \in Fds : connections_[g] = register_[g]
        BY DEF IInv, TablesInv
      <4> QED
        BY <1>1, <1>3, <2>2, <3>1, <4>1
    <3> QED
      BY <3>1 DEF Referenced
  <2> QED
    BY <1>2, <2>1, <2>2
<1>5. open' = open \/ (open' = open \ {fd[k]} /\ ~Referenced(k)')
  BY DEF closeIfUnreferenced
<1>6. ~Referenced(k)' => fd[k] \notin watched'
  <2>1. CASE Closes
    BY <1>3, <2>1
  <2>2. CASE Same
    <3> SUFFICES ASSUME fd[k] \in watched
                 PROVE  Referenced(k)'
      BY <2>2
    <3>1. connections_[fd[k]] \in Conns /\ fd[connections_[fd[k]]] = fd[k]
      BY <1>1 DEF IInv, TypeOK, KernelInv, TablesInv
    <3>2. Referenced(connections_[fd[k]])
      BY <1>1 DEF Referenced
    <3>3. connections_[fd[k]] = k
      BY <3>1, <3>2 DEF IInv, OwnInv
    <3> QED
      BY <1>1, <2>2, <3>3 DEF Referenced
  <2> QED
    BY <1>2, <2>1, <2>2
<1>7. TablesInv'
  <2>1. CASE Same
    BY <2>1 DEF IInv, TablesInv
  <2>2. CASE Closes
    <3>1. \A j \in Conns : /\ connStatus_'[j] = "none" <=> j > accepted'
                           /\ fd'[j] = 0 <=> j > accepted'
                           /\ connStatus_'[j] = "connected" => connections_'[fd'[j]] = j
      BY <1>1, <1>3, <2>2 DEF IInv, TablesInv
    <3>2. ASSUME NEW g \in Fds, connections_'[g] # 0
          PROVE  connStatus_'[connections_'[g]] = "connected" /\ fd'[connections_'[g]] = g
      <4>1. g # fd[k] /\ connections_'[g] = connections_[g] /\ connections_[g] # 0
        BY <1>3, <2>2, <3>2
      <4>2. /\ connections_[g] \in Conns /\ connStatus_[connections_[g]] = "connected"
            /\ fd[connections_[g]] = g
        BY <4>1 DEF IInv, TypeOK, TablesInv
      <4>3. connections_[g] # k
        BY <4>1, <4>2
      <4> QED
        BY <1>3, <2>2, <4>1, <4>2, <4>3
    <3>3. \A i, j \in Conns : i < j /\ j <= accepted' /\ fd'[i] = fd'[j]
                                 => connStatus_'[i] = "disconnected"
      BY <1>3, <2>2 DEF IInv, TablesInv
    <3>4. register_' = connections_'
      BY <1>3, <2>2
    <3> QED
      BY <3>1, <3>2, <3>3, <3>4 DEF TablesInv
  <2> QED
    BY <1>2, <2>1, <2>2
<1>8. KernelInv'
  <2>1. watched' \subseteq watched /\ watched \subseteq open
    BY <1>2, <1>3 DEF IInv, KernelInv
  <2>2. watched' \subseteq open'
    BY <1>5, <1>6, <2>1
  <2>3. \A g \in watched' : connections_'[g] # 0
    BY <1>2, <1>3 DEF IInv, TypeOK, KernelInv
  <2>4. \A j \in Conns : connStatus_'[j] = "connected" => (fd'[j] \in watched' <=> j \notin threw')
    <3>1. CASE Same
      BY <3>1 DEF IInv, KernelInv
    <3>2. CASE Closes
      BY <1>3, <3>2 DEF IInv, KernelInv
    <3> QED
      BY <1>2, <3>1, <3>2
  <2>5. ASSUME NEW j \in threw'
        PROVE  connStatus_'[j] = "connected" /\ fd'[j] \notin open'
    <3>1. j \in Conns /\ connStatus_[j] = "connected" /\ fd[j] \notin open
      BY <2>5 DEF IInv, TypeOK, KernelInv
    <3>2. Closes => j # k
      BY <2>1, <3>1
    <3>3. connStatus_'[j] = "connected"
      BY <1>2, <1>3, <3>1, <3>2
    <3> QED
      BY <1>5, <3>1, <3>3
  <2> QED
    BY <2>2, <2>3, <2>4, <2>5 DEF KernelInv
<1>9. OwnInv'
  <2>1. \A j \in Conns : Referenced(j)' => Referenced(j)
    BY <1>4
  <2>2. \A j \in Conns : Referenced(j)' => j <= accepted'
    BY <2>1 DEF IInv, OwnInv
  <2>3. \A i, j \in Conns : Referenced(i)' /\ Referenced(j)' /\ fd'[i] = fd'[j] => i = j
    BY <2>1 DEF IInv, OwnInv
  <2>4. ASSUME NEW j \in Conns \ threw', Referenced(j)'
        PROVE  fd'[j] \in open'
    <3>1. Referenced(j) /\ fd[j] \in open
      BY <2>1, <2>4 DEF IInv, OwnInv
    <3>2. CASE j = k
      BY <1>5, <2>4, <3>1, <3>2
    <3>3. CASE j # k
      <4>1. fd[j] # fd[k]
        BY <3>1, <3>3 DEF IInv, OwnInv
      <4> QED
        BY <1>5, <3>1, <4>1
    <3> QED
      BY <3>2, <3>3
  <2>5. ASSUME NEW g \in open'
        PROVE  \E j \in Conns : Referenced(j)' /\ fd'[j] = g
    <3>1. g \in open
      BY <1>5, <2>5
    <3>2. PICK j \in Conns : Referenced(j) /\ fd[j] = g
      BY <3>1 DEF IInv, OwnInv
    <3>3. CASE j # k
      BY <1>4, <3>2, <3>3
    <3>4. CASE j = k
      <4>1. fd[k] = g /\ Referenced(k)'
        <5>1. CASE open' = open
          <6>1. fd[k] \in open /\ Referenced(k)
            BY <3>1, <3>2, <3>4
          <6> QED
            BY <3>2, <3>4, <5>1, <6>1 DEF closeIfUnreferenced
        <5>2. CASE open' = open \ {fd[k]}
          BY <2>5, <3>2, <3>4, <5>2
        <5> QED
          BY <1>5, <5>1, <5>2
      <4> QED
        BY <4>1
    <3> QED
      BY <3>3, <3>4
  <2> QED
    BY <2>2, <2>3, <2>4, <2>5 DEF OwnInv
<1>10. \A j \in Conns : connStatus_[j] = "disconnected" => connStatus_'[j] = "disconnected"
  BY <1>2, <1>3
<1>11. /\ connStatus_' \in [Conns -> {"none", "connected", "disconnected"}]
       /\ connections_' \in [Fds -> Conns \cup {0}] /\ register_' \in [Fds -> Conns \cup {0}]
       /\ open' \subseteq Fds /\ watched' \subseteq Fds
  <2>1. CASE Same
    BY <1>5, <2>1 DEF IInv, TypeOK
  <2>2. CASE Closes
    BY <1>5, <2>2 DEF IInv, TypeOK, remove, erase, Delete
  <2> QED
    BY <1>2, <2>1, <2>2
<1> QED
  BY <1>7, <1>8, <1>9, <1>10, <1>11

\* What the connections' step keeps of the routes and of the history, when
\* neither is added to.
LEMMA RoutesKept ==
    ASSUME IInv, UNCHANGED <<accepted, fd, msgQueue_, dispatching, delivered, misled>>,
           fired_' \subseteq fired_,
           \A n \in 1..Len(tasks') :
              IF tasks'[n].kind = "resp" THEN Names(tasks'[n].uid, tasks'[n].from)
                                         ELSE tasks'[n].conn \in Conns,
           \A j \in Conns : connStatus_[j] = "disconnected" => connStatus_'[j] = "disconnected"
    PROVE  RoutesInv' /\ StrayOnlyAfterClose'
<1>1. RoutesInv'
  BY DEF IInv, RoutesInv, Names
<1>2. StrayOnlyAfterClose'
  BY DEF IInv, TypeOK, StrayOnlyAfterClose
<1> QED
  BY <1>1, <1>2

\* The last reference that user code had may go.
LEMMA releaseKeeps ==
    ASSUME IInv, ended = "no", NEW k \in Conns, release(k)
    PROVE  IInv'
<1>1. /\ Referenced(k) /\ held' = held \ {k}
      /\ UNCHANGED <<startVars, loopVars, connVars, watched, handlerVars, tasks, histories, ended>>
      /\ closeIfUnreferenced(k)
  BY DEF release, Referenced
<1>2. \A j \in Conns \ {k} :
         /\ j \in held' <=> j \in held
         /\ (\E n \in 1..Len(tasks') : tasks'[n].kind = "close" /\ tasks'[n].conn = j)
            <=> \E n \in 1..Len(tasks) : tasks[n].kind = "close" /\ tasks[n].conn = j
  BY <1>1
<1>3. /\ TablesInv' /\ KernelInv' /\ OwnInv'
      /\ open' \subseteq Fds
  BY <1>1, <1>2, ClosingKeeps
<1>4. TypeOK'
  BY <1>1, <1>3 DEF IInv, TypeOK
<1>5. AssertionsHold'
  BY <1>1 DEF IInv, AssertionsHold
<1>6. RoutesInv' /\ StrayOnlyAfterClose'
  BY <1>1, RoutesKept DEF IInv, RoutesInv
<1> QED
  BY <1>3, <1>4, <1>5, <1>6 DEF IInv

\* A callback, or closeConnectionAfter's timer, closes what it holds.
LEMMA closeInLoopKeeps ==
    ASSUME IInv, ended = "no", NEW k \in Conns, closeInLoop(k)
    PROVE  IInv'
<1>1. /\ Referenced(k) /\ closeConn(k) /\ closeIfUnreferenced(k)
      /\ UNCHANGED <<startVars, loopVars, accepted, fd, held, handlerVars, tasks, histories>>
  BY DEF closeInLoop, Referenced
<1>2. \A j \in Conns \ {k} :
         /\ j \in held' <=> j \in held
         /\ (\E n \in 1..Len(tasks') : tasks'[n].kind = "close" /\ tasks'[n].conn = j)
            <=> \E n \in 1..Len(tasks) : tasks[n].kind = "close" /\ tasks[n].conn = j
  BY <1>1
<1>3. /\ TablesInv' /\ KernelInv' /\ OwnInv'
      /\ \A j \in Conns : connStatus_[j] = "disconnected" => connStatus_'[j] = "disconnected"
      /\ connStatus_' \in [Conns -> {"none", "connected", "disconnected"}]
      /\ connections_' \in [Fds -> Conns \cup {0}] /\ register_' \in [Fds -> Conns \cup {0}]
      /\ open' \subseteq Fds /\ watched' \subseteq Fds
  BY <1>1, <1>2, CloseConnOutcome, ClosingKeeps
<1>4. ended' = ended \/ (ended' = "abort" /\ threw # {})
  BY <1>1, CloseConnOutcome
<1>5. TypeOK'
  BY <1>1, <1>3, <1>4 DEF IInv, TypeOK
<1>6. AssertionsHold'
  BY <1>1, <1>4 DEF IInv, AssertionsHold
<1>7. RoutesInv' /\ StrayOnlyAfterClose'
  BY <1>1, <1>3, RoutesKept DEF IInv, RoutesInv
<1> QED
  BY <1>3, <1>5, <1>6, <1>7 DEF IInv

\* xserver.cpp: the functor of closeConnection.
LEMMA doCloseKeeps ==
    ASSUME IInv, ended = "no", doClose
    PROVE  IInv'
<1> DEFINE k == Head(tasks).conn
<1>1. /\ tasks \in Seq(Tasks) /\ tasks # <<>> /\ tasks' = Tail(tasks) /\ Head(tasks).kind = "close"
      /\ closeConn(k) /\ closeIfUnreferenced(k)
      /\ UNCHANGED <<startVars, loopVars, accepted, fd, held, handlerVars, histories>>
  BY DEF IInv, TypeOK, doClose
<1>2. /\ tasks' \in Seq(Tasks) /\ k \in Conns
      /\ \A n \in 1..Len(tasks') :
            IF tasks'[n].kind = "resp" THEN Names(tasks'[n].uid, tasks'[n].from)
                                       ELSE tasks'[n].conn \in Conns
  BY <1>1, TakenTasks
<1>3. \A j \in Conns :
         (\E n \in 1..Len(tasks) : tasks[n].kind = "close" /\ tasks[n].conn = j)
         <=> \/ \E n \in 1..Len(tasks') : tasks'[n].kind = "close" /\ tasks'[n].conn = j
             \/ j = k
  BY <1>1, TakenRefs
<1>4. PICK c \in Conns : c = k
  BY <1>2
<1>5. Referenced(c) /\ closeConn(c) /\ closeIfUnreferenced(c)
  <2>1. closeConn(c) /\ closeIfUnreferenced(c)
    BY <1>4 DEF doClose
  <2>2. Referenced(c)
    BY <1>3, <1>4 DEF Referenced
  <2> QED
    BY <2>1, <2>2
<1> HIDE DEF k
<1>6. \A j \in Conns \ {c} :
         /\ j \in held' <=> j \in held
         /\ (\E n \in 1..Len(tasks') : tasks'[n].kind = "close" /\ tasks'[n].conn = j)
            <=> \E n \in 1..Len(tasks) : tasks[n].kind = "close" /\ tasks[n].conn = j
  BY <1>1, <1>3, <1>4
<1>7. /\ TablesInv' /\ KernelInv' /\ OwnInv'
      /\ \A j \in Conns : connStatus_[j] = "disconnected" => connStatus_'[j] = "disconnected"
      /\ connStatus_' \in [Conns -> {"none", "connected", "disconnected"}]
      /\ connections_' \in [Fds -> Conns \cup {0}] /\ register_' \in [Fds -> Conns \cup {0}]
      /\ open' \subseteq Fds /\ watched' \subseteq Fds
  BY <1>1, <1>5, <1>6, CloseConnOutcome, ClosingKeeps
<1>8. ended' = ended \/ (ended' = "abort" /\ threw # {})
  BY <1>5, CloseConnOutcome
<1>9. TypeOK'
  BY <1>1, <1>2, <1>7, <1>8 DEF IInv, TypeOK
<1>10. AssertionsHold'
  BY <1>1, <1>8 DEF IInv, AssertionsHold
<1>11. RoutesInv' /\ StrayOnlyAfterClose'
  BY <1>1, <1>2, <1>7, RoutesKept
<1> QED
  BY <1>7, <1>9, <1>10, <1>11 DEF IInv

\* connection.cpp: an event closes the connection the loop calls for its
\* descriptor, be it the one it was fetched for or a later one.
LEMMA closeOnEventKeeps ==
    ASSUME IInv, ended = "no", NEW e \in fired_, closeOnEvent(e)
    PROVE  IInv'
<1>1. e.fd \in Fds /\ e.fd # Listener /\ register_[e.fd] # 0
  BY DEF IInv, TypeOK, closeOnEvent, owner, Listener
<1>2. PICK c \in Conns : c = register_[e.fd]
  BY <1>1 DEF IInv, TypeOK
<1>3. Names(e.fd, c) /\ connStatus_[c] = "connected" /\ Referenced(c) /\ Names(e.fd, e.for)
  BY <1>1, <1>2, OwnerNamed DEF IInv, RoutesInv
<1>4. /\ closeConn(c) /\ closeIfUnreferenced(c)
      /\ misled' = IF c = e.for THEN misled ELSE misled \cup {[to |-> c, for |-> e.for]}
      /\ UNCHANGED <<startVars, accepted, fd, held, handlerVars, tasks, delivered, threw>>
      /\ fired_' \subseteq fired_ /\ (inCallback' => fired_' # {})
  BY <1>2 DEF closeOnEvent, owner, handled
<1>5. \A j \in Conns \ {c} :
         /\ j \in held' <=> j \in held
         /\ (\E n \in 1..Len(tasks') : tasks'[n].kind = "close" /\ tasks'[n].conn = j)
            <=> \E n \in 1..Len(tasks) : tasks[n].kind = "close" /\ tasks[n].conn = j
  BY <1>4
<1>6. /\ TablesInv' /\ KernelInv' /\ OwnInv'
      /\ \A j \in Conns : connStatus_[j] = "disconnected" => connStatus_'[j] = "disconnected"
      /\ connStatus_' \in [Conns -> {"none", "connected", "disconnected"}]
      /\ connections_' \in [Fds -> Conns \cup {0}] /\ register_' \in [Fds -> Conns \cup {0}]
      /\ open' \subseteq Fds /\ watched' \subseteq Fds
  BY <1>3, <1>4, <1>5, CloseConnOutcome, ClosingKeeps
<1>7. ended' = ended \/ (ended' = "abort" /\ threw # {})
  BY <1>4, CloseConnOutcome
<1>8. \A d \in misled' : d \in misled \/ (c # e.for /\ d = [to |-> c, for |-> e.for])
  BY <1>4
<1>9. misled' \subseteq [to : Conns, for : Conns]
  BY <1>3, <1>8 DEF IInv, TypeOK, Names
<1>10. TypeOK'
  BY <1>4, <1>6, <1>7, <1>9 DEF IInv, TypeOK
<1>11. AssertionsHold'
  BY <1>4, <1>7 DEF IInv, AssertionsHold
<1>12. RoutesInv'
  <2>1. \A d \in misled' : {d.to, d.for} \subseteq 1..accepted
    <3>1. \A j : Names(e.fd, j) => j \in 1..accepted
      BY Bounds DEF Names, Conns, IInv, TypeOK
    <3> QED
      BY <1>3, <1>8, <3>1 DEF IInv, RoutesInv
  <2> QED
    BY <1>4, <2>1 DEF IInv, RoutesInv, Names
<1>13. StrayOnlyAfterClose'
  <2>1. c # e.for => connStatus_[e.for] = "disconnected" /\ fd[c] = fd[e.for] /\ e.for < c
    BY <1>3, StrayIsLater
  <2>2. \A d \in delivered \cup misled : d.to # d.for =>
           /\ connStatus_'[d.for] = "disconnected" /\ fd'[d.to] = fd'[d.for] /\ d.for < d.to
    BY <1>4, <1>6 DEF IInv, TypeOK, StrayOnlyAfterClose
  <2>3. \A d \in misled' \ misled :
           /\ connStatus_'[d.for] = "disconnected" /\ fd'[d.to] = fd'[d.for] /\ d.for < d.to
    BY <1>3, <1>4, <1>6, <1>8, <2>1 DEF Names
  <2> QED
    BY <1>4, <2>2, <2>3 DEF StrayOnlyAfterClose
<1> QED
  BY <1>6, <1>10, <1>11, <1>12, <1>13 DEF IInv

-----------------------------------------------------------------------------
(* The theorems                                                            *)

\* No connection, no descriptor, no message: everything IInv says is empty.
LEMMA InitKeeps == Init => IInv
<1> SUFFICES ASSUME Init
             PROVE  IInv
  OBVIOUS
<1> USE DEF Init
<1>1. \A k \in Conns : k > accepted /\ ~(k <= accepted) /\ k # 0
  BY Bounds DEF Conns
<1>2. TypeOK
  <2>1. NoMsg \in Msgs
    BY DEF NoMsg, Msgs
  <2>2. accepted \in 0..MaxConns /\ received \in 0..MaxMsgs
    BY Bounds
  <2>3. msgQueue_ \in Seq(Msgs) /\ tasks \in Seq(Tasks)
    OBVIOUS
  <2>4. /\ connStatus_ \in [Conns -> {"none", "connected", "disconnected"}]
        /\ fd \in [Conns -> Fds \cup {0}]
        /\ connections_ \in [Fds -> Conns \cup {0}] /\ register_ \in [Fds -> Conns \cup {0}]
        /\ handler \in [Handlers -> {"none", "constructed", "registered"}]
        /\ dispatching \in [Handlers -> Msgs] /\ isTerminate_ \in [Handlers -> BOOLEAN]
    BY <2>1
  <2> QED
    BY <2>2, <2>3, <2>4 DEF TypeOK
<1>3. AssertionsHold /\ StrayOnlyAfterClose
  BY DEF AssertionsHold, StrayOnlyAfterClose
<1>4. TablesInv /\ KernelInv
  <2>1. /\ \A k \in Conns : connStatus_[k] = "none" /\ fd[k] = 0
        /\ \A f \in Fds : connections_[f] = 0
        /\ register_ = connections_
    OBVIOUS
  <2>2. TablesInv
    BY <1>1, <2>1 DEF TablesInv
  <2>3. KernelInv
    BY <2>1 DEF KernelInv
  <2> QED
    BY <2>2, <2>3
<1>5. \A k \in Conns : ~Referenced(k)
  BY <1>1 DEF Referenced
<1>6. OwnInv
  BY <1>5 DEF OwnInv
<1>7. RoutesInv
  BY DEF RoutesInv, NoMsg
<1> QED
  BY <1>2, <1>3, <1>4, <1>6, <1>7 DEF IInv

\* Every step of the program keeps IInv.
LEMMA StepKeeps == IInv /\ [Next]_vars => IInv'
<1> SUFFICES ASSUME IInv, [Next]_vars
             PROVE  IInv'
  OBVIOUS
<1>1. CASE UNCHANGED vars
  <2>1. UNCHANGED <<connVars, kernelVars, held, tasks, histories>>
    BY <1>1 DEF vars
  <2>2. TypeOK' /\ AssertionsHold' /\ RoutesInv'
    BY <1>1 DEF vars, IInv, TypeOK, AssertionsHold, RoutesInv, Names
  <2> QED
    BY <2>1, <2>2, Frame DEF IInv
<1>2. CASE Next
  <2>1. ended = "no"
    BY <1>2 DEF Next
  <2>2. CASE mainStep
    BY <2>1, <2>2, doListenKeeps, startKeeps, constructKeeps, registerKeeps DEF mainStep
  <2>3. CASE poll
    BY <2>1, <2>3, pollKeeps
  <2>4. ASSUME NEW e \in fired_, eventStep(e)
        PROVE  IInv'
    BY <2>1, <2>4, ignoreKeeps, listenerErrorKeeps, messageComingKeeps, closeOnEventKeeps
       DEF eventStep
  <2>5. ASSUME NEW f \in Fds, acceptStep(f)
        PROVE  IInv'
    BY <2>1, <2>5, acceptNothingKeeps, acceptKeeps, acceptOnStaleKeeps DEF acceptStep
  <2>6. ASSUME NEW k \in 1..accepted, closeInLoop(k) \/ closeConnection(k) \/ release(k)
        PROVE  IInv'
    <3>1. k \in Conns
      BY Bounds DEF IInv, TypeOK, Conns
    <3> QED
      BY <2>1, <2>6, <3>1, closeInLoopKeeps, closeConnectionKeeps, releaseKeeps
  <2>7. ASSUME NEW h \in Handlers, handlerStep(h) \/ stop(h)
        PROVE  IInv'
    BY <2>1, <2>7, findNoGroupKeeps, stopGrouplessKeeps, readNoGroupKeeps, enterReadKeeps, takeKeeps, takeNothingKeeps,
       respondKeeps, stopKeeps DEF handlerStep
  <2>8. CASE functorStep
    BY <2>1, <2>8, doSendResponseKeeps, doCloseKeeps DEF functorStep
  <2> QED
    BY <1>2, <2>2, <2>3, <2>4, <2>5, <2>6, <2>7, <2>8 DEF Next
<1> QED
  BY <1>1, <1>2

\* The server's tables, the kernel's descriptors and the messages on their way
\* are always what IInv says of them.
THEOREM InductiveInvariant == Spec => []IInv
<1> QED
  BY InitKeeps, StepKeeps, PTL DEF Spec

\* Every variable of the server keeps its type.
THEOREM TypeInvariant == Spec => []TypeOK
<1>1. IInv => TypeOK
  BY DEF IInv
<1> QED
  BY <1>1, InductiveInvariant, PTL

\* The assertions of xserver.cpp:105 and epoller.cpp:51 fail only after a
\* handler's Connected threw.
THEOREM OnlyThrowsAbort == Spec => []AssertionsHold
<1>1. IInv => AssertionsHold
  BY DEF IInv
<1> QED
  BY <1>1, InductiveInvariant, PTL

\* connections_, register_ and the descriptors that are open agree: no entry is
\* overwritten, nothing is closed twice or leaked but where Connected threw.
THEOREM ConnectionsHaveDescriptors == Spec => []TablesAgree
<1>1. IInv => TablesAgree
  <2> SUFFICES ASSUME IInv
               PROVE  TablesAgree
    OBVIOUS
  <2>1. ASSUME NEW k \in Conns, NEW f \in Fds
        PROVE  connections_[f] = k <=> connStatus_[k] = "connected" /\ fd[k] = f
    <3>1. k # 0
      BY Bounds DEF Conns
    <3> QED
      BY <3>1 DEF IInv, TablesInv
  <2>2. \A k \in Conns \ threw : Referenced(k) => fd[k] \in open
    BY DEF IInv, OwnInv
  <2>3. ASSUME NEW f \in open
        PROVE  Cardinality({k \in Conns : Referenced(k) /\ fd[k] = f}) = 1
    <3>1. PICK j \in Conns : Referenced(j) /\ fd[j] = f
      BY DEF IInv, OwnInv
    <3>2. \A k \in Conns : Referenced(k) /\ fd[k] = f => k = j
      BY <3>1 DEF IInv, OwnInv
    <3>3. {k \in Conns : Referenced(k) /\ fd[k] = f} = {j}
      BY <3>1, <3>2
    <3> QED
      BY <3>3, FS_Singleton
  <2> QED
    BY <2>1, <2>2, <2>3 DEF TablesAgree
<1> QED
  BY <1>1, InductiveInvariant, PTL

\* An answer or an event meets a connection it was not for only if that one was
\* closed and the other accepted later, on the same descriptor.
THEOREM OnlyLaterConnectionsAreMisled == Spec => []StrayOnlyAfterClose
<1>1. IInv => StrayOnlyAfterClose
  BY DEF IInv
<1> QED
  BY <1>1, InductiveInvariant, PTL
=============================================================================
