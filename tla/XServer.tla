------------------------------ MODULE XServer -------------------------------
(***************************************************************************)
(* xServer, xHandlerGroup, xHandler, and what they use of xListener,       *)
(* xConnection and xLoop (net/xserver.cpp, handler_group.cpp, handler.cpp, *)
(* listener.cpp, connection.cpp): connections come and go on the loop      *)
(* thread, their messages are handled in handler threads, and the answers  *)
(* find their way back by file descriptor.                                 *)
(*                                                                         *)
(* A message carries, prepended, the descriptor of its connection as "uid" *)
(* (xserver.cpp:80); doSendResponse looks the descriptor up (127).  The    *)
(* descriptor is closed with the last reference to its xConnection, and    *)
(* the kernel hands it out again.                                          *)
(*                                                                         *)
(* One callback of the loop thread is one step.  msgQueue_ is the xChan    *)
(* of module XChan seen as Channel, functors of other threads reach the    *)
(* loop as Dispatcher says and are not lost here.                          *)
(***************************************************************************)
EXTENDS XSocket, Sequences, FiniteSets

CONSTANTS Fds,              \* descriptors accept can return
          Handlers,         \* handler threads
          ConnectedThrows,  \* whether a handler's Connected may throw
          MaxConns,         \* bound: connections accepted in a behaviour
          MaxMsgs,          \* bound: messages received in a behaviour
          MaxCloses         \* bound: closes on their way to the loop at a time

ASSUME FdsAssumption == IsFiniteSet(Fds) /\ 0 \notin Fds
ASSUME ThrowsAssumption == ConnectedThrows \in BOOLEAN
ASSUME BoundsAssumption == {MaxConns, MaxMsgs, MaxCloses} \subseteq Nat

Conns == 1..MaxConns        \* connections, in the order of their accept

VARIABLES
    listening,      \* the listener: "no" before doListen, "yes", "error" once it is removed
    handler,        \* per handler: "none", "constructed", "registered"
    groupless,      \* handlers that looked for their group before it was set
    started,        \* the main thread is in xLoop::start and has become the loop thread
    fired_,         \* events of this turn: the descriptor, and its connection then
    inCallback,     \* the last event of this turn ran user code, other events wait
    accepted,       \* number of connections accepted
    connStatus_,    \* per connection
    fd,             \* per connection: sock_'s descriptor
    connections_,   \* per descriptor: the server's connection, 0 if none
    register_,      \* per descriptor: the connection the loop calls, 0 if none
    open,           \* the kernel: descriptors open ...
    watched,        \* ... and in the epoll set
    held,           \* connections user code or a timer keeps an xConnectionPtr of
    msgQueue_,      \* messages for the handlers
    reading,        \* handlers inside readMsg
    dispatching,    \* per handler: the message it works on, or none
    isTerminate_,   \* per handler
    tasks,          \* functors on their way to the loop thread
    received,       \* number of messages received
    delivered,      \* history: answers written: to whom, and who had asked
    misled,         \* history: connections closed by an event: which, and whose event it was
    threw,          \* history: connections whose Connected threw
    ended           \* how the program ended: "abort", "exit", "undefined"; or "no"

startVars   == <<listening, handler, groupless, started>>
loopVars    == <<fired_, inCallback>>
connVars    == <<accepted, connStatus_, fd, connections_, register_>>
kernelVars  == <<open, watched>>
handlerVars == <<msgQueue_, reading, dispatching, isTerminate_, received>>
histories   == <<delivered, misled, threw>>

vars == <<startVars, loopVars, connVars, kernelVars, held, handlerVars, tasks, histories, ended>>

NoMsg    == [uid |-> 0, from |-> 0]
Listener == 0       \* where a descriptor or a connection is named

Init ==
    /\ listening = "no" /\ started = FALSE /\ groupless = {}
    /\ handler = [h \in Handlers |-> "none"]
    /\ fired_ = {} /\ inCallback = FALSE
    /\ accepted = 0
    /\ connStatus_ = [k \in Conns |-> "none"]
    /\ fd = [k \in Conns |-> 0]
    /\ connections_ = [f \in Fds |-> 0]
    /\ register_ = [f \in Fds |-> 0]
    /\ open = {} /\ watched = {} /\ held = {}
    /\ msgQueue_ = <<>> /\ reading = {}
    /\ dispatching = [h \in Handlers |-> NoMsg]
    /\ isTerminate_ = [h \in Handlers |-> FALSE]
    /\ tasks = <<>>
    /\ received = 0 /\ delivered = {} /\ misled = {} /\ threw = {}
    /\ ended = "no"

\* getActiveHandleCount
active == {h \in Handlers : handler[h] = "registered" /\ ~isTerminate_[h]}

-----------------------------------------------------------------------------
(* The main thread, before it runs the loop (listener.cpp:9-29,            *)
(* handler_group.h:57-63, handler.h:19-22)                                 *)

\* A call that fails ends the program: selfKill.  The functor that registers
\* the listener runs at once.
doListen ==
    /\ listening = "no"
    /\ \E fails \in ListenCalls :
          IF listenThrows(fails) THEN ended' = "exit" /\ UNCHANGED listening
                                 ELSE listening' = "yes" /\ UNCHANGED ended
    /\ UNCHANGED <<handler, groupless, started, loopVars, connVars, kernelVars, held, handlerVars, tasks, histories>>

\* registerHandler: new T, whose base class starts the thread ...
construct(h) ==
    /\ listening # "no" /\ ~started
    /\ \A g \in Handlers : handler[g] # "constructed"
    /\ handler[h] = "none"
    /\ handler' = [handler EXCEPT ![h] = "constructed"]
    /\ UNCHANGED <<listening, groupless, started, loopVars, connVars, kernelVars, held, handlerVars, tasks,
                   histories, ended>>

\* ... then setHandlerGroup and push_back.
register(h) ==
    /\ handler[h] = "constructed"
    /\ handler' = [handler EXCEPT ![h] = "registered"]
    /\ UNCHANGED <<listening, groupless, started, loopVars, connVars, kernelVars, held, handlerVars, tasks,
                   histories, ended>>

start ==
    /\ listening # "no" /\ ~started
    /\ \A h \in Handlers : handler[h] # "constructed"
    /\ started' = TRUE
    /\ UNCHANGED <<listening, handler, groupless, loopVars, connVars, kernelVars, held, handlerVars, tasks,
                   histories, ended>>

-----------------------------------------------------------------------------
(* References to a connection; the last one to go closes its descriptor.   *)

Referenced(k) ==
    \/ k \in held
    \/ \E f \in Fds : k \in {connections_[f], register_[f]}
    \/ \E n \in 1..Len(tasks) : tasks[n].kind = "close" /\ tasks[n].conn = k

\* Whether the step drops the last reference to k; to be used once the step
\* has said all else.
closeIfUnreferenced(k) ==
    open' = IF Referenced(k) /\ ~Referenced(k)' THEN open \ {fd[k]} ELSE open

-----------------------------------------------------------------------------
(* epoll_ctl on a descriptor; Modify and Delete assert that epoll knows it *)
(* (epoller.cpp:38-104)                                                    *)

ctrlAsserts(f) == f \notin watched

Add(f)    == watched' = watched \cup {f}
Delete(f) == watched' = watched \ {f}

-----------------------------------------------------------------------------
(* One turn of the loop (xloop.cpp:30-43): events are fetched together and *)
(* handled one by one, by whoever register_ has for the descriptor then.   *)
(* What the event says (readable, error, hang-up) is chosen at that point. *)

fetchable ==
    {[fd |-> f, for |-> register_[f]] : f \in watched} \cup
    {[fd |-> Listener, for |-> Listener] : l \in {listening} \cap {"yes"}}

\* Level-triggered: an event left out comes with the next turn.
poll ==
    /\ started /\ fired_ = {}
    /\ fired_' \in (SUBSET fetchable) \ {{}}
    /\ UNCHANGED <<startVars, inCallback, connVars, kernelVars, held, handlerVars, tasks, histories, ended>>

owner(e) == register_[e.fd]

\* e is handled; its callback ran user code or not.
handled(e, userCode) ==
    /\ e \in fired_
    /\ fired_' = fired_ \ {e}
    /\ inCallback' = (userCode /\ fired_' # {})

\* Nobody is registered any more; or nothing to read yet, or no whole message.
ignore(e) ==
    /\ e.fd # Listener
    /\ handled(e, owner(e) # 0)
    /\ UNCHANGED <<startVars, connVars, kernelVars, held, handlerVars, tasks, histories, ended>>

-----------------------------------------------------------------------------
(* The listener's events (listener.cpp:32-68, xserver.cpp:45-59)           *)

toAccept == [fd |-> Listener, for |-> Listener]

\* An error or a hang-up: nothing is accepted from now on.
listenerError(e) ==
    /\ e.fd = Listener
    /\ handled(e, FALSE)
    /\ listening' = "error"
    /\ UNCHANGED <<handler, groupless, started, connVars, kernelVars, held, handlerVars, tasks, histories, ended>>

\* accept fails; or the connection's constructor throws, and handleAccept
\* closes the descriptor that was closed with its xSocket.
acceptNothing(f) ==
    /\ f \notin open
    /\ handled(toAccept, FALSE)
    /\ \E fails \in AcceptCalls :
          failed(tcpAccept(open, f, fails)) /\ open' = tcpAccept(open, f, fails).open
    /\ UNCHANGED <<startVars, connVars, watched, held, handlerVars, tasks, histories, ended>>

\* The first handler that runs is told, and may keep the pointer.
handleConnected(k) == held' \in (IF active = {} THEN {held} ELSE {held, held \cup {k}})

\* The connection is entered in connections_ and register_ and its descriptor
\* in epoll; then a handler's Connected runs.  If it throws, the exception
\* unwinds to handleAccept, which closes the descriptor and leaves the rest.
accept(f) ==
    /\ accepted < MaxConns
    /\ f \notin open
    /\ register_[f] = 0
    /\ handled(toAccept, active # {})
    /\ LET k == accepted + 1
       IN  /\ accepted' = k
           /\ fd' = [fd EXCEPT ![k] = f]
           /\ connStatus_' = [connStatus_ EXCEPT ![k] = "connected"]
           /\ connections_' = [connections_ EXCEPT ![f] = k]
           /\ register_' = [register_ EXCEPT ![f] = k]
           /\ handleConnected(k)
           /\ \/ /\ open' = tcpAccept(open, f, "none").open /\ Add(f)
                 /\ UNCHANGED threw
              \/ /\ ConnectedThrows /\ active # {}
                 /\ threw' = threw \cup {k}
                 /\ UNCHANGED kernelVars
    /\ UNCHANGED <<startVars, handlerVars, tasks, delivered, misled, ended>>

\* xLoop::reg finds an entry for the descriptor and asks epoll to modify what
\* it does not know: assert(rc == 0), epoller.cpp:51.
acceptOnStale(f) ==
    /\ accepted < MaxConns
    /\ f \notin open
    /\ register_[f] # 0 /\ ctrlAsserts(f)
    /\ handled(toAccept, FALSE)
    /\ ended' = "abort"
    /\ UNCHANGED <<startVars, connVars, kernelVars, held, handlerVars, tasks, histories>>

-----------------------------------------------------------------------------
(* Receiving and closing, on the loop thread                               *)

addMsg(msg) == msgQueue_' = Append(msgQueue_, msg)

\* readMsg, parseProtocol, messageComing: queued if a handler runs, else dropped.
messageComing(e) ==
    /\ e.fd # Listener /\ owner(e) # 0
    /\ received < MaxMsgs
    /\ handled(e, TRUE)
    /\ received' = received + 1
    /\ IF active = {} THEN UNCHANGED msgQueue_ ELSE addMsg([uid |-> e.fd, from |-> owner(e)])
    /\ UNCHANGED <<startVars, connVars, kernelVars, held, reading, dispatching, isTerminate_, tasks,
                   histories, ended>>

\* xLoop::remove
remove(f) ==
    /\ register_' = [register_ EXCEPT ![f] = 0]
    /\ Delete(f)

\* Mutant: the connection stays in connections_.
eraseNothing(k) == UNCHANGED connections_

\* doCloseConnection
erase(k) == connections_' = [connections_ EXCEPT ![fd[k]] = 0]

\* Mutant: a connection that is closed already is closed again.
closeTwice(k) ==
    \/ /\ ctrlAsserts(fd[k]) \/ connections_[fd[k]] = 0
       /\ ended' = "abort"
       /\ UNCHANGED <<connStatus_, register_, connections_, watched>>
    \/ /\ ~ctrlAsserts(fd[k]) /\ connections_[fd[k]] # 0
       /\ connStatus_' = [connStatus_ EXCEPT ![k] = "disconnected"]
       /\ remove(fd[k]) /\ erase(k)
       /\ UNCHANGED ended

\* closeConn, connectionClosed, doCloseConnection, setClosed: in one go on the
\* loop thread, once per connection.  The descriptor must be in epoll
\* (epoller.cpp:51) and the entry in connections_ (xserver.cpp:105).
closeConn(k) ==
    \/ /\ connStatus_[k] = "disconnected"
       /\ UNCHANGED <<connStatus_, register_, connections_, watched, ended>>
    \/ /\ connStatus_[k] = "connected"
       /\ ctrlAsserts(fd[k]) \/ connections_[fd[k]] = 0
       /\ ended' = "abort"
       /\ UNCHANGED <<connStatus_, register_, connections_, watched>>
    \/ /\ connStatus_[k] = "connected"
       /\ ~ctrlAsserts(fd[k]) /\ connections_[fd[k]] # 0
       /\ connStatus_' = [connStatus_ EXCEPT ![k] = "disconnected"]
       /\ remove(fd[k]) /\ erase(k)
       /\ UNCHANGED ended

\* End of file or an error on reading; an error or a hang-up reported for the
\* descriptor, whoever had it when the events were fetched.
closeOnEvent(e) ==
    /\ e.fd # Listener /\ owner(e) # 0
    /\ handled(e, TRUE)
    /\ UNCHANGED <<startVars, accepted, fd, held, handlerVars, tasks, delivered, threw>>
    /\ \E k \in {owner(e)} :
          /\ closeConn(k)
          /\ misled' = IF k = e.for THEN misled ELSE misled \cup {[to |-> k, for |-> e.for]}
          /\ closeIfUnreferenced(k)

\* A callback on the loop thread, or closeConnectionAfter's timer, closes what it holds.
closeInLoop(k) ==
    /\ k \in held
    /\ fired_ = {} \/ inCallback
    /\ closeConn(k)
    /\ UNCHANGED <<startVars, loopVars, accepted, fd, held, handlerVars, tasks, histories>>
    /\ closeIfUnreferenced(k)

-----------------------------------------------------------------------------
(* User code that holds a connection, in any thread                        *)

\* closeConnection in another thread: looks at the status, then hands closeConn to the loop.
closeConnection(k) ==
    /\ k \in held
    /\ connStatus_[k] = "connected"
    /\ Cardinality({n \in 1..Len(tasks) : tasks[n].kind = "close"}) < MaxCloses
    /\ tasks' = Append(tasks, [kind |-> "close", conn |-> k, uid |-> 0, from |-> 0])
    /\ UNCHANGED <<startVars, loopVars, connVars, kernelVars, held, handlerVars, histories, ended>>

release(k) ==
    /\ k \in held
    /\ held' = held \ {k}
    /\ UNCHANGED <<startVars, loopVars, connVars, watched, handlerVars, tasks, histories, ended>>
    /\ closeIfUnreferenced(k)

-----------------------------------------------------------------------------
(* Handler threads (handler.cpp:8-39)                                      *)

\* A thread that is ahead of setHandlerGroup gets no group from lock() ...
findNoGroup(h) ==
    /\ handler[h] = "constructed"
    /\ h \notin groupless
    /\ groupless' = groupless \cup {h}
    /\ UNCHANGED <<listening, handler, started, loopVars, connVars, kernelVars, held, handlerVars, tasks,
                   histories, ended>>

\* ... calls stop(), whenever it goes on, the loop may run by then ...
stopGroupless(h) ==
    /\ h \in groupless /\ ~isTerminate_[h]
    /\ isTerminate_' = [isTerminate_ EXCEPT ![h] = TRUE]
    /\ UNCHANGED <<startVars, loopVars, connVars, kernelVars, held, msgQueue_, reading, dispatching, received,
                   tasks, histories, ended>>

\* ... and readMsg on the null pointer all the same (handler.cpp:11-16).
readNoGroup(h) ==
    /\ h \in groupless /\ isTerminate_[h]
    /\ ended' = "undefined"
    /\ UNCHANGED <<startVars, loopVars, connVars, kernelVars, held, handlerVars, tasks, histories>>

\* while(!isTerminate_), and into readMsg
enterRead(h) ==
    /\ handler[h] = "registered" /\ h \notin groupless /\ ~isTerminate_[h]
    /\ h \notin reading /\ dispatching[h] = NoMsg
    /\ reading' = reading \cup {h}
    /\ UNCHANGED <<startVars, loopVars, connVars, kernelVars, held, msgQueue_, dispatching, isTerminate_,
                   received, tasks, histories, ended>>

\* Mutant: the count of the messages is off by one.
takeIfMore(h) ==
    /\ h \in reading
    /\ Len(msgQueue_) > 1
    /\ dispatching' = [dispatching EXCEPT ![h] = Head(msgQueue_)]
    /\ msgQueue_' = Tail(msgQueue_)
    /\ reading' = reading \ {h}
    /\ UNCHANGED <<startVars, loopVars, connVars, kernelVars, held, isTerminate_, received, tasks, histories, ended>>

\* readMsg returns a message, and dispatch begins.  The handler may have been
\* stopped since it entered.
take(h) ==
    /\ h \in reading
    /\ msgQueue_ # <<>>
    /\ dispatching' = [dispatching EXCEPT ![h] = Head(msgQueue_)]
    /\ msgQueue_' = Tail(msgQueue_)
    /\ reading' = reading \ {h}
    /\ UNCHANGED <<startVars, loopVars, connVars, kernelVars, held, isTerminate_, received, tasks, histories, ended>>

\* pop_front waits 0 ms: on an empty queue readMsg returns at once, and the
\* handler polls.
takeNothing(h) ==
    /\ h \in reading
    /\ msgQueue_ = <<>>
    /\ reading' = reading \ {h}
    /\ UNCHANGED <<startVars, loopVars, connVars, kernelVars, held, msgQueue_, dispatching, isTerminate_,
                   received, tasks, histories, ended>>

\* xHandlerGroup's, and xServer's: a functor with the descriptor and the bytes.
sendResponse(uid, from) ==
    tasks' = Append(tasks, [kind |-> "resp", conn |-> 0, uid |-> uid, from |-> from])

\* Mutant: the answer goes to the descriptor last accepted.
respondToLast(h) ==
    /\ dispatching[h] # NoMsg
    /\ dispatching' = [dispatching EXCEPT ![h] = NoMsg]
    /\ sendResponse(fd[accepted], dispatching[h].from)
    /\ UNCHANGED <<startVars, loopVars, connVars, kernelVars, held, msgQueue_, reading, isTerminate_, received,
                   histories, ended>>

\* dispatch ends, with sendResponse or without an answer.
respond(h) ==
    /\ dispatching[h] # NoMsg
    /\ dispatching' = [dispatching EXCEPT ![h] = NoMsg]
    /\ \/ sendResponse(dispatching[h].uid, dispatching[h].from)
       \/ UNCHANGED tasks
    /\ UNCHANGED <<startVars, loopVars, connVars, kernelVars, held, msgQueue_, reading, isTerminate_, received,
                   histories, ended>>

stop(h) ==
    /\ h \in active
    /\ isTerminate_' = [isTerminate_ EXCEPT ![h] = TRUE]
    /\ UNCHANGED <<startVars, loopVars, connVars, kernelVars, held, msgQueue_, reading, dispatching, received,
                   tasks, histories, ended>>

-----------------------------------------------------------------------------
(* Functors on the loop thread                                             *)

\* Mutant: the lookup is taken to succeed.
sendUnfound ==
    /\ fired_ = {}
    /\ tasks # <<>> /\ Head(tasks).kind = "resp"
    /\ tasks' = Tail(tasks)
    /\ delivered' = delivered \cup {[to |-> connections_[Head(tasks).uid],
                                    for |-> Head(tasks).from]}
    /\ UNCHANGED <<startVars, loopVars, connVars, kernelVars, held, handlerVars, misled, threw, ended>>

\* doSendResponse, and xConnection::sendMsg's check of the status.
doSendResponse ==
    /\ fired_ = {}
    /\ tasks # <<>> /\ Head(tasks).kind = "resp"
    /\ tasks' = Tail(tasks)
    /\ LET k == connections_[Head(tasks).uid]
       IN  delivered' = IF k # 0 /\ connStatus_[k] = "connected"
                        THEN delivered \cup {[to |-> k, for |-> Head(tasks).from]}
                        ELSE delivered
    /\ UNCHANGED <<startVars, loopVars, connVars, kernelVars, held, handlerVars, misled, threw, ended>>

doClose ==
    /\ fired_ = {}
    /\ tasks # <<>> /\ Head(tasks).kind = "close"
    /\ tasks' = Tail(tasks)
    /\ UNCHANGED <<startVars, loopVars, accepted, fd, held, handlerVars, histories>>
    /\ \E k \in {Head(tasks).conn} : closeConn(k) /\ closeIfUnreferenced(k)

mainStep       == doListen \/ start \/ \E h \in Handlers : construct(h) \/ register(h)
eventStep(e)   == ignore(e) \/ listenerError(e) \/ messageComing(e) \/ closeOnEvent(e)
acceptStep(f)  == acceptNothing(f) \/ accept(f) \/ acceptOnStale(f)
handlerStep(h) ==
    \/ findNoGroup(h) \/ stopGroupless(h) \/ readNoGroup(h)
    \/ enterRead(h) \/ take(h) \/ takeNothing(h) \/ respond(h)
functorStep    == doSendResponse \/ doClose

Next ==
    /\ ended = "no"
    /\ \/ mainStep \/ poll
       \/ \E e \in fired_ : eventStep(e)
       \/ \E f \in Fds : acceptStep(f)
       \/ \E k \in 1..accepted : closeInLoop(k) \/ closeConnection(k) \/ release(k)
       \/ \E h \in Handlers : handlerStep(h) \/ stop(h)
       \/ functorStep

Spec == Init /\ [][Next]_vars

\* Handler threads poll the queue for ever; the loop runs what it is handed.
Fairness ==
    /\ \A h \in Handlers : WF_vars(ended = "no" /\ handlerStep(h))
    /\ WF_vars(ended = "no" /\ functorStep)

FairSpec == Spec /\ Fairness
=============================================================================
