------------------------------ MODULE XClient -------------------------------
(***************************************************************************)
(* xClient and its xConnector (net/xclient.cpp, connector.cpp): start()    *)
(* begins a chain of connection attempts on the loop thread, each failed   *)
(* one after the other 500 ms later; a successful one makes the            *)
(* xConnection that connectionPtr_ points to; stop(), on any thread,       *)
(* closes what connectionPtr_ points to.  lock_ guards connectionPtr_ and  *)
(* checks for errors: a thread that takes it twice gets an exception.      *)
(*                                                                         *)
(* The loop thread gives way to others only where it waits for lock_ and   *)
(* between connectionPtr_ = connPtr and makeConnected.  Functors reach the *)
(* loop as Dispatcher says and are not lost here.  An attempt stands for   *)
(* its descriptor: an entry of register_ never outlives the descriptor     *)
(* (ConnectionsOwned), so a descriptor used again cannot meet an old one.  *)
(* The client outlives its connections.                                    *)
(***************************************************************************)
EXTENDS XSocket, Sequences, FiniteSets

CONSTANTS Callers,          \* threads other than the loop's that use the client
          ReConnMaxTimeMs, ReConnntervalMs,
          MaxStarts,        \* bound: calls of start() in a behaviour
          MaxTasks          \* bound: functors on their way when stop() is called

ASSUME TimesAssumption == /\ ReConnMaxTimeMs \in Nat /\ ReConnntervalMs \in Nat \ {0}
                          /\ ReConnMaxTimeMs % ReConnntervalMs = 0
                          /\ ReConnMaxTimeMs > 0
ASSUME CallersAssumption == "free" \notin Callers
ASSUME BoundsAssumption == MaxStarts \in Nat /\ MaxTasks \in Nat

Retries  == ReConnMaxTimeMs \div ReConnntervalMs
Attempts == 1..(2 * MaxStarts + Retries)    \* more than there can be: RetriesBounded

VARIABLES
    status_, reConnMs_,     \* xConnector
    connectionPtr_, lock_,  \* xClient: 0 is null; the thread that holds lock_, or "free"
    connStatus_,            \* per attempt: the status of its xConnection, "none" without one
    register_,              \* per attempt: whose callback the loop has for its descriptor
    open,                   \* descriptors open
    held,                   \* connections user code keeps an xConnectionPtr of
    retries,                \* timers that will call onReConnect
    tasks,                  \* functors on their way to the loop thread
    loop,                   \* where the loop thread is, and with which connection
    pc,                     \* per caller: where it is in stop()
    tries,                  \* attempts begun
    starts, failures,       \* history: calls of start(), errors told to the user
    asked,                  \* history: connections stop() handed to the loop for closing
    stuck,                  \* history: connections closed by stop() on the loop thread
    overlap                 \* history: connections made while another was connected, and those

vars == <<status_, reConnMs_, connectionPtr_, lock_, connStatus_, register_, open, held, retries,
          tasks, loop, pc, tries, starts, failures, asked, stuck, overlap>>

histories == <<asked, stuck, overlap>>
connector == <<status_, reConnMs_, retries, tries, starts, failures>>
client    == <<connectionPtr_, lock_, connStatus_, held, pc, histories>>

Idle == [at |-> "idle", conn |-> 0]

Init ==
    /\ status_ = "unknown" /\ reConnMs_ = 0
    /\ connectionPtr_ = 0 /\ lock_ = "free"
    /\ connStatus_ = [k \in Attempts |-> "none"]
    /\ register_ = [k \in Attempts |-> "none"]
    /\ open = {} /\ held = {}
    /\ retries = 0 /\ tasks = <<>>
    /\ loop = Idle /\ pc = [c \in Callers |-> "idle"]
    /\ tries = 0 /\ starts = 0 /\ failures = 0
    /\ asked = {} /\ stuck = {} /\ overlap = {}

-----------------------------------------------------------------------------
(* lock_, an xMutex, by thread t (mutex.cpp:43-65)                         *)

lock(t)   == lock_ = "free" /\ lock_' = t
unlock(t) == lock_ = t /\ lock_' = "free"

\* An xMutexLockGuard that comes and goes within the step.
guarded == lock_ = "free" /\ UNCHANGED lock_

-----------------------------------------------------------------------------
(* References to a connection; the last one to go closes its descriptor.   *)

Referenced(k) ==
    \/ k \in held \cup {connectionPtr_, loop.conn}
    \/ register_[k] = "connection"
    \/ \E n \in 1..Len(tasks) : tasks[n] = [kind |-> "close", conn |-> k]

\* To be used once the step has said all else.
closeUnreferenced == open' = open \ {k \in Attempts : Referenced(k) /\ ~Referenced(k)'}

-----------------------------------------------------------------------------
(* Connecting, on the loop thread (connector.cpp)                          *)

beforeConnect ==
    /\ tries + 1 \in Attempts
    /\ tries' = tries + 1
    /\ \E R \in connectNonblock(open, tries + 1) :
          /\ open' = R.open
          /\ \/ /\ failed(R)
                /\ status_' = "unknown" /\ failures' = failures + 1
                /\ UNCHANGED register_
             \/ /\ ~failed(R)
                /\ status_' = "connecting"
                /\ register_' = [register_ EXCEPT ![R.fd] = "connector"]
                /\ UNCHANGED failures

\* start() by user code on the loop thread ...
startInLoop ==
    /\ loop = Idle
    /\ starts < MaxStarts
    /\ starts' = starts + 1
    /\ beforeConnect
    /\ UNCHANGED <<reConnMs_, client, retries, tasks, loop>>

\* ... and by another thread: a functor, with which the attempt begins.
start ==
    /\ starts < MaxStarts
    /\ starts' = starts + 1
    /\ tasks' = Append(tasks, [kind |-> "connect", conn |-> 0])
    /\ UNCHANGED <<status_, reConnMs_, client, register_, open, retries, loop, tries, failures>>

doConnect ==
    /\ loop = Idle
    /\ tasks # <<>> /\ Head(tasks).kind = "connect"
    /\ tasks' = Tail(tasks)
    /\ beforeConnect
    /\ UNCHANGED <<reConnMs_, client, retries, loop, starts>>

\* Mutant: the time spent is not added up.
onReConnectUncounted ==
    /\ loop = Idle
    /\ retries > 0
    /\ retries' = retries - 1
    /\ beforeConnect
    /\ UNCHANGED <<reConnMs_, client, tasks, loop, starts>>

\* The timer of a retry.
onReConnect ==
    /\ loop = Idle
    /\ retries > 0
    /\ retries' = retries - 1
    /\ reConnMs_' = reConnMs_ + ReConnntervalMs
    /\ beforeConnect
    /\ UNCHANGED <<client, tasks, loop, starts>>

\* Mutant: at the last failure the user is not told.
connectOnErrorUntold(k) ==
    /\ status_' = "disconnected"
    /\ register_' = [register_ EXCEPT ![k] = "none"]
    /\ open' = open \ {k}
    /\ retries' = IF reConnMs_ < ReConnMaxTimeMs THEN retries + 1 ELSE retries
    /\ UNCHANGED <<failures, connStatus_, loop, overlap>>

\* The next attempt comes after the interval, or the user is told.
connectOnError(k) ==
    /\ status_' = "disconnected"
    /\ register_' = [register_ EXCEPT ![k] = "none"]
    /\ open' = open \ {k}
    /\ \/ /\ reConnMs_ < ReConnMaxTimeMs
          /\ retries' = retries + 1 /\ UNCHANGED failures
       \/ /\ reConnMs_ >= ReConnMaxTimeMs
          /\ failures' = failures + 1 /\ UNCHANGED retries
    /\ UNCHANGED <<connStatus_, loop, overlap>>

\* The xConnection is built; assign follows.
connectOnSucc(k) ==
    /\ status_' = "connected"
    /\ connStatus_' = [connStatus_ EXCEPT ![k] = "connecting"]
    /\ loop' = [at |-> "assign", conn |-> k]
    /\ LET others == {j \in Attempts : connStatus_[j] = "connected"}
       IN  overlap' = IF others = {} THEN overlap ELSE overlap \cup others \cup {k}
    /\ UNCHANGED <<register_, open, retries, failures>>

\* The event of an attempt: an error or a hang-up, or a writable socket, on which
\* an error may be pending.  status_ belongs to all attempts: when another one has
\* just failed, success counts as an error.
onEventHandle(k) ==
    /\ loop = Idle
    /\ register_[k] = "connector"
    /\ \E hup \in BOOLEAN, rc \in getSocketError :
          IF hup \/ status_ = "disconnected" \/ rc # 0 THEN connectOnError(k)
                                                     ELSE connectOnSucc(k)
    /\ UNCHANGED <<reConnMs_, connectionPtr_, lock_, held, tasks, pc, tries, starts, asked, stuck>>

-----------------------------------------------------------------------------
(* connectedToServer (xclient.cpp:53-71), makeConnected (connection.h)      *)

\* Mutant: a pointer that is set is left alone.
assignIfNull ==
    /\ loop.at = "assign" /\ guarded
    /\ connectionPtr_' = IF connectionPtr_ = 0 THEN loop.conn ELSE connectionPtr_
    /\ loop' = [loop EXCEPT !.at = "make"]
    /\ UNCHANGED <<connector, connStatus_, register_, held, tasks, pc, histories>>
    /\ closeUnreferenced

\* The connection connectionPtr_ pointed to is let go.
assign ==
    /\ loop.at = "assign" /\ guarded
    /\ connectionPtr_' = loop.conn
    /\ loop' = [loop EXCEPT !.at = "make"]
    /\ UNCHANGED <<connector, connStatus_, register_, held, tasks, pc, histories>>
    /\ closeUnreferenced

\* The user is told, and may keep the pointer.
connectionFinished(k) == held' \in {held, held \cup {k}}

\* reg replaces the connector's callback.
makeConnected ==
    /\ loop.at = "make"
    /\ loop' = Idle
    /\ \E k \in {loop.conn} :
          /\ connStatus_' = [connStatus_ EXCEPT ![k] = "connected"]
          /\ register_' = [register_ EXCEPT ![k] = "connection"]
          /\ connectionFinished(k)
    /\ UNCHANGED <<connector, connectionPtr_, lock_, open, tasks, pc, histories>>

-----------------------------------------------------------------------------
(* The end of a connection (connection.cpp:87-107, xclient.cpp:107-122)    *)

\* closeConn, up to where doCloseConnection takes lock_.
closeConn(k) ==
    \/ /\ connStatus_[k] = "disconnecting"
       /\ UNCHANGED <<connStatus_, register_, loop>>
    \/ /\ connStatus_[k] # "disconnecting"
       /\ connStatus_' = [connStatus_ EXCEPT ![k] = "disconnecting"]
       /\ register_' = [register_ EXCEPT ![k] = "none"]
       /\ loop' = [at |-> "drop", conn |-> k]

\* The peer, an error, or user code on the loop thread.
closeInLoop(k) ==
    /\ loop = Idle
    /\ connStatus_[k] = "connected"
    /\ closeConn(k)
    /\ UNCHANGED <<connector, connectionPtr_, lock_, open, held, tasks, pc, histories>>

\* The functor of stop().
doClose ==
    /\ loop = Idle
    /\ tasks # <<>> /\ Head(tasks).kind = "close"
    /\ tasks' = Tail(tasks)
    /\ closeConn(Head(tasks).conn)
    /\ UNCHANGED <<connector, connectionPtr_, lock_, held, pc, histories>>
    /\ closeUnreferenced

\* Mutant: connectionPtr_ keeps the connection.
doCloseKeeps ==
    /\ loop.at = "drop" /\ guarded
    /\ loop' = Idle
    /\ UNCHANGED <<connector, connectionPtr_, connStatus_, register_, held, tasks, pc, histories>>
    /\ closeUnreferenced

\* connectionPtr_ is reset, whichever connection it points to.  The user's close
\* callback is only installed, in a connection that will not close again.
doCloseConnection ==
    /\ loop.at = "drop" /\ guarded
    /\ connectionPtr_' = 0
    /\ loop' = Idle
    /\ UNCHANGED <<connector, connStatus_, register_, held, tasks, pc, histories>>
    /\ closeUnreferenced

release(k) ==
    /\ k \in held
    /\ held' = held \ {k}
    /\ UNCHANGED <<connector, connectionPtr_, lock_, connStatus_, register_, tasks, loop, pc, histories>>
    /\ closeUnreferenced

-----------------------------------------------------------------------------
(* stop() (xclient.cpp:39-45)                                              *)

\* What stop() closes: the connection connectionPtr_ points to, if it is connected.
current == {k \in {connectionPtr_} \cap Attempts : connStatus_[k] = "connected"}

\* On the loop thread lock_ is held when doCloseConnection takes it again: the
\* exception ends in closeConn's catch, and connectionPtr_ stays.
stopInLoop ==
    /\ loop = Idle /\ guarded
    /\ \E k \in current :
          /\ connStatus_' = [connStatus_ EXCEPT ![k] = "disconnecting"]
          /\ register_' = [register_ EXCEPT ![k] = "none"]
          /\ stuck' = stuck \cup {k}
    /\ UNCHANGED <<connector, connectionPtr_, open, held, tasks, loop, pc, asked, overlap>>

stopLock(c) ==
    /\ pc[c] = "idle" /\ lock(c)
    /\ Len(tasks) < MaxTasks
    /\ pc' = [pc EXCEPT ![c] = "look"]
    /\ UNCHANGED <<connector, connectionPtr_, connStatus_, register_, open, held, tasks, loop, histories>>

\* Mutant: connectionPtr_ is not tested.
lookUntested(c) ==
    /\ pc[c] = "look"
    /\ \/ /\ connectionPtr_ = 0 \/ current # {}
          /\ pc' = [pc EXCEPT ![c] = "push"] /\ UNCHANGED lock_
       \/ /\ connectionPtr_ # 0 /\ current = {}
          /\ pc' = [pc EXCEPT ![c] = "idle"] /\ unlock(c)
    /\ UNCHANGED <<connector, connectionPtr_, connStatus_, register_, open, held, tasks, loop, histories>>

\* Mutant: without a connection stop() returns and keeps the lock.
lookKeepsLock(c) ==
    /\ pc[c] = "look"
    /\ pc' = [pc EXCEPT ![c] = IF connectionPtr_ # 0 THEN "push" ELSE "idle"]
    /\ UNCHANGED <<connector, connectionPtr_, lock_, connStatus_, register_, open, held, tasks, loop,
                   histories>>

\* There is a connection, and closeConnection finds it connected; or not.
stopLook(c) ==
    /\ pc[c] = "look"
    /\ \/ /\ current # {}
          /\ pc' = [pc EXCEPT ![c] = "push"] /\ UNCHANGED lock_
       \/ /\ current = {}
          /\ pc' = [pc EXCEPT ![c] = "idle"] /\ unlock(c)
    /\ UNCHANGED <<connector, connectionPtr_, connStatus_, register_, open, held, tasks, loop, histories>>

stopPush(c) ==
    /\ pc[c] = "push"
    /\ tasks' = Append(tasks, [kind |-> "close", conn |-> connectionPtr_])
    /\ asked' = asked \cup {connectionPtr_}
    /\ pc' = [pc EXCEPT ![c] = "idle"] /\ unlock(c)
    /\ UNCHANGED <<connector, connectionPtr_, connStatus_, register_, open, held, loop, stuck, overlap>>

-----------------------------------------------------------------------------
connecting  == assign \/ makeConnected
functorStep == doConnect \/ doClose
stopStep(c) == stopLook(c) \/ stopPush(c)

Next ==
    \/ startInLoop \/ start \/ stopInLoop
    \/ connecting \/ functorStep \/ onReConnect \/ doCloseConnection
    \/ \E k \in Attempts : onEventHandle(k) \/ closeInLoop(k) \/ release(k)
    \/ \E c \in Callers : stopLock(c) \/ stopStep(c)

Spec == Init /\ [][Next]_vars

\* The loop turns and runs what it is handed; the kernel reports the outcome of
\* every attempt; a thread inside stop() goes on.  The loop gets lock_ though
\* others take it again and again: it is free between their calls.
Fairness ==
    /\ SF_vars(connecting) /\ SF_vars(doCloseConnection)
    /\ WF_vars(functorStep) /\ WF_vars(onReConnect)
    /\ \A k \in Attempts : WF_vars(onEventHandle(k))
    /\ \A c \in Callers : WF_vars(stopStep(c))

FairSpec == Spec /\ Fairness
=============================================================================
