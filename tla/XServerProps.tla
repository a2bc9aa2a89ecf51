----------------------------- MODULE XServerProps ----------------------------
(* What is asked of XServer, and the invariant it rests on.                 *)
EXTENDS XServer

Msgs  == [uid : Fds \cup {0}, from : Conns \cup {0}]
Tasks == [kind : {"close", "resp"}, conn : Conns \cup {0}, uid : Fds \cup {0}, from : Conns \cup {0}]

\* The type of every variable.
TypeOK ==
    /\ listening \in {"no", "yes", "error"} /\ started \in BOOLEAN
    /\ groupless \subseteq Handlers
    /\ handler \in [Handlers -> {"none", "constructed", "registered"}]
    /\ fired_ \subseteq [fd : Fds \cup {Listener}, for : Conns \cup {Listener}]
    /\ inCallback => fired_ # {}
    /\ accepted \in 0..MaxConns
    /\ connStatus_ \in [Conns -> {"none", "connected", "disconnected"}]
    /\ fd \in [Conns -> Fds \cup {0}]
    /\ connections_ \in [Fds -> Conns \cup {0}] /\ register_ \in [Fds -> Conns \cup {0}]
    /\ open \subseteq Fds /\ watched \subseteq Fds /\ held \subseteq Conns
    /\ msgQueue_ \in Seq(Msgs) /\ reading \subseteq Handlers
    /\ dispatching \in [Handlers -> Msgs]
    /\ isTerminate_ \in [Handlers -> BOOLEAN]
    /\ tasks \in Seq(Tasks)
    /\ received \in 0..MaxMsgs
    /\ delivered \subseteq [to : Conns, for : Conns] /\ misled \subseteq [to : Conns, for : Conns]
    /\ threw \subseteq Conns /\ ended \in {"no", "abort", "exit", "undefined"}

\* Unless a handler's Connected threw, the assertions hold: xserver.cpp:105
\* ("the connections only bind in loop") and epoller.cpp:51 (epoll knows every
\* descriptor the loop modifies or deletes).
AssertionsHold == ended = "abort" => threw # {}

\* connections_ has exactly the connected connections, under their descriptor,
\* and what doCloseConnection or the loop have forgotten stays forgotten.  An
\* open descriptor belongs to one referenced connection, and a referenced
\* connection has its own open, but where Connected threw: no accept overwrites
\* an entry, nothing is closed twice or leaked.
TablesAgree ==
    /\ \A k \in Conns, f \in Fds :
          connections_[f] = k <=> connStatus_[k] = "connected" /\ fd[k] = f
    /\ \A k \in Conns \ threw : Referenced(k) => fd[k] \in open
    /\ \A f \in open : Cardinality({k \in Conns : Referenced(k) /\ fd[k] = f}) = 1

\* An answer goes to the connection that asked ("no connection to send, drop
\* it", xserver.cpp:129, is what happens to the others).
AnswerReachesAsker == \A d \in delivered : d.to = d.for

\* Where it does not, and where an error or a hang-up closes a connection it was
\* not fetched for, the one it was meant for was closed first and the other got
\* its descriptor after it: two open connections never meet each other's
\* answers and events.
StrayOnlyAfterClose ==
    \A d \in delivered \cup misled :
        d.to # d.for => /\ connStatus_[d.for] = "disconnected"
                        /\ fd[d.to] = fd[d.for]
                        /\ d.for < d.to

-----------------------------------------------------------------------------
\* The connections accepted so far have a descriptor each, and both tables list
\* those that are connected.  Of two with one descriptor the earlier is closed.
TablesInv ==
    /\ \A k \in Conns :
          /\ connStatus_[k] = "none" <=> k > accepted
          /\ fd[k] = 0 <=> k > accepted
          /\ connStatus_[k] = "connected" => connections_[fd[k]] = k
    /\ \A f \in Fds : connections_[f] # 0 =>
          /\ connStatus_[connections_[f]] = "connected"
          /\ fd[connections_[f]] = f
    /\ register_ = connections_
    /\ \A j, k \in Conns : j < k /\ k <= accepted /\ fd[j] = fd[k] => connStatus_[j] = "disconnected"

\* epoll has the descriptors of the connected connections, but where Connected
\* threw: those stay as they are.
KernelInv ==
    /\ watched \subseteq open
    /\ \A f \in watched : connections_[f] # 0
    /\ \A k \in Conns :
          connStatus_[k] = "connected" => (fd[k] \in watched <=> k \notin threw)
    /\ \A k \in threw : connStatus_[k] = "connected" /\ fd[k] \notin open

\* An open descriptor and the references to its connection go together.
OwnInv ==
    /\ \A k \in Conns : Referenced(k) => k <= accepted
    /\ \A k \in Conns \ threw : Referenced(k) => fd[k] \in open
    /\ \A f \in open : \E k \in Conns : Referenced(k) /\ fd[k] = f
    /\ \A j, k \in Conns : Referenced(j) /\ Referenced(k) /\ fd[j] = fd[k] => j = k

\* x names connection k by its descriptor.
Names(f, k) == k \in Conns /\ k <= accepted /\ fd[k] = f

\* Messages, answers and events carry the descriptor of whom they are about.
RoutesInv ==
    /\ \A n \in 1..Len(msgQueue_) : Names(msgQueue_[n].uid, msgQueue_[n].from)
    /\ \A h \in Handlers : dispatching[h] # NoMsg => Names(dispatching[h].uid, dispatching[h].from)
    /\ \A n \in 1..Len(tasks) :
          IF tasks[n].kind = "resp" THEN Names(tasks[n].uid, tasks[n].from)
                                    ELSE tasks[n].conn \in Conns
    /\ \A e \in fired_ : e.fd # Listener => Names(e.fd, e.for)
    /\ \A d \in delivered \cup misled : {d.to, d.for} \subseteq 1..accepted

IInv == TypeOK /\ AssertionsHold /\ TablesInv /\ KernelInv /\ OwnInv /\ RoutesInv /\ StrayOnlyAfterClose
=============================================================================
