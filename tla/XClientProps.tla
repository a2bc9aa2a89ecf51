---------------------------- MODULE XClientProps ----------------------------
(* What is asked of XClient.                                                *)
EXTENDS XClient

Tasks == [kind : {"connect"}, conn : {0}] \cup [kind : {"close"}, conn : Attempts]

\* The type of every variable, and lock_ as its holder sees it.
TypeOK ==
    /\ status_ \in {"unknown", "connecting", "connected", "disconnected"}
    /\ reConnMs_ \in Nat
    /\ connectionPtr_ \in Attempts \cup {0}
    /\ lock_ \in Callers \cup {"free"} /\ \A c \in Callers : lock_ = c <=> pc[c] # "idle"
    /\ connStatus_ \in [Attempts -> {"none", "connecting", "connected", "disconnecting"}]
    /\ register_ \in [Attempts -> {"none", "connector", "connection"}]
    /\ open \subseteq Attempts /\ held \subseteq Attempts
    /\ retries \in Nat
    /\ tasks \in Seq(Tasks)
    /\ loop \in [at : {"assign", "make", "drop"}, conn : Attempts] \cup {Idle}
    /\ pc \in [Callers -> {"idle", "look", "push"}]
    /\ tries \in Attempts \cup {0} /\ starts \in 0..MaxStarts /\ failures \in Nat
    /\ asked \subseteq Attempts /\ stuck \subseteq Attempts /\ overlap \subseteq Attempts

-----------------------------------------------------------------------------
(* What becomes of a start()                                                *)

Connecting == {k \in Attempts : register_[k] = "connector"}
Made       == {k \in Attempts : connStatus_[k] \in {"connected", "disconnecting"}}
Waiting    == {n \in 1..Len(tasks) : tasks[n].kind = "connect"}

\* However attempts fail, retry and overlap, each start() is one of: an error
\* told to the user, a connection told to the user, a chain still in progress.
OneOutcomePerStart ==
    starts = failures + Cardinality(Made) + Cardinality(Connecting) + Cardinality(Waiting) + retries

\* ReConnMaxTimeMs bounds the retries of all chains together, but for those
\* that were waiting when the time was up ("reach max times", connector.cpp:59).
RetriesBounded == tries > 0 => tries < 2 * starts + Retries

\* Every start() is answered.
EveryStartAnswered ==
    \A n \in 1..MaxStarts : (starts >= n) ~> (failures + Cardinality(Made) >= n)

-----------------------------------------------------------------------------
(* What becomes of a connection                                             *)

\* A descriptor is open exactly while an attempt or a reference to its
\* connection needs it: none leaks, none is closed under its owner.
\* connectionPtr_ keeps a connection that is closed only until that close is
\* done or when stop() on the loop thread closed it; and it points to the one
\* that is connected, so that stop() reaches it, unless two were at once.
ConnectionsOwned ==
    \A k \in Attempts :
        /\ k \in open <=> k \in Connecting \/ Referenced(k)
        /\ connectionPtr_ = k /\ connStatus_[k] = "disconnecting" =>
              k \in stuck \/ loop = [at |-> "drop", conn |-> k]
        /\ connStatus_[k] = "connected" => connectionPtr_ = k \/ k \in overlap

\* What stop() hands to the loop is closed, unless user code keeps it or stop()
\* on the loop thread came first.
StopCloses == \A k \in Attempts : (k \in asked) ~> (k \notin open \/ k \in held \/ k \in stuck)

-----------------------------------------------------------------------------
(* The invariant that the safety properties rest on                         *)

Live   == {"connected", "disconnecting"}
Queued == {tasks[n] : n \in 1..Len(tasks)}

\* The loop thread on its way through a connection that becomes connected, or
\* is closed.
LoopInv ==
    /\ loop.at \in {"assign", "make"} =>
          /\ register_[loop.conn] = "connector"
          /\ \A j \in Attempts : connStatus_[j] = "connected" => {j, loop.conn} \subseteq overlap
    /\ loop.at = "make" => connectionPtr_ = loop.conn
    /\ loop.at = "drop" =>
          /\ connStatus_[loop.conn] = "disconnecting"
          /\ \A j \in Attempts : connStatus_[j] = "connected" => j \in overlap

\* An attempt, its connection's status, the callback the loop has for it and
\* the references to it go together.
StatusInv ==
    /\ \A k \in Attempts :
          /\ connStatus_[k] = "connected" <=> register_[k] = "connection"
          /\ connStatus_[k] = "connecting" <=> loop.at \in {"assign", "make"} /\ loop.conn = k
          /\ register_[k] = "connector" => connStatus_[k] \in {"none", "connecting"}
          /\ k > tries => register_[k] = "none" /\ connStatus_[k] = "none"
          /\ Referenced(k) => connStatus_[k] # "none"
    /\ \A k \in held : connStatus_[k] \in Live
    /\ \A t \in Queued : t.kind = "close" => connStatus_[t.conn] \in Live
    /\ \A c \in Callers : pc[c] = "push" => connectionPtr_ # 0 /\ connStatus_[connectionPtr_] \in Live
    /\ \A j, k \in Attempts :
          j # k /\ connStatus_[j] = "connected" /\ connStatus_[k] = "connected" => j \in overlap

\* The attempts begun are the starts that do not wait any more and the retries,
\* r of them; and a retry is scheduled only while r has not reached its limit.
RetryInv ==
    \E r \in 0..reConnMs_ :
        /\ reConnMs_ = r * ReConnntervalMs
        /\ tries + Cardinality(Waiting) = starts + r
        /\ r + retries < Retries + starts

IInv == TypeOK /\ LoopInv /\ StatusInv /\ ConnectionsOwned /\ OneOutcomePerStart /\ RetryInv
=============================================================================
