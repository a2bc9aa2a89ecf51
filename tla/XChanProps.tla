----------------------------- MODULE XChanProps -----------------------------
(* What is asked of XChan: safety, and the abstract Channel it implements.  *)
EXTENDS XChan

\* The type of every variable.
TypeOK ==
    /\ queue_ \in Seq(Items) /\ size_ \in Int
    /\ calls \in 0..MaxPushes
    /\ item \in [Producers -> Items \cup {0}]
    /\ cpc \in [Consumers -> {"idle", "waiting", "woken"}]
    /\ mode \in [Consumers -> {"none", "timed", "forever"}]
    /\ popped \in Seq(Items)
    /\ res \in [Consumers -> {"none", "data", "nodata"}]
    /\ aborted \in BOOLEAN /\ cleared \in BOOLEAN

\* The producers that have counted their element and not linked it yet.
Counting == {p \in Producers : item[p] # 0}

\* Until somebody calls clear(), size_ counts what is linked and what is about
\* to be, and assert(size_.get() > 0) of pop_front (channel.h:91) holds when
\* reached.  After it the count may fall behind the queue, never run ahead.
SizeAccounting ==
    /\ ~cleared => size_ = Len(queue_) + Cardinality(Counting) /\ ~aborted
    /\ 0 <= size_ /\ size_ <= Len(queue_) + Cardinality(Counting)

\* No lost wake-up: nobody sleeps in pop_front on a channel with data (until
\* clear() forgets to count a push that has not linked yet).
NoWaitOnData == ~cleared => \A c \in Consumers : cpc[c] = "waiting" => queue_ = <<>>

Elements(s) == {s[n] : n \in 1..Len(s)}

\* What a producer is about to link was never in the queue, nor handed out, and
\* no other producer holds it.
Unlinked ==
    /\ \A p \in Counting : item[p] \notin Elements(queue_) \cup Elements(popped)
    /\ \A p, q \in Counting : item[p] = item[q] => p = q
    /\ \A p \in Counting : item[p] <= calls
    /\ \A i \in Elements(queue_) \cup Elements(popped) : i <= calls

Accounting == TypeOK /\ SizeAccounting /\ NoWaitOnData /\ Unlinked

-----------------------------------------------------------------------------
\* The channel implements Channel: each element is linked once, handed out once
\* and from the front, and "no data" (a size_ of zero, or an empty queue_ after a
\* wait) is only said of an empty queue.
C == INSTANCE Channel WITH queue <- queue_

ChannelSpec == C!Spec
=============================================================================
