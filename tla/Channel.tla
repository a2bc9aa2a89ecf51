------------------------------ MODULE Channel -------------------------------
(***************************************************************************)
(* What xChan promises, with no counter, no mutex and no condition: a      *)
(* queue with two ends.  A push adds an element that was never there; a    *)
(* pop removes the first, or says there was none, and then there was none. *)
(* That last promise ends with the first clear(): what is linked after it  *)
(* may be denied.                                                          *)
(***************************************************************************)
EXTENDS Naturals, Sequences

CONSTANTS Consumers, Items

VARIABLES queue,    \* the elements, first to last
          popped,   \* the elements handed to consumers, oldest first
          res,      \* per consumer: what its last pop returned
          cleared   \* clear() was called

chvars == <<queue, popped, res, cleared>>

Init == /\ queue = <<>> /\ popped = <<>>
        /\ res = [c \in Consumers |-> "none"] /\ cleared = FALSE

Elements(s) == {s[n] : n \in 1..Len(s)}

New(i) == i \notin Elements(queue) \cup Elements(popped)

PushBack(i)  == New(i) /\ queue' = Append(queue, i) /\ UNCHANGED <<popped, res, cleared>>
PushFront(i) == New(i) /\ queue' = <<i>> \o queue /\ UNCHANGED <<popped, res, cleared>>

Pop(c) == /\ queue # <<>>
          /\ popped' = Append(popped, Head(queue))
          /\ queue' = Tail(queue)
          /\ res' = [res EXCEPT ![c] = "data"]
          /\ UNCHANGED cleared

PopNothing(c) == /\ queue = <<>> \/ cleared
                 /\ res' = [res EXCEPT ![c] = "nodata"]
                 /\ UNCHANGED <<queue, popped, cleared>>

\* A consumer starts another pop.
Ask(c) == res' = [res EXCEPT ![c] = "none"] /\ UNCHANGED <<queue, popped, cleared>>

Clear == queue' = <<>> /\ cleared' = TRUE /\ UNCHANGED <<popped, res>>

Next == \/ \E i \in Items : PushBack(i) \/ PushFront(i)
        \/ \E c \in Consumers : Pop(c) \/ PopNothing(c) \/ Ask(c)
        \/ Clear

Spec == Init /\ [][Next]_chvars
=============================================================================
