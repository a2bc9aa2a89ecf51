------------------------------ MODULE ByteQueue -----------------------------
(***************************************************************************)
(* What xBuffer promises: a sequence of bytes that grows at its end, and   *)
(* within limits at its front, and is consumed from its front.             *)
(***************************************************************************)
EXTENDS Integers, Sequences

CONSTANT Chunk      \* the sequences of bytes handed over in one call

VARIABLE bytes

Init == bytes = <<>>

Put == \E data \in Chunk : bytes' = bytes \o data

PutFront == \E data \in Chunk : bytes' = data \o bytes

\* n bytes are read, or passed over.
Take == \E n \in 0..Len(bytes) : bytes' = SubSeq(bytes, n + 1, Len(bytes))

\* The n bytes put last are taken back.
Unput == \E n \in 0..Len(bytes) : bytes' = SubSeq(bytes, 1, Len(bytes) - n)

Next == Put \/ PutFront \/ Take \/ Unput

Spec == Init /\ [][Next]_bytes
=============================================================================
