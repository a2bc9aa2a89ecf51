---------------------------- MODULE XBufferProps ----------------------------
(***************************************************************************)
(* What XBuffer is to guarantee.                                           *)
(***************************************************************************)
EXTENDS XBuffer

\* 0 <= readerIndex <= writerIndex <= capacity (buffer.h:28), and room in front.
WellFormed(b) ==
    /\ b \in [buffer_ : Seq(Byte), readerIndex_ : Nat, writerIndex_ : Nat]
    /\ b.readerIndex_ <= b.writerIndex_
    /\ b.writerIndex_ <= Len(b.buffer_)
    /\ kDiscardableSize <= Len(b.buffer_)

\* The buffer is well-formed, whatever is done with it.
TypeOK == WellFormed(buf)

\* The assertions inside the methods hold for an append of any length: makeSpace
\* moves only to the front, leaves the content and makes room (buffer.h:221, 236,
\* 386, 393).
AssertionsHold ==
    \A len \in 0..MaxReadable :
        /\ writableBytes(buf) < len =>
              /\ tooSmall(buf, len) \/ kDiscardableSize < buf.readerIndex_
              /\ readableBytes(makeSpace(buf, len)) = readableBytes(buf)
        /\ writableBytes(ensureWritableBytes(buf, len)) >= len

\* "It only grows, never shrinks" (buffer.h:13): but it grows only when a move
\* would not do, and then to less than twice what is in it.
GrowthBounded ==
    [][Len(buf'.buffer_) # Len(buf.buffer_) =>
          /\ readableBytes(buf') > Len(buf.buffer_) - kDiscardableSize
          /\ Len(buf'.buffer_) <= kDiscardableSize + 2 * readableBytes(buf')]_buf

\* xServer::messageComing prepends a descriptor, the handler reads it: a signed
\* number is read as it was put, and what follows it stays.
PrependedIntIsRead ==
    \A n \in 1..discardableBytes(buf) :
        \A x \in (-(power[n] \div 2))..(power[n] \div 2 - 1) :
            LET R == readInt(prependInt(buf, x, n), n)
            IN  R.result = x /\ toString(R.left) = toString(buf)

\* xBuffer implements a queue of bytes, wherever in the vector they are.
Queue == INSTANCE ByteQueue WITH bytes <- toString(buf)
QueueSpec == Queue!Spec
=============================================================================
