------------------------------- MODULE XBuffer ------------------------------
(***************************************************************************)
(* xBuffer (net/include/buffer.h, net/buffer.cpp): bytes in a vector,      *)
(* between two indices.  Cell i of the sequence is element i - 1 of the    *)
(* vector.  A buffer is a record of the class's members, and its methods   *)
(* are operators from buffers to buffers.                                  *)
(*                                                                         *)
(* The sizes are parameters: 4 bytes before the first index, 1020 after it *)
(* (or what the constructor is given) and 8192 in the second part of a     *)
(* read.  A byte is a digit of base Base, which is 256.                    *)
(***************************************************************************)
EXTENDS Integers, Sequences

CONSTANTS Base,
          kDiscardableSize,     \* sizeof(int)
          InitialSize,          \* argument of the constructor
          ExtraSize,            \* sizeof extrabuf
          Chunk,                \* sequences of bytes appended, prepended or read
          MaxReadable           \* bound: bytes between the indices

ASSUME BaseAssumption == Base \in Nat /\ Base > 1
ASSUME SizesAssumption ==
    {kDiscardableSize, InitialSize, ExtraSize, MaxReadable} \subseteq Nat

Byte == 0..(Base - 1)

ASSUME ChunkAssumption == Chunk \subseteq Seq(Byte)

VARIABLE buf

\* The members of an xBuffer.
Members(cells, reader, writer) ==
    [buffer_ |-> cells, readerIndex_ |-> reader, writerIndex_ |-> writer]

Zeros(n) == [i \in 1..n |-> 0]

Init == buf = Members(Zeros(kDiscardableSize + InitialSize), kDiscardableSize, kDiscardableSize)

-----------------------------------------------------------------------------
(* Methods that read                                                       *)

readableBytes(b) == b.writerIndex_ - b.readerIndex_
writableBytes(b) == Len(b.buffer_) - b.writerIndex_
discardableBytes(b) == b.readerIndex_

toString(b) == SubSeq(b.buffer_, b.readerIndex_ + 1, b.writerIndex_)

-----------------------------------------------------------------------------
(* Methods that change the buffer                                          *)

\* std::copy of data over the cells after the first at.
store(cells, at, data) ==
    SubSeq(cells, 1, at) \o data \o SubSeq(cells, at + Len(data) + 1, Len(cells))

reset(b) == Members(b.buffer_, kDiscardableSize, kDiscardableSize)

moveOver(b, len) ==
    IF len < readableBytes(b)
    THEN Members(b.buffer_, b.readerIndex_ + len, b.writerIndex_)
    ELSE reset(b)

\* Mutant: the cells in front are counted as if all of them could be used.
tooSmallByK(b, len) == writableBytes(b) + discardableBytes(b) < len

\* No move of the readable bytes to the front makes room for len more.
tooSmall(b, len) ==
    writableBytes(b) + discardableBytes(b) < len + kDiscardableSize

\* Mutant: the vector is doubled.
grownTwice(b, len) ==
    Members(b.buffer_ \o Zeros(b.writerIndex_ + 2 * (len + kDiscardableSize)),
            b.readerIndex_, b.writerIndex_)

\* buffer_.resize(writerIndex_ + len), to more than there was
grown(b, len) ==
    Members(b.buffer_ \o Zeros(b.writerIndex_ + len - Len(b.buffer_)),
            b.readerIndex_, b.writerIndex_)

\* Mutant: the indices move, the bytes do not.
indicesToFront(b) ==
    Members(b.buffer_, kDiscardableSize, kDiscardableSize + readableBytes(b))

movedToFront(b) ==
    Members(store(b.buffer_, kDiscardableSize, toString(b)),
            kDiscardableSize, kDiscardableSize + readableBytes(b))

makeSpace(b, len) == IF tooSmall(b, len) THEN grown(b, len) ELSE movedToFront(b)

ensureWritableBytes(b, len) == IF writableBytes(b) < len THEN makeSpace(b, len) ELSE b

\* std::copy to beginWrite() and hasWritten
written(b, data) ==
    Members(store(b.buffer_, b.writerIndex_, data),
            b.readerIndex_, b.writerIndex_ + Len(data))

append(b, data) == written(ensureWritableBytes(b, Len(data)), data)

prepend(b, data) ==
    Members(store(b.buffer_, b.readerIndex_ - Len(data), data),
            b.readerIndex_ - Len(data), b.writerIndex_)

unwrite(b, len) == Members(b.buffer_, b.readerIndex_, b.writerIndex_ - len)

\* The most that readv can deliver: a second part only when the first is small.
iovLen(b) ==
    IF writableBytes(b) < ExtraSize THEN writableBytes(b) + ExtraSize ELSE writableBytes(b)

\* Mutant: what went to the second part is counted, not appended.
fillCountsAll(b, data) ==
    LET m == writableBytes(b)
    IN  IF Len(data) <= m THEN written(b, data)
        ELSE Members(store(b.buffer_, b.writerIndex_, SubSeq(data, 1, m)),
                     b.readerIndex_, b.writerIndex_ + Len(data))

\* A read that delivers data: what the vector has no room for is appended.
fillFromFd(b, data) ==
    LET m == writableBytes(b)
    IN  IF Len(data) <= m THEN written(b, data)
        ELSE append(written(b, SubSeq(data, 1, m)), SubSeq(data, m + 1, Len(data)))

-----------------------------------------------------------------------------
(* Integers in the buffer, most significant byte first                     *)

\* The numbers that n bytes can hold
power[n \in Nat] == IF n = 0 THEN 1 ELSE Base * power[n - 1]

\* hostToNetwork: the n bytes of x in two's complement
hostToNetwork(x, n) == [i \in 1..n |-> (x \div power[n - i]) % Base]

\* The values of the first 0, 1, 2 ... bytes
values(bytes) ==
    LET v[i \in 0..Len(bytes)] == IF i = 0 THEN 0 ELSE Base * v[i - 1] + bytes[i]
    IN  v

unsigned(bytes) == values(bytes)[Len(bytes)]

\* Mutant: the sign is lost.
networkToHostUnsigned(bytes) == unsigned(bytes)

\* networkToHost, converted to the signed type of the same width
networkToHost(bytes) ==
    LET u == unsigned(bytes)
        range == power[Len(bytes)]
    IN  IF 2 * u >= range THEN u - range ELSE u

prependInt(b, x, n) == prepend(b, hostToNetwork(x, n))

peekInt(b, n) == networkToHost(SubSeq(toString(b), 1, n))

\* The integer, and the buffer without it.
readInt(b, n) == [result |-> peekInt(b, n), left |-> moveOver(b, n)]

-----------------------------------------------------------------------------
(* A buffer in use.  The assertions on arguments are duties of the caller. *)

AppendData == \E data \in Chunk :
    /\ readableBytes(buf) + Len(data) <= MaxReadable
    /\ buf' = append(buf, data)

PrependData == \E data \in Chunk :
    /\ Len(data) <= discardableBytes(buf)
    /\ readableBytes(buf) + Len(data) <= MaxReadable
    /\ buf' = prepend(buf, data)

MoveOver == \E len \in 0..readableBytes(buf) : buf' = moveOver(buf, len)

Unwrite == \E len \in 0..readableBytes(buf) : buf' = unwrite(buf, len)

Reset == buf' = reset(buf)

FillFromFd == \E data \in Chunk :
    /\ Len(data) <= iovLen(buf)
    /\ readableBytes(buf) + Len(data) <= MaxReadable
    /\ buf' = fillFromFd(buf, data)

Next == AppendData \/ PrependData \/ MoveOver \/ Unwrite \/ Reset \/ FillFromFd

Spec == Init /\ [][Next]_buf
=============================================================================
