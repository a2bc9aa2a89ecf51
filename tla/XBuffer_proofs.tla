--------------------------- MODULE XBuffer_proofs ---------------------------
(***************************************************************************)
(* Proofs about XBuffer, for every size, every base and every length.      *)
(***************************************************************************)
EXTENDS XBufferProps, SequenceTheorems, WellFoundedInduction, TLAPS

\* store overwrites the cells it is told to and no other.
LEMMA StoreCells ==
    ASSUME NEW cells \in Seq(Byte), NEW data \in Seq(Byte), NEW at \in Nat,
           at + Len(data) <= Len(cells)
    PROVE  /\ store(cells, at, data) \in Seq(Byte)
           /\ Len(store(cells, at, data)) = Len(cells)
           /\ \A i \in 1..Len(cells) :
                 store(cells, at, data)[i] =
                     IF i <= at THEN cells[i]
                     ELSE IF i <= at + Len(data) THEN data[i - at] ELSE cells[i]
<1> DEFINE pre == SubSeq(cells, 1, at)
           post == SubSeq(cells, at + Len(data) + 1, Len(cells))
<1>1. Len(cells) \in Nat /\ Len(data) \in Nat /\ \A i \in 1..Len(cells) : cells[i] \in Byte
  BY LenProperties, ElementOfSeq
<1>2. /\ pre \in Seq(Byte) /\ Len(pre) = at
      /\ \A i \in 1..at : pre[i] = cells[i]
  <2>1. \A i \in 1..at : cells[i] \in Byte
    BY <1>1
  <2> QED
    BY <1>1, <2>1, SubSeqProperties
<1>3. /\ post \in Seq(Byte) /\ Len(post) = Len(cells) - at - Len(data)
      /\ \A i \in 1..(Len(cells) - at - Len(data)) : post[i] = cells[at + Len(data) + i]
  <2>1. \A i \in (at + Len(data) + 1)..Len(cells) : cells[i] \in Byte
    BY <1>1
  <2> QED
    BY <1>1, <2>1, SubSeqProperties
<1>4. /\ pre \o data \in Seq(Byte) /\ Len(pre \o data) = at + Len(data)
      /\ \A i \in 1..(at + Len(data)) : (pre \o data)[i] = IF i <= at THEN pre[i] ELSE data[i - at]
  BY <1>2, ConcatProperties
<1> HIDE DEF pre, post
<1>5. /\ (pre \o data) \o post \in Seq(Byte)
      /\ Len((pre \o data) \o post) = Len(cells)
      /\ \A i \in 1..Len(cells) :
            ((pre \o data) \o post)[i] =
                IF i <= at + Len(data) THEN (pre \o data)[i] ELSE post[i - at - Len(data)]
  <2>1. Len(pre \o data) + Len(post) = Len(cells)
    BY <1>1, <1>3, <1>4
  <2>2. \A i \in 1..Len(cells) : i - Len(pre \o data) = i - at - Len(data)
    BY <1>1, <1>4
  <2> QED
    BY <1>3, <1>4, <2>1, <2>2, ConcatProperties
<1>6. store(cells, at, data) = (pre \o data) \o post
  BY DEF store, pre, post
<1> QED
  BY <1>1, <1>2, <1>3, <1>4, <1>5, <1>6

\* A concatenation, with the lengths of its parts by name.
LEMMA Concatenation ==
    ASSUME NEW s \in Seq(Byte), NEW t \in Seq(Byte), NEW m, NEW n, Len(s) = m, Len(t) = n
    PROVE  /\ s \o t \in Seq(Byte)
           /\ Len(s \o t) = m + n
           /\ \A i \in 1..(m + n) : (s \o t)[i] = IF i <= m THEN s[i] ELSE t[i - m]
BY ConcatProperties

\* The content: as long as the distance of the indices, and cell by cell.
LEMMA Content ==
    ASSUME NEW b, WellFormed(b)
    PROVE  /\ toString(b) \in Seq(Byte)
           /\ Len(toString(b)) = b.writerIndex_ - b.readerIndex_
           /\ \A i \in 1..(b.writerIndex_ - b.readerIndex_) :
                 toString(b)[i] = b.buffer_[b.readerIndex_ + i]
<1>1. \A i \in (b.readerIndex_ + 1)..b.writerIndex_ : b.buffer_[i] \in Byte
  BY ElementOfSeq DEF WellFormed
<1>2. b.readerIndex_ \in Nat /\ b.writerIndex_ \in Nat /\ b.readerIndex_ <= b.writerIndex_
  BY DEF WellFormed
<1> QED
  BY <1>1, <1>2, SubSeqProperties DEF toString

\* Two buffers have the same content when their indices are as far apart and
\* their cells agree.
LEMMA SameContent ==
    ASSUME NEW b, NEW c, WellFormed(b), WellFormed(c),
           readableBytes(b) = readableBytes(c),
           \A i \in 1..readableBytes(b) :
               b.buffer_[b.readerIndex_ + i] = c.buffer_[c.readerIndex_ + i]
    PROVE  toString(b) = toString(c)
  BY Content, SeqEqual DEF readableBytes

-----------------------------------------------------------------------------
(* The methods                                                             *)

\* Bytes that fit are written behind the content.
LEMMA WrittenAppends ==
    ASSUME NEW b, WellFormed(b), NEW data \in Seq(Byte), Len(data) <= writableBytes(b)
    PROVE  /\ WellFormed(written(b, data))
           /\ toString(written(b, data)) = toString(b) \o data
           /\ Len(written(b, data).buffer_) = Len(b.buffer_)
           /\ written(b, data).readerIndex_ = b.readerIndex_
           /\ written(b, data).writerIndex_ = b.writerIndex_ + Len(data)
<1> DEFINE c == written(b, data)
           cells == store(b.buffer_, b.writerIndex_, data)
           n == b.writerIndex_ - b.readerIndex_
<1>1. Len(data) \in Nat /\ b.buffer_ \in Seq(Byte) /\ Len(b.buffer_) \in Nat
  BY LenProperties DEF WellFormed
<1>2. /\ b.readerIndex_ \in Nat /\ b.writerIndex_ \in Nat
      /\ b.readerIndex_ <= b.writerIndex_
      /\ b.writerIndex_ + Len(data) <= Len(b.buffer_)
  BY <1>1 DEF WellFormed, writableBytes
<1>3. /\ cells \in Seq(Byte) /\ Len(cells) = Len(b.buffer_)
      /\ \A i \in 1..Len(b.buffer_) :
            cells[i] = IF i <= b.writerIndex_ THEN b.buffer_[i]
                       ELSE IF i <= b.writerIndex_ + Len(data) THEN data[i - b.writerIndex_]
                       ELSE b.buffer_[i]
  BY <1>1, <1>2, StoreCells
<1>4. /\ c.buffer_ = cells /\ c.readerIndex_ = b.readerIndex_
      /\ c.writerIndex_ = b.writerIndex_ + Len(data)
      /\ c \in [buffer_ : Seq(Byte), readerIndex_ : Nat, writerIndex_ : Nat]
  <2> HIDE DEF cells
  <2>1. c = [buffer_ |-> cells, readerIndex_ |-> b.readerIndex_,
             writerIndex_ |-> b.writerIndex_ + Len(data)]
    BY DEF written, Members, cells
  <2> QED
    BY <1>1, <1>2, <1>3, <2>1 DEF WellFormed
<1>5. WellFormed(c)
  BY <1>1, <1>2, <1>3, <1>4 DEF WellFormed
<1> HIDE DEF c, cells
<1>6. toString(c) = toString(b) \o data
  <2>n. n \in Nat /\ b.writerIndex_ = b.readerIndex_ + n
    BY <1>2
  <2>1. /\ toString(b) \in Seq(Byte) /\ Len(toString(b)) = n
        /\ \A i \in 1..n : toString(b)[i] = b.buffer_[b.readerIndex_ + i]
    BY Content
  <2>2. /\ toString(c) \in Seq(Byte) /\ Len(toString(c)) = n + Len(data)
        /\ \A i \in 1..(n + Len(data)) : toString(c)[i] = cells[b.readerIndex_ + i]
    <3>1. c.writerIndex_ - c.readerIndex_ = n + Len(data)
      BY <1>1, <1>2, <1>4
    <3> HIDE DEF n
    <3> QED
      BY <1>4, <1>5, <3>1, Content
  <2> HIDE DEF n
  <2>3. /\ toString(b) \o data \in Seq(Byte) /\ Len(toString(b) \o data) = n + Len(data)
        /\ \A i \in 1..(n + Len(data)) :
              (toString(b) \o data)[i] = IF i <= n THEN toString(b)[i] ELSE data[i - n]
    BY <2>1, Concatenation
  <2>4. ASSUME NEW i \in 1..(n + Len(data))
        PROVE  toString(c)[i] = (toString(b) \o data)[i]
    <3>1. /\ b.readerIndex_ + i \in 1..Len(b.buffer_)
          /\ b.readerIndex_ + i <= b.writerIndex_ + Len(data)
          /\ b.readerIndex_ + i <= b.writerIndex_ <=> i <= n
          /\ b.readerIndex_ + i - b.writerIndex_ = i - n
      BY <1>1, <1>2, <2>n
    <3>2. toString(c)[i] = cells[b.readerIndex_ + i]
      BY <2>2
    <3>3. cells[b.readerIndex_ + i] = IF i <= n THEN b.buffer_[b.readerIndex_ + i] ELSE data[i - n]
      <4> DEFINE j == b.readerIndex_ + i
      <4>1. /\ j \in 1..Len(b.buffer_) /\ j <= b.writerIndex_ + Len(data)
            /\ j <= b.writerIndex_ <=> i <= n
            /\ j - b.writerIndex_ = i - n
        BY <1>1, <1>2, <2>n, <3>1
      <4> HIDE DEF j
      <4>2. cells[j] = IF j <= b.writerIndex_ THEN b.buffer_[j]
                       ELSE IF j <= b.writerIndex_ + Len(data) THEN data[j - b.writerIndex_]
                       ELSE b.buffer_[j]
        BY <1>3, <4>1
      <4>3. cells[j] = IF i <= n THEN b.buffer_[j] ELSE data[i - n]
        BY <4>1, <4>2
      <4> QED
        BY <4>3 DEF j
    <3>4. i <= n => toString(b)[i] = b.buffer_[b.readerIndex_ + i]
      BY <2>1, <2>n
    <3>5. (toString(b) \o data)[i] = IF i <= n THEN toString(b)[i] ELSE data[i - n]
      BY <2>3
    <3> QED
      BY <3>2, <3>3, <3>4, <3>5
  <2> QED
    BY <2>2, <2>3, <2>4, SeqEqual
<1> QED
  BY <1>3, <1>4, <1>5, <1>6 DEF c

\* resize leaves the content and makes room for len bytes.
LEMMA GrownMakesRoom ==
    ASSUME NEW b, WellFormed(b), NEW len \in Nat, writableBytes(b) < len
    PROVE  /\ WellFormed(grown(b, len))
           /\ toString(grown(b, len)) = toString(b)
           /\ Len(grown(b, len).buffer_) = b.writerIndex_ + len
           /\ grown(b, len).readerIndex_ = b.readerIndex_
           /\ grown(b, len).writerIndex_ = b.writerIndex_
<1> DEFINE c == grown(b, len)
           more == b.writerIndex_ + len - Len(b.buffer_)
           cells == b.buffer_ \o Zeros(more)
<1>1. /\ b.buffer_ \in Seq(Byte) /\ Len(b.buffer_) \in Nat
      /\ b.readerIndex_ \in Nat /\ b.writerIndex_ \in Nat
      /\ b.readerIndex_ <= b.writerIndex_ /\ b.writerIndex_ <= Len(b.buffer_)
  BY LenProperties DEF WellFormed
<1>2. more \in Nat
  BY <1>1 DEF writableBytes
<1> HIDE DEF more
<1>3. Zeros(more) \in Seq(Byte) /\ Len(Zeros(more)) = more
  <2>1. 0 \in Byte
    BY BaseAssumption DEF Byte
  <2>2. Zeros(more) \in [1..more -> Byte]
    BY <2>1 DEF Zeros
  <2>3. Zeros(more) \in Seq(Byte)
    BY <1>2, <2>2, SeqDef
  <2> QED
    BY <1>2, <2>2, <2>3, LenProperties
<1>4. /\ cells \in Seq(Byte) /\ Len(cells) = b.writerIndex_ + len
      /\ \A i \in 1..Len(b.buffer_) : cells[i] = b.buffer_[i]
  <2>1. /\ cells \in Seq(Byte) /\ Len(cells) = Len(b.buffer_) + more
        /\ \A i \in 1..(Len(b.buffer_) + more) :
              cells[i] = IF i <= Len(b.buffer_) THEN b.buffer_[i]
                         ELSE Zeros(more)[i - Len(b.buffer_)]
    BY <1>1, <1>3, Concatenation
  <2> HIDE DEF cells
  <2> QED
    BY <1>1, <1>2, <2>1 DEF more
<1>5. /\ c.buffer_ = cells /\ c.readerIndex_ = b.readerIndex_ /\ c.writerIndex_ = b.writerIndex_
      /\ c \in [buffer_ : Seq(Byte), readerIndex_ : Nat, writerIndex_ : Nat]
  <2>1. c = [buffer_ |-> cells, readerIndex_ |-> b.readerIndex_,
             writerIndex_ |-> b.writerIndex_]
    BY DEF grown, Members, more
  <2> HIDE DEF cells
  <2> QED
    BY <1>1, <1>4, <2>1 DEF WellFormed
<1> HIDE DEF c, cells
<1>6. WellFormed(c)
  <2>1. kDiscardableSize \in Nat /\ kDiscardableSize <= Len(b.buffer_)
    BY SizesAssumption DEF WellFormed
  <2>2. Len(b.buffer_) < b.writerIndex_ + len
    BY <1>1 DEF writableBytes
  <2>3. c.writerIndex_ <= Len(c.buffer_) /\ kDiscardableSize <= Len(c.buffer_)
    BY <1>1, <1>4, <1>5, <2>1, <2>2
  <2> QED
    BY <1>1, <1>5, <2>3 DEF WellFormed
<1>7. toString(c) = toString(b)
  <2>1. readableBytes(c) = readableBytes(b)
    BY <1>5 DEF readableBytes
  <2>2. ASSUME NEW i \in 1..readableBytes(b)
        PROVE  b.buffer_[b.readerIndex_ + i] = c.buffer_[c.readerIndex_ + i]
    <3>1. b.readerIndex_ + i \in 1..Len(b.buffer_)
      BY <1>1 DEF readableBytes
    <3> QED
      BY <1>4, <1>5, <3>1
  <2> QED
    BY <1>6, <2>1, <2>2, SameContent
<1> QED
  BY <1>4, <1>5, <1>6, <1>7 DEF c

\* The move to the front leaves the content, where it does move to the front.
LEMMA MovedKeepsContent ==
    ASSUME NEW b, WellFormed(b), kDiscardableSize < b.readerIndex_
    PROVE  /\ WellFormed(movedToFront(b))
           /\ toString(movedToFront(b)) = toString(b)
           /\ Len(movedToFront(b).buffer_) = Len(b.buffer_)
           /\ movedToFront(b).readerIndex_ = kDiscardableSize
           /\ movedToFront(b).writerIndex_ = kDiscardableSize + readableBytes(b)
<1> DEFINE c == movedToFront(b)
           cells == store(b.buffer_, kDiscardableSize, toString(b))
<1>1. /\ b.buffer_ \in Seq(Byte) /\ Len(b.buffer_) \in Nat
      /\ b.readerIndex_ \in Nat /\ b.writerIndex_ \in Nat /\ kDiscardableSize \in Nat
      /\ b.readerIndex_ <= b.writerIndex_ /\ b.writerIndex_ <= Len(b.buffer_)
  BY LenProperties, SizesAssumption DEF WellFormed
<1>2. /\ toString(b) \in Seq(Byte) /\ Len(toString(b)) = readableBytes(b)
      /\ \A i \in 1..readableBytes(b) : toString(b)[i] = b.buffer_[b.readerIndex_ + i]
  BY Content DEF readableBytes
<1>3. /\ cells \in Seq(Byte) /\ Len(cells) = Len(b.buffer_)
      /\ \A i \in 1..readableBytes(b) : cells[kDiscardableSize + i] = toString(b)[i]
  <2>1. readableBytes(b) \in Nat /\ kDiscardableSize + readableBytes(b) <= Len(b.buffer_)
    BY <1>1 DEF readableBytes
  <2>2. /\ cells \in Seq(Byte) /\ Len(cells) = Len(b.buffer_)
        /\ \A i \in 1..Len(b.buffer_) :
              cells[i] = IF i <= kDiscardableSize THEN b.buffer_[i]
                         ELSE IF i <= kDiscardableSize + readableBytes(b)
                              THEN toString(b)[i - kDiscardableSize] ELSE b.buffer_[i]
    <3> DEFINE content == toString(b)
               n == readableBytes(b)
    <3>1. content \in Seq(Byte) /\ Len(content) = n /\ n \in Nat
      BY <1>2, <2>1
    <3> HIDE DEF content, n
    <3>2. kDiscardableSize + Len(content) <= Len(b.buffer_)
      BY <2>1, <3>1 DEF n
    <3>3. /\ store(b.buffer_, kDiscardableSize, content) \in Seq(Byte)
          /\ Len(store(b.buffer_, kDiscardableSize, content)) = Len(b.buffer_)
          /\ \A i \in 1..Len(b.buffer_) :
                store(b.buffer_, kDiscardableSize, content)[i] =
                    IF i <= kDiscardableSize THEN b.buffer_[i]
                    ELSE IF i <= kDiscardableSize + Len(content)
                         THEN content[i - kDiscardableSize] ELSE b.buffer_[i]
      BY <1>1, <3>1, <3>2, StoreCells
    <3>4. \A i \in 1..Len(b.buffer_) :
             store(b.buffer_, kDiscardableSize, content)[i] =
                 IF i <= kDiscardableSize THEN b.buffer_[i]
                 ELSE IF i <= kDiscardableSize + n
                      THEN content[i - kDiscardableSize] ELSE b.buffer_[i]
      BY <3>1, <3>3
    <3> QED
      BY <3>3, <3>4 DEF content, n
  <2> HIDE DEF cells
  <2>3. ASSUME NEW i \in 1..readableBytes(b)
        PROVE  cells[kDiscardableSize + i] = toString(b)[i]
    <3>1. /\ kDiscardableSize + i \in 1..Len(b.buffer_)
          /\ ~(kDiscardableSize + i <= kDiscardableSize)
          /\ kDiscardableSize + i <= kDiscardableSize + readableBytes(b)
          /\ (kDiscardableSize + i) - kDiscardableSize = i
      BY <1>1, <2>1
    <3> QED
      BY <2>2, <3>1
  <2> QED
    BY <2>2, <2>3
<1>4. /\ c.buffer_ = cells /\ c.readerIndex_ = kDiscardableSize
      /\ c.writerIndex_ = kDiscardableSize + readableBytes(b)
      /\ c = [buffer_ |-> cells, readerIndex_ |-> kDiscardableSize,
              writerIndex_ |-> kDiscardableSize + readableBytes(b)]
  BY DEF movedToFront, Members
<1> HIDE DEF c, cells
<1>5. WellFormed(c)
  BY <1>1, <1>3, <1>4 DEF WellFormed, readableBytes
<1>6. toString(c) = toString(b)
  <2>1. readableBytes(c) = readableBytes(b)
    BY <1>1, <1>4 DEF readableBytes
  <2> QED
    BY <1>2, <1>3, <1>4, <1>5, <2>1, SameContent
<1> QED
  BY <1>3, <1>4, <1>5, <1>6 DEF c

\* makeSpace makes room and leaves the content, and finds kDiscardableSize <
\* readerIndex_ when it moves.
LEMMA SpaceIsMade ==
    ASSUME NEW b, WellFormed(b), NEW len \in Nat, writableBytes(b) < len
    PROVE  /\ WellFormed(makeSpace(b, len))
           /\ toString(makeSpace(b, len)) = toString(b)
           /\ readableBytes(makeSpace(b, len)) = readableBytes(b)
           /\ writableBytes(makeSpace(b, len)) >= len
           /\ tooSmall(b, len) \/ kDiscardableSize < b.readerIndex_
           /\ Len(makeSpace(b, len).buffer_) # Len(b.buffer_) =>
                 /\ tooSmall(b, len)
                 /\ Len(makeSpace(b, len).buffer_) = b.writerIndex_ + len
<1>1. /\ Len(b.buffer_) \in Nat /\ b.readerIndex_ \in Nat /\ b.writerIndex_ \in Nat
      /\ kDiscardableSize \in Nat
  BY LenProperties, SizesAssumption DEF WellFormed
<1>2. CASE tooSmall(b, len)
  <2>1. makeSpace(b, len) = grown(b, len)
    BY <1>2 DEF makeSpace
  <2> QED
    BY <1>1, <1>2, <2>1, GrownMakesRoom DEF readableBytes, writableBytes
<1>3. CASE ~tooSmall(b, len)
  <2>1. makeSpace(b, len) = movedToFront(b)
    BY <1>3 DEF makeSpace
  <2>2. kDiscardableSize < b.readerIndex_
    BY <1>1, <1>3 DEF tooSmall, writableBytes, discardableBytes
  <2>3. kDiscardableSize + readableBytes(b) + len <= Len(b.buffer_)
    BY <1>1, <1>3 DEF tooSmall, writableBytes, discardableBytes, readableBytes
  <2> QED
    BY <1>1, <2>1, <2>2, <2>3, MovedKeepsContent DEF readableBytes, writableBytes
<1> QED
  BY <1>2, <1>3

\* append: the data are behind the content, and the vector grew only when a
\* move would not do.
LEMMA AppendAppends ==
    ASSUME NEW b, WellFormed(b), NEW data \in Seq(Byte)
    PROVE  /\ WellFormed(append(b, data))
           /\ toString(append(b, data)) = toString(b) \o data
           /\ writableBytes(ensureWritableBytes(b, Len(data))) >= Len(data)
           /\ readableBytes(append(b, data)) = readableBytes(b) + Len(data)
           /\ Len(append(b, data).buffer_) # Len(b.buffer_) =>
                 /\ tooSmall(b, Len(data))
                 /\ Len(append(b, data).buffer_) = b.writerIndex_ + Len(data)
<1> DEFINE e == ensureWritableBytes(b, Len(data))
<1>1. /\ Len(b.buffer_) \in Nat /\ b.readerIndex_ \in Nat /\ b.writerIndex_ \in Nat
      /\ Len(data) \in Nat
  BY LenProperties DEF WellFormed
<1>2. /\ WellFormed(e) /\ toString(e) = toString(b)
      /\ writableBytes(e) >= Len(data) /\ readableBytes(e) = readableBytes(b)
      /\ Len(e.buffer_) # Len(b.buffer_) =>
            tooSmall(b, Len(data)) /\ Len(e.buffer_) = b.writerIndex_ + Len(data)
  <2>1. CASE writableBytes(b) < Len(data)
    <3>1. e = makeSpace(b, Len(data))
      BY <2>1 DEF ensureWritableBytes
    <3> HIDE DEF e
    <3> QED
      BY <1>1, <2>1, <3>1, SpaceIsMade
  <2>2. CASE ~(writableBytes(b) < Len(data))
    <3>1. e = b
      BY <2>2 DEF ensureWritableBytes
    <3> HIDE DEF e
    <3> QED
      BY <1>1, <2>2, <3>1 DEF writableBytes
  <2> QED
    BY <2>1, <2>2
<1>3. append(b, data) = written(e, data)
  BY DEF append
<1>4. e.readerIndex_ \in Nat /\ e.writerIndex_ \in Nat /\ Len(e.buffer_) \in Nat
  BY <1>2, LenProperties DEF WellFormed
<1>5. Len(data) <= writableBytes(e)
  BY <1>1, <1>2, <1>4 DEF writableBytes
<1> HIDE DEF e
<1>6. /\ WellFormed(written(e, data)) /\ toString(written(e, data)) = toString(e) \o data
      /\ Len(written(e, data).buffer_) = Len(e.buffer_)
      /\ written(e, data).readerIndex_ = e.readerIndex_
      /\ written(e, data).writerIndex_ = e.writerIndex_ + Len(data)
  BY <1>2, <1>5, WrittenAppends
<1>7. readableBytes(written(e, data)) = readableBytes(e) + Len(data)
  BY <1>1, <1>4, <1>6 DEF readableBytes
<1> QED
  BY <1>2, <1>3, <1>6, <1>7 DEF e

\* fillFromFd: what was read is behind the content, in the order it was read,
\* also when it went through the second part.
LEMMA FillAppends ==
    ASSUME NEW b, WellFormed(b), NEW data \in Seq(Byte)
    PROVE  /\ WellFormed(fillFromFd(b, data))
           /\ toString(fillFromFd(b, data)) = toString(b) \o data
           /\ readableBytes(fillFromFd(b, data)) = readableBytes(b) + Len(data)
           /\ Len(fillFromFd(b, data).buffer_) # Len(b.buffer_) =>
                 /\ tooSmall(b, Len(data))
                 /\ Len(fillFromFd(b, data).buffer_) = b.writerIndex_ + Len(data)
<1> DEFINE m == writableBytes(b)
           front == SubSeq(data, 1, m)
           back == SubSeq(data, m + 1, Len(data))
           e == written(b, front)
<1>1. /\ Len(b.buffer_) \in Nat /\ b.readerIndex_ \in Nat /\ b.writerIndex_ \in Nat
      /\ b.readerIndex_ <= b.writerIndex_ /\ b.writerIndex_ <= Len(b.buffer_)
      /\ Len(data) \in Nat /\ m \in Nat /\ kDiscardableSize \in Nat
  BY LenProperties, SizesAssumption DEF WellFormed, writableBytes
<1>2. CASE Len(data) <= m
  <2>1. fillFromFd(b, data) = written(b, data)
    BY <1>2 DEF fillFromFd
  <2>2. readableBytes(written(b, data)) = readableBytes(b) + Len(data)
    BY <1>1, <1>2, WrittenAppends DEF readableBytes
  <2> QED
    BY <1>2, <2>1, <2>2, WrittenAppends
<1>3. CASE ~(Len(data) <= m)
  <2>1. fillFromFd(b, data) = append(e, back)
    BY <1>3 DEF fillFromFd
  <2>2. /\ front \in Seq(Byte) /\ Len(front) = m
        /\ back \in Seq(Byte) /\ Len(back) = Len(data) - m
    <3>1. \A i \in 1..Len(data) : data[i] \in Byte
      BY ElementOfSeq
    <3> HIDE DEF m
    <3>2. (\A i \in 1..m : data[i] \in Byte) /\ (\A i \in (m + 1)..Len(data) : data[i] \in Byte)
      BY <1>1, <1>3, <3>1
    <3>3. front \in Seq(Byte) /\ Len(front) = m
      BY <1>1, <3>2, SubSeqProperties
    <3>4. back \in Seq(Byte) /\ Len(back) = Len(data) - m
      BY <1>1, <1>3, <3>2, SubSeqProperties
    <3> QED
      BY <3>3, <3>4
  <2>3. front \o back = data
    <3> HIDE DEF m
    <3>1. 1 \in 1..(Len(data) + 1) /\ m \in (1 - 1)..Len(data) /\ Len(data) \in m..Len(data)
      BY <1>1, <1>3
    <3>2. front \o back = SubSeq(data, 1, Len(data))
      BY <3>1, ConcatAdjacentSubSeq
    <3> QED
      BY <3>2, SubSeqFull
  <2> HIDE DEF front, back
  <2>4. /\ WellFormed(e) /\ toString(e) = toString(b) \o front
        /\ Len(e.buffer_) = Len(b.buffer_)
        /\ e.readerIndex_ = b.readerIndex_ /\ e.writerIndex_ = b.writerIndex_ + m
    BY <1>1, <2>2, WrittenAppends
  <2> HIDE DEF e
  <2>5. /\ WellFormed(append(e, back)) /\ toString(append(e, back)) = toString(e) \o back
        /\ readableBytes(append(e, back)) = readableBytes(e) + Len(back)
        /\ Len(append(e, back).buffer_) # Len(e.buffer_) =>
              /\ tooSmall(e, Len(back))
              /\ Len(append(e, back).buffer_) = e.writerIndex_ + Len(back)
    BY <2>2, <2>4, AppendAppends
  <2>6. toString(append(e, back)) = toString(b) \o data
    <3>1. toString(b) \in Seq(Byte)
      BY Content
    <3>2. (toString(b) \o front) \o back = toString(b) \o (front \o back)
      BY <2>2, <3>1, ConcatAssociative
    <3> QED
      BY <2>3, <2>4, <2>5, <3>2
  <2>7. readableBytes(append(e, back)) = readableBytes(b) + Len(data)
    BY <1>1, <2>2, <2>4, <2>5 DEF readableBytes
  <2>8. tooSmall(e, Len(back)) => tooSmall(b, Len(data))
    <3>1. m = Len(b.buffer_) - b.writerIndex_
      BY DEF writableBytes
    <3>2. /\ tooSmall(e, Len(back)) <=>
                Len(b.buffer_) - (b.writerIndex_ + m) + b.readerIndex_
                    < (Len(data) - m) + kDiscardableSize
          /\ tooSmall(b, Len(data)) <=> m + b.readerIndex_ < Len(data) + kDiscardableSize
      <4>1. /\ writableBytes(e) = Len(b.buffer_) - (b.writerIndex_ + m)
            /\ discardableBytes(e) = b.readerIndex_
        BY <2>4 DEF writableBytes, discardableBytes
      <4>2. writableBytes(b) = m /\ discardableBytes(b) = b.readerIndex_
        BY <3>1 DEF writableBytes, discardableBytes
      <4> QED
        BY <2>2, <4>1, <4>2 DEF tooSmall
    <3>3. Len(b.buffer_) - (b.writerIndex_ + m) + b.readerIndex_
              < (Len(data) - m) + kDiscardableSize
          => m + b.readerIndex_ < Len(data) + kDiscardableSize
      <4> DEFINE size == Len(b.buffer_)
                 d == Len(data)
                 w == b.writerIndex_
                 r == b.readerIndex_
      <4>1. m = size - w /\ {size, d, w, r, kDiscardableSize} \subseteq Nat
        BY <1>1, <3>1
      <4> HIDE DEF m, size, d, w, r
      <4>2. size - (w + m) + r < (d - m) + kDiscardableSize => m + r < d + kDiscardableSize
        BY <4>1
      <4> QED
        BY <4>2 DEF size, d, w, r
    <3> QED
      BY <3>2, <3>3
  <2>9. e.writerIndex_ + Len(back) = b.writerIndex_ + Len(data)
    BY <1>1, <2>2, <2>4
  <2> QED
    BY <2>1, <2>4, <2>5, <2>6, <2>7, <2>8, <2>9
<1> QED
  BY <1>2, <1>3

\* prepend: the data are in front of the content.
LEMMA PrependPrepends ==
    ASSUME NEW b, WellFormed(b), NEW data \in Seq(Byte), Len(data) <= discardableBytes(b)
    PROVE  /\ WellFormed(prepend(b, data))
           /\ toString(prepend(b, data)) = data \o toString(b)
           /\ Len(prepend(b, data).buffer_) = Len(b.buffer_)
<1> DEFINE c == prepend(b, data)
           len == Len(data)
           n == readableBytes(b)
           at == b.readerIndex_ - len
           cells == store(b.buffer_, at, data)
<1>1. /\ b.buffer_ \in Seq(Byte) /\ Len(b.buffer_) \in Nat /\ len \in Nat /\ at \in Nat
      /\ b.readerIndex_ \in Nat /\ b.writerIndex_ \in Nat /\ n \in Nat
      /\ b.readerIndex_ = at + len /\ b.writerIndex_ = at + len + n
      /\ b.writerIndex_ <= Len(b.buffer_)
  BY LenProperties DEF WellFormed, discardableBytes, readableBytes
<1>2. c = [buffer_ |-> cells, readerIndex_ |-> at, writerIndex_ |-> b.writerIndex_]
  BY DEF prepend, Members
<1>3. toString(b) \in Seq(Byte) /\ Len(toString(b)) = n
      /\ \A i \in 1..n : toString(b)[i] = b.buffer_[b.readerIndex_ + i]
  BY Content DEF readableBytes
<1> HIDE DEF at, n
<1>4. /\ cells \in Seq(Byte) /\ Len(cells) = Len(b.buffer_)
      /\ \A i \in 1..Len(b.buffer_) :
            cells[i] = IF i <= at THEN b.buffer_[i]
                       ELSE IF i <= at + len THEN data[i - at] ELSE b.buffer_[i]
  BY <1>1, StoreCells
<1> HIDE DEF c, cells, len
<1>5. WellFormed(c) /\ Len(c.buffer_) = Len(b.buffer_)
  BY <1>1, <1>2, <1>4 DEF WellFormed
<1>6. /\ toString(c) \in Seq(Byte) /\ Len(toString(c)) = len + n
      /\ \A i \in 1..(len + n) : toString(c)[i] = cells[at + i]
  <2>1. c.writerIndex_ - c.readerIndex_ = len + n
    BY <1>1, <1>2
  <2> QED
    BY <1>2, <1>5, <2>1, Content
<1>7. /\ data \o toString(b) \in Seq(Byte) /\ Len(data \o toString(b)) = len + n
      /\ \A i \in 1..(len + n) :
            (data \o toString(b))[i] = IF i <= len THEN data[i] ELSE toString(b)[i - len]
  <2>1. Len(data) = len
    BY DEF len
  <2> QED
    BY <1>3, <2>1, Concatenation
<1>8. ASSUME NEW i \in 1..(len + n)
      PROVE  toString(c)[i] = (data \o toString(b))[i]
  <2> DEFINE j == at + i
  <2>1. /\ j \in 1..Len(b.buffer_) /\ ~(j <= at) /\ j - at = i
        /\ (j <= at + len) = (i <= len)
    BY <1>1
  <2>2. i \notin 1..len => i - len \in 1..n /\ b.readerIndex_ + (i - len) = j /\ ~(i <= len)
    BY <1>1
  <2>3. toString(c)[i] = cells[j]
    BY <1>6
  <2> HIDE DEF j
  <2>4. cells[j] = IF i <= len THEN data[i] ELSE b.buffer_[j]
    BY <1>4, <2>1
  <2>5. (data \o toString(b))[i] = IF i <= len THEN data[i] ELSE toString(b)[i - len]
    BY <1>7
  <2>6. ~(i <= len) => toString(b)[i - len] = b.buffer_[j]
    BY <1>1, <1>3, <2>2
  <2> QED
    BY <2>3, <2>4, <2>5, <2>6
<1>9. toString(c) = data \o toString(b)
  BY <1>6, <1>7, <1>8, SeqEqual
<1> QED
  BY <1>5, <1>9 DEF c

\* moveOver drops bytes at the front, down to none.
LEMMA MoveOverDrops ==
    ASSUME NEW b, WellFormed(b), NEW len \in 0..readableBytes(b)
    PROVE  /\ WellFormed(moveOver(b, len))
           /\ toString(moveOver(b, len)) = SubSeq(toString(b), len + 1, Len(toString(b)))
           /\ moveOver(b, len).buffer_ = b.buffer_
<1> DEFINE n == readableBytes(b)
<1>1. /\ b.buffer_ \in Seq(Byte) /\ Len(b.buffer_) \in Nat /\ n \in Nat /\ len \in Nat
      /\ b.readerIndex_ \in Nat /\ b.writerIndex_ \in Nat
      /\ b.writerIndex_ = b.readerIndex_ + n /\ b.writerIndex_ <= Len(b.buffer_)
      /\ kDiscardableSize \in Nat /\ len <= n
  BY LenProperties, SizesAssumption DEF WellFormed, readableBytes
<1>2. toString(b) \in Seq(Byte) /\ Len(toString(b)) = n
      /\ \A i \in 1..n : toString(b)[i] = b.buffer_[b.readerIndex_ + i]
  BY Content DEF readableBytes
<1>3. CASE len < n
  <2> DEFINE c == moveOver(b, len)
  <2>1. c = [buffer_ |-> b.buffer_, readerIndex_ |-> b.readerIndex_ + len,
             writerIndex_ |-> b.writerIndex_]
    BY <1>3 DEF moveOver, Members
  <2> HIDE DEF c, n
  <2>2. WellFormed(c)
    BY <1>1, <1>3, <2>1 DEF WellFormed
  <2>3. /\ toString(c) \in Seq(Byte) /\ Len(toString(c)) = n - len
        /\ \A i \in 1..(n - len) : toString(c)[i] = b.buffer_[b.readerIndex_ + len + i]
    <3>1. c.writerIndex_ - c.readerIndex_ = n - len
      BY <1>1, <2>1
    <3> QED
      BY <2>1, <2>2, <3>1, Content
  <2>4. /\ SubSeq(toString(b), len + 1, n) \in Seq(Byte)
        /\ Len(SubSeq(toString(b), len + 1, n)) = n - len
        /\ \A i \in 1..(n - len) : SubSeq(toString(b), len + 1, n)[i] = toString(b)[len + i]
    <3>1. \A i \in (len + 1)..n : toString(b)[i] \in Byte
      BY <1>1, <1>2, ElementOfSeq
    <3> QED
      BY <1>1, <1>3, <3>1, SubSeqProperties
  <2>5. ASSUME NEW i \in 1..(n - len)
        PROVE  toString(c)[i] = SubSeq(toString(b), len + 1, n)[i]
    <3>1. len + i \in 1..n /\ b.readerIndex_ + (len + i) = b.readerIndex_ + len + i
      BY <1>1
    <3>2. toString(b)[len + i] = b.buffer_[b.readerIndex_ + len + i]
      BY <1>2, <3>1
    <3> QED
      BY <2>3, <2>4, <3>2
  <2>6. toString(c) = SubSeq(toString(b), len + 1, n)
    BY <2>3, <2>4, <2>5, SeqEqual
  <2> QED
    BY <1>2, <2>1, <2>2, <2>6 DEF c
<1>4. CASE len = n
  <2>1. moveOver(b, len) = [buffer_ |-> b.buffer_, readerIndex_ |-> kDiscardableSize,
                            writerIndex_ |-> kDiscardableSize]
    BY <1>1, <1>4 DEF moveOver, reset, Members
  <2>2. toString(moveOver(b, len)) = <<>>
    BY <1>1, <2>1, SubSeqEmpty DEF toString
  <2> HIDE DEF n
  <2>3. SubSeq(toString(b), len + 1, n) = <<>>
    BY <1>1, <1>4, SubSeqEmpty
  <2>4. WellFormed(moveOver(b, len))
    BY <1>1, <2>1 DEF WellFormed
  <2> QED
    BY <1>2, <1>4, <2>1, <2>2, <2>3, <2>4 DEF n
<1> QED
  BY <1>1, <1>3, <1>4

\* unwrite drops bytes at the end.
LEMMA UnwriteDrops ==
    ASSUME NEW b, WellFormed(b), NEW len \in 0..readableBytes(b)
    PROVE  /\ WellFormed(unwrite(b, len))
           /\ toString(unwrite(b, len)) = SubSeq(toString(b), 1, Len(toString(b)) - len)
           /\ unwrite(b, len).buffer_ = b.buffer_
<1> DEFINE n == readableBytes(b)
           c == unwrite(b, len)
<1>1. /\ b.buffer_ \in Seq(Byte) /\ Len(b.buffer_) \in Nat /\ n \in Nat /\ len \in Nat
      /\ b.readerIndex_ \in Nat /\ b.writerIndex_ \in Nat
      /\ b.writerIndex_ = b.readerIndex_ + n /\ b.writerIndex_ <= Len(b.buffer_)
      /\ len <= n
  BY LenProperties DEF WellFormed, readableBytes
<1>2. toString(b) \in Seq(Byte) /\ Len(toString(b)) = n
      /\ \A i \in 1..n : toString(b)[i] = b.buffer_[b.readerIndex_ + i]
  BY Content DEF readableBytes
<1>3. c = [buffer_ |-> b.buffer_, readerIndex_ |-> b.readerIndex_,
           writerIndex_ |-> b.writerIndex_ - len]
  BY DEF unwrite, Members
<1> HIDE DEF c, n
<1>4. WellFormed(c)
  BY <1>1, <1>3 DEF WellFormed
<1>5. /\ toString(c) \in Seq(Byte) /\ Len(toString(c)) = n - len
      /\ \A i \in 1..(n - len) : toString(c)[i] = b.buffer_[b.readerIndex_ + i]
  <2>1. c.writerIndex_ - c.readerIndex_ = n - len
    BY <1>1, <1>3
  <2> QED
    BY <1>3, <1>4, <2>1, Content
<1>6. /\ SubSeq(toString(b), 1, n - len) \in Seq(Byte)
      /\ Len(SubSeq(toString(b), 1, n - len)) = n - len
      /\ \A i \in 1..(n - len) : SubSeq(toString(b), 1, n - len)[i] = toString(b)[i]
  <2>1. \A i \in 1..(n - len) : toString(b)[i] \in Byte
    BY <1>1, <1>2, ElementOfSeq
  <2> QED
    BY <1>1, <2>1, SubSeqProperties
<1>7. \A i \in 1..(n - len) : toString(b)[i] = b.buffer_[b.readerIndex_ + i]
  BY <1>1, <1>2
<1>8. toString(c) = SubSeq(toString(b), 1, n - len)
  BY <1>5, <1>6, <1>7, SeqEqual
<1> QED
  BY <1>2, <1>3, <1>4, <1>8 DEF c

-----------------------------------------------------------------------------
(* The theorems                                                            *)

\* The constructor's assertions: an empty buffer with room on both sides.
LEMMA InitWellFormed == Init => WellFormed(buf) /\ toString(buf) = <<>>
<1> DEFINE size == kDiscardableSize + InitialSize
           cells == Zeros(size)
<1>1. size \in Nat /\ kDiscardableSize \in Nat /\ kDiscardableSize <= size
  BY SizesAssumption
<1>2. cells \in Seq(Byte) /\ Len(cells) = size
  <2> HIDE DEF size
  <2>1. 0 \in Byte
    BY BaseAssumption DEF Byte
  <2>2. cells \in [1..size -> Byte]
    BY <2>1 DEF Zeros
  <2>3. cells \in Seq(Byte)
    BY <1>1, <2>2, SeqDef
  <2> QED
    BY <1>1, <2>2, <2>3, LenProperties
<1> SUFFICES ASSUME Init PROVE WellFormed(buf) /\ toString(buf) = <<>>
  OBVIOUS
<1>3. buf = [buffer_ |-> cells, readerIndex_ |-> kDiscardableSize,
             writerIndex_ |-> kDiscardableSize]
  BY DEF Init, Members
<1> HIDE DEF cells, size
<1>4. WellFormed(buf)
  BY <1>1, <1>2, <1>3 DEF WellFormed
<1>5. toString(buf) = <<>>
  BY <1>1, <1>3, SubSeqEmpty DEF toString
<1> QED
  BY <1>4, <1>5

\* Every step leaves the buffer well-formed, and is a step of the queue of bytes.
LEMMA StepOfQueue ==
    ASSUME WellFormed(buf), Next
    PROVE  WellFormed(buf') /\ Queue!Next
<1>1. CASE AppendData
  <2>1. PICK data \in Chunk : buf' = append(buf, data)
    BY <1>1 DEF AppendData
  <2>2. data \in Seq(Byte)
    BY <2>1, ChunkAssumption
  <2>3. WellFormed(buf') /\ toString(buf') = toString(buf) \o data
    BY <2>1, <2>2, AppendAppends
  <2> QED
    BY <2>3 DEF Queue!Next, Queue!Put
<1>2. CASE PrependData
  <2>1. PICK data \in Chunk : Len(data) <= discardableBytes(buf) /\ buf' = prepend(buf, data)
    BY <1>2 DEF PrependData
  <2>2. data \in Seq(Byte)
    BY <2>1, ChunkAssumption
  <2>3. WellFormed(buf') /\ toString(buf') = data \o toString(buf)
    BY <2>1, <2>2, PrependPrepends
  <2> QED
    BY <2>3 DEF Queue!Next, Queue!PutFront
<1>3. CASE MoveOver \/ Reset
  <2>1. Len(toString(buf)) = readableBytes(buf) /\ readableBytes(buf) \in Nat
    BY Content DEF readableBytes, WellFormed
  <2>2. PICK len \in 0..readableBytes(buf) : buf' = moveOver(buf, len)
    <3>1. Reset => buf' = moveOver(buf, readableBytes(buf)) /\ readableBytes(buf) \in 0..readableBytes(buf)
      BY <2>1 DEF Reset, moveOver
    <3> QED
      BY <1>3, <3>1 DEF MoveOver
  <2>3. /\ WellFormed(buf')
        /\ toString(buf') = SubSeq(toString(buf), len + 1, Len(toString(buf)))
    BY <2>2, MoveOverDrops
  <2> QED
    BY <2>1, <2>3 DEF Queue!Next, Queue!Take
<1>4. CASE Unwrite
  <2>1. Len(toString(buf)) = readableBytes(buf)
    BY Content DEF readableBytes
  <2>2. PICK len \in 0..readableBytes(buf) : buf' = unwrite(buf, len)
    BY <1>4 DEF Unwrite
  <2>3. /\ WellFormed(buf')
        /\ toString(buf') = SubSeq(toString(buf), 1, Len(toString(buf)) - len)
    BY <2>2, UnwriteDrops
  <2> QED
    BY <2>1, <2>3 DEF Queue!Next, Queue!Unput
<1>5. CASE FillFromFd
  <2>1. PICK data \in Chunk : buf' = fillFromFd(buf, data)
    BY <1>5 DEF FillFromFd
  <2>2. data \in Seq(Byte)
    BY <2>1, ChunkAssumption
  <2>3. WellFormed(buf') /\ toString(buf') = toString(buf) \o data
    BY <2>1, <2>2, FillAppends
  <2> QED
    BY <2>3 DEF Queue!Next, Queue!Put
<1> QED
  BY <1>1, <1>2, <1>3, <1>4, <1>5 DEF Next

\* The indices stay in order and inside the vector, whatever the sizes.
THEOREM TypeInvariant == Spec => []TypeOK
<1>1. Init => TypeOK
  BY InitWellFormed DEF TypeOK
<1>2. TypeOK /\ [Next]_buf => TypeOK'
  <2>1. CASE Next
    BY <2>1, StepOfQueue DEF TypeOK
  <2>2. CASE UNCHANGED buf
    BY <2>2 DEF TypeOK, WellFormed
  <2> QED
    BY <2>1, <2>2
<1> QED
  BY <1>1, <1>2, PTL DEF Spec

\* No assertion inside a method fails.
THEOREM NoAssertionFails == Spec => []AssertionsHold
<1>1. TypeOK => AssertionsHold
  <2> SUFFICES ASSUME WellFormed(buf), NEW len \in 0..MaxReadable
               PROVE  /\ writableBytes(buf) < len =>
                            /\ tooSmall(buf, len) \/ kDiscardableSize < buf.readerIndex_
                            /\ readableBytes(makeSpace(buf, len)) = readableBytes(buf)
                      /\ writableBytes(ensureWritableBytes(buf, len)) >= len
    BY DEF TypeOK, AssertionsHold
  <2>1. len \in Nat /\ writableBytes(buf) \in Int
    BY SizesAssumption, LenProperties DEF WellFormed, writableBytes
  <2>2. CASE writableBytes(buf) < len
    BY <2>1, <2>2, SpaceIsMade DEF ensureWritableBytes
  <2>3. CASE ~(writableBytes(buf) < len)
    BY <2>1, <2>3 DEF ensureWritableBytes
  <2> QED
    BY <2>2, <2>3
<1> QED
  BY <1>1, TypeInvariant, PTL

\* xBuffer is a queue of bytes.
THEOREM ImplementsByteQueue == Spec => QueueSpec
<1>1. Init => Queue!Init
  BY InitWellFormed DEF Queue!Init
<1>2. TypeOK /\ [Next]_buf => [Queue!Next]_(toString(buf))
  <2>1. CASE Next
    BY <2>1, StepOfQueue DEF TypeOK
  <2>2. CASE UNCHANGED buf
    BY <2>2 DEF toString
  <2> QED
    BY <2>1, <2>2
<1> QED
  BY <1>1, <1>2, TypeInvariant, PTL DEF Spec, QueueSpec, Queue!Spec

\* What a growth of the vector says about its size, from what append and
\* fillFromFd guarantee.
LEMMA GrowthArithmetic ==
    ASSUME NEW b, WellFormed(b), NEW len \in Nat, tooSmall(b, len)
    PROVE  /\ readableBytes(b) + len > Len(b.buffer_) - kDiscardableSize
           /\ b.writerIndex_ + len <= kDiscardableSize + 2 * (readableBytes(b) + len)
<1>1. /\ Len(b.buffer_) \in Nat /\ b.readerIndex_ \in Nat /\ b.writerIndex_ \in Nat
      /\ b.readerIndex_ <= b.writerIndex_ /\ b.writerIndex_ <= Len(b.buffer_)
      /\ kDiscardableSize \in Nat
  BY LenProperties, SizesAssumption DEF WellFormed
<1>2. Len(b.buffer_) - b.writerIndex_ + b.readerIndex_ < len + kDiscardableSize
  BY DEF tooSmall, writableBytes, discardableBytes
<1> QED
  BY <1>1, <1>2 DEF readableBytes

\* The vector grows only when it must, and to less than twice its content.
THEOREM GrowthIsBounded == Spec => GrowthBounded
<1> DEFINE Growth ==
        Len(buf'.buffer_) # Len(buf.buffer_) =>
          /\ readableBytes(buf') > Len(buf.buffer_) - kDiscardableSize
          /\ Len(buf'.buffer_) <= kDiscardableSize + 2 * readableBytes(buf')
<1>1. TypeOK /\ [Next]_buf => [Growth]_buf
  <2> SUFFICES ASSUME WellFormed(buf), Next PROVE Growth
    BY DEF TypeOK
  <2>1. ASSUME NEW data \in Seq(Byte),
               readableBytes(buf') = readableBytes(buf) + Len(data),
               Len(buf'.buffer_) # Len(buf.buffer_) =>
                   /\ tooSmall(buf, Len(data))
                   /\ Len(buf'.buffer_) = buf.writerIndex_ + Len(data)
        PROVE  Growth
    BY <2>1, LenProperties, GrowthArithmetic
  <2>2. CASE AppendData
    BY <2>1, <2>2, ChunkAssumption, AppendAppends DEF AppendData
  <2>3. CASE FillFromFd
    BY <2>1, <2>3, ChunkAssumption, FillAppends DEF FillFromFd
  <2>4. CASE PrependData
    BY <2>4, ChunkAssumption, PrependPrepends DEF PrependData
  <2>5. CASE MoveOver
    BY <2>5, MoveOverDrops DEF MoveOver
  <2>6. CASE Unwrite
    BY <2>6, UnwriteDrops DEF Unwrite
  <2>7. CASE Reset
    BY <2>7 DEF Reset, reset, Members
  <2> QED
    BY <2>2, <2>3, <2>4, <2>5, <2>6, <2>7 DEF Next
<1> QED
  BY <1>1, TypeInvariant, PTL DEF Spec, GrowthBounded

-----------------------------------------------------------------------------
(* Integers: what the recursive functions compute.  Induction is by the    *)
(* least number that would be an exception.                                *)

LEMMA Least ==
    ASSUME NEW T \in SUBSET Nat, T # {}
    PROVE  \E m \in T : \A k \in T : m <= k
<1>1. PICK m \in T : \A k \in T : ~(<<k, m>> \in OpToRel(<, Nat))
  BY NatLessThanWellFounded, WFMin
<1>2. \A k \in T : ~(k < m)
  BY <1>1 DEF OpToRel
<1> QED
  BY <1>2

\* The first n powers of Base.
Powers(n, g) == g \in [0..n -> Nat] /\ g[0] = 1 /\ \A i \in 1..n : g[i] = Base * g[i - 1]

LEMMA PowersExist == \A n \in Nat : \E g : Powers(n, g)
<1> DEFINE T == {n \in Nat : ~\E g : Powers(n, g)}
<1> SUFFICES ASSUME T # {} PROVE FALSE
  OBVIOUS
<1>1. PICK n \in T : \A k \in T : n <= k
  BY Least
<1>2. n # 0
  <2>1. Powers(0, [i \in 0..0 |-> 1])
    BY DEF Powers
  <2> QED
    BY <1>1, <2>1
<1>3. PICK g : Powers(n - 1, g)
  BY <1>1, <1>2
<1> DEFINE h == [i \in 0..n |-> IF i = n THEN Base * g[n - 1] ELSE g[i]]
<1>4. Powers(n, h)
  <2>1. n \in Nat /\ n - 1 \in Nat /\ g[n - 1] \in Nat /\ Base \in Nat
    BY <1>2, <1>3, BaseAssumption DEF Powers
  <2>2. \A i \in 0..(n - 1) : h[i] = g[i] /\ g[i] \in Nat
    BY <1>3, <2>1 DEF Powers
  <2>3. h[n] = Base * g[n - 1] /\ h[n] \in Nat
    BY <2>1
  <2>4. h = [i \in 0..n |-> h[i]] /\ \A i \in 0..n : i = n \/ i \in 0..(n - 1)
    BY <2>1
  <2>6. 0 \in 0..(n - 1) /\ g[0] = 1
    BY <1>3, <2>1 DEF Powers
  <2>5. ASSUME NEW i \in 1..n
        PROVE  h[i] = Base * h[i - 1]
    <3>1. CASE i = n
      <4>1. h[n - 1] = g[n - 1]
        <5>1. n - 1 \in 0..(n - 1)
          BY <2>1
        <5> QED
          BY <2>2, <5>1
      <4> QED
        BY <2>3, <3>1, <4>1
    <3>2. CASE i # n
      <4>1. i \in 1..(n - 1) /\ i \in 0..(n - 1) /\ i - 1 \in 0..(n - 1)
        BY <2>1, <3>2
      <4>2. g[i] = Base * g[i - 1]
        BY <1>3, <4>1 DEF Powers
      <4> QED
        BY <2>2, <4>1, <4>2
    <3> QED
      BY <3>1, <3>2
  <2> HIDE DEF h
  <2>7. h \in [0..n -> Nat] /\ h[0] = 1
    BY <2>2, <2>3, <2>4, <2>6
  <2> QED
    BY <2>5, <2>7 DEF Powers
<1> HIDE DEF h
<1> QED
  BY <1>1, <1>4

LEMMA PowersAgree ==
    ASSUME NEW n \in Nat, NEW m \in Nat, NEW g, NEW h, Powers(n, g), Powers(m, h), n <= m
    PROVE  \A i \in 0..n : g[i] = h[i]
<1> DEFINE T == {i \in 0..n : g[i] # h[i]}
<1> SUFFICES ASSUME T # {} PROVE FALSE
  OBVIOUS
<1>1. PICK i \in T : \A k \in T : i <= k
  <2>1. T \in SUBSET Nat
    OBVIOUS
  <2> HIDE DEF T
  <2> QED
    BY <2>1, Least
<1>2. CASE i = 0
  BY <1>2 DEF Powers
<1>3. CASE i # 0
  <2>1. i \in 1..n /\ i \in 1..m /\ i - 1 \in 0..n /\ ~(i <= i - 1)
    BY <1>3
  <2>2. g[i - 1] = h[i - 1]
    BY <1>1, <2>1
  <2>3. g[i] = Base * g[i - 1] /\ h[i] = Base * h[i - 1]
    BY <2>1 DEF Powers
  <2> QED
    BY <2>2, <2>3
<1> QED
  BY <1>2, <1>3

LEMMA PowerIs ==
    /\ power[0] = 1
    /\ \A n \in Nat : power[n + 1] = Base * power[n]
    /\ \A n \in Nat : power[n] \in Nat
<1> DEFINE G(n) == CHOOSE g : Powers(n, g)
           f == [n \in Nat |-> G(n)[n]]
<1>1. \A n \in Nat : Powers(n, G(n))
  BY PowersExist
<1> HIDE DEF G
<1>2. ASSUME NEW n \in Nat
      PROVE  f[n] = IF n = 0 THEN 1 ELSE Base * f[n - 1]
  <2>1. CASE n = 0
    BY <1>1, <2>1 DEF Powers
  <2>2. CASE n # 0
    <3>1. n - 1 \in Nat /\ n \in 1..n /\ n - 1 <= n /\ n - 1 \in 0..(n - 1)
      BY <2>2
    <3>2. G(n)[n] = Base * G(n)[n - 1]
      BY <1>1, <3>1 DEF Powers
    <3>3. G(n - 1)[n - 1] = G(n)[n - 1]
      BY <1>1, <3>1, PowersAgree
    <3> QED
      BY <2>2, <3>1, <3>2, <3>3
  <2> QED
    BY <2>1, <2>2
<1>3. f = [n \in Nat |-> IF n = 0 THEN 1 ELSE Base * f[n - 1]]
  BY <1>2
<1> HIDE DEF f
<1>4. power = [n \in Nat |-> IF n = 0 THEN 1 ELSE Base * power[n - 1]]
  BY <1>3 DEF power
<1>5. power[0] = 1 /\ \A n \in Nat : power[n + 1] = Base * power[n]
  <2>1. ASSUME NEW n \in Nat
        PROVE  power[n + 1] = Base * power[n]
    <3>1. n + 1 \in Nat /\ n + 1 # 0 /\ (n + 1) - 1 = n
      OBVIOUS
    <3> QED
      BY <1>4, <3>1
  <2>2. power[0] = 1
    BY <1>4
  <2> QED
    BY <2>1, <2>2
<1>6. \A n \in Nat : power[n] \in Nat
  <2> DEFINE T == {n \in Nat : power[n] \notin Nat}
  <2> SUFFICES ASSUME T # {} PROVE FALSE
    OBVIOUS
  <2>1. PICK n \in T : \A k \in T : n <= k
    BY Least
  <2>2. n # 0
    BY <1>5, <2>1
  <2>3. n - 1 \in Nat /\ (n - 1) + 1 = n /\ ~(n <= n - 1)
    BY <2>2
  <2>4. power[n - 1] \in Nat
    BY <2>1, <2>3
  <2>5. power[n] = Base * power[n - 1]
    BY <1>5, <2>3
  <2> QED
    BY <2>1, <2>4, <2>5, BaseAssumption
<1> QED
  BY <1>5, <1>6

\* Division in two steps, and the remainders it leaves.
LEMMA DivModIs ==
    ASSUME NEW x \in Int, NEW b \in Nat, b > 0
    PROVE  /\ x \div b \in Int /\ x % b \in Nat /\ x % b < b
           /\ x = b * (x \div b) + (x % b)
OBVIOUS

LEMMA DivModUnique ==
    ASSUME NEW x \in Int, NEW b \in Nat, b > 0,
           NEW q \in Int, NEW r \in Nat, r < b, x = b * q + r
    PROVE  x \div b = q /\ x % b = r
OBVIOUS

LEMMA Digits ==
    ASSUME NEW p \in Nat, NEW r \in Nat, NEW b \in Nat, NEW t \in Nat, r < p, t < b
    PROVE  p * t + r \in Nat /\ p * t + r < p * b
<1>1. PICK k \in Nat : b = t + 1 + k
  <2>1. b - t - 1 \in Nat /\ b = t + 1 + (b - t - 1)
    OBVIOUS
  <2> QED
    BY <2>1
<1>2. p * (t + 1 + k) = p * t + p + p * k
  OBVIOUS
<1>3. p * k \in Nat /\ p * t \in Nat
  OBVIOUS
<1> QED
  BY <1>1, <1>2, <1>3

LEMMA DivDiv ==
    ASSUME NEW a \in Int, NEW p \in Nat, NEW b \in Nat, p > 0, b > 0
    PROVE  a \div (b * p) = (a \div p) \div b
<1> DEFINE y == a \div p
<1>1. y \in Int /\ a % p \in Nat /\ a % p < p /\ a = p * y + (a % p)
  BY DivModIs
<1> HIDE DEF y
<1>2. PICK r1 \in Nat : r1 < p /\ a = p * y + r1
  BY <1>1
<1>3. PICK q \in Int, r2 \in Nat : y \div b = q /\ r2 < b /\ y = b * q + r2
  BY <1>1, DivModIs
<1>4. p * r2 + r1 \in Nat /\ p * r2 + r1 < p * b
  BY <1>2, <1>3, Digits
<1>5. a = (b * p) * q + (p * r2 + r1)
  <2>1. p * (b * q + r2) = (b * p) * q + p * r2
    OBVIOUS
  <2> QED
    BY <1>1, <1>2, <1>3, <2>1
<1>6. b * p \in Nat /\ b * p > 0 /\ p * b = b * p
  OBVIOUS
<1>7. a \div (b * p) = q
  <2> DEFINE d == b * p
             r == p * r2 + r1
  <2>1. d \in Nat /\ d > 0 /\ r \in Nat /\ r < d /\ a = d * q + r
    BY <1>4, <1>5, <1>6
  <2> HIDE DEF d, r
  <2>2. a \div d = q
    BY <1>3, <2>1, DivModUnique
  <2> QED
    BY <2>2 DEF d
<1> QED
  BY <1>3, <1>7 DEF y

LEMMA ModMod ==
    ASSUME NEW y \in Int, NEW p \in Nat, NEW b \in Nat, p > 0, b > 0
    PROVE  b * ((y \div b) % p) + (y % b) = (y % (b * p))
<1>1. PICK q \in Int, r \in Nat : y \div b = q /\ y % b = r /\ r < b /\ y = b * q + r
  BY DivModIs
<1>2. PICK s \in Int, t \in Nat : q % p = t /\ t < p /\ q = p * s + t
  BY <1>1, DivModIs
<1>3. b * t + r \in Nat /\ b * t + r < b * p
  BY <1>1, <1>2, Digits
<1>4. y = (b * p) * s + (b * t + r)
  <2>1. b * (p * s + t) = (b * p) * s + b * t
    OBVIOUS
  <2> QED
    BY <1>1, <1>2, <2>1
<1>5. b * p \in Nat /\ b * p > 0
  OBVIOUS
<1>6. y % (b * p) = b * t + r
  <2> DEFINE d == b * p
             e == b * t + r
  <2>1. d \in Nat /\ d > 0 /\ e \in Nat /\ e < d /\ y = d * s + e
    BY <1>3, <1>4, <1>5
  <2> HIDE DEF d, e
  <2>2. y % d = e
    BY <1>2, <2>1, DivModUnique
  <2> QED
    BY <2>2 DEF d, e
<1> QED
  BY <1>1, <1>2, <1>6

LEMMA PowerPositive == \A n \in Nat : power[n] > 0
<1> DEFINE T == {n \in Nat : ~(power[n] > 0)}
<1> SUFFICES ASSUME T # {} PROVE FALSE
  OBVIOUS
<1>1. PICK n \in T : \A k \in T : n <= k
  BY Least
<1>2. n # 0
  BY PowerIs
<1>3. n - 1 \in Nat /\ (n - 1) + 1 = n /\ ~(n <= n - 1)
  BY <1>2
<1>4. power[n - 1] > 0 /\ power[n - 1] \in Nat
  BY <1>1, <1>3, PowerIs
<1>5. power[n] = Base * power[n - 1]
  BY <1>3, PowerIs
<1>6. PICK p \in Nat : p = power[n - 1] /\ p > 0
  BY <1>4
<1>7. Base * p > 0
  BY <1>6, BaseAssumption
<1> QED
  BY <1>1, <1>5, <1>6, <1>7

\* The two parts of a concatenation.
LEMMA FrontOfConcat ==
    ASSUME NEW s \in Seq(Byte), NEW t \in Seq(Byte), NEW n \in Nat, Len(s) = n
    PROVE  /\ SubSeq(s \o t, 1, n) = s
           /\ SubSeq(s \o t, n + 1, Len(s \o t)) = t
<1> DEFINE u == s \o t
<1>1. Len(t) \in Nat
  BY LenProperties
<1>2. /\ u \in Seq(Byte) /\ Len(u) = n + Len(t)
      /\ \A i \in 1..(n + Len(t)) : u[i] = IF i <= n THEN s[i] ELSE t[i - n]
  BY <1>1, Concatenation
<1>3. \A i \in 1..(n + Len(t)) : u[i] \in Byte
  BY <1>2, ElementOfSeq
<1> HIDE DEF u
<1>4. /\ SubSeq(u, 1, n) \in Seq(Byte) /\ Len(SubSeq(u, 1, n)) = n
      /\ \A i \in 1..n : SubSeq(u, 1, n)[i] = u[i]
  BY <1>1, <1>3, SubSeqProperties
<1>5. SubSeq(u, 1, n) = s
  BY <1>1, <1>2, <1>4, SeqEqual
<1>6. /\ SubSeq(u, n + 1, n + Len(t)) \in Seq(Byte)
      /\ Len(SubSeq(u, n + 1, n + Len(t))) = Len(t)
      /\ \A i \in 1..Len(t) : SubSeq(u, n + 1, n + Len(t))[i] = u[n + i]
  BY <1>1, <1>3, SubSeqProperties
<1>7. \A i \in 1..Len(t) : u[n + i] = t[i]
  BY <1>1, <1>2
<1>8. SubSeq(u, n + 1, n + Len(t)) = t
  BY <1>6, <1>7, SeqEqual
<1> QED
  BY <1>2, <1>5, <1>8 DEF u

\* The bytes of a number are bytes.
LEMMA NetworkBytes ==
    ASSUME NEW x \in Int, NEW n \in Nat
    PROVE  /\ hostToNetwork(x, n) \in Seq(Byte) /\ Len(hostToNetwork(x, n)) = n
           /\ \A i \in 1..n : hostToNetwork(x, n)[i] = (x \div power[n - i]) % Base
<1>1. ASSUME NEW i \in 1..n
      PROVE  (x \div power[n - i]) % Base \in Byte
  <2>1. PICK p \in Nat : p = power[n - i] /\ p > 0
    BY PowerIs, PowerPositive
  <2>2. x \div p \in Int
    BY <2>1, DivModIs
  <2>3. (x \div p) % Base \in Nat /\ (x \div p) % Base < Base
    BY <2>2, BaseAssumption, DivModIs
  <2> QED
    BY <2>1, <2>3, BaseAssumption DEF Byte
<1>2. hostToNetwork(x, n) \in [1..n -> Byte]
  BY <1>1 DEF hostToNetwork
<1> QED
  BY <1>2 DEF hostToNetwork

\* The first i of the n bytes of x make up what is left of x without the others, as far
\* as i bytes can hold it.
LEMMA ValuesAre ==
    ASSUME NEW x \in Int, NEW n \in Nat
    PROVE  values(hostToNetwork(x, n))[n] = x % power[n]
<1> DEFINE bytes == hostToNetwork(x, n)
           w == [i \in 0..n |-> (x \div power[n - i]) % power[i]]
           Is(v) == v = [i \in 0..n |-> IF i = 0 THEN 0 ELSE Base * v[i - 1] + bytes[i]]
<1>1. Len(bytes) = n /\ \A i \in 1..n : bytes[i] = (x \div power[n - i]) % Base
  BY NetworkBytes
<1> HIDE DEF bytes
<1>2. w[0] = 0
  <2>1. x \div power[n] \in Int
    BY PowerIs, PowerPositive, DivModIs
  <2>2. (x \div power[n]) % 1 = 0
    BY <2>1
  <2>3. 0 \in 0..n /\ n - 0 = n
    OBVIOUS
  <2> QED
    BY <2>2, <2>3, PowerIs
<1>3. ASSUME NEW i \in 1..n
      PROVE  w[i] = Base * w[i - 1] + bytes[i]
  <2>1. /\ i - 1 \in Nat /\ (i - 1) + 1 = i /\ n - i \in Nat /\ n - (i - 1) = (n - i) + 1
        /\ i \in 0..n /\ i - 1 \in 0..n
    OBVIOUS
  <2>2. PICK p \in Nat : p = power[i - 1] /\ p > 0 /\ power[i] = Base * p
    BY <2>1, PowerIs, PowerPositive
  <2>3. PICK q \in Nat : q = power[n - i] /\ q > 0 /\ power[n - (i - 1)] = Base * q
    BY <2>1, PowerIs, PowerPositive
  <2>4. PICK y \in Int : y = x \div q
    BY <2>3, DivModIs
  <2>5. x \div (Base * q) = y \div Base
    BY <2>3, <2>4, BaseAssumption, DivDiv
  <2>6. Base * ((y \div Base) % p) + (y % Base) = (y % (Base * p))
    <3>1. PICK b \in Nat : b = Base /\ b > 0
      BY BaseAssumption
    <3>2. b * ((y \div b) % p) + (y % b) = (y % (b * p))
      BY <2>2, <3>1, ModMod
    <3> QED
      BY <3>1, <3>2
  <2>7. w[i] = y % (Base * p)
    BY <2>1, <2>2, <2>3, <2>4
  <2>8. w[i - 1] = (y \div Base) % p
    BY <2>1, <2>2, <2>3, <2>5
  <2>9. bytes[i] = y % Base
    BY <1>1, <2>3, <2>4
  <2> QED
    BY <2>6, <2>7, <2>8, <2>9
<1>4. w = [i \in 0..n |-> w[i]]
  OBVIOUS
<1>5. w[n] = x % power[n]
  <2>1. n \in 0..n /\ n - n = 0 /\ power[0] = 1 /\ x \div 1 = x
    BY PowerIs
  <2> QED
    BY <2>1
<1> HIDE DEF w
<1>6. Is(w)
  <2>1. ASSUME NEW i \in 0..n
        PROVE  w[i] = IF i = 0 THEN 0 ELSE Base * w[i - 1] + bytes[i]
    <3>1. CASE i = 0
      BY <1>2, <3>1
    <3>2. CASE i # 0
      <4>1. i \in 1..n
        BY <3>2
      <4> QED
        BY <1>3, <3>2, <4>1
    <3> QED
      BY <3>1, <3>2
  <2> QED
    BY <1>4, <2>1
<1>7. values(bytes) = CHOOSE v : Is(v)
  BY <1>1 DEF values
<1>8. Is(values(bytes))
  BY <1>6, <1>7
<1>9. \A i \in 0..n : values(bytes)[i] = w[i]
  <2> DEFINE v == values(bytes)
             T == {i \in 0..n : v[i] # w[i]}
  <2> HIDE DEF v
  <2> SUFFICES ASSUME T # {} PROVE FALSE
    BY DEF v
  <2>1. PICK i \in T : \A k \in T : i <= k
    <3>1. T \in SUBSET Nat
      OBVIOUS
    <3> HIDE DEF T
    <3> QED
      BY <3>1, Least
  <2>2. v[0] = 0 /\ \A j \in 1..n : v[j] = Base * v[j - 1] + bytes[j]
    <3>1. ASSUME NEW z, Is(z)
          PROVE  z[0] = 0 /\ \A j \in 1..n : z[j] = Base * z[j - 1] + bytes[j]
      <4>1. \A j \in 0..n : z[j] = IF j = 0 THEN 0 ELSE Base * z[j - 1] + bytes[j]
        BY <3>1
      <4>2. 0 \in 0..n /\ \A j \in 1..n : j \in 0..n /\ j # 0
        OBVIOUS
      <4> QED
        BY <4>1, <4>2
    <3> HIDE DEF Is
    <3> QED
      BY <1>8, <3>1 DEF v
  <2>3. CASE i = 0
    BY <1>2, <2>2, <2>3
  <2>4. CASE i # 0
    <3>1. i \in 1..n /\ i - 1 \in 0..n /\ ~(i <= i - 1)
      BY <2>4
    <3>2. v[i - 1] = w[i - 1]
      BY <2>1, <3>1
    <3> QED
      BY <1>3, <2>1, <2>2, <3>1, <3>2
  <2> QED
    BY <2>3, <2>4
<1> QED
  BY <1>5, <1>9 DEF bytes

\* What networkToHost makes of the n bytes of x is x, if n bytes can hold it
\* (xendian.h:19-47).
THEOREM RoundTrip ==
    ASSUME NEW n \in Nat, NEW x \in (-(power[n] \div 2))..(power[n] \div 2 - 1)
    PROVE  networkToHost(hostToNetwork(x, n)) = x
<1>1. PICK p \in Nat : p = power[n] /\ p > 0
  BY PowerIs, PowerPositive
<1>2. x \in Int /\ -(p \div 2) <= x /\ x <= p \div 2 - 1
  BY <1>1
<1>3. 2 * (p \div 2) <= p /\ p \div 2 \in Int
  BY <1>1
<1>4. PICK u : u = unsigned(hostToNetwork(x, n))
  OBVIOUS
<1>5. u = x % p /\ Len(hostToNetwork(x, n)) = n
  BY <1>1, <1>2, <1>4, ValuesAre, NetworkBytes DEF unsigned
<1>6. networkToHost(hostToNetwork(x, n)) = IF 2 * u >= p THEN u - p ELSE u
  BY <1>1, <1>4, <1>5 DEF networkToHost
<1>7. CASE x >= 0
  <2>1. PICK q \in Int, r \in Nat : q = 0 /\ r = x /\ r < p /\ x = p * q + r
    BY <1>2, <1>3, <1>7
  <2>2. u = x
    BY <1>1, <1>2, <1>5, <2>1, DivModUnique
  <2> QED
    BY <1>2, <1>3, <1>6, <2>2
<1>8. CASE ~(x >= 0)
  <2>1. PICK q \in Int, r \in Nat : q = -1 /\ r = x + p /\ r < p /\ x = p * q + r
    BY <1>1, <1>2, <1>3, <1>8
  <2>2. u = x + p
    BY <1>1, <1>2, <1>5, <2>1, DivModUnique
  <2> QED
    BY <1>1, <1>2, <1>3, <1>6, <2>2
<1> QED
  BY <1>7, <1>8

\* A number that fits is read as it was prepended, and what was in the buffer stays
\* (buffer.h:269-349).
THEOREM PrependedIsRead == Spec => []PrependedIntIsRead
<1>1. TypeOK => PrependedIntIsRead
  <2> SUFFICES ASSUME WellFormed(buf), NEW n \in 1..discardableBytes(buf),
                      NEW x \in (-(power[n] \div 2))..(power[n] \div 2 - 1)
               PROVE  /\ peekInt(prependInt(buf, x, n), n) = x
                      /\ toString(moveOver(prependInt(buf, x, n), n)) = toString(buf)
    BY DEF TypeOK, PrependedIntIsRead, readInt
  <2> DEFINE data == hostToNetwork(x, n)
             c == prepend(buf, data)
             text == toString(buf)
  <2>1. n \in Nat /\ x \in Int /\ n <= discardableBytes(buf)
    <3>1. discardableBytes(buf) \in Nat
      BY DEF WellFormed, discardableBytes
    <3>2. power[n] \in Nat
      BY PowerIs
    <3> QED
      BY <3>1, <3>2
  <2>2. data \in Seq(Byte) /\ Len(data) = n
    BY <2>1, NetworkBytes
  <2> HIDE DEF data
  <2>3. WellFormed(c) /\ toString(c) = data \o text
    BY <2>1, <2>2, PrependPrepends
  <2>4. text \in Seq(Byte) /\ Len(text) \in Nat
    <3>1. text \in Seq(Byte)
      BY Content
    <3> QED
      BY <3>1, LenProperties
  <2> HIDE DEF c, text
  <2>5. /\ data \o text \in Seq(Byte) /\ Len(data \o text) = n + Len(text)
        /\ \A i \in 1..(n + Len(text)) :
              (data \o text)[i] = IF i <= n THEN data[i] ELSE text[i - n]
    BY <2>2, <2>4, Concatenation
  <2>6. SubSeq(data \o text, 1, n) = data
    BY <2>1, <2>2, <2>4, <2>5, FrontOfConcat
  <2>7. SubSeq(data \o text, n + 1, Len(data \o text)) = text
    BY <2>1, <2>2, <2>4, <2>5, FrontOfConcat
  <2>8. n \in 0..readableBytes(c)
    <3>1. readableBytes(c) = n + Len(text)
      BY <2>3, <2>5, Content DEF readableBytes
    <3> QED
      BY <2>1, <2>4, <3>1
  <2>9. toString(moveOver(c, n)) = text
    BY <2>3, <2>7, <2>8, MoveOverDrops
  <2>10. peekInt(c, n) = x
    <3>1. networkToHost(data) = x
      BY <2>1, RoundTrip DEF data
    <3> QED
      BY <2>3, <2>6, <3>1 DEF peekInt
  <2> QED
    BY <2>9, <2>10 DEF c, text, data, prependInt
<1> QED
  BY <1>1, TypeInvariant, PTL
=============================================================================
