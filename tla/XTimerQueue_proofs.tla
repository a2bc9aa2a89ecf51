-------------------------- MODULE XTimerQueue_proofs -------------------------
(***************************************************************************)
(* IInv of XTimerQueueProps is inductive: for every number of timers,      *)
(* whatever their intervals and repeats, and whatever callbacks add and    *)
(* remove while triggerTimer walks over the set.                           *)
(***************************************************************************)
EXTENDS XTimerQueueProps, SequenceTheorems, TLAPS

USE DEF clock, data, pass, past

-----------------------------------------------------------------------------
(* Sequences                                                               *)

\* A part of a sequence.
LEMMA Part ==
    ASSUME NEW S, NEW s \in Seq(S), NEW m \in 1..(Len(s) + 1), NEW n \in (m - 1)..Len(s)
    PROVE  /\ SubSeq(s, m, n) \in Seq(S) /\ Len(SubSeq(s, m, n)) = n - m + 1
           /\ \A i \in 1..(n - m + 1) : SubSeq(s, m, n)[i] = s[m + i - 1]
<1>1. m \in Int /\ n \in Int /\ \A i \in m..n : s[i] \in S
  OBVIOUS
<1>2. /\ SubSeq(s, m, n) \in Seq(S)
      /\ Len(SubSeq(s, m, n)) = IF m <= n THEN n - m + 1 ELSE 0
      /\ \A i \in 1..(n - m + 1) : SubSeq(s, m, n)[i] = s[m + i - 1]
  BY <1>1, SubSeqProperties
<1> QED
  BY <1>2

\* A timer goes into a gap of the set: the others keep their order.
LEMMA Inserted ==
    ASSUME NEW S, NEW s \in Seq(S), IsInjective(s), NEW x \in S, x \notin Elements(s),
           NEW p \in 0..Len(s)
    PROVE  LET r == InsertAt(s, p + 1, x)
           IN  /\ r \in Seq(S) /\ Len(r) = Len(s) + 1
               /\ r[p + 1] = x
               /\ \A n \in 1..p : r[n] = s[n]
               /\ \A n \in (p + 2)..(Len(s) + 1) : r[n] = s[n - 1]
               /\ Elements(r) = Elements(s) \cup {x}
               /\ IsInjective(r)
               /\ \A u, v : u # x /\ v # x => (Before(r, u, v) <=> Before(s, u, v))
               /\ \A u : Before(r, u, x) => u = x \/ \E m \in 1..p : s[m] = u
               /\ \A v : Before(r, x, v) => v = x \/ \E m \in (p + 1)..Len(s) : s[m] = v
<1> DEFINE r == InsertAt(s, p + 1, x)
<1> DEFINE a == SubSeq(s, 1, p)
           b == <<x>>
           c == SubSeq(s, p + 1, Len(s))
<1>1. a \in Seq(S) /\ Len(a) = p /\ \A n \in 1..p : a[n] = s[n]
  <2>1. 1 \in 1..(Len(s) + 1) /\ p \in (1 - 1)..Len(s)
    OBVIOUS
  <2> QED
    BY <2>1, Part
<1>2. c \in Seq(S) /\ Len(c) = Len(s) - p /\ \A n \in 1..(Len(s) - p) : c[n] = s[p + n]
  <2>1. p + 1 \in 1..(Len(s) + 1) /\ Len(s) \in ((p + 1) - 1)..Len(s)
    OBVIOUS
  <2>2. /\ c \in Seq(S) /\ Len(c) = Len(s) - (p + 1) + 1
        /\ \A i \in 1..(Len(s) - (p + 1) + 1) : c[i] = s[(p + 1) + i - 1]
    BY <2>1, Part
  <2> QED
    BY <2>2
<1>3. b \in Seq(S) /\ Len(b) = 1 /\ b[1] = x
  <2>1. x \in S
    OBVIOUS
  <2> QED
    BY <2>1
<1>3a. r = a \o b \o c
  <2>1. (p + 1) - 1 = p
    OBVIOUS
  <2> QED
    BY <2>1 DEF InsertAt
<1> HIDE DEF a, b, c
<1>3b. /\ a \o b \in Seq(S) /\ Len(a \o b) = p + 1
       /\ \A i \in 1..(p + 1) : (a \o b)[i] = IF i <= p THEN a[i] ELSE b[i - p]
  <2>1. /\ a \o b \in Seq(S) /\ Len(a \o b) = Len(a) + Len(b)
        /\ \A i \in 1..(Len(a) + Len(b)) :
              (a \o b)[i] = IF i <= Len(a) THEN a[i] ELSE b[i - Len(a)]
    BY <1>1, <1>3, ConcatProperties
  <2> QED
    BY <2>1, <1>1, <1>3
<1>3c. /\ (a \o b) \o c \in Seq(S) /\ Len((a \o b) \o c) = Len(s) + 1
       /\ \A i \in 1..(Len(s) + 1) :
             ((a \o b) \o c)[i] = IF i <= p + 1 THEN (a \o b)[i] ELSE c[i - (p + 1)]
  <2>1. p + 1 + (Len(s) - p) = Len(s) + 1
    OBVIOUS
  <2> QED
    BY <2>1, <1>2, <1>3b, ConcatProperties
<1> HIDE DEF r
<1>4. r \in Seq(S) /\ Len(r) = Len(s) + 1
  BY <1>3a, <1>3c
<1>5. r[p + 1] = x /\ \A n \in 1..p : r[n] = s[n]
  <2>1. p + 1 \in 1..(Len(s) + 1) /\ ~(p + 1 <= p) /\ (p + 1) - p = 1
    OBVIOUS
  <2>2. ASSUME NEW n \in 1..p
        PROVE  n \in 1..(Len(s) + 1) /\ n \in 1..(p + 1) /\ n <= p + 1 /\ n <= p
    OBVIOUS
  <2> QED
    BY <1>3a, <1>3b, <1>3c, <1>1, <1>3, <2>1, <2>2
<1>6. ASSUME NEW n \in (p + 2)..(Len(s) + 1) PROVE r[n] = s[n - 1]
  <2>1. n - (p + 1) \in 1..(Len(s) - p) /\ p + (n - (p + 1)) = n - 1
    OBVIOUS
  <2>2. r[n] = c[n - (p + 1)]
    BY <1>3a, <1>3c
  <2> QED
    BY <2>1, <2>2, <1>2
<1>7. Elements(r) = Elements(s) \cup {x}
  <2>1. ASSUME NEW n \in 1..Len(r) PROVE r[n] \in Elements(s) \cup {x}
    <3>1. CASE n <= p
      BY <3>1, <1>5 DEF Elements
    <3>2. CASE n = p + 1
      BY <3>2, <1>5
    <3>3. CASE n > p + 1
      <4>1. n \in (p + 2)..(Len(s) + 1) /\ n - 1 \in 1..Len(s)
        BY <3>3, <1>4
      <4> QED
        BY <4>1, <1>6 DEF Elements
    <3> QED
      BY <3>1, <3>2, <3>3
  <2>2. ASSUME NEW n \in 1..Len(s) PROVE s[n] \in Elements(r)
    <3>1. CASE n <= p
      <4>1. n \in 1..p /\ n \in 1..Len(r)
        BY <3>1, <1>4
      <4> QED
        BY <4>1, <1>5 DEF Elements
    <3>2. CASE n > p
      <4>1. n + 1 \in (p + 2)..(Len(s) + 1) /\ n + 1 \in 1..Len(r) /\ (n + 1) - 1 = n
        BY <3>2, <1>4
      <4>2. r[n + 1] = s[n]
        BY <4>1, <1>6
      <4> QED
        BY <4>1, <4>2 DEF Elements
    <3> QED
      BY <3>1, <3>2
  <2>3. x \in Elements(r)
    <3>1. p + 1 \in 1..Len(r)
      BY <1>4
    <3> QED
      BY <3>1, <1>5 DEF Elements
  <2> QED
    BY <2>1, <2>2, <2>3 DEF Elements
<1> DEFINE old(k) == IF k <= p THEN k ELSE k - 1
<1>8. ASSUME NEW k \in 1..Len(r), k # p + 1
      PROVE  old(k) \in 1..Len(s) /\ r[k] = s[old(k)] /\ r[k] # x
  <2>1. old(k) \in 1..Len(s)
    BY <1>8, <1>4
  <2>2. r[k] = s[old(k)]
    <3>1. CASE k <= p
      BY <3>1, <1>5
    <3>2. CASE k > p
      <4>1. k \in (p + 2)..(Len(s) + 1)
        BY <3>2, <1>8, <1>4
      <4> QED
        BY <4>1, <1>6, <3>2
    <3> QED
      BY <3>1, <3>2
  <2>3. s[old(k)] # x
    BY <2>1 DEF Elements
  <2> QED
    BY <2>1, <2>2, <2>3
<1>9. IsInjective(r)
  <2> SUFFICES ASSUME NEW m \in 1..Len(r), NEW n \in 1..Len(r), r[m] = r[n]
               PROVE  m = n
    BY <1>4 DEF IsInjective
  <2>2. CASE m = p + 1 \/ n = p + 1
    BY <2>2, <1>8, <1>5
  <2>3. CASE m # p + 1 /\ n # p + 1
    <3>1. old(m) \in 1..Len(s) /\ old(n) \in 1..Len(s) /\ s[old(m)] = s[old(n)]
      BY <1>8, <2>3
    <3>2. old(m) = old(n)
      <4> HIDE DEF old
      <4> QED
        BY <3>1 DEF IsInjective
    <3> QED
      BY <3>2, <2>3
  <2> QED
    BY <2>2, <2>3
<1>10. ASSUME NEW u, NEW v, u # x, v # x, Before(r, u, v) PROVE Before(s, u, v)
  <2>1. PICK m \in 1..Len(r), n \in 1..Len(r) : m <= n /\ r[m] = u /\ r[n] = v
    BY <1>10 DEF Before
  <2>2. m # p + 1 /\ n # p + 1
    BY <2>1, <1>10, <1>5
  <2>3. old(m) \in 1..Len(s) /\ old(n) \in 1..Len(s) /\ s[old(m)] = u /\ s[old(n)] = v
    BY <2>1, <2>2, <1>8
  <2>4. old(m) <= old(n)
    BY <2>1, <2>2
  <2> QED
    BY <2>3, <2>4 DEF Before
<1>11. ASSUME NEW u, NEW v, Before(s, u, v) PROVE Before(r, u, v)
  <2> DEFINE new(k) == IF k <= p THEN k ELSE k + 1
  <2>1. PICK m \in 1..Len(s), n \in 1..Len(s) : m <= n /\ s[m] = u /\ s[n] = v
    BY <1>11 DEF Before
  <2>2. ASSUME NEW k \in 1..Len(s) PROVE new(k) \in 1..Len(r) /\ r[new(k)] = s[k]
    <3>1. CASE k <= p
      BY <3>1, <1>4, <1>5
    <3>2. CASE k > p
      <4>1. k + 1 \in (p + 2)..(Len(s) + 1) /\ (k + 1) - 1 = k
        BY <3>2
      <4>2. r[k + 1] = s[k]
        BY <4>1, <1>6
      <4> QED
        BY <4>2, <3>2, <1>4
    <3> QED
      BY <3>1, <3>2
  <2>3. new(m) <= new(n)
    BY <2>1
  <2>4. new(m) \in 1..Len(r) /\ new(n) \in 1..Len(r) /\ r[new(m)] = u /\ r[new(n)] = v
    BY <2>1, <2>2
  <2> QED
    BY <2>3, <2>4 DEF Before
<1>12. ASSUME NEW m \in 1..Len(r), r[m] = x PROVE m = p + 1
  BY <1>8, <1>12
<1>13. ASSUME NEW u, Before(r, u, x), u # x PROVE \E m \in 1..p : s[m] = u
  <2>1. PICK m \in 1..Len(r), n \in 1..Len(r) : m <= n /\ r[m] = u /\ r[n] = x
    BY <1>13 DEF Before
  <2>2. n = p + 1 /\ m # p + 1
    BY <2>1, <1>12, <1>13, <1>5
  <2>3. m \in 1..p
    BY <2>1, <2>2
  <2> QED
    BY <2>1, <2>3, <1>5
<1>14. ASSUME NEW v, Before(r, x, v), v # x PROVE \E m \in (p + 1)..Len(s) : s[m] = v
  <2>1. PICK m \in 1..Len(r), n \in 1..Len(r) : m <= n /\ r[m] = x /\ r[n] = v
    BY <1>14 DEF Before
  <2>2. m = p + 1 /\ n # p + 1
    BY <2>1, <1>12, <1>14, <1>5
  <2>3. n \in (p + 2)..(Len(s) + 1) /\ n - 1 \in (p + 1)..Len(s)
    BY <2>1, <2>2, <1>4
  <2> QED
    BY <2>1, <2>3, <1>6
<1> QED
  BY <1>4, <1>5, <1>6, <1>7, <1>9, <1>10, <1>11, <1>13, <1>14 DEF r

\* The timers from the p-th to the q-th leave the set: the others keep their order.
LEMMA Removed ==
    ASSUME NEW S, NEW s \in Seq(S), IsInjective(s), NEW p \in 1..Len(s), NEW q \in p..Len(s)
    PROVE  LET r == SubSeq(s, 1, p - 1) \o SubSeq(s, q + 1, Len(s))
               gone == {s[n] : n \in p..q}
           IN  /\ r \in Seq(S) /\ IsInjective(r)
               /\ Elements(r) = Elements(s) \ gone
               /\ \A u, v : Before(r, u, v) <=> Before(s, u, v) /\ u \notin gone /\ v \notin gone
<1> DEFINE a == SubSeq(s, 1, p - 1)
           c == SubSeq(s, q + 1, Len(s))
           r == a \o c
           gone == {s[n] : n \in p..q}
<1>0. q \in 1..Len(s) /\ p <= q /\ Len(s) \in Nat /\ p \in Int /\ q \in Int
  OBVIOUS
<1>1. a \in Seq(S) /\ Len(a) = p - 1 /\ \A n \in 1..(p - 1) : a[n] = s[n]
  <2>1. 1 \in 1..(Len(s) + 1) /\ p - 1 \in (1 - 1)..Len(s)
    OBVIOUS
  <2>2. /\ a \in Seq(S) /\ Len(a) = (p - 1) - 1 + 1
        /\ \A i \in 1..((p - 1) - 1 + 1) : a[i] = s[1 + i - 1]
    BY <2>1, Part
  <2> QED
    BY <2>2
<1>2. c \in Seq(S) /\ Len(c) = Len(s) - q /\ \A n \in 1..(Len(s) - q) : c[n] = s[q + n]
  <2>1. q + 1 \in 1..(Len(s) + 1) /\ Len(s) \in ((q + 1) - 1)..Len(s)
    BY <1>0
  <2>2. /\ c \in Seq(S) /\ Len(c) = Len(s) - (q + 1) + 1
        /\ \A i \in 1..(Len(s) - (q + 1) + 1) : c[i] = s[(q + 1) + i - 1]
    BY <2>1, Part
  <2> QED
    BY <2>2, <1>0
<1> DEFINE l == (p - 1) + (Len(s) - q)
<1> HIDE DEF a, c
<1>3. /\ r \in Seq(S) /\ Len(r) = l
      /\ \A i \in 1..l : r[i] = IF i <= p - 1 THEN a[i] ELSE c[i - (p - 1)]
  <2>1. /\ r \in Seq(S) /\ Len(r) = Len(a) + Len(c)
        /\ \A i \in 1..(Len(a) + Len(c)) :
              r[i] = IF i <= Len(a) THEN a[i] ELSE c[i - Len(a)]
    BY <1>1, <1>2, ConcatProperties
  <2> QED
    BY <2>1, <1>1, <1>2
<1> HIDE DEF r
<1> DEFINE old(k) == IF k < p THEN k ELSE k + (q - p + 1)
<1>4. ASSUME NEW k \in 1..Len(r)
      PROVE  old(k) \in 1..Len(s) /\ r[k] = s[old(k)] /\ old(k) \notin p..q
  <2>1. CASE k < p
    <3>1. k \in 1..(p - 1) /\ k \in 1..l /\ k <= p - 1
      BY <2>1, <1>0, <1>3
    <3>2. r[k] = s[k]
      BY <3>1, <1>1, <1>3
    <3> QED
      BY <2>1, <3>2, <1>0
  <2>2. CASE k >= p
    <3>1. k \in 1..l /\ ~(k <= p - 1) /\ k - (p - 1) \in 1..(Len(s) - q)
      BY <2>2, <1>0, <1>3
    <3>2. r[k] = s[q + (k - (p - 1))]
      BY <3>1, <1>2, <1>3
    <3>3. q + (k - (p - 1)) = k + (q - p + 1) /\ ~(k < p)
      BY <2>2, <1>0
    <3>4. k + (q - p + 1) \in 1..Len(s) /\ k + (q - p + 1) \notin p..q
      BY <2>2, <1>0, <1>3
    <3> QED
      BY <3>2, <3>3, <3>4
  <2> QED
    BY <2>1, <2>2, <1>0, <1>3
<1>5. ASSUME NEW k \in 1..Len(r), NEW n \in 1..Len(r)
      PROVE  (old(k) <= old(n) <=> k <= n) /\ (old(k) = old(n) => k = n)
  BY <1>0
<1> DEFINE new(k) == IF k < p THEN k ELSE k - (q - p + 1)
<1>6. ASSUME NEW k \in 1..Len(s), k \notin p..q
      PROVE  new(k) \in 1..Len(r) /\ r[new(k)] = s[k]
  <2>1. CASE k < p
    <3>1. k \in 1..(p - 1) /\ k \in 1..l /\ k <= p - 1
      BY <2>1, <1>0
    <3> QED
      BY <2>1, <3>1, <1>1, <1>3
  <2>2. CASE k > q
    <3>1. PICK j \in Int : j = k - (q - p + 1)
      BY <1>0
    <3>2. j \in 1..l /\ ~(j <= p - 1) /\ j - (p - 1) \in 1..(Len(s) - q) /\ q + (j - (p - 1)) = k
      BY <2>2, <1>0, <3>1
    <3>3. r[j] = s[q + (j - (p - 1))]
      BY <3>2, <1>2, <1>3
    <3>4. new(k) = j
      BY <2>2, <1>0, <3>1
    <3> QED
      BY <3>2, <3>3, <3>4, <1>3
  <2> QED
    BY <2>1, <2>2, <1>6, <1>0
<1>7. ASSUME NEW k \in 1..Len(s), k \notin p..q PROVE s[k] \notin gone
  BY <1>7, <1>0 DEF IsInjective
<1> HIDE DEF old
<1>8. Elements(r) = Elements(s) \ gone
  <2>1. ASSUME NEW k \in 1..Len(r) PROVE r[k] \in Elements(s) \ gone
    <3>1. PICK n \in 1..Len(s) : r[k] = s[n] /\ n \notin p..q
      BY <1>4
    <3> QED
      BY <3>1, <1>7 DEF Elements
  <2>2. ASSUME NEW n \in 1..Len(s), s[n] \notin gone PROVE s[n] \in Elements(r)
    <3>1. n \notin p..q
      BY <2>2
    <3> HIDE DEF new
    <3> QED
      BY <3>1, <1>6 DEF Elements
  <2> QED
    BY <2>1, <2>2 DEF Elements
<1>9. IsInjective(r)
  <2> SUFFICES ASSUME NEW m \in 1..Len(r), NEW n \in 1..Len(r), r[m] = r[n]
               PROVE  m = n
    BY <1>3 DEF IsInjective
  <2>1. old(m) \in 1..Len(s) /\ old(n) \in 1..Len(s) /\ s[old(m)] = s[old(n)]
    BY <1>4
  <2>2. old(m) = old(n)
    BY <2>1 DEF IsInjective
  <2> QED
    BY <2>2, <1>5
<1>10. ASSUME NEW u, NEW v, Before(r, u, v)
       PROVE  Before(s, u, v) /\ u \notin gone /\ v \notin gone
  <2>1. PICK m \in 1..Len(r), n \in 1..Len(r) : m <= n /\ r[m] = u /\ r[n] = v
    BY <1>10 DEF Before
  <2>2. old(m) \in 1..Len(s) /\ old(n) \in 1..Len(s) /\ s[old(m)] = u /\ s[old(n)] = v
    BY <2>1, <1>4
  <2>3. old(m) <= old(n)
    BY <2>1, <1>5
  <2>4. u \in Elements(r) /\ v \in Elements(r)
    BY <2>1 DEF Elements
  <2> QED
    BY <2>2, <2>3, <2>4, <1>8 DEF Before
<1>11. ASSUME NEW u, NEW v, Before(s, u, v), u \notin gone, v \notin gone
       PROVE  Before(r, u, v)
  <2>1. PICK m \in 1..Len(s), n \in 1..Len(s) : m <= n /\ s[m] = u /\ s[n] = v
    BY <1>11 DEF Before
  <2>2. m \notin p..q /\ n \notin p..q
    BY <2>1, <1>11
  <2>3. new(m) <= new(n)
    BY <2>1, <2>2, <1>0
  <2>4. new(m) \in 1..Len(r) /\ new(n) \in 1..Len(r) /\ r[new(m)] = u /\ r[new(n)] = v
    BY <2>1, <2>2, <1>6
  <2> QED
    BY <2>3, <2>4 DEF Before
<1> QED
  BY <1>3, <1>8, <1>9, <1>10, <1>11 DEF r, a, c

\* Where a timer of the set stands, and which comes after it.
LEMMA Place ==
    ASSUME TypeOK, NEW t \in Elements(timers_)
    PROVE  /\ place(t) \in 1..Len(timers_) /\ timers_[place(t)] = t
           /\ \A n \in 1..Len(timers_) : timers_[n] = t => n = place(t)
           /\ place(t) = Len(timers_) => after(t) = 0
           /\ place(t) # Len(timers_) =>
                 /\ place(t) + 1 \in 1..Len(timers_)
                 /\ after(t) = timers_[place(t) + 1]
                 /\ after(t) \in Elements(timers_) \ {t}
<1>1. place(t) \in 1..Len(timers_) /\ timers_[place(t)] = t
  BY DEF place, Elements
<1>2. \A n \in 1..Len(timers_) : timers_[n] = t => n = place(t)
  BY <1>1 DEF TypeOK, IsInjective
<1>3. ASSUME place(t) # Len(timers_)
      PROVE  place(t) + 1 \in 1..Len(timers_) /\ timers_[place(t) + 1] \in Elements(timers_) \ {t}
  <2>1. place(t) + 1 \in 1..Len(timers_)
    BY <1>1, <1>3 DEF TypeOK
  <2>2. timers_[place(t) + 1] # t
    BY <1>2, <2>1, <1>1
  <2> QED
    BY <2>1, <2>2 DEF Elements
<1> QED
  BY <1>1, <1>2, <1>3 DEF after

\* The order of the iterators.
LEMMA Order ==
    ASSUME NEW S, NEW s \in Seq(S), IsInjective(s)
    PROVE  /\ \A t \in Elements(s) : Before(s, t, t)
           /\ \A t, u : Before(s, t, u) => t \in Elements(s) /\ u \in Elements(s)
           /\ \A t, u \in Elements(s) : Before(s, t, u) \/ Before(s, u, t)
           /\ \A t, u : Before(s, t, u) /\ Before(s, u, t) => t = u
           /\ \A t, u, v : Before(s, t, u) /\ Before(s, u, v) => Before(s, t, v)
<1>1. \A m, n \in 1..Len(s) : s[m] = s[n] => m = n
  BY DEF IsInjective
<1>2. \A t, u \in Elements(s) : Before(s, t, u) \/ Before(s, u, t)
  BY DEF Elements, Before
<1>3. ASSUME NEW t, NEW u, Before(s, t, u), Before(s, u, t) PROVE t = u
  <2>1. PICK m \in 1..Len(s), n \in 1..Len(s) : m <= n /\ s[m] = t /\ s[n] = u
    BY <1>3 DEF Before
  <2>2. PICK k \in 1..Len(s), l \in 1..Len(s) : k <= l /\ s[k] = u /\ s[l] = t
    BY <1>3 DEF Before
  <2>3. k = n /\ l = m
    BY <2>1, <2>2, <1>1
  <2> QED
    BY <2>1, <2>2, <2>3
<1>4. ASSUME NEW t, NEW u, NEW v, Before(s, t, u), Before(s, u, v) PROVE Before(s, t, v)
  <2>1. PICK m \in 1..Len(s), n \in 1..Len(s) : m <= n /\ s[m] = t /\ s[n] = u
    BY <1>4 DEF Before
  <2>2. PICK k \in 1..Len(s), l \in 1..Len(s) : k <= l /\ s[k] = u /\ s[l] = v
    BY <1>4 DEF Before
  <2>3. k = n
    BY <2>1, <2>2, <1>1
  <2>4. m <= l
    BY <2>1, <2>2, <2>3
  <2> QED
    BY <2>1, <2>2, <2>4 DEF Before
<1>5. \A t \in Elements(s) : Before(s, t, t)
  BY <1>2
<1>6. \A t, u : Before(s, t, u) => t \in Elements(s) /\ u \in Elements(s)
  BY DEF Before, Elements
<1> QED
  BY <1>2, <1>3, <1>4, <1>5, <1>6

\* The iterator moves on: what comes after it is what came after it and is not it.
LEMMA Successor ==
    ASSUME TypeOK, NEW t \in Elements(timers_)
    PROVE  /\ after(t) \in Elements(timers_) \cup {0} /\ after(t) # t
           /\ \A u : Before(timers_, after(t), u) <=> Before(timers_, t, u) /\ u # t
<1>1. timers_ \in Seq(1..created) /\ IsInjective(timers_) /\ created \in Nat
  BY BoundsAssumption DEF TypeOK
<1>2. \A n \in 1..Len(timers_) : timers_[n] \in 1..created /\ timers_[n] # 0
  BY <1>1
<1>3. t # 0
  BY <1>2 DEF Elements
<1>4. CASE place(t) = Len(timers_)
  <2>1. after(t) = 0
    BY <1>4, Place
  <2>2. \A u : ~Before(timers_, after(t), u)
    BY <2>1, <1>2 DEF Before
  <2>3. ASSUME NEW u, Before(timers_, t, u) PROVE u = t
    <3>1. PICK m \in 1..Len(timers_), n \in 1..Len(timers_) :
              m <= n /\ timers_[m] = t /\ timers_[n] = u
      BY <2>3 DEF Before
    <3>2. m = Len(timers_)
      BY <3>1, <1>4, Place
    <3>3. n = m
      BY <3>1, <3>2, <1>1
    <3> QED
      BY <3>1, <3>3
  <2> QED
    BY <2>1, <2>2, <2>3, <1>3
<1>5. CASE place(t) # Len(timers_)
  <2>1. /\ place(t) \in 1..Len(timers_) /\ place(t) + 1 \in 1..Len(timers_)
        /\ timers_[place(t)] = t /\ timers_[place(t) + 1] = after(t)
        /\ after(t) \in Elements(timers_) \ {t}
    BY <1>5, Place
  <2>2. ASSUME NEW u, Before(timers_, after(t), u) PROVE Before(timers_, t, u) /\ u # t
    <3>1. Before(timers_, t, after(t))
      <4>1. place(t) <= place(t) + 1
        BY <2>1
      <4> QED
        BY <2>1, <4>1 DEF Before
    <3>2. Before(timers_, t, u)
      BY <1>1, <2>2, <3>1, Order
    <3>3. u # t
      BY <1>1, <2>1, <2>2, <3>1, Order
    <3> QED
      BY <3>2, <3>3
  <2>3. ASSUME NEW u, Before(timers_, t, u), u # t PROVE Before(timers_, after(t), u)
    <3>1. PICK m \in 1..Len(timers_), n \in 1..Len(timers_) :
              m <= n /\ timers_[m] = t /\ timers_[n] = u
      BY <2>3 DEF Before
    <3>2. m = place(t) /\ n # m
      BY <3>1, <2>3, Place
    <3>3. place(t) + 1 <= n
      BY <3>1, <3>2, <2>1
    <3> QED
      BY <3>1, <3>3, <2>1 DEF Before
  <2> QED
    BY <2>1, <2>2, <2>3
<1> QED
  BY <1>4, <1>5

\* What erasing a range leaves.
LEMMA Cut ==
    ASSUME TypeOK, NEW p \in 1..Len(timers_), NEW q \in p..Len(timers_)
    PROVE  /\ without(p, q) \in Seq(1..created) /\ IsInjective(without(p, q))
           /\ Elements(without(p, q)) = Elements(timers_) \ span(p, q)
           /\ \A u, v : Before(without(p, q), u, v) <=>
                           Before(timers_, u, v) /\ u \notin span(p, q) /\ v \notin span(p, q)
<1>1. timers_ \in Seq(1..created) /\ IsInjective(timers_)
  BY DEF TypeOK
<1> QED
  BY <1>1, Removed DEF without, span

\* What erase by an iterator leaves.
LEMMA Erased ==
    ASSUME TypeOK, NEW t \in Elements(timers_)
    PROVE  /\ erased(t) \in Seq(1..created) /\ IsInjective(erased(t))
           /\ Elements(erased(t)) = Elements(timers_) \ {t}
           /\ \A u, v : Before(erased(t), u, v) <=> Before(timers_, u, v) /\ u # t /\ v # t
<1>1. PICK p : p = place(t)
  OBVIOUS
<1>2. p \in 1..Len(timers_) /\ p \in p..Len(timers_) /\ timers_[p] = t
  BY <1>1, Place
<1>3. span(p, p) = {t}
  BY <1>2 DEF span
<1> QED
  BY <1>1, <1>2, <1>3, Cut DEF erased

\* What TypeOK says of a timer and of the set.
LEMMA Typed ==
    ASSUME TypeOK
    PROVE  /\ created \in Nat /\ 1..created \subseteq Timers
           /\ Elements(timers_) \subseteq 1..created /\ 0 \notin Elements(timers_)
           /\ timers_ \in Seq(1..created) /\ IsInjective(timers_)
           /\ now \in Nat /\ timeNow \in Nat
           /\ \A t \in Timers : expiration_[t] \in Nat /\ t \in Nat
<1>1. created \in Nat /\ 1..created \subseteq Timers
  BY BoundsAssumption DEF TypeOK, Timers
<1>2. timers_ \in Seq(1..created) /\ IsInjective(timers_)
  BY DEF TypeOK
<1>3. Elements(timers_) \subseteq 1..created /\ 0 \notin Elements(timers_)
  BY <1>1, <1>2 DEF Elements
<1>4. now \in Nat /\ timeNow \in Nat /\ \A t \in Timers : expiration_[t] \in Nat /\ t \in Nat
  BY BoundsAssumption DEF TypeOK, Timers
<1> QED
  BY <1>1, <1>2, <1>3, <1>4

\* What a removal by key leaves: its range, with t in it, is gone, or nothing is.
LEMMA Found ==
    ASSUME TypeOK, ~undefined, NEW t \in Timers, RemoveTime(t)
    PROVE  /\ t \in Elements(timers_) /\ t \in 1..created
           /\ timers_' \in Seq(1..created) /\ IsInjective(timers_')
           /\ Elements(timers_') \subseteq Elements(timers_)
           /\ Elements(timers_) \subseteq Elements(timers_') \cup {t} \cup destroyed'
           /\ destroyed \subseteq destroyed' /\ destroyed' \subseteq destroyed \cup Elements(timers_)
           /\ it \notin Elements(timers_) \/ it \in Elements(timers_') \/ undefined'
           /\ \A u, v : Before(timers_', u, v) <=>
                           /\ Before(timers_, u, v)
                           /\ u \in Elements(timers_') /\ v \in Elements(timers_')
           /\ undefined' \in BOOLEAN
<1>0. t \in Elements(timers_) /\ t \in 1..created
  BY Typed DEF RemoveTime
<1>1. CASE \E p, q \in 1..Len(timers_) :
             /\ equalRange(t, p, q)
             /\ timers_' = without(p, q)
             /\ destroyed' = destroyed \cup (span(p, q) \ {t})
             /\ undefined' = (it \in span(p, q))
  <2>1. PICK p, q \in 1..Len(timers_) :
             /\ equalRange(t, p, q)
             /\ timers_' = without(p, q)
             /\ destroyed' = destroyed \cup (span(p, q) \ {t})
             /\ undefined' = (it \in span(p, q))
    BY <1>1
  <2>2. q \in p..Len(timers_)
    BY <2>1, <1>0, Place DEF equalRange
  <2>3. /\ without(p, q) \in Seq(1..created) /\ IsInjective(without(p, q))
        /\ Elements(without(p, q)) = Elements(timers_) \ span(p, q)
        /\ \A u, v : Before(without(p, q), u, v) <=>
                        Before(timers_, u, v) /\ u \notin span(p, q) /\ v \notin span(p, q)
    BY <2>2, Cut
  <2>4. span(p, q) \subseteq Elements(timers_)
    BY <2>2 DEF span, Elements
  <2>5. \A u, v : Before(timers_, u, v) => u \in Elements(timers_) /\ v \in Elements(timers_)
    BY DEF Before, Elements
  <2> QED
    <3>1. Elements(timers_') = Elements(timers_) \ span(p, q)
      BY <2>1, <2>3
    <3>2. /\ timers_' \in Seq(1..created) /\ IsInjective(timers_')
          /\ \A u, v : Before(timers_', u, v) <=>
                          /\ Before(timers_, u, v)
                          /\ u \in Elements(timers_') /\ v \in Elements(timers_')
      BY <2>1, <2>3, <2>5, <3>1
    <3>3. it \notin Elements(timers_) \/ it \in Elements(timers_') \/ undefined'
      BY <2>1, <3>1
    <3> QED
      BY <1>0, <2>1, <2>4, <3>1, <3>2, <3>3
<1>2. CASE UNCHANGED <<timers_, destroyed, undefined>>
  <2>1. timers_ \in Seq(1..created) /\ IsInjective(timers_)
    BY DEF TypeOK
  <2>2. \A u, v : Before(timers_, u, v) => u \in Elements(timers_) /\ v \in Elements(timers_)
    BY DEF Before, Elements
  <2> QED
    <3>1. timers_' = timers_ /\ destroyed' = destroyed /\ undefined' = undefined
      BY <1>2
    <3>2. undefined \in BOOLEAN
      BY DEF TypeOK
    <3> QED
      BY <1>0, <2>1, <2>2, <3>1, <3>2
<1> QED
  BY <1>1, <1>2 DEF RemoveTime

\* What AddTimer makes of the set: t stands between two timers it agrees with.
LEMMA Added ==
    ASSUME TypeOK, PlacesInv, NEW t \in Timers, AddTimer(t)
    PROVE  /\ timers_' \in Seq(1..created) /\ IsInjective(timers_')
           /\ t \notin Elements(timers_) /\ Elements(timers_') = Elements(timers_) \cup {t}
           /\ \A u, v : u # t /\ v # t => (Before(timers_', u, v) <=> Before(timers_, u, v))
           /\ \A u : Before(timers_', u, t) /\ u # t =>
                 \E w \in Elements(timers_) : Before(timers_, u, w) /\ Cmp(w, t)
           /\ \A v : Before(timers_', t, v) /\ v # t =>
                 \E w \in Elements(timers_) :
                    /\ Before(timers_, w, v) /\ Cmp(t, w)
                    /\ \A u : Before(timers_', u, t) /\ u # t => Before(timers_, u, w)
<1>1. timers_ \in Seq(1..created) /\ IsInjective(timers_)
  BY DEF TypeOK
<1>2. t \in 1..created /\ t \notin Elements(timers_)
  <2>1. t \in handed
    BY DEF AddTimer
  <2> QED
    BY <2>1 DEF PlacesInv, TypeOK
<1>3. PICK p \in 0..Len(timers_) : gap(t, p) /\ timers_' = InsertAt(timers_, p + 1, t)
  BY DEF AddTimer
<1>5. /\ timers_' \in Seq(1..created) /\ IsInjective(timers_')
      /\ Elements(timers_') = Elements(timers_) \cup {t}
      /\ \A u, v : u # t /\ v # t => (Before(timers_', u, v) <=> Before(timers_, u, v))
      /\ \A u : Before(timers_', u, t) => u = t \/ \E m \in 1..p : timers_[m] = u
      /\ \A v : Before(timers_', t, v) =>
            v = t \/ \E m \in (p + 1)..Len(timers_) : timers_[m] = v
  <2> DEFINE S == 1..created
  <2>1. timers_ \in Seq(S) /\ t \in S
    BY <1>1, <1>2
  <2> HIDE DEF S
  <2>2. LET r == InsertAt(timers_, p + 1, t)
        IN  /\ r \in Seq(S) /\ IsInjective(r)
            /\ Elements(r) = Elements(timers_) \cup {t}
            /\ \A u, v : u # t /\ v # t => (Before(r, u, v) <=> Before(timers_, u, v))
            /\ \A u : Before(r, u, t) => u = t \/ \E m \in 1..p : timers_[m] = u
            /\ \A v : Before(r, t, v) => v = t \/ \E m \in (p + 1)..Len(timers_) : timers_[m] = v
    BY <1>1, <1>2, <2>1, Inserted
  <2> QED
    BY <2>2, <1>3 DEF S
<1>6. ASSUME NEW u, Before(timers_', u, t), u # t
      PROVE  \E w \in Elements(timers_) : Before(timers_, u, w) /\ Cmp(w, t)
  <2>1. PICK m \in 1..p : timers_[m] = u
    BY <1>5, <1>6
  <2>2. p \in 1..Len(timers_) /\ m \in 1..Len(timers_) /\ m <= p
    OBVIOUS
  <2>3. Before(timers_, u, timers_[p]) /\ timers_[p] \in Elements(timers_)
    BY <2>1, <2>2 DEF Before, Elements
  <2>4. Cmp(timers_[p], t)
    BY <2>2, <1>3 DEF gap
  <2> QED
    BY <2>3, <2>4
<1>7. ASSUME NEW v, Before(timers_', t, v), v # t
      PROVE  \E w \in Elements(timers_) :
                /\ Before(timers_, w, v) /\ Cmp(t, w)
                /\ \A u : Before(timers_', u, t) /\ u # t => Before(timers_, u, w)
  <2>1. PICK m \in (p + 1)..Len(timers_) : timers_[m] = v
    BY <1>5, <1>7
  <2>2. p + 1 \in 1..Len(timers_) /\ m \in 1..Len(timers_) /\ p + 1 <= m /\ p < Len(timers_)
    BY <1>1
  <2>3. Before(timers_, timers_[p + 1], v) /\ timers_[p + 1] \in Elements(timers_)
    BY <2>1, <2>2 DEF Before, Elements
  <2>4. Cmp(t, timers_[p + 1])
    BY <2>2, <1>3 DEF gap
  <2>5. ASSUME NEW u, Before(timers_', u, t), u # t PROVE Before(timers_, u, timers_[p + 1])
    <3>1. PICK k \in 1..p : timers_[k] = u
      BY <1>5, <2>5
    <3>2. k \in 1..Len(timers_) /\ k <= p + 1
      BY <1>1
    <3> QED
      BY <2>2, <3>1, <3>2 DEF Before
  <2> QED
    BY <2>3, <2>4, <2>5
<1> QED
  BY <1>2, <1>5, <1>6, <1>7

-----------------------------------------------------------------------------
(* Every step keeps IInv                                                   *)

RepeatCounts == {-1} \cup (Nat \ {0})

\* The steps, with what is known of their parameters.
LEMMA Steps ==
    ASSUME [Next]_vars
    PROVE  \/ \E r \in RepeatCounts, i \in Nat \ {0} : create(r, i)
           \/ \E t \in Timers : AddTimer(t) \/ loseTimer(t) \/ RemoveTime(t) \/ removeFreed(t)
           \/ passBegin \/ doCallBack \/ nextRepeat \/ eraseEnded \/ passEnd \/ tick
           \/ UNCHANGED vars
<1>1. ASSUME NEW r \in Repeats, NEW i \in Intervals, create(r, i)
      PROVE  \E q \in RepeatCounts, j \in Nat \ {0} : create(q, j)
  <2>1. r \in RepeatCounts /\ i \in Nat \ {0}
    BY RepeatsAssumption, IntervalsAssumption DEF RepeatCounts
  <2> QED
    BY <1>1, <2>1
<1>2. ASSUME NEW i \in Intervals, create(-1, i)
      PROVE  \E q \in RepeatCounts, j \in Nat \ {0} : create(q, j)
  <2>1. -1 \in RepeatCounts /\ i \in Nat \ {0}
    BY IntervalsAssumption DEF RepeatCounts
  <2> QED
    BY <1>2, <2>1
<1> QED
  BY <1>1, <1>2 DEF Next, loopStep

\* The timer a call makes is the next one, and nothing else is touched.
LEMMA Created ==
    ASSUME TypeOK, NEW r \in RepeatCounts, NEW i \in Nat \ {0}, create(r, i)
    PROVE  LET t == created + 1
           IN  /\ t \in Timers /\ created' = t /\ now + i <= MaxTime
               /\ handed' = handed \cup {t}
               /\ expiration_' = [expiration_ EXCEPT ![t] = now + i]
               /\ interval_' = [interval_ EXCEPT ![t] = IF r = 1 THEN 0 ELSE i]
               /\ repeat_' = [repeat_ EXCEPT ![t] = r]
               /\ born' = [born EXCEPT ![t] = now]
               /\ planned' = [planned EXCEPT ![t] = r]
               /\ t \notin Elements(timers_)
               /\ UNCHANGED <<clock, timers_, pass, fired, removed, lost, destroyed, owed, undefined>>
<1>1. created \in Nat /\ created < MaxTimers /\ MaxTimers \in Nat
  BY BoundsAssumption DEF create, TypeOK
<1>2. created + 1 \in Timers
  BY <1>1 DEF Timers
<1>3. created + 1 \notin Elements(timers_)
  BY <1>1 DEF TypeOK, Elements
<1> QED
  BY <1>2, <1>3 DEF create, newTimer

\* Every step keeps the types, and the iterator in the set.
LEMMA TypeNext ==
    ASSUME TypeOK, PlacesInv, ~undefined, [Next]_vars
    PROVE  TypeOK'
<1> USE DEF RepeatCounts
<1>0. /\ MaxTime \in Nat /\ MaxTimers \in Nat /\ now \in Nat /\ now <= MaxTime
      /\ created \in Nat /\ created <= MaxTimers /\ 1..created \subseteq Timers
      /\ Elements(timers_) \subseteq 1..created
  BY BoundsAssumption DEF TypeOK, Timers, Elements
<1>0a. it \in Elements(timers_) \cup {0} /\ it \in 0..created
  BY DEF TypeOK, IteratorOK
<1>1. ASSUME NEW r \in RepeatCounts, NEW i \in Nat \ {0}, create(r, i) PROVE TypeOK'
  <2>0. PICK t : t = created + 1
    OBVIOUS
  <2>1. /\ t \in Timers /\ created' = t /\ handed' = handed \cup {t}
        /\ expiration_' = [expiration_ EXCEPT ![t] = now + i]
        /\ interval_' = [interval_ EXCEPT ![t] = IF r = 1 THEN 0 ELSE i]
        /\ repeat_' = [repeat_ EXCEPT ![t] = r]
        /\ born' = [born EXCEPT ![t] = now]
        /\ planned' = [planned EXCEPT ![t] = r]
        /\ UNCHANGED <<clock, timers_, pass, fired, removed, lost, destroyed, owed, undefined>>
    BY <1>1, <2>0, Created
  <2>2. 1..created \subseteq 1..created' /\ created' \in 0..MaxTimers
    BY <1>0, <2>0, <2>1 DEF Timers
  <2>3. timers_' \in Seq(1..created')
    <3>1. timers_ \in Seq(1..created) /\ timers_' = timers_
      BY <2>1 DEF TypeOK
    <3>2. \A S, T : S \subseteq T => (\A q \in Seq(S) : q \in Seq(T))
      OBVIOUS
    <3>3. 1..created \subseteq 1..created'
      BY <2>2
    <3> QED
      BY <3>1, <3>2, <3>3
  <2>4. now + i \in Nat /\ (IF r = 1 THEN 0 ELSE i) \in Nat /\ r \in {-1} \cup Nat
    BY <1>0
  <2>5. /\ expiration_' \in [Timers -> Nat] /\ interval_' \in [Timers -> Nat]
        /\ repeat_' \in [Timers -> {-1} \cup Nat] /\ planned' \in [Timers -> {-1} \cup Nat]
        /\ born' \in [Timers -> Nat]
    BY <1>0, <2>0, <2>1, <2>4 DEF TypeOK
  <2>6. handed' \subseteq 1..created' /\ removed' \subseteq 1..created' /\ owed' \subseteq 1..created'
    <3>1. t \in 1..created'
      BY <1>0, <2>0, <2>1
    <3>2. handed \subseteq 1..created /\ removed \subseteq 1..created /\ owed \subseteq 1..created
      BY DEF TypeOK
    <3> QED
      BY <2>1, <2>2, <3>1, <3>2
  <2> QED
    <3>1. IteratorOK'
      BY <1>0, <1>0a, <2>0, <2>1 DEF IteratorOK
    <3> QED
      BY <2>1, <2>2, <2>3, <2>5, <2>6, <3>1 DEF TypeOK
<1>2. ASSUME NEW t \in Timers, AddTimer(t) PROVE TypeOK'
  <2>1. /\ timers_' \in Seq(1..created) /\ IsInjective(timers_')
        /\ Elements(timers_') = Elements(timers_) \cup {t}
    BY <1>2, Added
  <2> QED
    <3>1. IteratorOK'
      BY <1>0a, <1>2, <2>1 DEF AddTimer, IteratorOK
    <3> QED
      BY <1>2, <2>1, <3>1 DEF AddTimer, TypeOK
<1>3. ASSUME NEW t \in Timers, RemoveTime(t) PROVE TypeOK'
  <2>1. /\ t \in 1..created /\ timers_' \in Seq(1..created) /\ IsInjective(timers_')
        /\ destroyed' \subseteq destroyed \cup Elements(timers_)
        /\ it \notin Elements(timers_) \/ it \in Elements(timers_') \/ undefined'
        /\ undefined' \in BOOLEAN
    BY <1>3, Found
  <2>3. IteratorOK'
    BY <1>0a, <1>3, <2>1 DEF RemoveTime, IteratorOK
  <2> QED
    BY <1>0, <1>3, <2>1, <2>3 DEF RemoveTime, TypeOK
<1>4. ASSUME NEW t \in Timers, removeFreed(t) PROVE TypeOK'
  <2>1. IteratorOK'
    BY <1>0a, <1>4 DEF removeFreed, IteratorOK
  <2> QED
    BY <1>4, <2>1 DEF removeFreed, TypeOK
<1>5. CASE passBegin
  <2>1. first \in Elements(timers_) \cup {0}
    <3>1. CASE timers_ = <<>>
      BY <3>1 DEF first
    <3>2. CASE timers_ # <<>>
      <4>1. 1 \in 1..Len(timers_)
        BY <3>2 DEF TypeOK
      <4> QED
        BY <3>2, <4>1 DEF first, Elements
    <3> QED
      BY <3>1, <3>2
  <2>2. InOrder \in BOOLEAN
    BY DEF InOrder
  <2> QED
    <3>1. IteratorOK'
      BY <1>0, <1>5, <2>1 DEF passBegin, IteratorOK
    <3> QED
      BY <1>0, <1>5, <2>2, <3>1 DEF passBegin, TypeOK
<1>6. CASE doCallBack
  <2>1. it \in Timers /\ fired[it] + 1 \in Nat
    BY <1>0, <1>0a, <1>6 DEF doCallBack, TypeOK
  <2> QED
    <3>1. IteratorOK'
      BY <1>0a, <1>6 DEF doCallBack, IteratorOK
    <3> QED
      BY <1>6, <2>1, <3>1 DEF doCallBack, TypeOK
<1>7. CASE nextRepeat
  <2>1. it \in Elements(timers_) /\ it \in Timers
    BY <1>0, <1>0a, <1>7 DEF nextRepeat, PlacesInv
  <2>2. nextExpiration(it) \in Nat
    <3>1. expiration_[it] \in Nat /\ interval_[it] \in Nat
      BY <2>1 DEF TypeOK
    <3> QED
      BY <1>0, <3>1 DEF nextExpiration
  <2>3. (IF repeat_[it] > 0 THEN repeat_[it] - 1 ELSE repeat_[it]) \in {-1} \cup Nat
    BY <2>1 DEF TypeOK
  <2>4. after(it) \in Elements(timers_) \cup {0}
    BY <2>1, Successor
  <2> QED
    <3>1. IteratorOK'
      BY <1>0, <1>7, <2>4 DEF nextRepeat, IteratorOK
    <3> QED
      BY <1>7, <2>2, <2>3, <3>1 DEF nextRepeat, TypeOK
<1>8. CASE eraseEnded
  <2>1. it \in Elements(timers_)
    BY <1>0a, <1>8 DEF eraseEnded, PlacesInv
  <2>2. after(it) \in Elements(timers_) \cup {0} /\ after(it) # it
    BY <2>1, Successor
  <2>3. /\ erased(it) \in Seq(1..created) /\ IsInjective(erased(it))
        /\ Elements(erased(it)) = Elements(timers_) \ {it}
    BY <2>1, Erased
  <2> QED
    <3>1. IteratorOK'
      BY <1>0, <1>8, <2>2, <2>3 DEF eraseEnded, IteratorOK
    <3> QED
      BY <1>8, <2>3, <3>1 DEF eraseEnded, TypeOK
<1>9. CASE passEnd
  <2>1. it' = 0 /\ running' = FALSE
    BY <1>9 DEF passEnd
  <2> QED
    <3>1. IteratorOK'
      BY <1>0, <1>9, <2>1 DEF passEnd, IteratorOK
    <3> QED
      BY <1>9, <2>1, <3>1 DEF passEnd, TypeOK
<1>10. CASE tick
  <2>1. now' \in 0..MaxTime
    BY <1>0, <1>10 DEF tick
  <2> QED
    <3>1. IteratorOK'
      BY <1>0a, <1>10 DEF tick, IteratorOK
    <3> QED
      BY <1>10, <2>1, <3>1 DEF tick, TypeOK
<1>11. CASE UNCHANGED vars
  BY <1>11 DEF vars, TypeOK, IteratorOK
<1>12. ASSUME NEW t \in Timers, loseTimer(t) PROVE TypeOK'
  <2>1. t \in 1..created
    BY <1>12 DEF loseTimer, TypeOK
  <2> QED
    <3>1. IteratorOK'
      BY <1>0a, <1>12 DEF loseTimer, IteratorOK
    <3> QED
      BY <1>12, <2>1, <3>1 DEF loseTimer, TypeOK
<1> QED
  BY <1>1, <1>2, <1>3, <1>4, <1>5, <1>6, <1>7, <1>8, <1>9, <1>10, <1>11, <1>12, Steps

\* Every step keeps each timer in one place.
LEMMA PlacesNext ==
    ASSUME TypeOK, PlacesInv, ~undefined, [Next]_vars
    PROVE  PlacesInv'
<1>0. /\ now \in Nat /\ timeNow \in Nat /\ created \in Nat /\ 1..created \subseteq Timers
      /\ Elements(timers_) \subseteq 1..created
  BY BoundsAssumption DEF TypeOK, Timers, Elements
<1>1. ASSUME NEW r \in RepeatCounts, NEW i \in Nat \ {0}, create(r, i) PROVE PlacesInv'
  <2>0. PICK t : t = created + 1
    OBVIOUS
  <2>1. /\ t \in Timers /\ created' = t /\ handed' = handed \cup {t}
        /\ expiration_' = [expiration_ EXCEPT ![t] = now + i]
        /\ t \notin Elements(timers_)
        /\ UNCHANGED <<clock, timers_, pass, fired, removed, lost, destroyed, owed, undefined>>
    BY <1>1, <2>0, Created
  <2>2. t \notin removed
    BY <1>0, <2>0 DEF TypeOK
  <2>3. inCallback => it \in 1..created /\ expiration_'[it] = expiration_[it]
    BY <1>0, <2>0, <2>1 DEF TypeOK, IteratorOK, PlacesInv
  <2>4. \A u \in Timers : u > created' => u > created
    BY <1>0, <2>0, <2>1 DEF Timers
  <2> QED
    BY <2>1, <2>2, <2>3, <2>4 DEF PlacesInv
<1>2. ASSUME NEW t \in Timers, AddTimer(t) PROVE PlacesInv'
  <2>1. Elements(timers_') = Elements(timers_) \cup {t}
    BY <1>2, Added
  <2> QED
    BY <1>2, <2>1 DEF AddTimer, PlacesInv
<1>3. ASSUME NEW t \in Timers, RemoveTime(t) PROVE PlacesInv'
  <2>1. t \in Elements(timers_) /\ Elements(timers_') \subseteq Elements(timers_)
    BY <1>3, Found
  <2> QED
    BY <1>3, <2>1 DEF RemoveTime, PlacesInv
<1>4. ASSUME NEW t \in Timers, removeFreed(t) PROVE PlacesInv'
  BY <1>4 DEF removeFreed, PlacesInv
<1>5. CASE passBegin
  BY <1>0, <1>5 DEF passBegin, PlacesInv
<1>6. CASE doCallBack
  <2>1. it \in 1..created /\ it \in Timers /\ it \notin owed'
    BY <1>0, <1>6 DEF doCallBack, TypeOK, IteratorOK
  <2>2. \A t \in Timers : t > created => fired'[t] = fired[t]
    BY <1>0, <1>6, <2>1 DEF doCallBack, TypeOK, IteratorOK
  <2> QED
    BY <1>6, <2>1, <2>2 DEF doCallBack, PlacesInv
<1>7. CASE nextRepeat
  BY <1>7 DEF nextRepeat, PlacesInv
<1>8. CASE eraseEnded
  <2>1. it \in Elements(timers_)
    BY <1>8 DEF eraseEnded, PlacesInv, TypeOK, IteratorOK
  <2>2. Elements(timers_') \subseteq Elements(timers_)
    BY <1>8, <2>1, Erased DEF eraseEnded
  <2> QED
    BY <1>8, <2>2 DEF eraseEnded, PlacesInv
<1>9. CASE passEnd
  BY <1>9 DEF passEnd, PlacesInv
<1>10. CASE tick
  BY <1>0, <1>10 DEF tick, PlacesInv
<1>11. CASE UNCHANGED vars
  BY <1>11 DEF vars, PlacesInv
<1>12. ASSUME NEW t \in Timers, loseTimer(t) PROVE PlacesInv'
  BY <1>12 DEF loseTimer, PlacesInv
<1> QED
  BY <1>1, <1>2, <1>3, <1>4, <1>5, <1>6, <1>7, <1>8, <1>9, <1>10, <1>11, <1>12, Steps

\* Every step counts a firing once.
LEMMA CountNext ==
    ASSUME TypeOK, PlacesInv, CountInv, ~undefined, [Next]_vars
    PROVE  CountInv'
<1>0. /\ created \in Nat /\ 1..created \subseteq Timers /\ Elements(timers_) \subseteq 1..created
      /\ \A t \in 1..created :
            fired[t] \in Nat /\ planned[t] \in {-1} \cup Nat /\ repeat_[t] \in {-1} \cup Nat
  <2>1. created \in Nat /\ 1..created \subseteq Timers /\ Elements(timers_) \subseteq 1..created
    BY BoundsAssumption DEF TypeOK, Timers, Elements
  <2> QED
    BY <2>1 DEF TypeOK
<1>1. ASSUME NEW r \in RepeatCounts, NEW i \in Nat \ {0}, create(r, i) PROVE CountInv'
  <2>0. PICK t : t = created + 1
    OBVIOUS
  <2>1. /\ t \in Timers /\ created' = t /\ handed' = handed \cup {t}
        /\ repeat_' = [repeat_ EXCEPT ![t] = r] /\ planned' = [planned EXCEPT ![t] = r]
        /\ t \notin Elements(timers_)
        /\ UNCHANGED <<clock, timers_, pass, fired, removed, lost, destroyed, owed, undefined>>
    BY <1>1, <2>0, Created
  <2>2. repeat_'[t] = r /\ planned'[t] = r /\ fired'[t] = 0
    BY <1>0, <2>0, <2>1 DEF TypeOK, PlacesInv
  <2>3. ~Firing(t)' /\ t \in InUse'
    BY <1>0, <2>0, <2>1 DEF Firing, InUse, TypeOK, IteratorOK
  <2>4. ASSUME NEW u \in 1..created
        PROVE  /\ repeat_'[u] = repeat_[u] /\ planned'[u] = planned[u] /\ fired'[u] = fired[u]
               /\ (u \in InUse' <=> u \in InUse) /\ (Firing(u)' <=> Firing(u))
    BY <1>0, <2>0, <2>1 DEF InUse, Firing, TypeOK
  <2>5. 1..created' = (1..created) \cup {t}
    BY <1>0, <2>0, <2>1
  <2>6. /\ repeat_'[t] = -1 <=> planned'[t] = -1
        /\ planned'[t] # -1 =>
              /\ repeat_'[t] \in 1..planned'[t] /\ fired'[t] <= planned'[t]
              /\ fired'[t] + repeat_'[t] = planned'[t] + 0
    BY <2>2 DEF RepeatCounts
  <2>7. ASSUME NEW u \in 1..created PROVE Counted(u)'
    <3>1. Counted(u) /\ UNCHANGED <<removed, lost, destroyed>>
      BY <2>1 DEF CountInv
    <3> QED
      BY <2>4, <3>1 DEF Counted
  <2>8. Counted(t)'
    BY <2>3, <2>6 DEF Counted
  <2> QED
    BY <2>5, <2>7, <2>8 DEF CountInv
<1>2. ASSUME NEW t \in Timers, AddTimer(t) PROVE CountInv'
  <2>1. InUse' = InUse
    BY <1>2, Added DEF InUse, AddTimer
  <2> QED
    BY <1>2, <2>1 DEF AddTimer, Firing, CountInv, Counted
<1>3. ASSUME NEW t \in Timers, RemoveTime(t) PROVE CountInv'
  <2>1. /\ Elements(timers_') \subseteq Elements(timers_)
        /\ Elements(timers_) \subseteq Elements(timers_') \cup {t} \cup destroyed'
        /\ destroyed \subseteq destroyed'
    BY <1>3, Found
  <2>2. removed' = removed \cup {t}
    BY <1>3 DEF RemoveTime
  <2>3. InUse' \subseteq InUse /\ InUse \subseteq InUse' \cup removed' \cup destroyed'
    BY <1>3, <2>1, <2>2 DEF InUse, RemoveTime
  <2>4. UNCHANGED <<repeat_, planned, fired, created, it, inCallback, lost>>
    BY <1>3 DEF RemoveTime
  <2> QED
    BY <2>1, <2>2, <2>3, <2>4 DEF Firing, CountInv, Counted
<1>4. ASSUME NEW t \in Timers, removeFreed(t) PROVE CountInv'
  BY <1>4 DEF removeFreed, InUse, Firing, CountInv, Counted
<1>5. CASE passBegin
  <2>1. ~inCallback
    BY <1>5 DEF passBegin, PlacesInv
  <2> QED
    BY <1>5, <2>1 DEF passBegin, InUse, Firing, CountInv, Counted
<1>6. CASE doCallBack
  <2>1. it \in 1..created /\ it \in Timers /\ it \in InUse /\ InUse' = InUse
    BY <1>0, <1>6 DEF doCallBack, InUse, TypeOK, IteratorOK
  <2>2. \A u \in 1..created : ~Firing(u) /\ (Firing(u)' <=> u = it)
    BY <1>6 DEF doCallBack, Firing
  <2>3. fired'[it] = fired[it] + 1 /\ \A u \in 1..created : u # it => fired'[u] = fired[u]
    BY <1>0, <1>6, <2>1 DEF doCallBack, TypeOK, IteratorOK
  <2>4. UNCHANGED <<repeat_, planned, created, removed, lost, destroyed>>
    BY <1>6 DEF doCallBack
  <2>5. planned[it] # -1 =>
            /\ repeat_[it] \in 1..planned[it] /\ fired[it] + repeat_[it] = planned[it] + 0
    BY <2>1, <2>2 DEF CountInv, Counted
  <2>6. planned[it] # -1 =>
            /\ fired'[it] <= planned[it] /\ fired'[it] + repeat_[it] = planned[it] + 1
    BY <1>0, <2>1, <2>3, <2>5
  <2> QED
    BY <2>1, <2>2, <2>3, <2>4, <2>6 DEF CountInv, Counted
<1>7. CASE nextRepeat
  <2>1. it \in 1..created /\ it \in Timers /\ it \in InUse /\ InUse' = InUse
    BY <1>0, <1>7 DEF nextRepeat, PlacesInv, InUse, TypeOK, IteratorOK
  <2>2. Firing(it) /\ \A u \in 1..created : ~Firing(u)' /\ (u # it => ~Firing(u))
    BY <1>7 DEF nextRepeat, Firing
  <2>3. /\ repeat_'[it] = IF repeat_[it] > 0 THEN repeat_[it] - 1 ELSE repeat_[it]
        /\ \A u \in 1..created : u # it => repeat_'[u] = repeat_[u]
    BY <1>0, <1>7, <2>1 DEF nextRepeat, TypeOK, IteratorOK
  <2>4. UNCHANGED <<fired, planned, created, removed, lost, destroyed>>
    BY <1>7 DEF nextRepeat
  <2>5. /\ repeat_[it] = -1 <=> planned[it] = -1
        /\ planned[it] # -1 =>
              /\ repeat_[it] \in 1..planned[it] /\ fired[it] + repeat_[it] = planned[it] + 1
    BY <2>1, <2>2 DEF CountInv, Counted
  <2>6. repeat_[it] > 1 \/ repeat_[it] = -1
    BY <1>7 DEF nextRepeat, hasNextTime
  <2>7. /\ repeat_'[it] = -1 <=> planned[it] = -1
        /\ planned[it] # -1 =>
              /\ repeat_'[it] \in 1..planned[it] /\ fired[it] + repeat_'[it] = planned[it] + 0
    BY <1>0, <2>1, <2>3, <2>5, <2>6
  <2> QED
    BY <2>1, <2>2, <2>3, <2>4, <2>7 DEF CountInv, Counted
<1>8. CASE eraseEnded
  <2>1. it \in Elements(timers_) /\ it \in 1..created /\ it \in InUse
    BY <1>0, <1>8 DEF eraseEnded, PlacesInv, InUse, TypeOK, IteratorOK
  <2>2. InUse' = InUse \ {it}
    BY <1>8, <2>1, Erased DEF eraseEnded, InUse, PlacesInv
  <2>3. Firing(it) /\ \A u \in 1..created : ~Firing(u)' /\ (u # it => ~Firing(u))
    BY <1>8 DEF eraseEnded, Firing
  <2>4. UNCHANGED <<fired, planned, repeat_, created, removed, lost, destroyed>>
    BY <1>8 DEF eraseEnded
  <2>5. /\ repeat_[it] = -1 <=> planned[it] = -1
        /\ planned[it] # -1 =>
              /\ repeat_[it] \in 1..planned[it] /\ fired[it] + repeat_[it] = planned[it] + 1
    BY <2>1, <2>3 DEF CountInv, Counted
  <2>6. ~(repeat_[it] > 1 \/ repeat_[it] = -1)
    BY <1>8 DEF eraseEnded, hasNextTime
  <2>7. planned[it] # -1 /\ fired[it] = planned[it]
    BY <1>0, <2>1, <2>5, <2>6
  <2> QED
    BY <2>1, <2>2, <2>3, <2>4, <2>7 DEF CountInv, Counted
<1>9. CASE passEnd
  <2>1. ~inCallback /\ ~inCallback'
    BY <1>9 DEF passEnd
  <2> QED
    BY <1>9, <2>1 DEF passEnd, InUse, Firing, CountInv, Counted
<1>10. CASE tick
  BY <1>10 DEF tick, InUse, Firing, CountInv, Counted
<1>11. CASE UNCHANGED vars
  BY <1>11 DEF vars, InUse, Firing, CountInv, Counted
<1>12. ASSUME NEW t \in Timers, loseTimer(t) PROVE CountInv'
  <2>1. InUse' \subseteq InUse /\ InUse \subseteq InUse' \cup lost' /\ lost \subseteq lost'
    BY <1>12 DEF loseTimer, InUse
  <2>2. UNCHANGED <<repeat_, planned, fired, created, it, inCallback, removed, destroyed>>
    BY <1>12 DEF loseTimer
  <2> QED
    BY <2>1, <2>2 DEF Firing, CountInv, Counted
<1> QED
  BY <1>1, <1>2, <1>3, <1>4, <1>5, <1>6, <1>7, <1>8, <1>9, <1>10, <1>11, <1>12, Steps

\* n + 1 intervals are n intervals and one.
LEMMA Intervals1 ==
    \A n, i \in Nat : n * i \in Nat /\ (n + 1) * i = n * i + i /\ 0 * i = 0 /\ 1 * i = i
OBVIOUS

\* Every step keeps a firing from coming too early.
LEMMA TimeNext ==
    ASSUME TypeOK, PlacesInv, CountInv, TimeInv, ~undefined, [Next]_vars
    PROVE  TimeInv'
<1>0. /\ created \in Nat /\ 1..created \subseteq Timers /\ Elements(timers_) \subseteq 1..created
      /\ now \in Nat /\ timeNow \in Nat
      /\ \A t \in 1..created :
            fired[t] \in Nat /\ born[t] \in Nat /\ interval_[t] \in Nat /\ expiration_[t] \in Nat
  <2>1. /\ created \in Nat /\ 1..created \subseteq Timers /\ Elements(timers_) \subseteq 1..created
        /\ now \in Nat /\ timeNow \in Nat
    BY Typed
  <2> QED
    BY <2>1 DEF TypeOK
<1>1. ASSUME NEW r \in RepeatCounts, NEW i \in Nat \ {0}, create(r, i) PROVE TimeInv'
  <2>0. PICK t : t = created + 1
    OBVIOUS
  <2>1. /\ t \in Timers /\ created' = t /\ handed' = handed \cup {t}
        /\ expiration_' = [expiration_ EXCEPT ![t] = now + i]
        /\ interval_' = [interval_ EXCEPT ![t] = IF r = 1 THEN 0 ELSE i]
        /\ planned' = [planned EXCEPT ![t] = r] /\ born' = [born EXCEPT ![t] = now]
        /\ t \notin Elements(timers_)
        /\ UNCHANGED <<clock, timers_, pass, fired, removed, lost, destroyed, owed, undefined>>
    BY <1>1, <2>0, Created
  <2>2. /\ expiration_'[t] = now + i /\ interval_'[t] = (IF r = 1 THEN 0 ELSE i)
        /\ planned'[t] = r /\ born'[t] = now /\ fired'[t] = 0
    BY <1>0, <2>0, <2>1 DEF TypeOK, PlacesInv
  <2>3. ~Firing(t)'
    BY <1>0, <2>0, <2>1 DEF Firing, TypeOK, IteratorOK
  <2>4. ASSUME NEW u \in 1..created
        PROVE  /\ expiration_'[u] = expiration_[u] /\ interval_'[u] = interval_[u]
               /\ planned'[u] = planned[u] /\ born'[u] = born[u] /\ fired'[u] = fired[u]
               /\ (u \in InUse' <=> u \in InUse) /\ (Firing(u)' <=> Firing(u))
    <3>1. u # t /\ u \in Timers
      BY <1>0, <2>0
    <3>2. (u \in InUse' <=> u \in InUse) /\ (Firing(u)' <=> Firing(u)) /\ fired'[u] = fired[u]
      BY <2>1, <3>1 DEF InUse, Firing
    <3> QED
      BY <2>1, <3>1, <3>2 DEF TypeOK
  <2>5. 1..created' = (1..created) \cup {t} /\ now' = now
    BY <1>0, <2>0, <2>1
  <2>6. /\ interval_'[t] \in Nat /\ interval_'[t] <= i
        /\ 0 * interval_'[t] = 0 /\ (0 + 1) * interval_'[t] = interval_'[t]
    BY <2>2, Intervals1
  <2>7. /\ now' >= born'[t] + fired'[t] * interval_'[t]
        /\ expiration_'[t] >= born'[t] + (fired'[t] + 1) * interval_'[t]
        /\ planned'[t] = 1 => interval_'[t] = 0
        /\ ~(fired'[t] > 0)
    BY <1>0, <2>2, <2>5, <2>6
  <2>8. ASSUME NEW u \in 1..created PROVE OnTime(u)'
    <3>1. OnTime(u) /\ now' = now
      BY <2>5 DEF TimeInv
    <3> QED
      BY <2>4, <3>1 DEF OnTime
  <2>9. OnTime(t)'
    BY <2>3, <2>7 DEF OnTime
  <2> QED
    BY <2>5, <2>8, <2>9 DEF TimeInv
<1>2. ASSUME NEW t \in Timers, AddTimer(t) PROVE TimeInv'
  <2>1. InUse' = InUse
    BY <1>2, Added DEF InUse, AddTimer
  <2> QED
    BY <1>2, <2>1 DEF AddTimer, Firing, TimeInv, OnTime
<1>3. ASSUME NEW t \in Timers, RemoveTime(t) PROVE TimeInv'
  <2>1. Elements(timers_') \subseteq Elements(timers_)
    BY <1>3, Found
  <2>2. InUse' \subseteq InUse
    BY <1>3, <2>1 DEF InUse, RemoveTime
  <2> QED
    BY <1>3, <2>2 DEF RemoveTime, Firing, TimeInv, OnTime
<1>4. ASSUME NEW t \in Timers, removeFreed(t) PROVE TimeInv'
  BY <1>4 DEF removeFreed, InUse, Firing, TimeInv, OnTime
<1>5. CASE passBegin
  <2>1. ~inCallback
    BY <1>5 DEF passBegin, PlacesInv
  <2> QED
    BY <1>5, <2>1 DEF passBegin, InUse, Firing, TimeInv, OnTime
<1>6. CASE doCallBack
  <2>1. it \in 1..created /\ it \in Timers /\ it \in InUse /\ InUse' = InUse
    BY <1>0, <1>6 DEF doCallBack, InUse, TypeOK, IteratorOK
  <2>2. \A u \in 1..created : ~Firing(u) /\ (Firing(u)' <=> u = it)
    BY <1>6 DEF doCallBack, Firing
  <2>3. fired'[it] = fired[it] + 1 /\ \A u \in 1..created : u # it => fired'[u] = fired[u]
    BY <1>0, <1>6, <2>1 DEF doCallBack, TypeOK, IteratorOK
  <2>4. UNCHANGED <<now, expiration_, interval_, planned, born, created>>
    BY <1>6 DEF doCallBack
  <2>5. expiration_[it] >= born[it] + (fired[it] + 1) * interval_[it]
    BY <2>1, <2>2 DEF TimeInv, OnTime
  <2>6. expiration_[it] <= now
    BY <1>0, <1>6, <2>1 DEF doCallBack, PlacesInv
  <2>7. (fired[it] + 1) * interval_[it] \in Nat /\ fired'[it] + 0 = fired'[it]
    BY <1>0, <2>1, <2>3, Intervals1
  <2>8. /\ now >= born[it] + fired'[it] * interval_[it]
        /\ expiration_[it] >= born[it] + (fired'[it] + 0) * interval_[it]
    <3>1. now >= born[it] + (fired[it] + 1) * interval_[it]
      BY <1>0, <2>1, <2>5, <2>6, <2>7
    <3> QED
      BY <3>1, <2>3, <2>5, <2>7
  <2> QED
    BY <2>1, <2>2, <2>3, <2>4, <2>6, <2>8 DEF TimeInv, OnTime
<1>7. CASE nextRepeat
  <2>1. it \in 1..created /\ it \in Timers /\ it \in InUse /\ InUse' = InUse
    BY <1>0, <1>7 DEF nextRepeat, PlacesInv, InUse, TypeOK, IteratorOK
  <2>2. Firing(it) /\ \A u \in 1..created : ~Firing(u)' /\ (u # it => ~Firing(u))
    BY <1>7 DEF nextRepeat, Firing
  <2>3. /\ expiration_'[it] = nextExpiration(it)
        /\ \A u \in 1..created : u # it => expiration_'[u] = expiration_[u]
    BY <1>0, <1>7, <2>1 DEF nextRepeat, TypeOK, IteratorOK
  <2>4. UNCHANGED <<now, fired, planned, interval_, born, created>>
    BY <1>7 DEF nextRepeat
  <2>5. planned[it] # 1
    <3>1. repeat_[it] > 1 \/ repeat_[it] = -1
      BY <1>7 DEF nextRepeat, hasNextTime
    <3> QED
      BY <2>1, <3>1 DEF CountInv, Counted
  <2>6. /\ now >= born[it] + fired[it] * interval_[it]
        /\ expiration_[it] >= born[it] + (fired[it] + 0) * interval_[it]
    BY <2>1, <2>2 DEF TimeInv, OnTime
  <2>7. /\ fired[it] + 0 = fired[it] /\ fired[it] * interval_[it] \in Nat
        /\ (fired[it] + 1) * interval_[it] = fired[it] * interval_[it] + interval_[it]
    BY <1>0, <2>1, Intervals1
  <2>8. expiration_[it] >= born[it] + fired[it] * interval_[it]
    BY <2>6, <2>7
  <2>9. nextExpiration(it) >= born[it] + (fired[it] + 1) * interval_[it]
    BY <1>0, <2>1, <2>6, <2>7, <2>8 DEF nextExpiration
  <2> QED
    BY <2>1, <2>2, <2>3, <2>4, <2>5, <2>9 DEF TimeInv, OnTime
<1>8. CASE eraseEnded
  <2>1. it \in Elements(timers_)
    BY <1>8 DEF eraseEnded, PlacesInv, TypeOK, IteratorOK
  <2>2. InUse' \subseteq InUse \ {it}
    BY <1>8, <2>1, Erased DEF eraseEnded, InUse, PlacesInv
  <2>3. \A u \in 1..created : u # it => ~Firing(u)
    BY <1>8 DEF eraseEnded, Firing
  <2>4. \A u \in 1..created : ~Firing(u)'
    BY <1>8 DEF eraseEnded, Firing
  <2> QED
    BY <1>8, <2>2, <2>3, <2>4 DEF eraseEnded, TimeInv, OnTime
<1>9. CASE passEnd
  <2>1. ~inCallback /\ ~inCallback'
    BY <1>9 DEF passEnd
  <2> QED
    BY <1>9, <2>1 DEF passEnd, InUse, Firing, TimeInv, OnTime
<1>10. CASE tick
  <2>1. ASSUME NEW t \in 1..created, now >= born[t] + fired[t] * interval_[t]
        PROVE  now + 1 >= born[t] + fired[t] * interval_[t]
    <3>1. fired[t] * interval_[t] \in Nat
      BY <1>0, Intervals1
    <3> QED
      BY <1>0, <2>1, <3>1
  <2>2. \A t \in 1..created : now >= expiration_[t] => now + 1 >= expiration_[t]
    BY <1>0
  <2>3. now' = now + 1 /\ UNCHANGED <<born, fired, interval_, expiration_, planned, created>>
    BY <1>10 DEF tick
  <2>4. InUse' = InUse /\ \A t : Firing(t)' <=> Firing(t)
    BY <1>10 DEF tick, InUse, Firing
  <2> QED
    BY <2>1, <2>2, <2>3, <2>4 DEF TimeInv, OnTime
<1>11. CASE UNCHANGED vars
  BY <1>11 DEF vars, InUse, Firing, TimeInv, OnTime
<1>12. ASSUME NEW t \in Timers, loseTimer(t) PROVE TimeInv'
  <2>1. InUse' \subseteq InUse
    BY <1>12 DEF loseTimer, InUse
  <2> QED
    BY <1>12, <2>1 DEF loseTimer, Firing, TimeInv, OnTime
<1> QED
  BY <1>1, <1>2, <1>3, <1>4, <1>5, <1>6, <1>7, <1>8, <1>9, <1>10, <1>11, <1>12, Steps

\* A step that creates no timer makes none repeat.
LEMMA OnceBefore ==
    ASSUME UNCHANGED <<planned, created>>
    PROVE  OnlyOnce' <=> OnlyOnce
BY DEF OnlyOnce

\* Without repeats, a timer whose callback returned ended.
LEMMA OnceEnds ==
    ASSUME TypeOK, PlacesInv, CountInv, OnlyOnce, nextRepeat
    PROVE  FALSE
<1>1. it \in 1..created
  BY DEF nextRepeat, PlacesInv, TypeOK, IteratorOK, Elements
<1>2. repeat_[it] = 1
  BY <1>1 DEF OnlyOnce, CountInv, Counted
<1> QED
  BY <1>2 DEF nextRepeat, hasNextTime

\* Without repeats the set is in the order of its comparison.
LEMMA OnceOrder ==
    ASSUME TypeOK, OnceInv, OnlyOnce
    PROVE  InOrder
<1>1. ASSUME NEW m \in 1..Len(timers_), NEW n \in 1..Len(timers_), m < n
      PROVE  Cmp(timers_[m], timers_[n])
  <2>1. timers_[m] # timers_[n] /\ m <= n
    BY <1>1, Typed DEF IsInjective
  <2>2. Before(timers_, timers_[m], timers_[n])
    BY <2>1 DEF Before
  <2>3. timers_[m] \in Elements(timers_) /\ timers_[n] \in Elements(timers_)
    BY DEF Elements
  <2> QED
    BY <2>1, <2>2, <2>3 DEF OnceInv
<1> QED
  BY <1>1 DEF InOrder

\* In a set that is in order a search meets its timer, and that alone.
LEMMA FoundAlone ==
    ASSUME TypeOK, InOrder, NEW t \in Elements(timers_), RemoveTime(t)
    PROVE  timers_' = erased(t) /\ destroyed' = destroyed
<1>1. place(t) \in 1..Len(timers_) /\ timers_[place(t)] = t
  BY Place
<1>2. \A u, v \in Timers : ~(Cmp(u, v) /\ Cmp(v, u))
  BY Typed DEF Cmp
<1>3. \A n \in 1..Len(timers_) : timers_[n] \in Timers
  BY Typed
<1>4. inOrder(t)
  BY DEF inOrder, InOrder
<1>5. ASSUME NEW p \in 1..Len(timers_), NEW q \in 1..Len(timers_), equalRange(t, p, q)
      PROVE  p = place(t) /\ q = place(t)
  <2>1. p <= place(t) /\ place(t) <= q
    BY <1>5 DEF equalRange
  <2>2. ASSUME p < place(t) PROVE FALSE
    BY <1>1, <1>2, <1>3, <1>5, <2>2 DEF equalRange, InOrder
  <2>3. ASSUME place(t) < q PROVE FALSE
    BY <1>1, <1>2, <1>3, <1>5, <2>3 DEF equalRange, InOrder
  <2> QED
    BY <1>1, <2>1, <2>2, <2>3
<1>6. PICK p, q \in 1..Len(timers_) :
          /\ equalRange(t, p, q)
          /\ timers_' = without(p, q)
          /\ destroyed' = destroyed \cup (span(p, q) \ {t})
  BY <1>4 DEF RemoveTime
<1>7. p = place(t) /\ q = place(t)
  BY <1>5, <1>6
<1>8. span(p, q) = {t}
  BY <1>1, <1>7 DEF span
<1> QED
  BY <1>6, <1>7, <1>8 DEF erased

\* Without repeats every step keeps the order of the set, by which it is searched.
LEMMA OnceNext ==
    ASSUME TypeOK, PlacesInv, CountInv, OnceInv, ~undefined, [Next]_vars
    PROVE  OnceInv'
<1> SUFFICES ASSUME OnlyOnce'
             PROVE  /\ sorted'
                    /\ \A t, u \in Elements(timers_') :
                          Before(timers_', t, u) /\ t # u => Cmp(t, u)'
                    /\ removed' \cap Elements(timers_') = {} /\ destroyed' = {}
  BY DEF OnceInv
<1>0. /\ created \in Nat /\ 1..created \subseteq Timers /\ Elements(timers_) \subseteq 1..created
      /\ timers_ \in Seq(1..created) /\ IsInjective(timers_)
      /\ \A t \in Timers : expiration_[t] \in Nat /\ t \in Nat
  BY Typed
<1>1. ASSUME NEW r \in RepeatCounts, NEW i \in Nat \ {0}, create(r, i) PROVE OnceInv'
  <2>0. PICK t : t = created + 1
    OBVIOUS
  <2>1. /\ t \in Timers /\ created' = t
        /\ expiration_' = [expiration_ EXCEPT ![t] = now + i]
        /\ planned' = [planned EXCEPT ![t] = r]
        /\ t \notin Elements(timers_)
        /\ UNCHANGED <<clock, timers_, pass, fired, removed, lost, destroyed, owed, undefined>>
    BY <1>1, <2>0, Created
  <2>2. OnlyOnce
    BY <1>0, <2>0, <2>1 DEF OnlyOnce, TypeOK
  <2>3. \A u \in Elements(timers_) : expiration_'[u] = expiration_[u]
    BY <1>0, <2>1 DEF TypeOK
  <2> QED
    BY <2>1, <2>2, <2>3 DEF OnceInv, Cmp
<1>2. ASSUME NEW t \in Timers, AddTimer(t) PROVE OnceInv'
  <2>1. /\ Elements(timers_') = Elements(timers_) \cup {t}
        /\ \A u, v : u # t /\ v # t => (Before(timers_', u, v) <=> Before(timers_, u, v))
        /\ \A u : Before(timers_', u, t) /\ u # t =>
              \E w \in Elements(timers_) : Before(timers_, u, w) /\ Cmp(w, t)
        /\ \A v : Before(timers_', t, v) /\ v # t =>
              \E w \in Elements(timers_) : Before(timers_, w, v) /\ Cmp(t, w)
    BY <1>2, Added
  <2>2. OnlyOnce
    BY <1>2, OnceBefore DEF AddTimer
  <2>3. \A u, v \in Elements(timers_) : Before(timers_, u, v) => u = v \/ Cmp(u, v)
    BY <2>2 DEF OnceInv
  <2>4. \A u, v, w \in Timers : Cmp(u, v) /\ Cmp(v, w) => Cmp(u, w)
    BY <1>0 DEF Cmp
  <2>5. ASSUME NEW u \in Elements(timers_'), NEW v \in Elements(timers_'),
               Before(timers_', u, v), u # v
        PROVE  Cmp(u, v)
    <3>1. CASE u # t /\ v # t
      BY <2>1, <2>3, <2>5, <3>1
    <3>2. CASE v = t
      <4>1. PICK w \in Elements(timers_) : Before(timers_, u, w) /\ Cmp(w, t)
        BY <2>1, <2>5, <3>2
      <4>2. u \in Elements(timers_) /\ {u, w, t} \subseteq Timers
        BY <1>0, <2>1, <2>5, <3>2
      <4>3. u = w \/ Cmp(u, w)
        BY <2>3, <4>1, <4>2
      <4> QED
        BY <2>4, <3>2, <4>1, <4>2, <4>3
    <3>3. CASE u = t
      <4>1. PICK w \in Elements(timers_) : Before(timers_, w, v) /\ Cmp(t, w)
        BY <2>1, <2>5, <3>3
      <4>2. v \in Elements(timers_) /\ {v, w, t} \subseteq Timers
        BY <1>0, <2>1, <2>5, <3>3
      <4>3. w = v \/ Cmp(w, v)
        BY <2>3, <4>1, <4>2
      <4> QED
        BY <2>4, <3>3, <4>1, <4>2, <4>3
    <3> QED
      BY <3>1, <3>2, <3>3
  <2>6. t \notin removed
    BY <1>2 DEF AddTimer, PlacesInv
  <2>7. UNCHANGED <<expiration_, removed, destroyed, sorted>>
    BY <1>2 DEF AddTimer
  <2> QED
    BY <2>1, <2>2, <2>5, <2>6, <2>7 DEF OnceInv, Cmp
<1>3. ASSUME NEW t \in Timers, RemoveTime(t) PROVE OnceInv'
  <2>1. OnlyOnce
    BY <1>3, OnceBefore DEF RemoveTime
  <2>2. InOrder
    BY <2>1, OnceOrder
  <2>3. timers_' = erased(t) /\ destroyed' = destroyed
    BY <1>3, <2>2, FoundAlone DEF RemoveTime
  <2>4. /\ Elements(timers_') = Elements(timers_) \ {t}
        /\ \A u, v : Before(timers_', u, v) => Before(timers_, u, v)
    BY <1>3, <2>3, Erased DEF RemoveTime
  <2>5. UNCHANGED <<expiration_, sorted>> /\ removed' = removed \cup {t}
    BY <1>3 DEF RemoveTime
  <2> QED
    BY <2>1, <2>3, <2>4, <2>5 DEF OnceInv, Cmp
<1>4. ASSUME NEW t \in Timers, removeFreed(t) PROVE OnceInv'
  BY <1>4, OnceBefore DEF removeFreed, OnceInv, Cmp
<1>5. CASE passBegin
  <2>1. OnlyOnce
    BY <1>5, OnceBefore DEF passBegin
  <2>2. InOrder
    BY <2>1, OnceOrder
  <2> QED
    BY <1>5, <2>1, <2>2 DEF passBegin, OnceInv, Cmp
<1>6. CASE doCallBack
  BY <1>6, OnceBefore DEF doCallBack, OnceInv, Cmp
<1>7. CASE nextRepeat
  <2>1. OnlyOnce
    BY <1>7, OnceBefore DEF nextRepeat
  <2> QED
    BY <1>7, <2>1, OnceEnds
<1>8. CASE eraseEnded
  <2>1. OnlyOnce
    BY <1>8, OnceBefore DEF eraseEnded
  <2>2. it \in Elements(timers_)
    BY <1>8 DEF eraseEnded, PlacesInv, TypeOK, IteratorOK
  <2>3. /\ Elements(timers_') = Elements(timers_) \ {it}
        /\ \A u, v : Before(timers_', u, v) => Before(timers_, u, v)
    BY <1>8, <2>2, Erased DEF eraseEnded
  <2>4. UNCHANGED <<expiration_, sorted, removed, destroyed>>
    BY <1>8 DEF eraseEnded
  <2> QED
    BY <2>1, <2>3, <2>4 DEF OnceInv, Cmp
<1>9. CASE passEnd
  BY <1>9, OnceBefore DEF passEnd, OnceInv, Cmp
<1>10. CASE tick
  BY <1>10, OnceBefore DEF tick, OnceInv, Cmp
<1>11. CASE UNCHANGED vars
  BY <1>11, OnceBefore DEF vars, OnceInv, Cmp
<1>12. ASSUME NEW t \in Timers, loseTimer(t) PROVE OnceInv'
  BY <1>12, OnceBefore DEF loseTimer, OnceInv, Cmp
<1> QED
  BY <1>1, <1>2, <1>3, <1>4, <1>5, <1>6, <1>7, <1>8, <1>9, <1>10, <1>11, <1>12, Steps DEF OnceInv

\* A removal that leaves the iterator's timer in the set destroys no other that
\* comes after it, when the set is in order from there on.
LEMMA OwedStays ==
    ASSUME TypeOK, ~undefined, NEW t \in Timers, RemoveTime(t), ~undefined',
           it \in Elements(timers_),
           \A u, v \in Elements(timers_) :
               Before(timers_, it, u) /\ Before(timers_, u, v) /\ u # v => Cmp(u, v),
           NEW w \in Elements(timers_), w # t, Before(timers_, it, w)
    PROVE  w \in Elements(timers_')
<1>1. PICK k : k = place(t)
  OBVIOUS
<1>2. /\ t \in Elements(timers_) /\ k \in 1..Len(timers_) /\ timers_[k] = t
      /\ timers_ \in Seq(1..created) /\ IsInjective(timers_)
  BY <1>1, Place, Typed DEF RemoveTime
<1>3. \A u, v \in Timers : ~(Cmp(u, v) /\ Cmp(v, u))
  BY Typed DEF Cmp
<1>4. PICK m \in 1..Len(timers_), n \in 1..Len(timers_) :
          m <= n /\ timers_[m] = it /\ timers_[n] = w
  BY DEF Before
<1>5. CASE \E p, q \in 1..Len(timers_) :
             /\ equalRange(t, p, q)
             /\ timers_' = without(p, q)
             /\ undefined' = (it \in span(p, q))
  <2>1. PICK p, q \in 1..Len(timers_) :
             /\ equalRange(t, p, q)
             /\ timers_' = without(p, q)
             /\ undefined' = (it \in span(p, q))
    BY <1>5
  <2>2. p <= k /\ k <= q /\ q \in p..Len(timers_)
    BY <1>1, <1>2, <2>1 DEF equalRange
  <2>3. m \notin p..q
    BY <1>4, <2>1 DEF span
  <2>4. Elements(timers_') = Elements(timers_) \ span(p, q)
    BY <2>1, <2>2, Cut
  <2>5. ASSUME w \in span(p, q) PROVE FALSE
    <3>1. n \in p..q
      BY <1>2, <1>4, <2>1, <2>5 DEF span, IsInjective
    <3>2. m < p
      BY <1>4, <2>2, <2>3, <3>1
    <3>3. n # k
      BY <1>2, <1>4
    <3>4. \A i, j \in 1..Len(timers_) : m <= i /\ i < j => Cmp(timers_[i], timers_[j])
      <4>1. ASSUME NEW i \in 1..Len(timers_), NEW j \in 1..Len(timers_), m <= i, i < j
            PROVE  Cmp(timers_[i], timers_[j])
        <5>1. timers_[i] \in Elements(timers_) /\ timers_[j] \in Elements(timers_)
          BY DEF Elements
        <5>2. Before(timers_, it, timers_[i])
          BY <1>4, <4>1 DEF Before
        <5>3. i <= j
          BY <4>1
        <5>4. Before(timers_, timers_[i], timers_[j])
          BY <5>3 DEF Before
        <5>5. timers_[i] # timers_[j]
          BY <1>2, <4>1 DEF IsInjective
        <5> QED
          BY <5>1, <5>2, <5>4, <5>5
      <4> QED
        BY <4>1
    <3>5. \A i \in 1..Len(timers_) : timers_[i] \in Timers
      BY Typed DEF Elements
    <3>6. CASE n < k
      <4>1. p < k /\ Cmp(t, timers_[p])
        BY <1>1, <1>2, <2>1, <2>2, <3>1, <3>6 DEF equalRange
      <4>2. Cmp(timers_[p], t)
        BY <1>2, <3>2, <3>4, <4>1
      <4> QED
        BY <1>2, <1>3, <3>5, <4>1, <4>2
    <3>7. CASE k < n
      <4>1. k < q /\ Cmp(timers_[q], t)
        BY <1>1, <1>2, <2>1, <2>2, <3>1, <3>7 DEF equalRange
      <4>2. m <= k
        BY <1>2, <2>2, <3>2
      <4>3. Cmp(t, timers_[q])
        BY <1>2, <3>4, <4>1, <4>2
      <4> QED
        BY <1>2, <1>3, <3>5, <4>1, <4>3
    <3> QED
      BY <1>2, <3>1, <3>3, <3>6, <3>7
  <2> QED
    BY <2>4, <2>5
<1>6. CASE UNCHANGED timers_
  BY <1>6
<1> QED
  BY <1>5, <1>6 DEF RemoveTime

\* The walk of triggerTimer over a set that was in order: what is behind the
\* iterator may change, what is owed stands before it.
LEMMA PassNext ==
    ASSUME TypeOK, PlacesInv, PassInv, ~undefined, [Next]_vars
    PROVE  PassInv'
<1>0. /\ created \in Nat /\ 1..created \subseteq Timers /\ Elements(timers_) \subseteq 1..created
      /\ timers_ \in Seq(1..created) /\ IsInjective(timers_)
      /\ now \in Nat /\ timeNow \in Nat /\ 0 \notin Elements(timers_)
      /\ \A t \in Timers : expiration_[t] \in Nat
  BY Typed
<1>0a. sorted => /\ owed # {} => running
                 /\ \A t \in owed : expiration_[t] <= timeNow /\ Before(timers_, it, t)
                 /\ \A t, u \in Elements(timers_) :
                       Before(timers_, it, t) /\ Before(timers_, t, u) /\ t # u => Cmp(t, u)
  BY DEF PassInv
<1>1. ASSUME NEW r \in RepeatCounts, NEW i \in Nat \ {0}, create(r, i) PROVE PassInv'
  <2>0. PICK t : t = created + 1
    OBVIOUS
  <2>1. /\ t \in Timers
        /\ expiration_' = [expiration_ EXCEPT ![t] = now + i]
        /\ t \notin Elements(timers_)
        /\ UNCHANGED <<clock, timers_, pass, fired, removed, lost, destroyed, owed, undefined>>
    BY <1>1, <2>0, Created
  <2>2. \A u \in 1..created : expiration_'[u] = expiration_[u]
    BY <1>0, <2>0, <2>1 DEF TypeOK
  <2>3. owed \subseteq 1..created
    BY DEF TypeOK
  <2>4. \A u, v \in Elements(timers_) : Cmp(u, v)' <=> Cmp(u, v)
    BY <1>0, <2>2 DEF Cmp
  <2> QED
    BY <1>0, <2>1, <2>2, <2>3, <2>4 DEF PassInv
<1>2. ASSUME NEW t \in Timers, AddTimer(t) PROVE PassInv'
  <2> SUFFICES ASSUME sorted
               PROVE  /\ owed # {} => running
                      /\ \A u \in owed : expiration_[u] <= timeNow /\ Before(timers_', it, u)
                      /\ \A u, v \in Elements(timers_') :
                            Before(timers_', it, u) /\ Before(timers_', u, v) /\ u # v => Cmp(u, v)
    BY <1>2 DEF AddTimer, PassInv, Cmp
  <2>1. /\ timers_' \in Seq(1..created) /\ IsInjective(timers_')
        /\ t \notin Elements(timers_)
        /\ Elements(timers_') = Elements(timers_) \cup {t}
        /\ \A u, v : u # t /\ v # t => (Before(timers_', u, v) <=> Before(timers_, u, v))
        /\ \A u : Before(timers_', u, t) /\ u # t =>
              \E w \in Elements(timers_) : Before(timers_, u, w) /\ Cmp(w, t)
        /\ \A v : Before(timers_', t, v) /\ v # t =>
              \E w \in Elements(timers_) :
                 /\ Before(timers_, w, v) /\ Cmp(t, w)
                 /\ \A u : Before(timers_', u, t) /\ u # t => Before(timers_, u, w)
    BY <1>2, Added
  <2>2. it # t
    BY <1>0, <1>2, <2>1 DEF TypeOK, IteratorOK, Timers
  <2>3. ASSUME NEW u \in owed
        PROVE  expiration_[u] <= timeNow /\ Before(timers_', it, u)
    <3>1. expiration_[u] <= timeNow /\ Before(timers_, it, u)
      BY <1>0a
    <3>2. u # t
      BY <1>0, <2>1, <3>1, Order
    <3> QED
      BY <2>1, <2>2, <3>1, <3>2
  <2>4. \A u, v \in Elements(timers_) :
            Before(timers_, it, u) /\ Before(timers_, u, v) => u = v \/ Cmp(u, v)
    BY <1>0a
  <2>5. \A u, v, w \in Timers : Cmp(u, v) /\ Cmp(v, w) => Cmp(u, w)
    BY Typed DEF Cmp
  <2>6. ASSUME NEW u \in Elements(timers_'), NEW v \in Elements(timers_'),
               Before(timers_', it, u), Before(timers_', u, v), u # v
        PROVE  Cmp(u, v)
    <3>1. CASE u # t /\ v # t
      BY <2>1, <2>2, <2>4, <2>6, <3>1
    <3>2. CASE v = t
      <4>1. PICK w \in Elements(timers_) : Before(timers_, u, w) /\ Cmp(w, t)
        BY <2>1, <2>6, <3>2
      <4>2. u \in Elements(timers_) /\ {u, w, t} \subseteq Timers
        BY <1>0, <2>1, <2>6, <3>2
      <4>3. Before(timers_, it, u)
        BY <2>1, <2>2, <2>6, <3>2
      <4>4. u = w \/ Cmp(u, w)
        BY <2>4, <4>1, <4>2, <4>3
      <4> QED
        BY <2>5, <3>2, <4>1, <4>2, <4>4
    <3>3. CASE u = t
      <4>1. PICK w \in Elements(timers_) :
                /\ Before(timers_, w, v) /\ Cmp(t, w)
                /\ \A k : Before(timers_', k, t) /\ k # t => Before(timers_, k, w)
        BY <2>1, <2>6, <3>3
      <4>2. v \in Elements(timers_) /\ {v, w, t} \subseteq Timers
        BY <1>0, <2>1, <2>6, <3>3
      <4>3. Before(timers_, it, w)
        BY <2>2, <2>6, <3>3, <4>1
      <4>4. w = v \/ Cmp(w, v)
        BY <2>4, <4>1, <4>2, <4>3
      <4> QED
        BY <2>5, <3>3, <4>1, <4>2, <4>4
    <3> QED
      BY <3>1, <3>2, <3>3
  <2> QED
    BY <1>0a, <2>3, <2>6
<1>3. ASSUME NEW t \in Timers, RemoveTime(t) PROVE PassInv'
  <2>1. owed' = owed \ {t} /\ UNCHANGED <<expiration_, it, running, timeNow, sorted>>
    BY <1>3 DEF RemoveTime
  <2>2. sorted' => (owed' # {} => running')
    BY <1>0a, <2>1
  <2> SUFFICES ASSUME sorted, ~undefined'
               PROVE  /\ \A u \in owed' : expiration_[u] <= timeNow /\ Before(timers_', it, u)
                      /\ \A u, v \in Elements(timers_') :
                            Before(timers_', it, u) /\ Before(timers_', u, v) /\ u # v => Cmp(u, v)
    BY <2>1, <2>2 DEF PassInv, Cmp
  <2>3. /\ Elements(timers_') \subseteq Elements(timers_)
        /\ it \notin Elements(timers_) \/ it \in Elements(timers_')
        /\ \A u, v : Before(timers_', u, v) <=>
                        /\ Before(timers_, u, v)
                        /\ u \in Elements(timers_') /\ v \in Elements(timers_')
    BY <1>3, Found
  <2>4. ASSUME NEW u \in owed'
        PROVE  expiration_[u] <= timeNow /\ Before(timers_', it, u)
    <3>1. u # t /\ running /\ expiration_[u] <= timeNow /\ Before(timers_, it, u)
      BY <1>0a, <2>1, <2>4
    <3>2. it \in Elements(timers_) /\ u \in Elements(timers_)
      BY <1>0, <3>1, Order
    <3>3. it \in Elements(timers_')
      BY <2>3, <3>2
    <3>4. u \in Elements(timers_')
      BY <1>3, <2>4, <3>1, <3>2, <3>3, <1>0a, OwedStays
    <3> QED
      BY <2>3, <3>1, <3>3, <3>4
  <2>5. ASSUME NEW u \in Elements(timers_'), NEW v \in Elements(timers_'),
               Before(timers_', it, u), Before(timers_', u, v), u # v
        PROVE  Cmp(u, v)
    BY <1>0a, <2>3, <2>5
  <2> QED
    BY <2>4, <2>5
<1>4. ASSUME NEW t \in Timers, removeFreed(t) PROVE PassInv'
  BY <1>4 DEF removeFreed, PassInv
<1>5. CASE passBegin
  <2> SUFFICES ASSUME InOrder PROVE PassInv'
    BY <1>5 DEF passBegin, PassInv
  <2>1. ASSUME NEW t \in Elements(timers_) PROVE Before(timers_, first, t)
    <3>1. PICK n \in 1..Len(timers_) : timers_[n] = t
      BY DEF Elements
    <3>2. 1 \in 1..Len(timers_) /\ 1 <= n /\ timers_ # <<>>
      BY <1>0
    <3> QED
      BY <3>1, <3>2 DEF Before, first
  <2>2. ASSUME NEW t \in Elements(timers_), NEW u \in Elements(timers_), Before(timers_, t, u), t # u
        PROVE  Cmp(t, u)
    <3>1. PICK m \in 1..Len(timers_), n \in 1..Len(timers_) :
              m <= n /\ timers_[m] = t /\ timers_[n] = u
      BY <2>2 DEF Before
    <3>2. m < n
      BY <2>2, <3>1
    <3> QED
      BY <3>1, <3>2 DEF InOrder
  <2> QED
    BY <1>5, <2>1, <2>2 DEF passBegin, PassInv, Cmp
<1>6. CASE doCallBack
  BY <1>6 DEF doCallBack, PassInv, Cmp
<1>7. CASE nextRepeat
  <2>1. it \in Elements(timers_) /\ it \in Timers /\ it \notin owed
    BY <1>0, <1>7 DEF nextRepeat, PlacesInv, TypeOK, IteratorOK
  <2>2. it' = after(it) /\ UNCHANGED <<timers_, owed, running, timeNow, sorted>>
    BY <1>7 DEF nextRepeat
  <2>3. \A u : Before(timers_, it', u) <=> Before(timers_, it, u) /\ u # it
    BY <2>1, <2>2, Successor
  <2>4. \A u \in 1..created : u # it => expiration_'[u] = expiration_[u]
    BY <1>0, <1>7 DEF nextRepeat, TypeOK, IteratorOK
  <2>5. ASSUME NEW u \in Elements(timers_), NEW v \in Elements(timers_),
               Before(timers_, it', u), Before(timers_, u, v)
        PROVE  Before(timers_, it, u) /\ u # it /\ v # it
    <3>1. Before(timers_, it, u) /\ u # it
      BY <2>3, <2>5
    <3>2. v # it
      BY <1>0, <2>5, <3>1, Order
    <3> QED
      BY <3>1, <3>2
  <2>6. owed \subseteq 1..created
    BY DEF TypeOK
  <2>7. \A u, v \in Elements(timers_) : u # it /\ v # it => (Cmp(u, v)' <=> Cmp(u, v))
    BY <1>0, <2>4 DEF Cmp
  <2> QED
    BY <1>0, <1>0a, <2>1, <2>2, <2>3, <2>4, <2>5, <2>6, <2>7 DEF PassInv
<1>8. CASE eraseEnded
  <2>1. it \in Elements(timers_) /\ it \notin owed
    BY <1>0, <1>8 DEF eraseEnded, PlacesInv, TypeOK, IteratorOK
  <2>2. /\ it' = after(it) /\ timers_' = erased(it)
        /\ UNCHANGED <<expiration_, owed, running, timeNow, sorted>>
    BY <1>8 DEF eraseEnded
  <2>3. /\ it' # it
        /\ \A u : Before(timers_, it', u) <=> Before(timers_, it, u) /\ u # it
    BY <2>1, <2>2, Successor
  <2>4. /\ Elements(timers_') \subseteq Elements(timers_)
        /\ \A u, v : Before(timers_', u, v) <=> Before(timers_, u, v) /\ u # it /\ v # it
    BY <2>1, <2>2, Erased
  <2> QED
    BY <1>0a, <2>1, <2>2, <2>3, <2>4 DEF PassInv, Cmp
<1>9. CASE passEnd
  <2>1. /\ it' = 0 /\ (it # 0 => expiration_[it] > timeNow)
        /\ UNCHANGED <<expiration_, timers_, owed, sorted>>
    BY <1>9 DEF passEnd
  <2>2. \A u : ~Before(timers_, 0, u)
    BY <1>0, Order
  <2>3. ASSUME sorted, NEW t \in owed PROVE FALSE
    <3>1. expiration_[t] <= timeNow /\ Before(timers_, it, t)
      BY <1>0a, <2>3
    <3>2. it \in Elements(timers_) /\ t \in Elements(timers_) /\ it # 0
      BY <1>0, <2>2, <3>1, Order
    <3>3. it = t \/ Cmp(it, t)
      BY <1>0, <1>0a, <2>3, <3>1, <3>2, Order
    <3>4. expiration_[it] \in Nat /\ expiration_[t] \in Nat
      BY <1>0, <3>2
    <3> QED
      BY <1>0, <2>1, <3>1, <3>2, <3>3, <3>4 DEF Cmp
  <2> QED
    BY <2>1, <2>2, <2>3 DEF PassInv
<1>10. CASE tick
  BY <1>10 DEF tick, PassInv, Cmp
<1>11. CASE UNCHANGED vars
  BY <1>11 DEF vars, PassInv, Cmp
<1>12. ASSUME NEW t \in Timers, loseTimer(t) PROVE PassInv'
  BY <1>12 DEF loseTimer, PassInv, Cmp
<1> QED
  BY <1>1, <1>2, <1>3, <1>4, <1>5, <1>6, <1>7, <1>8, <1>9, <1>10, <1>11, <1>12, Steps

LEMMA InvInit == Init => IInv
<1> SUFFICES ASSUME Init PROVE IInv
  OBVIOUS
<1>1. \A t : t \notin Elements(timers_)
  BY DEF Init, Elements
<1>2. TypeOK
  <2>1. /\ expiration_ \in [Timers -> Nat] /\ interval_ \in [Timers -> Nat]
        /\ repeat_ \in [Timers -> {-1} \cup Nat] /\ planned \in [Timers -> {-1} \cup Nat]
        /\ fired \in [Timers -> Nat] /\ born \in [Timers -> Nat]
    BY DEF Init, Zero
  <2>2. timers_ \in Seq(1..created) /\ IsInjective(timers_)
    BY DEF Init, IsInjective
  <2>3. now \in 0..MaxTime /\ timeNow \in 0..MaxTime /\ created \in 0..MaxTimers
    BY BoundsAssumption DEF Init
  <2> QED
    <3>1. IteratorOK
      BY DEF Init, IteratorOK
    <3> QED
      BY <2>1, <2>2, <2>3, <3>1 DEF Init, TypeOK
<1>3. PlacesInv
  BY <1>1 DEF Init, Zero, PlacesInv
<1>4. CountInv /\ TimeInv
  BY DEF Init, CountInv, TimeInv
<1>5. OnceInv /\ PassInv
  BY <1>1 DEF Init, OnceInv, PassInv
<1> QED
  BY <1>2, <1>3, <1>4, <1>5 DEF IInv

\* Nothing more is said once freed memory was read: the state stays as it is.
LEMMA InvStays ==
    ASSUME IInv, UNCHANGED vars
    PROVE  IInv'
<1>1. TypeOK' /\ PlacesInv'
  BY DEF vars, IInv, TypeOK, IteratorOK, PlacesInv
<1>2. CountInv'
  BY DEF vars, IInv, CountInv, Counted, Firing, InUse
<1>3. TimeInv'
  BY DEF vars, IInv, TimeInv, OnTime, Firing, InUse
<1>4. OnceInv'
  BY DEF vars, IInv, OnceInv, OnlyOnce, Cmp
<1>5. PassInv'
  BY DEF vars, IInv, PassInv, Cmp
<1> QED
  BY <1>1, <1>2, <1>3, <1>4, <1>5 DEF IInv

LEMMA InvNext == IInv /\ [Next]_vars => IInv'
<1> SUFFICES ASSUME IInv, [Next]_vars PROVE IInv'
  OBVIOUS
<1>1. CASE undefined
  <2>1. UNCHANGED vars
    BY <1>1 DEF Next
  <2> QED
    BY <2>1, InvStays
<1>2. CASE ~undefined
  BY <1>2, TypeNext, PlacesNext, CountNext, TimeNext, OnceNext, PassNext DEF IInv
<1> QED
  BY <1>1, <1>2

-----------------------------------------------------------------------------
(* The theorems                                                            *)

\* IInv holds in every reachable state, for every MaxTimers and MaxTime, any set of
\* intervals and any repeats: what AddTimer, RemoveTime and triggerTimer keep.
THEOREM InductiveInvariant == Spec => []IInv
BY InvInit, InvNext, PTL DEF Spec

\* A timer is in the set at most once and triggerTimer's iterator stands in the set,
\* whatever callbacks add and remove (xtimer_queue.cpp:24-43), until a removal
\* erases the timer whose callback runs, or compares with one that was freed.
THEOREM TypeInvariant == Spec => []TypeOK
<1>1. IInv => TypeOK
  BY DEF IInv
<1> QED
  BY <1>1, InductiveInvariant, PTL

\* A pass of triggerTimer that begins in order, and every pass without repeats,
\* fires all timers that were due when it began and not removed: erase(key)
\* (xtimer_queue.cpp:18) destroys none of them with a timer that was moved.
THEOREM DueTimersDoFire == Spec => []DueTimersFireInOrder
<1>1. IInv => DueTimersFireInOrder
  <2> SUFFICES ASSUME IInv, sorted \/ OnlyOnce, ~running PROVE owed = {}
    BY DEF DueTimersFireInOrder, DueTimersFire
  <2>1. sorted
    BY DEF IInv, OnceInv
  <2> QED
    BY <2>1 DEF IInv, PassInv
<1> QED
  BY <1>1, InductiveInvariant, PTL

\* Without repeats erase finds the timer it is asked to remove, and erases no other
\* (xtimer_queue.cpp:18).
THEOREM RemovalsFindTheirTimer == Spec => []RemovedStaysOut
<1>1. IInv => RemovedStaysOut
  <2> SUFFICES ASSUME IInv, OnlyOnce
               PROVE  InOrder /\ removed \cap Elements(timers_) = {} /\ destroyed = {}
    BY DEF RemovedStaysOut
  <2>1. TypeOK /\ OnceInv
    BY DEF IInv
  <2> QED
    BY <2>1, OnceOrder DEF OnceInv
<1> QED
  BY <1>1, InductiveInvariant, PTL

\* No timer fires more often than planned, or early, however late the loop comes
\* and whatever order the set is in, and one that left the set by itself fired as
\* often as planned (xtimer.h:64-78): unless it was removed, or destroyed with one
\* that was.
THEOREM TimersFireAsPlanned == Spec => []FiresAsPlanned
<1>1. IInv => FiresAsPlanned
  <2> SUFFICES ASSUME IInv, NEW t \in 1..created
               PROVE  /\ now >= born[t] + fired[t] * interval_[t]
                      /\ planned[t] = 1 /\ fired[t] > 0 => now >= expiration_[t]
                      /\ planned[t] # -1 =>
                            /\ fired[t] <= planned[t]
                            /\ \/ t \in handed \cup lost \cup Elements(timers_)
                               \/ t \in removed \cup destroyed
                               \/ fired[t] = planned[t]
    BY DEF FiresAsPlanned
  <2>1. Counted(t) /\ OnTime(t)
    BY DEF IInv, CountInv, TimeInv
  <2> QED
    BY <2>1 DEF Counted, OnTime, InUse
<1> QED
  BY <1>1, InductiveInvariant, PTL
=============================================================================
