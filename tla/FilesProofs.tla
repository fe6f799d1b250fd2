---------------------------- MODULE FilesProofs ----------------------------
(* Proofs about what is written to open files, for any tasks and calls. *)
EXTENDS Files, WellFoundedInduction, TLAPS

----------------------------------------------------------------------------
(* Sequences. *)

\* A function on an initial segment is a sequence.
LEMMA FunSeq ==
    ASSUME NEW S, NEW n \in Nat, NEW f \in [1..n -> S]
    PROVE  f \in Seq(S)
OBVIOUS

\* A sequence is one over any larger set.
LEMMA WiderSeq ==
    ASSUME NEW S, NEW T, NEW s \in Seq(S), S \subseteq T
    PROVE  s \in Seq(T)
<1>1. Len(s) \in Nat /\ s \in [1..Len(s) -> T]
  OBVIOUS
<1> QED
  BY <1>1, FunSeq

\* Two sequences, one after the other.
LEMMA JoinedSeq ==
    ASSUME NEW S, NEW s \in Seq(S), NEW t \in Seq(S)
    PROVE  /\ s \o t \in Seq(S) /\ Len(s \o t) = Len(s) + Len(t)
           /\ \A i \in 1..(Len(s) + Len(t)) :
                (s \o t)[i] = IF i <= Len(s) THEN s[i] ELSE t[i - Len(s)]
OBVIOUS

----------------------------------------------------------------------------
(* Open files. *)

Write == [pos : Nat, src : Contents]
End(e) == e.pos + Len(e.src)

\* A set of numbers with a bound has a greatest one.
LEMMA MaxFacts ==
    ASSUME NEW S, S \subseteq Nat, S # {}, NEW b \in Nat, \A x \in S : x <= b
    PROVE  Max(S) \in S /\ \A x \in S : x <= Max(S)
<1> DEFINE Less == {p \in Nat \X Nat : p[1] < p[2]}
           T == {b - x : x \in S}
<1>1. IsWellFoundedOn(Less, Nat)
  BY NatLessThanWellFounded DEF OpToRel
<1> HIDE DEF Less
<1>2. \A x \in S : x \in Nat /\ x <= b /\ b - x \in Nat
  OBVIOUS
<1>3. T \subseteq Nat /\ T # {}
  BY <1>2
<1>4. PICK m \in T : \A n \in T : ~(<<n, m>> \in Less)
  <2> HIDE DEF T
  <2> QED
    BY <1>1, <1>3, WFMin
<1>5. PICK x \in S : m = b - x
  OBVIOUS
<1>6. ASSUME NEW y \in S PROVE x >= y
  <2>1. b - y \in Nat /\ b - x \in Nat /\ x \in Nat /\ y \in Nat
    BY <1>2
  <2>2. ~(<<b - y, b - x>> \in Less)
    BY <1>4, <1>5
  <2>3. ~(b - y < b - x)
    BY <2>1, <2>2 DEF Less
  <2> QED
    BY <2>1, <2>3
<1>7. Max(S) \in S /\ \A y \in S : Max(S) >= y
  BY <1>6 DEF Max
<1> QED
  BY <1>7

\* A greatest element is the only one.
LEMMA MaxUnique ==
    ASSUME NEW S, S \subseteq Nat, NEW m \in S, \A x \in S : x <= m
    PROVE  Max(S) = m
<1>1. Max(S) \in S /\ \A x \in S : x <= Max(S)
  <2>1. S # {} /\ m \in Nat
    OBVIOUS
  <2> QED
    BY <2>1, MaxFacts, Zenon
<1>2. Max(S) \in Nat /\ m \in Nat /\ Max(S) <= m /\ m <= Max(S)
  BY <1>1, Zenon
<1> QED
  BY <1>2

\* A write starts somewhere and has a length.
LEMMA WriteFacts ==
    ASSUME NEW e \in Write
    PROVE  e.pos \in Nat /\ e.src \in Contents /\ Len(e.src) \in Nat /\ e.pos + Len(e.src) \in Nat
<1>1. e.pos \in Nat /\ e.src \in Contents
  BY DEF Write
<1>2. Len(e.src) \in Nat
  BY <1>1 DEF Contents
<1> QED
  BY <1>1, <1>2

\* Of the writes in a log there is one that ends last.
LEMMA LogBound ==
    ASSUME NEW log \in Seq(Write)
    PROVE  \E b \in Nat : \A i \in 1..Len(log) : End(log[i]) <= b
<1> DEFINE Less == {p \in Nat \X Nat : p[1] < p[2]}
           Bounded(n) == \E b \in Nat : \A i \in 1..n : i <= Len(log) => End(log[i]) <= b
           T == {n \in Nat : ~Bounded(n)}
<1>1. IsWellFoundedOn(Less, Nat)
  BY NatLessThanWellFounded DEF OpToRel
<1> HIDE DEF Less
<1>2. \A i \in 1..Len(log) : End(log[i]) \in Nat
  <2> SUFFICES ASSUME NEW i \in 1..Len(log) PROVE End(log[i]) \in Nat
    OBVIOUS
  <2>1. log[i] \in Write
    OBVIOUS
  <2> QED
    BY <2>1, WriteFacts, Zenon DEF End
<1>3. Len(log) \in Nat
  OBVIOUS
<1>4. Bounded(0)
  OBVIOUS
<1>5. ASSUME NEW n \in Nat, Bounded(n) PROVE Bounded(n + 1)
  <2>1. PICK b \in Nat : \A i \in 1..n : i <= Len(log) => End(log[i]) <= b
    BY <1>5
  <2>2. CASE n + 1 <= Len(log)
    <3> DEFINE e == End(log[n + 1])
               m == IF b <= e THEN e ELSE b
    <3>1. e \in Nat
      BY <1>2, <1>3, <2>2
    <3>2. ASSUME NEW i \in 1..(n + 1), i <= Len(log) PROVE End(log[i]) <= m
      <4>0. End(log[i]) \in Nat
        BY <1>2, <1>3, <3>2
      <4>1. CASE i = n + 1
        BY <3>1, <4>1
      <4>2. CASE i # n + 1
        <5>1. i \in 1..n
          BY <4>2
        <5>2. End(log[i]) <= b
          BY <2>1, <3>2, <5>1
        <5> HIDE DEF e
        <5> QED
          BY <3>1, <4>0, <5>2
      <4> QED
        BY <4>1, <4>2
    <3>3. m \in Nat
      BY <3>1
    <3> QED
      BY <3>2, <3>3
  <2>3. CASE ~(n + 1 <= Len(log))
    <3>1. \A i \in 1..(n + 1) : i <= Len(log) => i \in 1..n
      BY <1>3, <2>3
    <3> QED
      BY <2>1, <3>1
  <2> QED
    BY <2>2, <2>3
<1>6. Bounded(Len(log))
  <2> HIDE DEF Bounded
  <2> SUFFICES ASSUME T # {} PROVE FALSE
    BY <1>3
  <2>1. PICK m \in T : \A n \in T : ~(<<n, m>> \in Less)
    <3>1. T \subseteq Nat
      OBVIOUS
    <3> HIDE DEF T
    <3> QED
      BY <1>1, <3>1, WFMin
  <2>2. m \in Nat /\ ~Bounded(m)
    OBVIOUS
  <2>3. m # 0
    BY <1>4, <2>2
  <2>4. m - 1 \in Nat /\ m - 1 < m /\ (m - 1) + 1 = m
    BY <2>2, <2>3
  <2>5. <<m - 1, m>> \in Less
    BY <2>2, <2>4 DEF Less
  <2>6. Bounded(m - 1)
    BY <2>1, <2>4, <2>5
  <2> QED
    BY <1>5, <2>2, <2>4, <2>6
<1> QED
  BY <1>3, <1>6

\* A file of writes is well formed: what the sums below are about.
Logged(o) == o.was \in Contents /\ o.log \in Seq(Write)

\* The writes that cover a byte: the last of them is one of them.
LEMMA CoverFacts ==
    ASSUME NEW n \in Nat, NEW W, W \subseteq 1..n, W # {}
    PROVE  Max(W) \in W /\ Max(W) \in 1..n
<1>1. W \subseteq Nat /\ \A x \in W : x <= n
  OBVIOUS
<1>2. Max(W) \in W
  BY <1>1, MaxFacts, Zenon
<1> QED
  BY <1>2

\* A byte, and the length, depend on the first n writes only.
LEMMA SamePrefix ==
    ASSUME NEW a, NEW b, NEW n \in Nat, a.was = b.was, \A i \in 1..n : a.log[i] = b.log[i]
    PROVE  /\ Extent(a, n) = Extent(b, n)
           /\ \A k : ByteAt(a, n, k) = ByteAt(b, n, k)
           /\ \A data : AddUpTo(a, n, data) <=> AddUpTo(b, n, data)
<1>1. Extent(a, n) = Extent(b, n)
  <2>1. {a.log[i].pos + Len(a.log[i].src) : i \in 1..n} = {b.log[i].pos + Len(b.log[i].src) : i \in 1..n}
    BY Zenon
  <2> QED
    BY <2>1, Zenon DEF Extent
<1>2. ASSUME NEW k PROVE ByteAt(a, n, k) = ByteAt(b, n, k)
  <2> DEFINE W == {i \in 1..n : Covers(a.log[i], k)}
  <2>1. W = {i \in 1..n : Covers(b.log[i], k)}
    BY Zenon
  <2>2. W # {} => a.log[Max(W)] = b.log[Max(W)]
    <3>1. W \subseteq 1..n
      OBVIOUS
    <3> HIDE DEF W
    <3> QED
      BY <3>1, CoverFacts, Zenon
  <2>3. ByteAt(a, n, k) = IF W # {} THEN LET last == a.log[Max(W)] IN last.src[k - last.pos]
                          ELSE IF k <= Len(a.was) THEN a.was[k] ELSE 0
    BY Zenon DEF ByteAt
  <2>4. ByteAt(b, n, k) = IF W # {} THEN LET last == b.log[Max(W)] IN last.src[k - last.pos]
                          ELSE IF k <= Len(b.was) THEN b.was[k] ELSE 0
    BY <2>1, Zenon DEF ByteAt
  <2> HIDE DEF W
  <2>5. CASE W # {}
    BY <2>2, <2>3, <2>4, <2>5
  <2>6. CASE W = {}
    BY <2>3, <2>4, <2>6
  <2> QED
    BY <2>5, <2>6
<1> QED
  BY <1>1, <1>2, Zenon DEF AddUpTo

\* The length of a file is the end of the write that reaches furthest, or the
\* length it had.
LEMMA ExtentFacts ==
    ASSUME NEW o, Logged(o)
    PROVE  /\ Extent(o, Len(o.log)) \in {Len(o.was)} \cup {o.log[i].pos + Len(o.log[i].src) : i \in 1..Len(o.log)}
           /\ Extent(o, Len(o.log)) \in Nat /\ Len(o.was) <= Extent(o, Len(o.log))
           /\ \A i \in 1..Len(o.log) : o.log[i].pos + Len(o.log[i].src) <= Extent(o, Len(o.log))
<1> DEFINE S == {Len(o.was)} \cup {o.log[i].pos + Len(o.log[i].src) : i \in 1..Len(o.log)}
<1>1. Len(o.was) \in Nat
  BY DEF Logged, Contents
<1>2. \A i \in 1..Len(o.log) : o.log[i].pos \in Nat /\ Len(o.log[i].src) \in Nat
  <2> SUFFICES ASSUME NEW i \in 1..Len(o.log)
               PROVE  o.log[i].pos \in Nat /\ Len(o.log[i].src) \in Nat
    OBVIOUS
  <2>1. o.log[i] \in Write
    BY DEF Logged
  <2> QED
    BY <2>1, WriteFacts, Zenon
<1>3. S \subseteq Nat
  BY <1>1, <1>2
<1>4. PICK m \in Nat : \A i \in 1..Len(o.log) : End(o.log[i]) <= m
  BY LogBound, Zenon DEF Logged
<1>5. PICK b \in Nat : m <= b /\ Len(o.was) <= b
  BY <1>1
<1>6. ASSUME NEW x \in S PROVE x <= b
  <2>1. CASE x = Len(o.was)
    BY <1>5, <2>1
  <2>2. ASSUME NEW i \in 1..Len(o.log), x = o.log[i].pos + Len(o.log[i].src) PROVE x <= b
    <3>1. x <= m
      BY <1>4, <2>2 DEF End
    <3>2. x \in Nat
      BY <1>2, <2>2
    <3> HIDE DEF S
    <3> QED
      BY <1>5, <3>1, <3>2
  <2> QED
    BY <2>1, <2>2, Zenon
<1>7. Len(o.was) \in S /\ \A i \in 1..Len(o.log) : o.log[i].pos + Len(o.log[i].src) \in S
  BY Zenon
<1>8. Extent(o, Len(o.log)) = Max(S)
  BY Zenon DEF Extent
<1> HIDE DEF S
<1>9. S # {}
  BY <1>7
<1>10. Max(S) \in S /\ \A x \in S : x <= Max(S)
  BY <1>3, <1>6, <1>9, MaxFacts, Zenon
<1>11. Max(S) \in Nat
  BY <1>3, <1>10
<1> QED
  BY <1>7, <1>8, <1>10, <1>11, Zenon DEF S

\* What a write makes of the copy: as long as its end at least, the source where
\* it wrote, the copy elsewhere and zeros in a gap.
LEMMA PatchedFacts ==
    ASSUME NEW o, o.buf \in Contents, o.pos \in Nat, NEW src \in Contents
    PROVE  LET new == Patched(o, src)
               end == o.pos + Len(src)
           IN /\ new \in Contents
              /\ Len(new) = IF end <= Len(o.buf) THEN Len(o.buf) ELSE end
              /\ \A k \in 1..Len(new) :
                    new[k] = IF k > o.pos /\ k <= end THEN src[k - o.pos]
                             ELSE IF k <= Len(o.buf) THEN o.buf[k] ELSE 0
<1> DEFINE p == o.pos
           buf == o.buf
           Byte == Bytes \cup {0}
           gap == p + Len(src) - Len(buf)
           more == Zeros(gap)
           long == buf \o more
           new == [k \in DOMAIN long |-> IF k > p /\ k <= p + Len(src) THEN src[k - p] ELSE long[k]]
           m == IF p + Len(src) <= Len(buf) THEN Len(buf) ELSE p + Len(src)
<1>1. Patched(o, src) = new
  BY DEF Patched
<1>2. p \in Nat /\ buf \in Seq(Byte) /\ src \in Seq(Byte) /\ Len(buf) \in Nat /\ Len(src) \in Nat
  BY DEF Contents
<1> HIDE DEF p, buf, new
<1> HIDE DEF Byte
<1>3. 0 \in Byte
  BY DEF Byte
<1>4. more \in Seq(Byte) /\ Len(more) = (IF gap > 0 THEN gap ELSE 0) /\ \A k \in 1..Len(more) : more[k] = 0
  <2>1. CASE gap > 0
    <3>1. gap \in Nat
      BY <1>2, <2>1
    <3> HIDE DEF gap
    <3>2. more \in [1..gap -> Byte]
      BY <1>3 DEF Zeros
    <3>3. more \in Seq(Byte)
      BY <3>1, <3>2, FunSeq, Zenon
    <3>4. DOMAIN more = 1..gap /\ \A k \in 1..gap : more[k] = 0
      BY DEF Zeros
    <3>5. Len(more) = gap
      <4> HIDE DEF more
      <4> QED
        BY <3>1, <3>3, <3>4
    <3> QED
      BY <2>1, <3>3, <3>4, <3>5
  <2>2. CASE ~(gap > 0)
    <3>1. 1..gap = 1..0 /\ 0 \in Nat
      BY <1>2, <2>2
    <3> HIDE DEF gap
    <3>2. more \in [1..0 -> Byte] /\ DOMAIN more = 1..0
      BY <3>1, <1>3 DEF Zeros
    <3>3. more \in Seq(Byte)
      BY <3>1, <3>2, FunSeq, Zenon
    <3>4. Len(more) = 0
      <4> HIDE DEF more
      <4> QED
        BY <3>2, <3>3
    <3> QED
      BY <2>2, <3>3, <3>4
  <2> QED
    BY <2>1, <2>2
<1> HIDE DEF more
<1>5. /\ long \in Seq(Byte) /\ Len(long) = Len(buf) + Len(more)
      /\ \A k \in 1..(Len(buf) + Len(more)) : long[k] = IF k <= Len(buf) THEN buf[k] ELSE more[k - Len(buf)]
  BY <1>2, <1>4, JoinedSeq, Zenon
<1> HIDE DEF long
<1>6. m \in Nat /\ Len(long) = m
  BY <1>2, <1>4, <1>5
<1>7. DOMAIN long = 1..m
  BY <1>5, <1>6
<1>8. DOMAIN new = 1..m /\ \A k \in 1..m : new[k] = IF k > p /\ k <= p + Len(src) THEN src[k - p] ELSE long[k]
  BY <1>7, Zenon DEF new
<1>9. ASSUME NEW k \in 1..m PROVE long[k] = (IF k <= Len(buf) THEN buf[k] ELSE 0) /\ long[k] \in Byte
  <2>1. CASE k <= Len(buf)
    BY <1>2, <1>4, <1>5, <1>6, <2>1
  <2>2. CASE ~(k <= Len(buf))
    <3>1. k - Len(buf) \in 1..Len(more) /\ k \in 1..(Len(buf) + Len(more))
      BY <1>2, <1>4, <1>5, <1>6, <2>2
    <3>2. long[k] = more[k - Len(buf)]
      BY <1>5, <2>2, <3>1
    <3> QED
      BY <1>3, <1>4, <2>2, <3>1, <3>2
  <2> QED
    BY <2>1, <2>2
<1>10. \A k \in 1..m : new[k] = IF k > p /\ k <= p + Len(src) THEN src[k - p]
                                ELSE IF k <= Len(buf) THEN buf[k] ELSE 0
  <2> HIDE DEF m
  <2> QED
    BY <1>8, <1>9, Zenon
<1>11. \A k \in 1..m : new[k] \in Byte
  <2> SUFFICES ASSUME NEW k \in 1..m PROVE new[k] \in Byte
    OBVIOUS
  <2>1. CASE k > p /\ k <= p + Len(src)
    <3>1. k - p \in 1..Len(src)
      BY <1>2, <1>6, <2>1
    <3> QED
      BY <1>2, <1>8, <2>1, <3>1
  <2>2. CASE ~(k > p /\ k <= p + Len(src))
    BY <1>8, <1>9, <2>2
  <2> QED
    BY <2>1, <2>2
<1> HIDE DEF m
<1>12. new \in [1..m -> Byte]
  BY <1>8, <1>11, Zenon DEF new
<1>13. new \in Seq(Byte)
  BY <1>6, <1>12, FunSeq, Zenon
<1>14. Len(new) = m
  BY <1>6, <1>8, <1>13
<1> QED
  BY <1>1, <1>10, <1>13, <1>14, Zenon DEF p, buf, m, Byte, Contents

\* A log grows at its end.
LEMMA LogFacts ==
    ASSUME NEW log \in Seq(Write), NEW e \in Write
    PROVE  /\ Append(log, e) \in Seq(Write) /\ Len(log) \in Nat /\ Len(Append(log, e)) = Len(log) + 1
           /\ Append(log, e)[Len(log) + 1] = e
           /\ \A i \in 1..Len(log) : Append(log, e)[i] = log[i]
OBVIOUS

\* One write more adds up to the copy it leaves (Ext2File::write).
LEMMA WriteSum ==
    ASSUME NEW o, Logged(o), o.buf \in Contents, o.pos \in Nat, NEW src \in Contents,
           AddUpTo(o, Len(o.log), o.buf),
           NEW e \in Write, e.pos = o.pos, e.src = src,
           NEW b, b.was = o.was, b.log = Append(o.log, e)
    PROVE  AddUpTo(b, Len(b.log), Patched(o, src))
<1> DEFINE n == Len(o.log)
           p == o.pos
           buf == o.buf
           new == Patched(o, src)
           end == p + Len(src)
<1>1. e.pos = p /\ e.src = src
  OBVIOUS
<1>2. /\ Logged(b) /\ n \in Nat /\ Len(b.log) = n + 1 /\ b.log[n + 1] = e
      /\ \A i \in 1..n : b.log[i] = o.log[i]
  <2>1. o.log \in Seq(Write)
    BY DEF Logged
  <2>2. /\ Append(o.log, e) \in Seq(Write) /\ n \in Nat /\ Len(Append(o.log, e)) = n + 1
        /\ Append(o.log, e)[n + 1] = e
        /\ \A i \in 1..n : Append(o.log, e)[i] = o.log[i]
    BY <2>1, LogFacts, Zenon
  <2> QED
    BY <2>2, Zenon DEF Logged
<1>3. /\ new \in Contents /\ Len(new) = IF end <= Len(buf) THEN Len(buf) ELSE end
      /\ \A k \in 1..Len(new) :
            new[k] = IF k > p /\ k <= end THEN src[k - p]
                     ELSE IF k <= Len(buf) THEN buf[k] ELSE 0
  BY PatchedFacts, Zenon
<1>4. p \in Nat /\ buf \in Contents /\ Len(buf) \in Nat /\ Len(src) \in Nat /\ end \in Nat
  BY DEF Contents
<1>5. /\ Len(buf) = Extent(o, n) /\ Len(o.was) <= Len(buf)
      /\ Len(buf) \in {Len(o.was)} \cup {o.log[i].pos + Len(o.log[i].src) : i \in 1..n}
      /\ \A i \in 1..n : o.log[i].pos + Len(o.log[i].src) <= Len(buf)
  BY ExtentFacts, Zenon DEF AddUpTo
<1>6. \A k \in DOMAIN buf : buf[k] = ByteAt(o, n, k)
  BY Zenon DEF AddUpTo
<1>7. \A k : ByteAt(b, n, k) = ByteAt(o, n, k)
  BY <1>2, SamePrefix, Zenon
<1>8. DOMAIN new = 1..Len(new) /\ DOMAIN buf = 1..Len(buf) /\ Len(new) \in Nat
  BY <1>3, <1>4 DEF Contents
<1> HIDE DEF n, p, buf, new
<1>9. Len(new) = Extent(b, n + 1)
  <2> DEFINE S == {Len(b.was)} \cup {b.log[i].pos + Len(b.log[i].src) : i \in 1..(n + 1)}
  <2>1. \A i \in 1..n : i \in 1..(n + 1) /\ b.log[i] = o.log[i]
    BY <1>2
  <2>2. n + 1 \in 1..(n + 1) /\ b.log[n + 1].pos + Len(b.log[n + 1].src) = end
    BY <1>1, <1>2
  <2>3. end \in S /\ Len(o.was) \in S /\ \A i \in 1..n : o.log[i].pos + Len(o.log[i].src) \in S
    BY <2>1, <2>2, Zenon
  <2>4. Len(buf) \in S
    BY <1>5, <2>3, Zenon
  <2>5. Len(new) \in S
    BY <1>3, <2>3, <2>4, Zenon
  <2>6. \A i \in 1..(n + 1) : i \in 1..n \/ i = n + 1
    BY <1>2
  <2>7. Extent(b, n + 1) \in Nat /\ S \subseteq Nat
    <3>1. S \subseteq Nat
      <4>1. Len(b.was) \in Nat
        BY <1>2 DEF Logged, Contents
      <4>2. \A i \in 1..(n + 1) : b.log[i].pos + Len(b.log[i].src) \in Nat
        <5> SUFFICES ASSUME NEW i \in 1..(n + 1) PROVE b.log[i].pos + Len(b.log[i].src) \in Nat
          OBVIOUS
        <5>1. b.log[i] \in Write
          BY <1>2 DEF Logged
        <5> QED
          BY <5>1, WriteFacts, Zenon
      <4> QED
        BY <4>1, <4>2, Zenon
    <3>2. Extent(b, n + 1) \in Nat
      BY <1>2, ExtentFacts, Zenon
    <3> QED
      BY <3>1, <3>2
  <2>8. ASSUME NEW x \in S PROVE x <= Len(new)
    <3>1. x = Len(o.was) \/ x = end \/ \E i \in 1..n : x = o.log[i].pos + Len(o.log[i].src)
      BY <2>1, <2>2, <2>6, Zenon
    <3>2. x <= Len(buf) \/ x = end
      BY <1>5, <3>1, Zenon
    <3>3. x \in Nat
      BY <2>7, <2>8
    <3> HIDE DEF S
    <3> QED
      BY <1>3, <1>4, <3>2, <3>3
  <2>9. Extent(b, n + 1) = Max(S)
    BY Zenon DEF Extent
  <2> HIDE DEF S
  <2> QED
    BY <2>5, <2>7, <2>8, <2>9, MaxUnique, Zenon
<1>10. ASSUME NEW k \in 1..Len(new) PROVE new[k] = ByteAt(b, n + 1, k)
  <2> DEFINE W == {i \in 1..n : Covers(b.log[i], k)}
             V == {i \in 1..(n + 1) : Covers(b.log[i], k)}
  <2>0. k \in Nat
    BY <1>8
  <2>1. Covers(b.log[n + 1], k) <=> k > p /\ k <= end
    BY <1>1, <1>2, <1>4, <2>0 DEF Covers
  <2>2. ByteAt(b, n + 1, k) = IF V # {} THEN LET last == b.log[Max(V)] IN last.src[k - last.pos]
                              ELSE IF k <= Len(b.was) THEN b.was[k] ELSE 0
    BY Zenon DEF ByteAt
  <2>3. ByteAt(b, n, k) = IF W # {} THEN LET last == b.log[Max(W)] IN last.src[k - last.pos]
                          ELSE IF k <= Len(b.was) THEN b.was[k] ELSE 0
    BY Zenon DEF ByteAt
  <2>4. CASE k > p /\ k <= end
    <3>1. n + 1 \in V /\ V \subseteq Nat /\ \A i \in V : i <= n + 1
      BY <1>2, <2>1, <2>4
    <3> HIDE DEF V
    <3>2. Max(V) = n + 1
      BY <3>1, MaxUnique, Zenon
    <3>3. V # {}
      BY <3>1
    <3>4. ByteAt(b, n + 1, k) = e.src[k - e.pos]
      BY <1>2, <2>2, <3>2, <3>3
    <3> QED
      BY <1>1, <1>3, <2>4, <3>4
  <2>5. CASE ~(k > p /\ k <= end)
    <3>1. V = W
      <4>1. \A i : i \in 1..(n + 1) <=> i \in 1..n \/ i = n + 1
        BY <1>2
      <4> QED
        BY <2>1, <2>5, <4>1, Zenon
    <3>2. ByteAt(b, n + 1, k) = ByteAt(o, n, k)
      BY <1>7, <2>2, <2>3, <3>1, Zenon
    <3>3. CASE k <= Len(buf)
      <4>1. k \in DOMAIN buf
        BY <1>4, <1>8, <2>0, <3>3
      <4> QED
        BY <1>3, <1>6, <2>5, <3>2, <3>3, <4>1
    <3>4. CASE ~(k <= Len(buf))
      <4>1. \A i \in 1..n : ~Covers(b.log[i], k)
        <5> SUFFICES ASSUME NEW i \in 1..n PROVE ~Covers(b.log[i], k)
          OBVIOUS
        <5>1. o.log[i] \in Write
          BY DEF Logged, n
        <5>2. o.log[i].pos \in Nat /\ Len(o.log[i].src) \in Nat
          BY <5>1, WriteFacts, Zenon
        <5>4. o.log[i].pos + Len(o.log[i].src) <= Len(buf) /\ b.log[i] = o.log[i]
          BY <1>2, <1>5
        <5>5. \A x, l, m \in Nat : x + l <= m /\ ~(k <= m) => ~(k <= x + l)
          BY <2>0
        <5>6. ~(k <= o.log[i].pos + Len(o.log[i].src))
          BY <1>4, <3>4, <5>2, <5>4, <5>5, Zenon
        <5> QED
          BY <5>4, <5>6, Zenon DEF Covers
      <4>2. W = {}
        BY <4>1
      <4>3. ~(k <= Len(b.was))
        <5>1. Len(b.was) \in Nat /\ Len(b.was) <= Len(buf)
          BY <1>2, <1>5 DEF Logged, Contents
        <5> QED
          BY <1>4, <2>0, <3>4, <5>1
      <4>4. ByteAt(b, n + 1, k) = 0
        BY <2>2, <3>1, <4>2, <4>3
      <4> QED
        BY <1>3, <2>5, <3>4, <4>4
    <3> QED
      BY <3>3, <3>4
  <2> QED
    BY <2>4, <2>5
<1>11. AddUpTo(b, n + 1, new)
  BY <1>8, <1>9, <1>10, Zenon DEF AddUpTo
<1> QED
  BY <1>2, <1>11, Zenon DEF new

Put(s, i, x) == [s EXCEPT ![i] = x]

\* Replacing an element of a sequence of anything.
LEMMA ReplaceFacts ==
    ASSUME NEW s, s \in Seq(Range(s)), NEW i \in 1..Len(s), NEW x
    PROVE  /\ Put(s, i, x) \in Seq(Range(Put(s, i, x))) /\ Len(Put(s, i, x)) = Len(s) /\ Put(s, i, x)[i] = x
           /\ \A j \in 1..Len(s) : j # i => Put(s, i, x)[j] = s[j]
<1> DEFINE u == [s EXCEPT ![i] = x]
           n == Len(s)
<1>1. n \in Nat /\ DOMAIN s = 1..n
  OBVIOUS
<1> HIDE DEF n
<1>2. DOMAIN u = 1..n /\ u[i] = x /\ \A j \in 1..n : j # i => u[j] = s[j]
  BY <1>1 DEF n
<1>3. u \in [1..n -> Range(u)]
  BY <1>1, <1>2, Zenon DEF Range
<1> HIDE DEF u
<1>4. u \in Seq(Range(u))
  BY <1>1, <1>3, FunSeq, Zenon
<1>5. Len(u) = n
  BY <1>1, <1>2, <1>4
<1>6. /\ u \in Seq(Range(u)) /\ Len(u) = Len(s) /\ u[i] = x
      /\ \A j \in 1..Len(s) : j # i => u[j] = s[j]
  BY <1>2, <1>4, <1>5, Zenon DEF n
<1>7. u = Put(s, i, x)
  BY Zenon DEF u, Put
<1> QED
  BY <1>6, <1>7, Zenon

\* The same for one element more.
LEMMA AppendFacts ==
    ASSUME NEW s, s \in Seq(Range(s)), NEW x
    PROVE  /\ Append(s, x) \in Seq(Range(Append(s, x))) /\ Len(Append(s, x)) = Len(s) + 1 /\ Len(s) \in Nat
           /\ Append(s, x)[Len(s) + 1] = x /\ \A j \in 1..Len(s) : Append(s, x)[j] = s[j]
<1> DEFINE u == Append(s, x)
           n == Len(s)
           T == Range(s) \cup {x}
<1>1. s \in Seq(T) /\ x \in T
  BY WiderSeq
<1> HIDE DEF T
<1>2. /\ u \in Seq(T) /\ n \in Nat /\ Len(u) = n + 1 /\ u[n + 1] = x
      /\ \A j \in 1..n : u[j] = s[j]
  BY <1>1
<1> HIDE DEF u, n
<1>3. n + 1 \in Nat /\ DOMAIN u = 1..(n + 1) /\ u \in [1..(n + 1) -> T]
  BY <1>2
<1>4. u \in [1..(n + 1) -> Range(u)]
  BY <1>3, Zenon DEF Range
<1>5. u \in Seq(Range(u))
  BY <1>3, <1>4, FunSeq, Zenon
<1>6. /\ u \in Seq(Range(u)) /\ Len(u) = Len(s) + 1 /\ Len(s) \in Nat /\ u[Len(s) + 1] = x
      /\ \A j \in 1..Len(s) : u[j] = s[j]
  BY <1>2, <1>5, Zenon DEF n
<1>7. u = Append(s, x)
  BY Zenon DEF u
<1> QED
  BY <1>6, <1>7, Zenon

\* A call that only moves the position of an object (read, lseek, getdents64).
LEMMA MovedObject ==
    ASSUME NEW obj, ObjectInv(obj), NEW np, obj.kind # "dir" => np \in Nat,
           NEW x, DOMAIN x = DOMAIN obj, x.kind = obj.kind, x.path = obj.path, x.buf = obj.buf,
           x.pos = np, x.was = obj.was, x.log = obj.log, x.stored = obj.stored
    PROVE  /\ ObjectInv(x)
           /\ obj.kind = "file" => \A d : AddUpTo(x, obj.stored, d) <=> AddUpTo(obj, obj.stored, d)
<1>3. ASSUME obj.kind = "file"
      PROVE  /\ obj.log \in Seq([pos : Nat, src : Contents]) /\ obj.stored \in 0..Len(obj.log)
             /\ AddUpTo(obj, Len(obj.log), obj.buf)
  BY <1>3 DEF ObjectInv
<1>4. ASSUME obj.kind = "file" PROVE Len(obj.log) \in Nat /\ obj.stored \in Nat
  <2>1. Len(obj.log) \in Nat
    BY <1>3, <1>4
  <2> QED
    BY <1>3, <1>4, <2>1
<1>5. ASSUME NEW n \in Nat PROVE \A d : AddUpTo(x, n, d) <=> AddUpTo(obj, n, d)
  <2>1. \A i \in 1..n : x.log[i] = obj.log[i]
    BY Zenon
  <2> QED
    BY <2>1, SamePrefix, Zenon
<1>6. ObjectInv(x)
  BY <1>4, <1>5, Zenon DEF ObjectInv
<1> QED
  BY <1>4, <1>5, <1>6, Zenon

\* What Ext2File::write makes of an object: e is the write, stored with all before
\* it or not.
Written(obj, src, e, x) ==
    /\ DOMAIN x = DOMAIN obj /\ x.kind = obj.kind /\ x.path = obj.path /\ x.was = obj.was
    /\ x.buf = Patched(obj, src) /\ x.pos = obj.pos + Len(src) /\ x.log = Append(obj.log, e)
    /\ x.stored = obj.stored \/ x.stored = Len(x.log)

\* Ext2File::write: all the writes still add up to the copy; the ones that were
\* stored add up to what they did.
LEMMA WrittenObject ==
    ASSUME NEW obj, ObjectInv(obj), obj.kind = "file", NEW src \in Contents,
           NEW e \in Write, e.pos = obj.pos, e.src = src,
           NEW x, Written(obj, src, e, x)
    PROVE  /\ ObjectInv(x)
           /\ Patched(obj, src) \in Contents
           /\ AddUpTo(x, Len(x.log), Patched(obj, src))
           /\ \A d : AddUpTo(x, obj.stored, d) <=> AddUpTo(obj, obj.stored, d)
<1> DEFINE new == Patched(obj, src)
           log == Append(obj.log, e)
<1>2. /\ obj.buf \in Contents /\ obj.pos \in Nat /\ Logged(obj) /\ obj.log \in Seq(Write)
      /\ obj.stored \in 0..Len(obj.log) /\ AddUpTo(obj, Len(obj.log), obj.buf)
  BY DEF ObjectInv, Logged, Write
<1>4. /\ DOMAIN x = DOMAIN obj /\ x.kind = obj.kind /\ x.path = obj.path /\ x.was = obj.was
      /\ x.buf = new /\ x.pos = obj.pos + Len(src) /\ x.log = log
      /\ x.stored = obj.stored \/ x.stored = Len(x.log)
  BY Zenon DEF Written
<1> HIDE DEF new, log
<1>5. /\ log \in Seq(Write) /\ Len(obj.log) \in Nat /\ Len(log) = Len(obj.log) + 1
      /\ \A i \in 1..Len(obj.log) : log[i] = obj.log[i]
  BY <1>2, LogFacts, Zenon DEF log
<1>6. new \in Contents
  BY <1>2, PatchedFacts, Zenon DEF new
<1>7. AddUpTo(x, Len(x.log), new)
  <2>1. x.was = obj.was /\ x.log = Append(obj.log, e)
    BY <1>4, Zenon DEF log
  <2> QED
    BY <1>2, <2>1, WriteSum, Zenon DEF new
<1>8. obj.stored \in Nat /\ \A i \in 1..obj.stored : i \in 1..Len(obj.log)
  BY <1>2, <1>5
<1>9. \A d : AddUpTo(x, obj.stored, d) <=> AddUpTo(obj, obj.stored, d)
  <2>1. \A i \in 1..obj.stored : x.log[i] = obj.log[i]
    BY <1>4, <1>5, <1>8, Zenon
  <2> QED
    BY <1>4, <1>8, <2>1, SamePrefix, Zenon
<1>10. x.pos \in Nat
  <2>1. Len(src) \in Nat
    BY DEF Contents
  <2> QED
    BY <1>2, <1>4, <2>1
<1>11. x.stored \in 0..Len(x.log)
  <2>1. \A m, n \in Nat : n \in 0..m => n \in 0..(m + 1) /\ m + 1 \in 0..(m + 1)
    OBVIOUS
  <2>2. obj.stored \in 0..Len(log) /\ Len(log) \in 0..Len(log)
    BY <1>2, <1>5, <1>8, <2>1, Zenon
  <2> QED
    BY <1>4, <2>2, Zenon
<1>12. ObjectInv(x)
  BY <1>2, <1>4, <1>5, <1>6, <1>7, <1>10, <1>11, Zenon DEF ObjectInv, Logged, Write
<1> QED
  BY <1>4, <1>6, <1>7, <1>9, <1>12, Zenon DEF new

\* A node is no worse off when the object that stored it is no worse off.
LEMMA NodeKept ==
    ASSUME NEW os, NEW u, Len(os) \in Nat, Len(u) \in Nat, Len(os) <= Len(u), NEW p, NEW n, NodeInv(os, p, n),
           n.by \in 1..Len(os) => /\ u[n.by].path = os[n.by].path /\ u[n.by].kind = os[n.by].kind
                                  /\ os[n.by].kind = "file" /\ AddUpTo(os[n.by], os[n.by].stored, n.data)
                                         => AddUpTo(u[n.by], u[n.by].stored, n.data)
    PROVE  NodeInv(u, p, n)
<1>1. n.by \in 0..Len(os)
  BY Zenon DEF NodeInv
<1>2. n.by \in 0..Len(u) /\ (n.by # 0 => n.by \in 1..Len(os))
  BY <1>1
<1> QED
  BY <1>2, Zenon DEF NodeInv

Moved(os, i, np) == [os EXCEPT ![i].pos = np]

\* Moving one object's position keeps every sum.
LEMMA MoveKeeps ==
    ASSUME NEW os, NEW nodes, KeptInv(os, nodes), NEW i \in 1..Len(os), NEW np,
           os[i].kind # "dir" => np \in Nat
    PROVE  /\ KeptInv(Moved(os, i, np), nodes) /\ Len(Moved(os, i, np)) = Len(os)
           /\ \A j \in 1..Len(os) : Moved(os, i, np)[j].kind = os[j].kind
<1> DEFINE x == [os[i] EXCEPT !.pos = np]
           u == [os EXCEPT ![i] = x]
<1>1. ObjectInv(os[i]) /\ os \in Seq(Range(os))
  BY Zenon DEF KeptInv
<1>2. DOMAIN os[i] = {"kind", "path", "buf", "pos", "was", "log", "stored"}
  BY <1>1, Zenon DEF ObjectInv
<1>3. /\ DOMAIN x = DOMAIN os[i] /\ x.kind = os[i].kind /\ x.path = os[i].path /\ x.buf = os[i].buf
      /\ x.pos = np /\ x.was = os[i].was /\ x.log = os[i].log /\ x.stored = os[i].stored
  BY <1>2
<1>4. u = Moved(os, i, np)
  BY DEF Moved
<1> HIDE DEF x
<1>5. /\ ObjectInv(x)
      /\ os[i].kind = "file" => \A d : AddUpTo(x, os[i].stored, d) <=> AddUpTo(os[i], os[i].stored, d)
  <2> DEFINE obj == os[i]
  <2>1. /\ ObjectInv(obj) /\ (obj.kind # "dir" => np \in Nat)
        /\ DOMAIN x = DOMAIN obj /\ x.kind = obj.kind /\ x.path = obj.path /\ x.buf = obj.buf
        /\ x.pos = np /\ x.was = obj.was /\ x.log = obj.log /\ x.stored = obj.stored
    BY <1>1, <1>3, Zenon
  <2>2. /\ ObjectInv(x)
        /\ obj.kind = "file" => \A d : AddUpTo(x, obj.stored, d) <=> AddUpTo(obj, obj.stored, d)
    <3> HIDE DEF obj
    <3> QED
      BY <2>1, MovedObject, Zenon
  <2> QED
    BY <2>2, Zenon
<1>a. u = Put(os, i, x)
  BY Zenon DEF Put
<1> HIDE DEF u
<1>6. /\ u \in Seq(Range(u)) /\ Len(u) = Len(os) /\ u[i] = x
      /\ \A j \in 1..Len(os) : j # i => u[j] = os[j]
  <2>1. /\ Put(os, i, x) \in Seq(Range(Put(os, i, x))) /\ Len(Put(os, i, x)) = Len(os) /\ Put(os, i, x)[i] = x
        /\ \A j \in 1..Len(os) : j # i => Put(os, i, x)[j] = os[j]
    BY <1>1, ReplaceFacts
  <2> QED
    BY <1>a, <2>1, Zenon
<1>7. \A j \in 1..Len(u) : ObjectInv(u[j])
  BY <1>5, <1>6, Zenon DEF KeptInv
<1>8. ASSUME NEW p \in DOMAIN nodes PROVE NodeInv(u, p, nodes[p])
  <2> DEFINE n == nodes[p]
  <2>1. NodeInv(os, p, n)
    BY Zenon DEF KeptInv
  <2> HIDE DEF n
  <2>2. Len(os) \in Nat /\ Len(u) \in Nat /\ Len(os) <= Len(u)
    BY <1>1, <1>6
  <2>3. ASSUME n.by \in 1..Len(os)
        PROVE  /\ u[n.by].path = os[n.by].path /\ u[n.by].kind = os[n.by].kind
               /\ os[n.by].kind = "file" /\ AddUpTo(os[n.by], os[n.by].stored, n.data)
                    => AddUpTo(u[n.by], u[n.by].stored, n.data)
    <3>1. CASE n.by = i
      BY <1>3, <1>5, <1>6, <3>1, Zenon
    <3>2. CASE n.by # i
      BY <1>6, <2>3, <3>2, Zenon
    <3> QED
      BY <3>1, <3>2
  <2>4. NodeInv(u, p, n)
    BY <2>1, <2>2, <2>3, NodeKept, Zenon
  <2> QED
    BY <2>4, Zenon DEF n
<1>9. KeptInv(u, nodes)
  BY <1>6, <1>7, <1>8, Zenon DEF KeptInv
<1>10. KeptInv(u, nodes) /\ Len(u) = Len(os) /\ \A j \in 1..Len(os) : u[j].kind = os[j].kind
  BY <1>3, <1>6, <1>9, Zenon
<1> QED
  BY <1>4, <1>10, Zenon

\* A write and its store keep every sum, whether or not the store succeeds and
\* whatever has become of the path (Ext2File::write, write_path_owned).
LEMMA WriteKeeps ==
    ASSUME NEW s, KeptInv(s.objs, s.node), NEW i \in 1..Len(s.objs), s.objs[i].kind = "file",
           NEW src \in Contents, NEW room \in BOOLEAN
    PROVE  LET r == write(s, i, src, room)
           IN KeptInv(r.objs, r.node) /\ Len(r.objs) = Len(s.objs) /\ r.objs[i].kind = "file"
<1> DEFINE os == s.objs
           nodes == s.node
           obj == os[i]
           ok == room /\ parent_of(obj.path) \in DOMAIN nodes
           e == [pos |-> obj.pos, src |-> src]
           log == Append(obj.log, e)
           new == Patched(obj, src)
           x == [obj EXCEPT !.buf = new, !.pos = obj.pos + Len(src), !.log = log,
                            !.stored = IF ok THEN Len(log) ELSE obj.stored]
           u == [os EXCEPT ![i] = x]
           r == write(s, i, src, room)
<1>1. r.objs = u /\ r.node = write_path(nodes, obj.path, new, 0, i, room) /\ r.ok = ok
  <2>1. r = [objs |-> u, node |-> write_path(nodes, obj.path, new, 0, i, room), ok |-> ok]
    BY Zenon DEF write
  <2> HIDE DEF r, u, new, ok, obj
  <2> QED
    BY <2>1
<1> HIDE DEF r
<1>2. ObjectInv(obj) /\ os \in Seq(Range(os)) /\ obj.kind = "file" /\ i \in 1..Len(os)
  BY Zenon DEF KeptInv
<1>3. DOMAIN obj = {"kind", "path", "buf", "pos", "was", "log", "stored"} /\ obj.pos \in Nat
  BY <1>2 DEF ObjectInv
<1>4. ok \in BOOLEAN
  OBVIOUS
<1>5. e \in Write /\ e.pos = obj.pos /\ e.src = src
  <2> HIDE DEF obj
  <2> QED
    BY <1>3 DEF Write
<1>6. /\ DOMAIN x = DOMAIN obj /\ x.kind = obj.kind /\ x.path = obj.path /\ x.buf = new
      /\ x.pos = obj.pos + Len(src) /\ x.was = obj.was /\ x.log = log
      /\ x.stored = IF ok THEN Len(log) ELSE obj.stored
  <2> HIDE DEF obj, ok, log, new
  <2> QED
    BY <1>3
<1> HIDE DEF x, ok, e
<1>7. /\ ObjectInv(x) /\ new \in Contents
      /\ ok => AddUpTo(x, x.stored, new)
      /\ ~ok => x.stored = obj.stored /\ \A d : AddUpTo(x, x.stored, d) <=> AddUpTo(obj, obj.stored, d)
  <2>1. Written(obj, src, e, x)
    BY <1>6, Zenon DEF Written
  <2>2. /\ ObjectInv(x) /\ new \in Contents /\ AddUpTo(x, Len(x.log), new)
        /\ \A d : AddUpTo(x, obj.stored, d) <=> AddUpTo(obj, obj.stored, d)
    <3> HIDE DEF obj
    <3> QED
      BY <1>2, <1>5, <2>1, WrittenObject, SMTT(30)
  <2> QED
    BY <1>6, <2>2, Zenon
<1>8. /\ u \in Seq(Range(u)) /\ Len(u) = Len(os) /\ u[i] = x
      /\ \A j \in 1..Len(os) : j # i => u[j] = os[j]
  <2>1. u = Put(os, i, x)
    BY Zenon DEF Put
  <2> HIDE DEF os, u
  <2>2. /\ Put(os, i, x) \in Seq(Range(Put(os, i, x))) /\ Len(Put(os, i, x)) = Len(os) /\ Put(os, i, x)[i] = x
        /\ \A j \in 1..Len(os) : j # i => Put(os, i, x)[j] = os[j]
    BY <1>2, ReplaceFacts, SMTT(30)
  <2> QED
    BY <2>1, <2>2, Zenon
<1>9. \A p \in DOMAIN nodes : NodeInv(os, p, nodes[p])
  BY Zenon DEF KeptInv
<1>10. \A j \in 1..Len(os) : ObjectInv(os[j])
  BY Zenon DEF KeptInv
<1> HIDE DEF u, new
<1>11. \A j \in 1..Len(u) : ObjectInv(u[j])
  BY <1>7, <1>8, <1>10, Zenon
<1>12. Len(os) \in Nat /\ Len(u) \in Nat /\ Len(os) <= Len(u)
  BY <1>2, <1>8
<1>13. ASSUME NEW p \in DOMAIN nodes, ok /\ nodes[p].by # 0 => p # obj.path PROVE NodeInv(u, p, nodes[p])
  <2> DEFINE n == nodes[p]
  <2>1. NodeInv(os, p, n)
    BY <1>9, Zenon
  <2> HIDE DEF n
  <2>2. ASSUME n.by \in 1..Len(os)
        PROVE  /\ u[n.by].path = os[n.by].path /\ u[n.by].kind = os[n.by].kind
               /\ os[n.by].kind = "file" /\ AddUpTo(os[n.by], os[n.by].stored, n.data)
                    => AddUpTo(u[n.by], u[n.by].stored, n.data)
    <3>1. CASE n.by = i
      <4>1. n.by # 0
        BY <2>2, <1>12
      <4>2. p = obj.path
        BY <2>1, <3>1, <4>1, Zenon DEF NodeInv
      <4>3. ~ok
        BY <1>13, <4>1, <4>2, Zenon DEF n
      <4> QED
        BY <1>6, <1>7, <1>8, <3>1, <4>3, Zenon
    <3>2. CASE n.by # i
      BY <1>8, <2>2, <3>2, Zenon
    <3> QED
      BY <3>1, <3>2
  <2>3. NodeInv(u, p, n)
    <3> HIDE DEF os
    <3> QED
      BY <1>12, <2>1, <2>2, NodeKept, Zenon
  <2> QED
    BY <2>3, Zenon DEF n
<1>14. \A p \in DOMAIN r.node : NodeInv(u, p, r.node[p])
  <2> DEFINE at == obj.path
             old == IF at \in DOMAIN nodes THEN nodes[at] ELSE Owned(FALSE, 0)
             fresh == [old EXCEPT !.data = new, !.by = i]
  <2>1. CASE ~room \/ at = Root \/ parent_of(at) \notin DOMAIN nodes
    <3>1. r.node = nodes
      BY <1>1, <2>1, Zenon DEF write_path
    <3>2. ASSUME NEW p \in DOMAIN nodes PROVE ok /\ nodes[p].by # 0 => p # at
      <4>1. ok => at = Root
        BY <2>1 DEF ok
      <4> QED
        BY <1>9, <4>1, Zenon DEF NodeInv
    <3> QED
      BY <1>13, <3>1, <3>2, Zenon
  <2>2. CASE ~(~room \/ at = Root \/ parent_of(at) \notin DOMAIN nodes)
    <3>0. ok /\ at # Root
      BY <2>2 DEF ok
    <3>1. r.node = With(nodes, at, fresh)
      BY <1>1, <2>2, Zenon DEF write_path
    <3>2. DOMAIN old = {"dir", "uid", "gid", "mode", "data", "by"}
      <4>1. CASE at \in DOMAIN nodes
        BY <1>9, <4>1, Zenon DEF NodeInv
      <4>2. CASE at \notin DOMAIN nodes
        BY <4>2 DEF Owned
      <4> QED
        BY <4>1, <4>2
    <3> HIDE DEF old
    <3>3. DOMAIN fresh = {"dir", "uid", "gid", "mode", "data", "by"} /\ fresh.data = new /\ fresh.by = i
      BY <3>2
    <3> HIDE DEF fresh
    <3>4. i \in 0..Len(u) /\ i # 0
      BY <1>2, <1>8, <1>12
    <3>5. NodeInv(u, at, fresh)
      BY <1>2, <1>6, <1>7, <1>8, <3>0, <3>3, <3>4, Zenon DEF NodeInv
    <3>6. /\ DOMAIN r.node = DOMAIN nodes \cup {at} /\ r.node[at] = fresh
          /\ \A q \in DOMAIN nodes : q # at => r.node[q] = nodes[q]
      BY <3>1, Zenon DEF With
    <3> QED
      BY <1>13, <3>5, <3>6, Zenon
  <2> QED
    BY <2>1, <2>2
<1>15. KeptInv(u, r.node)
  BY <1>8, <1>11, <1>14, Zenon DEF KeptInv
<1> QED
  BY <1>1, <1>2, <1>4, <1>6, <1>8, <1>15, Zenon DEF r

\* A new object: no write yet, and the copy is what was opened.
LEMMA NewObject ==
    ASSUME NEW kind, NEW path, NEW data, kind # "dir" => data \in Contents, NEW x,
           x = [kind |-> kind, path |-> path, buf |-> data, pos |-> 0, was |-> data, log |-> <<>>, stored |-> 0]
    PROVE  ObjectInv(x)
<1>1. /\ DOMAIN x = {"kind", "path", "buf", "pos", "was", "log", "stored"}
      /\ x.kind = kind /\ x.buf = data /\ x.pos = 0 /\ x.was = data /\ x.log = <<>> /\ x.stored = 0
  OBVIOUS
<1>2. 0 \in Nat /\ Len(<<>>) = 0 /\ 0 \in 0..0
  OBVIOUS
<1>3. <<>> \in Seq([pos : Nat, src : Contents])
  OBVIOUS
<1>4. ASSUME kind = "file" PROVE AddUpTo(x, 0, data)
  <2>1. data \in Contents /\ Len(data) \in Nat /\ DOMAIN data = 1..Len(data)
    BY <1>4 DEF Contents
  <2>2. Extent(x, 0) = Max({Len(data)})
    <3>1. {x.log[i].pos + Len(x.log[i].src) : i \in 1..0} = {}
      OBVIOUS
    <3>2. {Len(x.was)} \cup {} = {Len(data)}
      BY <1>1
    <3> QED
      BY <3>1, <3>2 DEF Extent
  <2>3. Max({Len(data)}) = Len(data)
    <3> DEFINE n == Len(data)
               S == {n}
    <3>1. n \in Nat /\ n \in S /\ S \subseteq Nat /\ \A y \in S : y <= n
      BY <2>1
    <3> HIDE DEF S, n
    <3>2. Max(S) = n
      BY <3>1, MaxUnique, Zenon
    <3> QED
      BY <3>2 DEF S, n
  <2>4. ASSUME NEW k \in DOMAIN data PROVE ByteAt(x, 0, k) = data[k]
    <3>1. {i \in 1..0 : Covers(x.log[i], k)} = {}
      OBVIOUS
    <3>2. k <= Len(x.was)
      BY <1>1, <2>1
    <3> QED
      BY <1>1, <3>1, <3>2, Zenon DEF ByteAt
  <2> QED
    BY <2>2, <2>3, <2>4, Zenon DEF AddUpTo
<1> QED
  BY <1>1, <1>2, <1>3, <1>4, Zenon DEF ObjectInv

\* One object more keeps every sum.
LEMMA OpenKeeps ==
    ASSUME NEW os, NEW nodes, KeptInv(os, nodes), NEW x, ObjectInv(x)
    PROVE  KeptInv(Append(os, x), nodes) /\ Len(Append(os, x)) = Len(os) + 1 /\ Len(os) \in Nat
<1> DEFINE u == Append(os, x)
<1>1. os \in Seq(Range(os))
  BY Zenon DEF KeptInv
<1>2. /\ u \in Seq(Range(u)) /\ Len(u) = Len(os) + 1 /\ Len(os) \in Nat
      /\ u[Len(os) + 1] = x /\ \A j \in 1..Len(os) : u[j] = os[j]
  BY <1>1, AppendFacts
<1> HIDE DEF u
<1>3. Len(u) \in Nat /\ Len(os) <= Len(u) /\ \A j \in 1..Len(u) : j \in 1..Len(os) \/ j = Len(os) + 1
  BY <1>2
<1>4. \A j \in 1..Len(u) : ObjectInv(u[j])
  BY <1>2, <1>3, Zenon DEF KeptInv
<1>5. ASSUME NEW p \in DOMAIN nodes PROVE NodeInv(u, p, nodes[p])
  <2> DEFINE n == nodes[p]
  <2>1. NodeInv(os, p, n)
    BY Zenon DEF KeptInv
  <2> HIDE DEF n
  <2>2. n.by \in 1..Len(os) => u[n.by] = os[n.by]
    BY <1>2, Zenon
  <2>3. NodeInv(u, p, n)
    BY <1>2, <1>3, <2>1, <2>2, NodeKept, Zenon
  <2> QED
    BY <2>3, Zenon DEF n
<1>6. KeptInv(u, nodes)
  BY <1>2, <1>4, <1>5, Zenon DEF KeptInv
<1> QED
  BY <1>2, <1>6, Zenon DEF u

\* A read returns bytes of the copy.
LEMMA ReadFacts ==
    ASSUME NEW o, o.buf \in Contents, o.pos \in Nat, NEW n \in Nat
    PROVE  ReadOf(o, n) \in Contents /\ Len(ReadOf(o, n)) \in Nat
<1> DEFINE buf == o.buf
           p == o.pos
           last == IF p + n < Len(buf) THEN p + n ELSE Len(buf)
           Byte == Bytes \cup {0}
<1>1. buf \in Seq(Byte) /\ p \in Nat
  BY DEF Contents
<1>2. ReadOf(o, n) = SubSeq(buf, p + 1, last)
  BY Zenon DEF ReadOf
<1> HIDE DEF buf, p, Byte
<1>3. Len(buf) \in Nat
  BY <1>1
<1>4. p + 1 \in Int /\ last \in Int /\ \A i \in (p + 1)..last : i \in 1..Len(buf)
  BY <1>1, <1>3
<1> HIDE DEF last
<1>5. \A i \in (p + 1)..last : buf[i] \in Byte
  BY <1>1, <1>4
<1>6. SubSeq(buf, p + 1, last) \in Seq(Byte)
  BY <1>1, <1>4, <1>5
<1>7. Len(SubSeq(buf, p + 1, last)) \in Nat
  BY <1>6
<1> QED
  BY <1>2, <1>6, <1>7, Zenon DEF Contents, Byte

\* The descriptor table stays one of objects (fd_alloc, fd_close, dup).
LEMMA TableFacts ==
    ASSUME NEW S, 0 \in S, NEW tab \in Seq(S)
    PROVE  /\ \A e \in S : D!Place(tab, e, 0).tab \in Seq(S)
           /\ \A fd : D!fd_close(tab, fd).tab \in Seq(S)
<1>1. ASSUME NEW n, NEW e \in S PROVE Put(tab, n, e) \in Seq(S)
  <2>1. Len(tab) \in Nat /\ tab \in [1..Len(tab) -> S] /\ DOMAIN tab = 1..Len(tab)
    OBVIOUS
  <2>2. Put(tab, n, e) \in [1..Len(tab) -> S]
    BY <2>1 DEF Put
  <2> QED
    BY <2>1, <2>2, FunSeq, Zenon
<1>2. D!PadTo(tab, 0) \in Seq(S)
  <2> DEFINE more == [i \in 1..(IF 0 > Len(tab) THEN 0 - Len(tab) ELSE 0) |-> 0]
  <2>1. (IF 0 > Len(tab) THEN 0 - Len(tab) ELSE 0) = 0
    OBVIOUS
  <2>2. PICK z \in Nat : more \in [1..z -> S]
    BY <2>1
  <2>3. D!PadTo(tab, 0) = tab \o more
    BY DEF D!PadTo
  <2> HIDE DEF more
  <2>4. more \in Seq(S)
    BY <2>2, FunSeq, Zenon
  <2> QED
    BY <2>3, <2>4, JoinedSeq, Zenon
<1>3. ASSUME NEW e \in S PROVE D!Place(tab, e, 0).tab \in Seq(S)
  <2> DEFINE free == {i \in DOMAIN tab : i > 0 /\ tab[i] = 0}
             low == D!Lowest(free)
             pad == D!PadTo(tab, 0)
             put == Put(tab, low, e)
             more == Append(pad, e)
  <2>1. D!Place(tab, e, 0) = IF free # {} THEN [tab |-> put, ret |-> low - 1]
                             ELSE [tab |-> more, ret |-> Len(pad)]
    BY Zenon DEF D!Place, Put
  <2>2. more \in Seq(S)
    <3> HIDE DEF pad
    <3>1. pad \in Seq(S)
      BY <1>2 DEF pad
    <3> QED
      BY <3>1
  <2>3. put \in Seq(S)
    BY <1>1, Zenon
  <2> HIDE DEF free, low, pad, put, more
  <2>4. CASE free # {}
    <3>1. D!Place(tab, e, 0) = [tab |-> put, ret |-> low - 1]
      BY <2>1, <2>4, Zenon
    <3> QED
      BY <2>3, <3>1
  <2>5. CASE free = {}
    <3>1. D!Place(tab, e, 0) = [tab |-> more, ret |-> Len(pad)]
      BY <2>1, <2>5, Zenon
    <3> QED
      BY <2>2, <3>1
  <2> QED
    BY <2>4, <2>5
<1>4. ASSUME NEW fd PROVE D!fd_close(tab, fd).tab \in Seq(S)
  <2>1. CASE D!Open(tab, fd)
    <3> DEFINE put == Put(tab, fd + 1, 0)
    <3>1. put \in Seq(S)
      BY <1>1, Zenon
    <3>2. D!fd_close(tab, fd).tab = put
      BY <2>1 DEF D!fd_close, Put
    <3> QED
      BY <3>1, <3>2, Zenon
  <2>2. CASE ~D!Open(tab, fd)
    BY <2>2 DEF D!fd_close
  <2> QED
    BY <2>1, <2>2
<1> QED
  BY <1>3, <1>4, Zenon

Section(n) == [file : 0..n, data : Contents, mapped : BOOLEAN]

\* The invariant, and what it says of the lengths.
LEMMA InvFacts ==
    ASSUME FilesInv
    PROVE  /\ KeptInv(objs, node) /\ objs \in Seq(Range(objs)) /\ Len(objs) \in Nat
           /\ fds \in [Tasks -> Seq(0..Len(objs))] /\ sec \in Section(Len(objs))
           /\ \A i \in 1..Len(objs) : ObjectInv(objs[i])
           /\ \A p \in DOMAIN node : NodeInv(objs, p, node[p])
<1>1. KeptInv(objs, node) /\ fds \in [Tasks -> Seq(0..Len(objs))] /\ sec \in Section(Len(objs))
  BY Zenon DEF FilesInv, Section
<1>2. /\ objs \in Seq(Range(objs)) /\ \A i \in 1..Len(objs) : ObjectInv(objs[i])
      /\ \A p \in DOMAIN node : NodeInv(objs, p, node[p])
  BY <1>1, Zenon DEF KeptInv
<1>3. Len(objs) \in Nat
  BY <1>2
<1> QED
  BY <1>1, <1>2, <1>3, Zenon

\* A step that opens nothing.
LEMMA SumStep ==
    ASSUME FilesInv, KeptInv(objs', node'), Len(objs') = Len(objs),
           fds' \in [Tasks -> Seq(0..Len(objs))], sec' \in Section(Len(objs))
    PROVE  FilesInv'
BY Zenon DEF FilesInv, Section

\* A step that only changes the nodes, by nodes that no object has stored.
LEMMA TreeStep ==
    ASSUME FilesInv, UNCHANGED <<objs, fds, sec>>,
           \A p \in DOMAIN node' : (p \in DOMAIN node /\ node'[p] = node[p]) \/ NodeInv(objs, p, node'[p])
    PROVE  FilesInv'
<1>1. objs' = objs /\ fds' = fds /\ sec' = sec
  OBVIOUS
<1>2. /\ objs \in Seq(Range(objs)) /\ \A i \in 1..Len(objs) : ObjectInv(objs[i])
      /\ \A p \in DOMAIN node : NodeInv(objs, p, node[p])
      /\ fds \in [Tasks -> Seq(0..Len(objs))] /\ sec \in Section(Len(objs))
  BY InvFacts, Zenon
<1>3. \A p \in DOMAIN node' : NodeInv(objs, p, node'[p])
  BY <1>2, Zenon
<1>4. KeptInv(objs, node')
  BY <1>2, <1>3, Zenon DEF KeptInv
<1> QED
  BY <1>1, <1>2, <1>4, Zenon DEF FilesInv, Section

\* A node without a store.
LEMMA OwnedNode ==
    ASSUME NEW n, Len(objs) \in Nat, DOMAIN n = {"dir", "uid", "gid", "mode", "data", "by"},
           n.data \in Contents, n.by = 0, NEW p
    PROVE  NodeInv(objs, p, n)
<1>1. 0 \in 0..Len(objs)
  OBVIOUS
<1> QED
  BY <1>1, Zenon DEF NodeInv

\* A new file or directory is empty.
LEMMA OwnedFacts ==
    ASSUME NEW isDir, NEW u
    PROVE  /\ DOMAIN Owned(isDir, u) = {"dir", "uid", "gid", "mode", "data", "by"}
           /\ Owned(isDir, u).data \in Contents /\ Owned(isDir, u).by = 0
BY DEF Owned, Contents

\* The system's files are there before any program runs.
LEMMA FilesStart == FilesInit => FilesInv
<1> SUFFICES ASSUME FilesInit PROVE FilesInv
  OBVIOUS
<1>1. objs = <<>> /\ sec = NoSection /\ fds = [t \in Tasks |-> <<>>]
  BY Zenon DEF FilesInit
<1>2. PICK u : node = [p \in {Root} \cup DOMAIN Installed |->
                          IF p = Root THEN Owned(TRUE, u) ELSE [Owned(FALSE, 0) EXCEPT !.data = Installed[p]]]
  BY Zenon DEF FilesInit
<1>3. Len(objs) = 0 /\ Len(objs) \in Nat /\ objs \in Seq(Range(objs))
  BY <1>1
<1>4. ASSUME NEW p \in DOMAIN node PROVE NodeInv(objs, p, node[p])
  <2>0. p \in {Root} \cup DOMAIN Installed
    BY <1>2
  <2>1. CASE p = Root
    <3>1. node[p] = Owned(TRUE, u)
      BY <1>2, <2>0, <2>1
    <3> QED
      BY <1>3, <3>1, OwnedFacts, OwnedNode, Zenon
  <2>2. CASE p # Root
    <3> DEFINE old == Owned(FALSE, 0)
               n == [old EXCEPT !.data = Installed[p]]
    <3>1. node[p] = n
      BY <1>2, <2>0, <2>2
    <3>2. Installed[p] \in Contents
      BY <2>0, <2>2, FilesAssumption, Zenon
    <3>3. DOMAIN old = {"dir", "uid", "gid", "mode", "data", "by"} /\ old.by = 0
      BY OwnedFacts
    <3> HIDE DEF old
    <3>4. DOMAIN n = {"dir", "uid", "gid", "mode", "data", "by"} /\ n.data = Installed[p] /\ n.by = 0
      BY <3>3
    <3> HIDE DEF n
    <3> QED
      BY <1>3, <3>1, <3>2, <3>4, OwnedNode, Zenon
  <2> QED
    BY <2>1, <2>2
<1>5. KeptInv(objs, node)
  <2>1. \A i \in 1..Len(objs) : ObjectInv(objs[i])
    BY <1>3
  <2> QED
    BY <1>3, <1>4, <2>1, Zenon DEF KeptInv
<1>6. fds \in [Tasks -> Seq(0..Len(objs))]
  BY <1>1
<1>7. sec \in Section(Len(objs))
  BY <1>1, <1>3 DEF NoSection, Section, Contents
<1> QED
  BY <1>5, <1>6, <1>7, Zenon DEF FilesInv, Section

\* What a descriptor stands for is an object.
LEMMA OpenFacts ==
    ASSUME FilesInv, NEW t \in Tasks, NEW o \in OpenObjs(t)
    PROVE  o \in 1..Len(objs) /\ ObjectInv(objs[o])
<1>1. fds[t] \in Seq(0..Len(objs)) /\ Len(objs) \in Nat /\ \A i \in 1..Len(objs) : ObjectInv(objs[i])
  BY InvFacts
<1>2. PICK n \in DOMAIN fds[t] : o = fds[t][n] /\ o # 0
  BY DEF OpenObjs
<1>3. o \in 0..Len(objs)
  BY <1>1, <1>2
<1>4. o \in 1..Len(objs)
  BY <1>1, <1>2, <1>3
<1> QED
  BY <1>1, <1>4, Zenon

\* fd_alloc: a new object and its descriptor.
LEMMA AllocStep ==
    ASSUME FilesInv, KeptInv(objs, node'), NEW t \in Tasks, NEW kind, NEW path, NEW data,
           kind # "dir" => data \in Contents, fd_alloc(t, kind, path, data), UNCHANGED sec
    PROVE  FilesInv'
<1> DEFINE x == [kind |-> kind, path |-> path, buf |-> data, pos |-> 0,
                 was |-> data, log |-> <<>>, stored |-> 0]
           n == Len(objs)
           old == fds[t]
           new == D!Place(old, n + 1, 0).tab
<1>1. objs' = Append(objs, x) /\ fds' = [fds EXCEPT ![t] = new]
  BY Zenon DEF fd_alloc
<1>2. x = [kind |-> kind, path |-> path, buf |-> data, pos |-> 0, was |-> data, log |-> <<>>, stored |-> 0]
  OBVIOUS
<1> HIDE DEF x
<1>3. ObjectInv(x)
  BY <1>2, NewObject
<1>4. KeptInv(objs', node') /\ Len(objs') = n + 1 /\ n \in Nat
  BY <1>1, <1>3, OpenKeeps, Zenon
<1>5. fds \in [Tasks -> Seq(0..n)] /\ sec \in Section(n)
  BY InvFacts, Zenon
<1> HIDE DEF n, new
<1>6. 0 \in 0..(n + 1) /\ n + 1 \in 0..(n + 1) /\ 0..n \subseteq 0..(n + 1)
  BY <1>4
<1>7. fds \in [Tasks -> Seq(0..(n + 1))]
  <2>1. \A s \in Seq(0..n) : s \in Seq(0..(n + 1))
    BY <1>6, WiderSeq, Zenon
  <2> QED
    BY <1>5, <2>1
<1>8. new \in Seq(0..(n + 1))
  <2>1. old \in Seq(0..(n + 1))
    BY <1>7
  <2> HIDE DEF old
  <2>2. \A e \in 0..(n + 1) : D!Place(old, e, 0).tab \in Seq(0..(n + 1))
    BY <1>6, <2>1, TableFacts, Zenon
  <2> QED
    BY <1>6, <2>2, Zenon DEF new
<1>9. fds' \in [Tasks -> Seq(0..(n + 1))]
  BY <1>1, <1>7, <1>8
<1>10. sec' \in Section(n + 1)
  <2>1. sec' = sec
    OBVIOUS
  <2> QED
    BY <1>5, <1>6, <2>1 DEF Section
<1> QED
  BY <1>4, <1>9, <1>10, Zenon DEF FilesInv, Section

\* An owner or a mode is not part of the sums.
LEMMA AttrNode ==
    ASSUME NEW p, NEW n, NodeInv(objs, p, n), NEW m, DOMAIN m = DOMAIN n, m.data = n.data, m.by = n.by
    PROVE  NodeInv(objs, p, m)
BY Zenon DEF NodeInv

\* mkdir, unlink, rmdir, chmod and chown.
LEMMA TreeCalls ==
    ASSUME FilesInv, NEW t \in Tasks, sys_mkdir(t) \/ sys_unlink(t) \/ sys_chmod(t) \/ sys_chown(t)
    PROVE  FilesInv'
<1>0. Len(objs) \in Nat /\ \A p \in DOMAIN node : NodeInv(objs, p, node[p])
  BY InvFacts, Zenon
<1>1. ASSUME sys_mkdir(t) PROVE FilesInv'
  <2>1. PICK p : node' = With(node, p, Owned(TRUE, Uid[t])) /\ UNCHANGED <<objs, fds, sec>>
    BY <1>1, Zenon DEF sys_mkdir, mkdir_path_owned
  <2>2. NodeInv(objs, p, Owned(TRUE, Uid[t]))
    BY <1>0, OwnedFacts, OwnedNode, Zenon
  <2>3. \A q \in DOMAIN node' : IF q = p THEN node'[q] = Owned(TRUE, Uid[t])
                                ELSE q \in DOMAIN node /\ node'[q] = node[q]
    BY <2>1, Zenon DEF With
  <2> QED
    BY <2>1, <2>2, <2>3, TreeStep, Zenon
<1>2. ASSUME sys_unlink(t) PROVE FilesInv'
  <2>1. PICK p : node' = Without(p) /\ UNCHANGED <<objs, fds, sec>>
    BY <1>2, Zenon DEF sys_unlink, unlink_path, rmdir_path
  <2>2. \A q \in DOMAIN node' : q \in DOMAIN node /\ node'[q] = node[q]
    BY <2>1, Zenon DEF Without
  <2> QED
    BY <2>1, <2>2, TreeStep, Zenon
<1>3. ASSUME sys_chmod(t) PROVE FilesInv'
  <2>1. PICK p, m : p \in DOMAIN node /\ node' = [node EXCEPT ![p].mode = m] /\ UNCHANGED <<objs, fds, sec>>
    BY <1>3, Zenon DEF sys_chmod, chmod_path, Present
  <2> DEFINE n == node[p]
             k == [n EXCEPT !.mode = m]
  <2>2. NodeInv(objs, p, n)
    BY <1>0, <2>1, Zenon
  <2>3. DOMAIN node' = DOMAIN node /\ node'[p] = k /\ \A q \in DOMAIN node : q # p => node'[q] = node[q]
    BY <2>1
  <2> HIDE DEF n
  <2>4. DOMAIN k = DOMAIN n /\ k.data = n.data /\ k.by = n.by
    <3>1. DOMAIN n = {"dir", "uid", "gid", "mode", "data", "by"}
      BY <2>2, Zenon DEF NodeInv
    <3> QED
      BY <3>1
  <2> HIDE DEF k
  <2>5. NodeInv(objs, p, k)
    BY <2>2, <2>4, AttrNode, Zenon
  <2> QED
    BY <2>1, <2>3, <2>5, TreeStep, Zenon
<1>4. ASSUME sys_chown(t) PROVE FilesInv'
  <2>1. PICK p, o : /\ p \in DOMAIN node /\ node' = [node EXCEPT ![p].uid = o[1], ![p].gid = o[2]]
                    /\ UNCHANGED <<objs, fds, sec>>
    BY <1>4, Zenon DEF sys_chown, chown_path, Present
  <2> DEFINE n == node[p]
             k == [n EXCEPT !.uid = o[1], !.gid = o[2]]
  <2>2. NodeInv(objs, p, n)
    BY <1>0, <2>1, Zenon
  <2>3. DOMAIN node' = DOMAIN node /\ node'[p] = k /\ \A q \in DOMAIN node : q # p => node'[q] = node[q]
    BY <2>1
  <2> HIDE DEF n
  <2>4. DOMAIN k = DOMAIN n /\ k.data = n.data /\ k.by = n.by
    <3>1. DOMAIN n = {"dir", "uid", "gid", "mode", "data", "by"}
      BY <2>2, Zenon DEF NodeInv
    <3> QED
      BY <3>1
  <2> HIDE DEF k
  <2>5. NodeInv(objs, p, k)
    BY <2>2, <2>4, AttrNode, Zenon
  <2> QED
    BY <2>1, <2>3, <2>5, TreeStep, Zenon
<1> QED
  BY <1>1, <1>2, <1>3, <1>4

\* The checked open, of a file that it may have created (open_resolved_access).
LEMMA AccessStep ==
    ASSUME FilesInv, NEW t \in Tasks, NEW p, NEW want, KeptInv(objs, node'), UNCHANGED sec,
           open_resolved_access(t, node', p, want)
    PROVE  FilesInv'
<1>1. p \in DOMAIN node' /\ NodeInv(objs, p, node'[p])
  BY Zenon DEF open_resolved_access, KeptInv
<1>2. node'[p].data \in Contents
  BY <1>1, Zenon DEF NodeInv
<1>3. PICK kind, data : fd_alloc(t, kind, p, data) /\ (kind # "dir" => data \in Contents)
  BY <1>2, Zenon DEF open_resolved_access
<1> QED
  BY <1>3, AllocStep, Zenon

\* open and CreateFileA.
LEMMA OpenCalls ==
    ASSUME FilesInv, NEW t \in Tasks, open_resolved(t) \/ CreateFileA(t)
    PROVE  FilesInv'
<1>0. /\ Len(objs) \in Nat /\ KeptInv(objs, node) /\ objs \in Seq(Range(objs))
      /\ \A i \in 1..Len(objs) : ObjectInv(objs[i])
      /\ \A p \in DOMAIN node : NodeInv(objs, p, node[p])
  BY InvFacts, Zenon
<1>1. ASSUME open_resolved(t) PROVE FilesInv'
  <2>1. PICK p, want :
            /\ node' = node \/ (p \notin DOMAIN node /\ node' = write_path(node, p, <<>>, Uid[t], 0, TRUE))
            /\ open_resolved_access(t, node', p, want) /\ UNCHANGED sec
    <3>1. PICK arg \in Args, want \in {{"r"}, {"w"}, {"r", "w"}}, flags \in {{}, {"CREAT"}, {"CREAT", "EXCL"}} :
            LET p == resolve_path(t, arg)
                nodes == IF "CREAT" \in flags /\ ~Present(p) THEN write_path(node, p, <<>>, Uid[t], 0, TRUE) ELSE node
            IN node' = nodes /\ open_resolved_access(t, nodes, p, want) /\ UNCHANGED sec
      BY <1>1, Zenon DEF open_resolved
    <3> DEFINE p == resolve_path(t, arg)
               create == "CREAT" \in flags /\ ~Present(p)
               made == write_path(node, p, <<>>, Uid[t], 0, TRUE)
    <3>2. /\ node' = (IF create THEN made ELSE node)
          /\ open_resolved_access(t, IF create THEN made ELSE node, p, want) /\ UNCHANGED sec
      BY <3>1, Zenon
    <3>3. create => p \notin DOMAIN node
      BY Zenon DEF Present
    <3> HIDE DEF p, create, made
    <3>4. node' = node \/ (p \notin DOMAIN node /\ node' = made)
      BY <3>2, <3>3, Zenon
    <3>5. open_resolved_access(t, node', p, want)
      BY <3>2, Zenon
    <3> QED
      BY <3>2, <3>4, <3>5, Zenon DEF made
  <2>2. KeptInv(objs, node')
    <3>1. CASE node' = node
      BY <1>0, <3>1, Zenon
    <3>2. CASE node' # node
      <4> DEFINE old == Owned(FALSE, Uid[t])
                 fresh == [old EXCEPT !.data = <<>>, !.by = 0]
      <4>1. node' = With(node, p, fresh) /\ p \notin DOMAIN node
        BY <2>1, <3>2, Zenon DEF write_path
      <4>2. DOMAIN old = {"dir", "uid", "gid", "mode", "data", "by"}
        BY OwnedFacts, Zenon
      <4> HIDE DEF old
      <4>3. DOMAIN fresh = {"dir", "uid", "gid", "mode", "data", "by"} /\ fresh.data = <<>> /\ fresh.by = 0
        BY <4>2
      <4>4. <<>> \in Contents
        BY DEF Contents
      <4> HIDE DEF fresh
      <4>5. NodeInv(objs, p, fresh)
        BY <1>0, <4>3, <4>4, OwnedNode, Zenon
      <4>6. \A q \in DOMAIN node' : IF q = p THEN node'[q] = fresh ELSE q \in DOMAIN node /\ node'[q] = node[q]
        BY <4>1, Zenon DEF With
      <4>7. \A q \in DOMAIN node' : NodeInv(objs, q, node'[q])
        BY <1>0, <4>5, <4>6, Zenon
      <4> QED
        BY <1>0, <4>7, Zenon DEF KeptInv
    <3> QED
      BY <3>1, <3>2
  <2> QED
    BY <2>1, <2>2, AccessStep, Zenon
<1>2. ASSUME CreateFileA(t) PROVE FilesInv'
  <2>1. PICK r, want :
            /\ \/ open_resolved_access(t, node, r.path, want)
               \/ r.path \in DOMAIN CdFiles /\ fd_alloc(t, "cd", r.path, CdFiles[r.path])
            /\ UNCHANGED <<node, sec>>
    BY <1>2, Zenon DEF CreateFileA
  <2>2. node' = node /\ sec' = sec /\ KeptInv(objs, node')
    BY <1>0, <2>1
  <2>3. CASE open_resolved_access(t, node, r.path, want)
    <3>1. open_resolved_access(t, node', r.path, want)
      BY <2>2, <2>3, Zenon
    <3> QED
      BY <2>2, <3>1, AccessStep, Zenon
  <2>4. CASE r.path \in DOMAIN CdFiles /\ fd_alloc(t, "cd", r.path, CdFiles[r.path])
    <3>1. CdFiles[r.path] \in Contents
      BY <2>4, FilesAssumption, Zenon
    <3>2. PICK kind, path, data : fd_alloc(t, kind, path, data) /\ data \in Contents
      BY <2>4, <3>1, Zenon
    <3> QED
      BY <2>2, <3>2, AllocStep, Zenon
  <2> QED
    BY <2>1, <2>3, <2>4
<1> QED
  BY <1>1, <1>2

\* close, dup and chdir.
LEMMA TableCalls ==
    ASSUME FilesInv, NEW t \in Tasks, Close(t) \/ Dup(t) \/ SysChdir(t)
    PROVE  FilesInv'
<1> DEFINE n == Len(objs)
           S == 0..n
           old == fds[t]
<1>1. n \in Nat /\ KeptInv(objs, node) /\ fds \in [Tasks -> Seq(S)] /\ sec \in Section(n)
  BY InvFacts, Zenon
<1>2. 0 \in S
  BY <1>1
<1> HIDE DEF S
<1>3. old \in Seq(S)
  BY <1>1
<1>4. /\ \A e \in S : D!Place(old, e, 0).tab \in Seq(S)
      /\ \A fd : D!fd_close(old, fd).tab \in Seq(S)
  <2> HIDE DEF old
  <2> QED
    BY <1>2, <1>3, TableFacts, Zenon
<1>5. fds' \in [Tasks -> Seq(S)] /\ UNCHANGED <<node, objs, sec>>
  <2>1. CASE Close(t)
    <3>1. PICK fd : fds' = [fds EXCEPT ![t] = D!fd_close(old, fd).tab] /\ UNCHANGED <<node, objs, sec>>
      BY <2>1, Zenon DEF Close
    <3> QED
      BY <1>1, <1>4, <3>1
  <2>2. CASE Dup(t)
    <3>1. PICK fd : /\ fds' = [fds EXCEPT ![t] = D!Place(old, old[fd + 1], 0).tab]
                    /\ D!Open(old, fd) /\ UNCHANGED <<node, objs, sec>>
      BY <2>2, Zenon DEF Dup
    <3>2. old[fd + 1] \in S
      <4>1. fd + 1 \in DOMAIN old
        BY <3>1, Zenon DEF D!Open
      <4> HIDE DEF old
      <4> QED
        BY <1>3, <4>1
    <3>3. D!Place(old, old[fd + 1], 0).tab \in Seq(S)
      BY <1>4, <3>2, Zenon
    <3> QED
      BY <1>1, <3>1, <3>3
  <2>3. CASE SysChdir(t)
    BY <1>1, <2>3 DEF SysChdir
  <2> QED
    BY <2>1, <2>2, <2>3
<1>6. objs' = objs /\ node' = node /\ sec' = sec
  BY <1>5
<1> QED
  BY <1>1, <1>5, <1>6, SumStep, Zenon DEF S

\* A call that only moves a position.
LEMMA MoveStep ==
    ASSUME FilesInv, NEW i \in 1..Len(objs), NEW np, objs[i].kind # "dir" => np \in Nat,
           objs' = Moved(objs, i, np), UNCHANGED <<node, fds>>, sec' \in Section(Len(objs))
    PROVE  FilesInv'
<1>1. KeptInv(objs, node) /\ fds \in [Tasks -> Seq(0..Len(objs))]
  BY InvFacts, Zenon
<1>2. KeptInv(objs', node) /\ Len(objs') = Len(objs)
  BY <1>1, MoveKeeps, Zenon
<1>3. node' = node /\ fds' = fds
  OBVIOUS
<1> QED
  BY <1>1, <1>2, <1>3, SumStep, Zenon

\* A file's or the medium's object holds bytes.
LEMMA BytesFacts ==
    ASSUME NEW o, ObjectInv(o), o.kind # "dir"
    PROVE  o.buf \in Contents /\ o.pos \in Nat /\ Len(o.buf) \in Nat
<1>1. o.buf \in Contents /\ o.pos \in Nat
  BY Zenon DEF ObjectInv
<1> QED
  BY <1>1 DEF Contents

\* read, getdents64 and lseek.
LEMMA ReadCalls ==
    ASSUME FilesInv, NEW t \in Tasks, sys_read(t) \/ getdents64(t) \/ seek(t)
    PROVE  FilesInv'
<1>0. sec \in Section(Len(objs))
  BY InvFacts, Zenon
<1>1. ASSUME sys_read(t) PROVE FilesInv'
  <2>1. PICK o \in OpenObjs(t), n \in 1..MaxFile :
            /\ objs[o].kind # "dir" /\ objs' = [objs EXCEPT ![o].pos = @ + Len(ReadOf(objs[o], n))]
            /\ UNCHANGED <<node, fds, sec>>
    BY <1>1 DEF sys_read
  <2> DEFINE np == objs[o].pos + Len(ReadOf(objs[o], n))
  <2>2. o \in 1..Len(objs) /\ ObjectInv(objs[o])
    BY OpenFacts, Zenon
  <2>3. objs' = Moved(objs, o, np)
    BY <2>1 DEF Moved
  <2>4. n \in Nat
    BY FilesAssumption
  <2>5. objs[o].pos \in Nat /\ Len(ReadOf(objs[o], n)) \in Nat
    BY <2>1, <2>2, <2>4, BytesFacts, ReadFacts, Zenon
  <2>6. np \in Nat
    BY <2>5
  <2> HIDE DEF np
  <2> QED
    BY <1>0, <2>1, <2>2, <2>3, <2>6, MoveStep
<1>2. ASSUME getdents64(t) PROVE FilesInv'
  <2>1. PICK o \in OpenObjs(t), fit \in 1..2 :
            /\ objs[o].kind = "dir" /\ objs' = [objs EXCEPT ![o].pos = @ + Len(ReadOf(objs[o], fit))]
            /\ UNCHANGED <<node, fds, sec>>
    BY <1>2 DEF getdents64
  <2> DEFINE np == objs[o].pos + Len(ReadOf(objs[o], fit))
  <2>2. o \in 1..Len(objs)
    BY OpenFacts, Zenon
  <2>3. objs' = Moved(objs, o, np)
    BY <2>1 DEF Moved
  <2> HIDE DEF np
  <2> QED
    BY <1>0, <2>1, <2>2, <2>3, MoveStep
<1>3. ASSUME seek(t) PROVE FilesInv'
  <2>1. PICK o \in OpenObjs(t), base \in {"SET", "CUR", "END"}, offset \in -1..MaxFile :
            LET np == offset + (CASE base = "SET" -> 0 [] base = "CUR" -> objs[o].pos
                                  [] base = "END" -> Len(objs[o].buf))
            IN /\ np >= 0 /\ np < MaxFile /\ np # objs[o].pos
               /\ objs[o].kind = "dir" => base = "SET" /\ offset = 0
               /\ objs' = [objs EXCEPT ![o].pos = np]
               /\ UNCHANGED <<node, fds, cwd, sec>>
    BY <1>3, Zenon DEF seek
  <2> DEFINE from == CASE base = "SET" -> 0 [] base = "CUR" -> objs[o].pos [] base = "END" -> Len(objs[o].buf)
             np == offset + from
  <2>2. o \in 1..Len(objs) /\ ObjectInv(objs[o])
    BY OpenFacts, Zenon
  <2>3. objs' = Moved(objs, o, np) /\ np >= 0 /\ UNCHANGED <<node, fds, sec>>
    <3>1. objs' = [objs EXCEPT ![o].pos = np] /\ np >= 0 /\ UNCHANGED <<node, fds, cwd, sec>>
      BY <2>1, Zenon
    <3> HIDE DEF np
    <3> QED
      BY <3>1 DEF Moved
  <2>4. ASSUME objs[o].kind # "dir" PROVE np \in Nat
    <3>1. objs[o].pos \in Nat /\ Len(objs[o].buf) \in Nat
      BY <2>2, <2>4, BytesFacts, Zenon
    <3>2. from \in Nat
      BY <3>1
    <3> HIDE DEF from
    <3>3. offset \in Int
      BY FilesAssumption
    <3> QED
      BY <2>3, <3>2, <3>3
  <2> HIDE DEF np
  <2> QED
    BY <1>0, <2>2, <2>3, <2>4, MoveStep
<1> QED
  BY <1>1, <1>2, <1>3

\* The state, with one object moved or not: what the writing calls start from.
LEMMA NowFacts ==
    /\ Now.objs = objs /\ Now.node = node
    /\ \A i, np : LET s == [Now EXCEPT !.objs[i].pos = np] IN s.objs = Moved(objs, i, np) /\ s.node = node
BY DEF Now, Moved

\* A call that ends in a write from a state that keeps the sums.
LEMMA WriteStep ==
    ASSUME FilesInv, NEW s, KeptInv(s.objs, s.node), Len(s.objs) = Len(objs), NEW i \in 1..Len(objs),
           s.objs[i].kind = "file", NEW src \in Contents, NEW room \in BOOLEAN,
           Becomes(write(s, i, src, room)), UNCHANGED fds, sec' \in Section(Len(objs))
    PROVE  FilesInv'
<1> DEFINE r == write(s, i, src, room)
<1>1. KeptInv(r.objs, r.node) /\ Len(r.objs) = Len(s.objs)
  BY WriteKeeps
<1>2. objs' = r.objs /\ node' = r.node
  BY DEF Becomes
<1>3. fds' \in [Tasks -> Seq(0..Len(objs))]
  BY InvFacts
<1> HIDE DEF r
<1> QED
  BY <1>1, <1>2, <1>3, SumStep, Zenon

\* write, writev and sendfile.
LEMMA WriteCalls ==
    ASSUME FilesInv, NEW t \in Tasks, sys_write(t) \/ sys_writev(t) \/ sys_sendfile(t)
    PROVE  FilesInv'
<1>0. KeptInv(objs, node) /\ sec \in Section(Len(objs)) /\ fds \in [Tasks -> Seq(0..Len(objs))]
  BY InvFacts, Zenon
<1>a. Now.objs = objs /\ Now.node = node
  BY NowFacts, Zenon
<1>b. \A a \in Strings : a \in Contents
  <2>1. \A b \in Bytes : <<b>> \in Seq(Bytes \cup {0})
    OBVIOUS
  <2> QED
    BY <2>1, Zenon DEF Strings, Contents
<1>1. ASSUME sys_write(t) PROVE FilesInv'
  <2>1. PICK o \in OpenObjs(t), a \in Strings, room \in BOOLEAN :
            /\ objs[o].kind = "file" /\ Becomes(write(Now, o, a, room)) /\ UNCHANGED <<fds, sec>>
    BY <1>1 DEF sys_write
  <2>2. o \in 1..Len(objs) /\ a \in Contents
    BY <1>b, OpenFacts, Zenon
  <2>3. PICK s : s = Now
    OBVIOUS
  <2>4. KeptInv(s.objs, s.node) /\ Len(s.objs) = Len(objs) /\ s.objs[o].kind = "file"
    BY <1>0, <1>a, <2>1, <2>3, Zenon
  <2>5. Becomes(write(s, o, a, room)) /\ UNCHANGED fds /\ sec' \in Section(Len(objs))
    BY <1>0, <2>1, <2>3
  <2> QED
    BY <2>2, <2>4, <2>5, WriteStep
<1>2. ASSUME sys_writev(t) PROVE FilesInv'
  <2>1. PICK o \in OpenObjs(t), a \in Strings, b \in Strings, r1 \in BOOLEAN, r2 \in BOOLEAN :
            LET one == write(Now, o, a, r1)
            IN /\ objs[o].kind = "file" /\ objs[o].pos + Len(a) + Len(b) <= MaxFile
               /\ Becomes(IF one.ok THEN write(one, o, b, r2) ELSE one)
               /\ UNCHANGED <<fds, cwd, sec>>
    BY <1>2, Zenon DEF sys_writev
  <2> DEFINE one == write(Now, o, a, r1)
  <2>2. o \in 1..Len(objs) /\ a \in Contents /\ b \in Contents
    BY <1>b, OpenFacts, Zenon
  <2>3. KeptInv(one.objs, one.node) /\ Len(one.objs) = Len(objs) /\ one.objs[o].kind = "file"
    <3>1. KeptInv(Now.objs, Now.node) /\ o \in 1..Len(Now.objs) /\ Now.objs[o].kind = "file"
      BY <1>0, <1>a, <2>1, <2>2, Zenon
    <3>2. KeptInv(one.objs, one.node) /\ Len(one.objs) = Len(Now.objs) /\ one.objs[o].kind = "file"
      BY <2>2, <3>1, WriteKeeps
    <3> QED
      BY <1>a, <3>2, Zenon
  <2>4. Becomes(IF one.ok THEN write(one, o, b, r2) ELSE one)
    BY <2>1, Zenon
  <2>5. UNCHANGED fds /\ sec' \in Section(Len(objs))
    BY <1>0, <2>1
  <2> HIDE DEF one
  <2>6. CASE one.ok
    <3>1. Becomes(write(one, o, b, r2))
      BY <2>4, <2>6, Zenon
    <3> QED
      BY <2>2, <2>3, <2>5, <3>1, WriteStep
  <2>7. CASE ~one.ok
    <3>1. objs' = one.objs /\ node' = one.node
      BY <2>4, <2>7, Zenon DEF Becomes
    <3> QED
      BY <1>0, <2>3, <2>5, <3>1, SumStep
  <2> QED
    BY <2>6, <2>7
<1>3. ASSUME sys_sendfile(t) PROVE FilesInv'
  <2>0. PICK i \in OpenObjs(t), o \in OpenObjs(t), room \in BOOLEAN : \E start \in {0, objs[i].pos} :
            LET src == [objs[i] EXCEPT !.pos = start]
                got == ReadOf(src, MaxFile)
                s == [Now EXCEPT !.objs[i].pos = start + Len(got)]
            IN /\ objs[i].kind # "dir" /\ got # <<>> /\ s.objs[o].pos + Len(got) <= MaxFile
               /\ Becomes(IF objs[o].kind = "file" THEN write(s, o, got, room) ELSE s)
               /\ UNCHANGED <<fds, cwd, sec>>
    BY <1>3, Zenon DEF sys_sendfile
  <2>1. PICK start \in {0, objs[i].pos} :
            LET src == [objs[i] EXCEPT !.pos = start]
                got == ReadOf(src, MaxFile)
                s == [Now EXCEPT !.objs[i].pos = start + Len(got)]
            IN /\ objs[i].kind # "dir" /\ got # <<>> /\ s.objs[o].pos + Len(got) <= MaxFile
               /\ Becomes(IF objs[o].kind = "file" THEN write(s, o, got, room) ELSE s)
               /\ UNCHANGED <<fds, cwd, sec>>
    BY <2>0, Zenon
  <2> DEFINE obj == objs[i]
             src == [obj EXCEPT !.pos = start]
             got == ReadOf(src, MaxFile)
             np == start + Len(got)
             s == [Now EXCEPT !.objs[i].pos = np]
  <2>2. /\ obj.kind # "dir" /\ Becomes(IF objs[o].kind = "file" THEN write(s, o, got, room) ELSE s)
        /\ UNCHANGED <<fds, cwd, sec>>
    BY <2>1, Zenon
  <2>3. i \in 1..Len(objs) /\ o \in 1..Len(objs) /\ ObjectInv(obj)
    BY OpenFacts, Zenon
  <2>4. obj.buf \in Contents /\ obj.pos \in Nat
    BY <2>2, <2>3, BytesFacts, Zenon
  <2>5. start \in Nat
    BY <2>4
  <2>6. src.buf \in Contents /\ src.pos \in Nat
    <3>1. DOMAIN obj = {"kind", "path", "buf", "pos", "was", "log", "stored"}
      BY <2>3, Zenon DEF ObjectInv
    <3> HIDE DEF obj
    <3> QED
      BY <2>4, <2>5, <3>1
  <2> HIDE DEF src
  <2>7. got \in Contents /\ Len(got) \in Nat
    BY <2>6, FilesAssumption, ReadFacts, Zenon
  <2> HIDE DEF got
  <2>8. np \in Nat
    BY <2>5, <2>7
  <2> HIDE DEF np
  <2>9. s.objs = Moved(objs, i, np) /\ s.node = node
    BY NowFacts, Zenon
  <2> HIDE DEF s
  <2>10. /\ KeptInv(s.objs, s.node) /\ Len(s.objs) = Len(objs)
         /\ \A j \in 1..Len(objs) : s.objs[j].kind = objs[j].kind
    <3>1. /\ KeptInv(Moved(objs, i, np), node) /\ Len(Moved(objs, i, np)) = Len(objs)
          /\ \A j \in 1..Len(objs) : Moved(objs, i, np)[j].kind = objs[j].kind
      <4>1. KeptInv(objs, node) /\ i \in 1..Len(objs) /\ (objs[i].kind # "dir" => np \in Nat)
        BY <1>0, <2>3, <2>8, Zenon
      <4> HIDE DEF obj
      <4> QED
        BY <4>1, MoveKeeps, SMTT(20)
    <3> QED
      BY <2>9, <3>1, Zenon
  <2>11. UNCHANGED fds /\ sec' \in Section(Len(objs))
    BY <1>0, <2>2
  <2>12. CASE objs[o].kind = "file"
    <3>1. Becomes(write(s, o, got, room)) /\ s.objs[o].kind = "file"
      BY <2>2, <2>3, <2>10, <2>12, Zenon
    <3> QED
      BY <2>3, <2>7, <2>10, <2>11, <3>1, WriteStep
  <2>13. CASE objs[o].kind # "file"
    <3>1. objs' = s.objs /\ node' = s.node
      BY <2>2, <2>13, Zenon DEF Becomes
    <3> QED
      BY <1>0, <2>10, <2>11, <3>1, SumStep
  <2> QED
    BY <2>12, <2>13
<1> QED
  BY <1>1, <1>2, <1>3

\* Creating a section reads the file, and a program's stores change the section
\* only (NtCreateSection).
LEMMA SectionCalls ==
    ASSUME FilesInv, (\E t \in Tasks : NtCreateSection(t)) \/ Store
    PROVE  FilesInv'
<1>0. /\ KeptInv(objs, node) /\ sec \in Section(Len(objs)) /\ Len(objs) \in Nat
      /\ fds \in [Tasks -> Seq(0..Len(objs))]
  BY InvFacts, Zenon
<1>1. ASSUME NEW t \in Tasks, NtCreateSection(t) PROVE FilesInv'
  <2>1. PICK o \in OpenObjs(t) \cup {0} :
            LET data == IF o = 0 THEN Zeros(1)
                        ELSE IF objs[o].kind = "dir" THEN <<>> ELSE ReadOf(objs[o], MaxFile)
            IN /\ data # <<>>
               /\ sec' = [file |-> o, data |-> data, mapped |-> TRUE]
               /\ objs' = IF o = 0 THEN objs ELSE [objs EXCEPT ![o].pos = @ + Len(data)]
               /\ UNCHANGED <<node, fds, cwd>>
    BY <1>1, Zenon DEF NtCreateSection
  <2>2. node' = node /\ fds' = fds
    BY <2>1
  <2>3. CASE o = 0
    <3>1. objs' = objs /\ sec' = [file |-> 0, data |-> Zeros(1), mapped |-> TRUE]
      BY <2>1, <2>3
    <3>2. Zeros(1) \in Contents
      <4>1. Zeros(1) \in [1..1 -> Bytes \cup {0}] /\ 1 \in Nat
        BY DEF Zeros
      <4>2. PICK n \in Nat : Zeros(1) \in [1..n -> Bytes \cup {0}]
        BY <4>1
      <4>3. PICK f : f = Zeros(1)
        OBVIOUS
      <4>4. f \in Seq(Bytes \cup {0})
        BY <4>2, <4>3, FunSeq
      <4> QED
        BY <4>3, <4>4 DEF Contents
    <3>3. sec' \in Section(Len(objs))
      BY <1>0, <3>1, <3>2 DEF Section
    <3> QED
      BY <1>0, <2>2, <3>1, <3>3, SumStep
  <2>4. CASE o # 0
    <3> DEFINE obj == objs[o]
               data == ReadOf(obj, MaxFile)
               np == obj.pos + Len(data)
    <3>1. o \in 1..Len(objs) /\ ObjectInv(obj)
      <4>1. o \in OpenObjs(t)
        BY <2>4
      <4> QED
        BY <4>1, OpenFacts, Zenon
    <3>2. /\ obj.kind # "dir" /\ sec' = [file |-> o, data |-> data, mapped |-> TRUE]
          /\ objs' = Moved(objs, o, np)
      BY <2>1, <2>4 DEF Moved
    <3>3. data \in Contents /\ Len(data) \in Nat /\ obj.pos \in Nat
      BY <3>1, <3>2, FilesAssumption, BytesFacts, ReadFacts, Zenon
    <3> HIDE DEF data
    <3>4. np \in Nat
      BY <3>3
    <3>5. sec' \in Section(Len(objs))
      BY <1>0, <3>1, <3>2, <3>3 DEF Section
    <3> HIDE DEF np
    <3> QED
      BY <2>2, <3>1, <3>2, <3>4, <3>5, MoveStep
  <2> QED
    BY <2>3, <2>4
<1>2. ASSUME Store PROVE FilesInv'
  <2>1. PICK k \in DOMAIN sec.data, b \in Bytes :
            sec' = [sec EXCEPT !.data[k] = b] /\ UNCHANGED <<node, objs, fds>>
    BY <1>2 DEF Store
  <2> DEFINE data == sec.data
             new == [data EXCEPT ![k] = b]
             S == Bytes \cup {0}
  <2>2. data \in Seq(S) /\ k \in DOMAIN data /\ b \in S /\ sec.file \in 0..Len(objs) /\ sec.mapped \in BOOLEAN
    BY <1>0, <2>1 DEF Section, Contents
  <2>3. sec' = [file |-> sec.file, data |-> new, mapped |-> sec.mapped]
    BY <1>0, <2>1 DEF Section
  <2>4. new \in Seq(S)
    <3> HIDE DEF data, S
    <3> QED
      BY <2>2
  <2>5. sec' \in Section(Len(objs))
    <3> HIDE DEF new
    <3> QED
      BY <2>2, <2>3, <2>4 DEF Section, Contents
  <2>6. objs' = objs /\ node' = node /\ fds' = fds
    BY <2>1
  <2> QED
    BY <1>0, <2>5, <2>6, SumStep, Zenon
<1> QED
  BY <1>1, <1>2

\* Section::flush, on its own and when the view is unmapped.
LEMMA FlushCalls ==
    ASSUME FilesInv, NtFlushVirtualMemory \/ NtUnmapViewOfSection
    PROVE  FilesInv'
<1>0. /\ KeptInv(objs, node) /\ sec \in Section(Len(objs)) /\ Len(objs) \in Nat
      /\ fds \in [Tasks -> Seq(0..Len(objs))]
  BY InvFacts, Zenon
<1>1. NoSection \in Section(Len(objs))
  BY <1>0 DEF NoSection, Section, Contents
<1>2. PICK room \in BOOLEAN : Becomes(flush(room))
  BY Zenon DEF NtFlushVirtualMemory, NtUnmapViewOfSection
<1>3. fds' = fds /\ sec' \in Section(Len(objs))
  BY <1>0, <1>1 DEF NtFlushVirtualMemory, NtUnmapViewOfSection
<1> DEFINE i == sec.file
           data == sec.data
           s == [Now EXCEPT !.objs[i].pos = 0]
<1>4. i \in 0..Len(objs) /\ data \in Contents
  BY <1>0 DEF Section
<1>5. flush(room) = IF i = 0 THEN Now ELSE IF objs[i].kind = "file" THEN write(s, i, data, room) ELSE s
  BY Zenon DEF flush
<1>6. s.objs = Moved(objs, i, 0) /\ s.node = node
  BY NowFacts
<1> HIDE DEF i, data, s
<1>7. CASE i = 0
  <2>1. objs' = objs /\ node' = node
    BY <1>2, <1>5, <1>7, NowFacts, Zenon DEF Becomes
  <2> QED
    BY <1>0, <1>3, <2>1, SumStep
<1>8. CASE i # 0
  <2>1. i \in 1..Len(objs)
    BY <1>0, <1>4, <1>8
  <2>2. /\ KeptInv(s.objs, s.node) /\ Len(s.objs) = Len(objs)
        /\ \A j \in 1..Len(objs) : s.objs[j].kind = objs[j].kind
    <3>1. PICK np \in Nat : np = 0
      OBVIOUS
    <3>2. /\ KeptInv(Moved(objs, i, np), node) /\ Len(Moved(objs, i, np)) = Len(objs)
          /\ \A j \in 1..Len(objs) : Moved(objs, i, np)[j].kind = objs[j].kind
      BY <1>0, <2>1, MoveKeeps
    <3> QED
      BY <1>6, <3>1, <3>2, Zenon
  <2>3. CASE objs[i].kind = "file"
    <3>1. Becomes(write(s, i, data, room)) /\ s.objs[i].kind = "file"
      BY <1>2, <1>5, <1>8, <2>1, <2>2, <2>3, Zenon
    <3> QED
      BY <1>3, <1>4, <2>1, <2>2, <3>1, WriteStep
  <2>4. CASE objs[i].kind # "file"
    <3>1. objs' = s.objs /\ node' = s.node
      BY <1>2, <1>5, <1>8, <2>4, Zenon DEF Becomes
    <3> QED
      BY <1>0, <1>3, <2>2, <3>1, SumStep
  <2> QED
    BY <2>3, <2>4
<1> QED
  BY <1>7, <1>8

\* Every call keeps the sums.
LEMMA FilesStep == FilesInv /\ [FilesNext]_filesVars => FilesInv'
<1> SUFFICES ASSUME FilesInv, [FilesNext]_filesVars PROVE FilesInv'
  OBVIOUS
<1>1. CASE UNCHANGED filesVars
  <2>1. objs' = objs /\ node' = node /\ fds' = fds /\ sec' = sec
    BY <1>1 DEF filesVars
  <2> QED
    BY <2>1, Zenon DEF FilesInv
<1>2. ASSUME NEW t \in Tasks,
             \/ sys_mkdir(t) \/ sys_unlink(t) \/ sys_chmod(t) \/ sys_chown(t) \/ SysChdir(t)
             \/ open_resolved(t) \/ CreateFileA(t) \/ Close(t) \/ Dup(t)
             \/ sys_read(t) \/ sys_write(t) \/ sys_writev(t) \/ seek(t) \/ getdents64(t) \/ sys_sendfile(t)
             \/ NtCreateSection(t)
      PROVE  FilesInv'
  BY <1>2, TreeCalls, OpenCalls, TableCalls, ReadCalls, WriteCalls, SectionCalls, Zenon
<1>3. CASE Store \/ NtFlushVirtualMemory \/ NtUnmapViewOfSection
  BY <1>3, SectionCalls, FlushCalls, Zenon
<1> QED
  BY <1>1, <1>2, <1>3, Zenon DEF FilesNext

\* What the disk holds under a path is what the writes through the object that
\* stored it last add up to (Ext2File::write, Section::flush, write_path).
THEOREM FilesWritesKept == FilesSpec => []WritesKept
<1>1. FilesInv => WritesKept
  <2> SUFFICES ASSUME FilesInv PROVE WritesKept
    OBVIOUS
  <2>1. \A p \in DOMAIN node : NodeInv(objs, p, node[p])
    BY InvFacts, Zenon
  <2> QED
    BY <2>1, Zenon DEF NodeInv, WritesKept
<1>2. FilesSpec => []FilesInv
  BY FilesStart, FilesStep, PTL DEF FilesSpec
<1> QED
  BY <1>1, <1>2, PTL

=============================================================================
