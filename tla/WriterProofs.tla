---------------------------- MODULE WriterProofs ----------------------------
(***************************************************************************)
(* Proofs about the Writer in every layout: any number of groups, string   *)
(* channels, records and failures, any chunk, buffer and alignment size,   *)
(* compressed or not.                                                      *)
(*                                                                         *)
(* Once bufio has failed the writer can only report errors, and the file   *)
(* keeps saying that it is not finalized (ErrorIsFinal).  The argument is  *)
(* about the first cell of what was written: nothing but the last write of *)
(* finalize clears its flags, and that write is behind a flush of the      *)
(* buffer, which hands on the sticky error.                                *)
(***************************************************************************)
EXTENDS WriterProps, TLAPS, SequenceTheorems, WellFoundedInduction

-----------------------------------------------------------------------------
(* Sequences of any values.                                                *)

AnySeq(s) == s \in Seq(Range(s))

(* A sequence over some set is a sequence.                                 *)
LEMMA SeqIsAnySeq ==
    ASSUME NEW S, NEW s \in Seq(S)
    PROVE  AnySeq(s)
<1>1. DOMAIN s = 1..Len(s) /\ Len(s) \in Nat /\ \A i \in 1..Len(s) : s[i] \in Range(s)
  BY LenProperties DEF Range
<1>2. s = [i \in 1..Len(s) |-> s[i]]
  BY LenProperties
<1> QED
  BY <1>1, <1>2 DEF AnySeq

(* Length and domain.                                                      *)
LEMMA AnySeqFacts ==
    ASSUME NEW s, AnySeq(s)
    PROVE  /\ Len(s) \in Nat /\ DOMAIN s = 1..Len(s)
           /\ s = <<>> <=> Len(s) = 0
  BY LenProperties, EmptySeq DEF AnySeq

(* A sequence is one over any set that holds its elements.                 *)
LEMMA AnySeqWiden ==
    ASSUME NEW s, AnySeq(s), NEW S, \A i \in 1..Len(s) : s[i] \in S
    PROVE  s \in Seq(S)
<1>1. Len(s) \in Nat /\ s = [i \in 1..Len(s) |-> s[i]]
  BY LenProperties DEF AnySeq
<1> QED
  BY <1>1

(* Concatenation.                                                          *)
LEMMA CatFacts ==
    ASSUME NEW a, NEW b, AnySeq(a), AnySeq(b)
    PROVE  /\ AnySeq(a \o b) /\ Len(a \o b) = Len(a) + Len(b)
           /\ \A i \in 1..Len(a) : (a \o b)[i] = a[i]
           /\ \A i \in 1..Len(b) : (a \o b)[Len(a) + i] = b[i]
<1> DEFINE S == Range(a) \union Range(b)
<1>1. Len(a) \in Nat /\ Len(b) \in Nat /\ DOMAIN a = 1..Len(a) /\ DOMAIN b = 1..Len(b)
  BY AnySeqFacts
<1>2. a \in Seq(S) /\ b \in Seq(S)
  <2>1. \A i \in 1..Len(a) : a[i] \in S
    BY <1>1 DEF Range
  <2>2. \A i \in 1..Len(b) : b[i] \in S
    BY <1>1 DEF Range
  <2> HIDE DEF S
  <2> QED
    BY <2>1, <2>2, AnySeqWiden
<1> HIDE DEF S
<1>3. /\ a \o b \in Seq(S) /\ Len(a \o b) = Len(a) + Len(b)
      /\ \A i \in 1..(Len(a) + Len(b)) :
            (a \o b)[i] = IF i <= Len(a) THEN a[i] ELSE b[i - Len(a)]
  BY <1>2, ConcatProperties
<1>4. AnySeq(a \o b)
  BY <1>3, SeqIsAnySeq
<1> QED
  BY <1>1, <1>3, <1>4

(* A part of a sequence.                                                   *)
LEMMA PartFacts ==
    ASSUME NEW s, AnySeq(s), NEW m \in Nat \ {0}, NEW n \in Nat, n <= Len(s), m <= n + 1
    PROVE  /\ AnySeq(SubSeq(s, m, n)) /\ Len(SubSeq(s, m, n)) = n - m + 1
           /\ \A i \in 1..(n - m + 1) : SubSeq(s, m, n)[i] = s[m + i - 1]
<1>1. Len(s) \in Nat /\ DOMAIN s = 1..Len(s)
  BY AnySeqFacts
<1>2. \A i \in m..n : s[i] \in Range(s)
  BY <1>1 DEF Range
<1>3. /\ SubSeq(s, m, n) \in Seq(Range(s))
      /\ Len(SubSeq(s, m, n)) = IF m <= n THEN n - m + 1 ELSE 0
      /\ \A i \in 1..(n - m + 1) : SubSeq(s, m, n)[i] = s[m + i - 1]
  BY <1>2, SubSeqProperties
<1>4. AnySeq(SubSeq(s, m, n))
  BY <1>3, SeqIsAnySeq
<1>5. Len(SubSeq(s, m, n)) = n - m + 1
  BY <1>3
<1> QED
  BY <1>3, <1>4, <1>5

(* One element; none.                                                      *)
LEMMA OneFacts ==
    ASSUME NEW a
    PROVE  /\ AnySeq(<<a>>) /\ Len(<<a>>) = 1 /\ <<a>>[1] = a
           /\ AnySeq(<<>>) /\ Len(<<>>) = 0
<1>1. <<a>> \in Seq({a}) /\ <<>> \in Seq({a})
  OBVIOUS
<1> QED
  BY <1>1, SeqIsAnySeq

(* A function on 1..n.                                                     *)
LEMMA FunIsSeq ==
    ASSUME NEW n \in Nat, NEW f, DOMAIN f = 1..n, f = [i \in 1..n |-> f[i]]
    PROVE  AnySeq(f) /\ Len(f) = n
<1>1. f \in Seq({f[i] : i \in 1..n})
  OBVIOUS
<1>2. Len(f) = n
  BY <1>1, LenProperties
<1> QED
  BY <1>1, <1>2, SeqIsAnySeq

(* Two elements.                                                           *)
LEMMA PairFacts ==
    ASSUME NEW p, NEW q
    PROVE  /\ <<p>> \o <<q>> = <<p, q>> /\ <<p>> \o <<>> = <<p>>
           /\ <<p, q>> \in Seq({p, q}) /\ <<p>> \in Seq({p, q})
           /\ Len(<<p, q>>) = 2 /\ Len(<<p>>) = 1
<1>1. <<p>> \in Seq({p, q}) /\ <<q>> \in Seq({p, q}) /\ <<>> \in Seq({p, q}) /\ <<p, q>> \in Seq({p, q})
  OBVIOUS
<1>2. <<p>> \o <<>> = <<p>>
  BY <1>1, ConcatEmptySeq
<1>3. <<p>> \o <<q>> \in Seq({p, q})
  BY <1>1, ConcatProperties
<1>4. Len(<<p>> \o <<q>>) = 2 /\ (<<p>> \o <<q>>)[1] = p /\ (<<p>> \o <<q>>)[2] = q
  BY <1>1, ConcatProperties
<1>5. Len(<<p, q>>) = 2 /\ <<p, q>>[1] = p /\ <<p, q>>[2] = q /\ Len(<<p>>) = 1
  OBVIOUS
<1>6. <<p>> \o <<q>> = <<p, q>>
  <2> DEFINE c == <<p>> \o <<q>>
             d == <<p, q>>
  <2>1. /\ c \in Seq({p, q}) /\ Len(c) = 2 /\ c[1] = p /\ c[2] = q
        /\ d \in Seq({p, q}) /\ Len(d) = 2 /\ d[1] = p /\ d[2] = q
    BY <1>1, <1>3, <1>4, <1>5
  <2> HIDE DEF c, d
  <2>2. \A i \in 1..2 : c[i] = d[i]
    BY <2>1
  <2>3. c = d
    BY <2>1, <2>2, SeqEqual
  <2> QED
    BY <2>3 DEF c, d
<1> QED
  BY <1>1, <1>2, <1>5, <1>6

(* Flattening a sequence of sequences gives a sequence of their elements,  *)
(* and keeps all of them.                                                  *)
LEMMA FlattenFacts ==
    ASSUME NEW n \in Nat \ {0}, NEW ss, AnySeq(ss), Len(ss) = n,
           NEW S, \A k \in 1..n : ss[k] \in Seq(S)
    PROVE  /\ FlattenSeq(ss) \in Seq(S)
           /\ \A k \in 1..n : Len(ss[k]) <= Len(FlattenSeq(ss))
<1> DEFINE Part(f, i) == IF i = 1 THEN ss[i] ELSE f[i - 1] \o ss[i]
           Eq(f, m) == f = [i \in 1..m |-> Part(f, i)]
           No == {m \in 1..n : ~\E f : Eq(f, m)}
<1>1. \E f : Eq(f, n)
  <2> HIDE DEF Eq
  <2> SUFFICES ASSUME No # {} PROVE FALSE
    <3>1. n \in 1..n
      OBVIOUS
    <3> QED
      BY <3>1
  <2>1. No \subseteq Nat
    OBVIOUS
  <2> USE DEF Eq
  <2>2. PICK m \in No : \A y \in No : ~(<<y, m>> \in OpToRel(<, Nat))
    <3> HIDE DEF No
    <3> QED
      BY <2>1, NatLessThanWellFounded, WFMin
  <2>3. m \in 1..n /\ \A y \in No : ~(y < m)
    BY <2>1, <2>2 DEF OpToRel
  <2>4. CASE m = 1
    <3>1. Eq([i \in 1..1 |-> ss[1]], 1)
      OBVIOUS
    <3> QED
      BY <2>2, <2>4, <3>1
  <2>5. CASE m # 1
    <3>1. m - 1 \in 1..n /\ m - 1 < m
      BY <2>3, <2>5
    <3>2. m - 1 \notin No
      BY <2>3, <3>1
    <3>3. PICK g : Eq(g, m - 1)
      BY <3>1, <3>2
    <3> DEFINE h == [i \in 1..m |-> IF i = m THEN g[m - 1] \o ss[m] ELSE g[i]]
    <3>4. ASSUME NEW i \in 1..m PROVE h[i] = Part(h, i)
      <4>1. CASE i = m
        <5>1. m - 1 \in 1..m /\ m - 1 # m
          BY <2>3, <2>5
        <5>2. h[m - 1] = g[m - 1]
          BY <5>1
        <5> QED
          BY <2>5, <4>1, <5>2
      <4>2. CASE i # m
        <5>1. i \in 1..(m - 1)
          BY <2>3, <4>2
        <5>2. g[i] = Part(g, i)
          BY <3>3, <5>1
        <5>3. i # 1 => i - 1 \in 1..m /\ i - 1 # m
          BY <2>3, <5>1
        <5>4. i # 1 => h[i - 1] = g[i - 1]
          BY <5>3
        <5>5. h[i] = g[i]
          BY <4>2
        <5> HIDE DEF h
        <5> QED
          BY <5>2, <5>4, <5>5
      <4> QED
        BY <4>1, <4>2
    <3>5. h = [i \in 1..m |-> h[i]]
      OBVIOUS
    <3>6. Eq(h, m)
      <4> HIDE DEF h, Part
      <4> QED
        BY <3>4, <3>5, Zenon
    <3> QED
      BY <2>2, <3>6
  <2> QED
    BY <2>4, <2>5
<1> DEFINE F == CHOOSE f : Eq(f, n)
<1>2. F = [i \in 1..n |-> Part(F, i)]
  <2>1. Eq(F, n)
    <3> HIDE DEF Eq
    <3> QED
      BY <1>1, Zenon
  <2> QED
    BY <2>1
<1>3. FlattenSeq(ss) = F[n]
  <2>1. Len(ss) # 0
    OBVIOUS
  <2>2. FlattenSeq(ss) = (CHOOSE f : f = [i \in 1..Len(ss) |-> Part(f, i)])[Len(ss)]
    BY <2>1, Zenon DEF FlattenSeq
  <2> QED
    BY <2>2
<1> HIDE DEF F
<1>4. F[1] = ss[1] /\ \A i \in 2..n : F[i] = F[i - 1] \o ss[i]
  <2>1. \A i \in 1..n : F[i] = Part(F, i)
    <3> HIDE DEF Part
    <3> QED
      BY <1>2
  <2>2. \A i \in 2..n : i \in 1..n /\ i # 1
    OBVIOUS
  <2>3. 1 \in 1..n
    OBVIOUS
  <2> QED
    BY <2>1, <2>2, <2>3
<1> DEFINE Good(m) == F[m] \in Seq(S) /\ \A k \in 1..m : Len(ss[k]) <= Len(F[m])
           Wrong == {m \in 1..n : ~Good(m)}
<1>5. Good(n)
  <2> SUFFICES ASSUME Wrong # {} PROVE FALSE
    OBVIOUS
  <2>1. Wrong \subseteq Nat
    OBVIOUS
  <2>2. PICK m \in Wrong : \A y \in Wrong : ~(<<y, m>> \in OpToRel(<, Nat))
    <3> HIDE DEF Wrong
    <3> QED
      BY <2>1, NatLessThanWellFounded, WFMin
  <2>3. m \in 1..n /\ ~Good(m) /\ \A y \in Wrong : ~(y < m)
    <3>1. \A y \in Wrong : ~(y < m)
      <4> HIDE DEF Wrong
      <4> QED
        BY <2>1, <2>2 DEF OpToRel
    <3> QED
      BY <2>2, <3>1
  <2>4. CASE m = 1
    <3>1. Len(ss[1]) \in Nat /\ \A k \in 1..1 : k = 1
      BY LenProperties
    <3>2. Good(1)
      BY <1>4, <3>1
    <3> QED
      BY <2>3, <2>4, <3>2
  <2>5. CASE m # 1
    <3>1. m - 1 \in 1..n /\ m - 1 < m /\ m \in 2..n
      BY <2>3, <2>5
    <3>2. Good(m - 1)
      BY <2>3, <3>1
    <3>3. F[m - 1] \in Seq(S) /\ ss[m] \in Seq(S) /\ F[m] = F[m - 1] \o ss[m]
      BY <1>4, <3>1, <3>2
    <3>4. /\ F[m] \in Seq(S) /\ Len(F[m]) = Len(F[m - 1]) + Len(ss[m])
          /\ Len(F[m - 1]) \in Nat /\ Len(ss[m]) \in Nat
      BY <3>3, ConcatProperties, LenProperties
    <3>5. \A k \in 1..m : Len(ss[k]) <= Len(F[m])
      <4> SUFFICES ASSUME NEW k \in 1..m PROVE Len(ss[k]) <= Len(F[m])
        OBVIOUS
      <4>1. Len(ss[k]) \in Nat
        BY <2>3, LenProperties
      <4>2. CASE k = m
        BY <3>4, <4>1, <4>2
      <4>3. CASE k # m
        <5>1. k \in 1..(m - 1)
          BY <2>3, <4>3
        <5>2. Len(ss[k]) <= Len(F[m - 1])
          BY <3>2, <5>1
        <5> QED
          BY <3>4, <4>1, <5>2
      <4> QED
        BY <4>2, <4>3
    <3> QED
      BY <2>3, <3>4, <3>5
  <2> QED
    BY <2>4, <2>5
<1> QED
  BY <1>3, <1>5

-----------------------------------------------------------------------------
(* Sinks: the file and bufio's buffer behind it.                           *)

FileOf(sk) == sk.file
BufOf(sk) == sk.buf

IsSink(sk) == AnySeq(FileOf(sk)) /\ AnySeq(BufOf(sk))

(* The i-th cell written, whether it has left the buffer or not.           *)
Cell(sk, i) == IF i <= Len(FileOf(sk)) THEN FileOf(sk)[i] ELSE BufOf(sk)[i - Len(FileOf(sk))]

(* More was written: nothing that was there is lost or changed.            *)
Extended(sk, new) ==
    /\ IsSink(new) /\ Len(FileOf(sk)) <= Len(FileOf(new)) /\ Off(sk) <= Off(new)
    /\ \A i \in 1..Off(sk) : Cell(new, i) = Cell(sk, i)

(* Where a sink ends.                                                      *)
LEMMA SinkFacts ==
    ASSUME NEW sk, IsSink(sk)
    PROVE  /\ Len(FileOf(sk)) \in Nat /\ Len(BufOf(sk)) \in Nat
           /\ Off(sk) = Len(FileOf(sk)) + Len(BufOf(sk)) /\ Off(sk) \in Nat
<1>1. Len(FileOf(sk)) \in Nat /\ Len(BufOf(sk)) \in Nat
  BY AnySeqFacts DEF IsSink
<1>2. Off(sk) = Len(FileOf(sk)) + Len(BufOf(sk))
  BY Zenon DEF Off, FileOf, BufOf
<1> QED
  BY <1>1, <1>2

(* A write extends the sink by its bytes, however bufio splits it          *)
(* (bufio.Writer.Write).                                                   *)
LEMMA PutExtends ==
    ASSUME NEW sk, IsSink(sk), NEW bytes, AnySeq(bytes)
    PROVE  /\ Extended(sk, Put(sk, bytes))
           /\ Off(Put(sk, bytes)) = Off(sk) + Len(bytes)
           /\ \A i \in 1..Len(bytes) : Cell(Put(sk, bytes), Off(sk) + i) = bytes[i]
<1> DEFINE all == BufOf(sk) \o bytes
           n == Len(all)
           out == IF n <= BufCap THEN 0
                  ELSE IF BufOf(sk) = <<>> \/ n > 2 * BufCap THEN n ELSE BufCap
           new == Put(sk, bytes)
           head == SubSeq(all, 1, out)
           tail == SubSeq(all, out + 1, n)
<1>1. /\ Len(FileOf(sk)) \in Nat /\ Len(BufOf(sk)) \in Nat /\ Len(bytes) \in Nat
  BY AnySeqFacts DEF IsSink
<1>2. /\ AnySeq(all) /\ n = Len(BufOf(sk)) + Len(bytes) /\ n \in Nat
      /\ \A i \in 1..Len(BufOf(sk)) : all[i] = BufOf(sk)[i]
      /\ \A i \in 1..Len(bytes) : all[Len(BufOf(sk)) + i] = bytes[i]
  BY <1>1, CatFacts DEF IsSink
<1>3. out \in Nat /\ out <= n
  BY <1>2, ConstantsAssumption
<1>4. FileOf(new) = FileOf(sk) \o head /\ BufOf(new) = tail
  BY DEF Put, FileOf, BufOf
<1> HIDE DEF all, out, new, n
<1>5. /\ AnySeq(head) /\ Len(head) = out /\ \A i \in 1..out : head[i] = all[i]
      /\ AnySeq(tail) /\ Len(tail) = n - out /\ \A i \in 1..(n - out) : tail[i] = all[out + i]
  <2>1. /\ AnySeq(head) /\ Len(head) = out - 1 + 1
        /\ \A i \in 1..(out - 1 + 1) : head[i] = all[1 + i - 1]
    BY <1>2, <1>3, PartFacts DEF n
  <2>2. /\ AnySeq(tail) /\ Len(tail) = n - (out + 1) + 1
        /\ \A i \in 1..(n - (out + 1) + 1) : tail[i] = all[out + 1 + i - 1]
    BY <1>2, <1>3, PartFacts DEF n
  <2> HIDE DEF head, tail
  <2>3. \A i \in 1..out : 1 + i - 1 = i
    BY <1>3
  <2>4. \A i \in 1..(n - out) : out + 1 + i - 1 = out + i
    BY <1>2, <1>3
  <2>5. out - 1 + 1 = out /\ n - (out + 1) + 1 = n - out
    BY <1>2, <1>3
  <2> QED
    BY <2>1, <2>2, <2>3, <2>4, <2>5
<1> HIDE DEF head, tail
<1>6. /\ AnySeq(FileOf(new)) /\ Len(FileOf(new)) = Len(FileOf(sk)) + out
      /\ \A i \in 1..Len(FileOf(sk)) : FileOf(new)[i] = FileOf(sk)[i]
      /\ \A i \in 1..out : FileOf(new)[Len(FileOf(sk)) + i] = all[i]
  <2>1. /\ AnySeq(FileOf(sk) \o head) /\ Len(FileOf(sk) \o head) = Len(FileOf(sk)) + Len(head)
        /\ \A i \in 1..Len(FileOf(sk)) : (FileOf(sk) \o head)[i] = FileOf(sk)[i]
        /\ \A i \in 1..Len(head) : (FileOf(sk) \o head)[Len(FileOf(sk)) + i] = head[i]
    BY <1>5, CatFacts DEF IsSink
  <2> QED
    BY <1>4, <1>5, <2>1
<1>7. /\ AnySeq(BufOf(new)) /\ Len(BufOf(new)) = n - out
      /\ \A i \in 1..(n - out) : BufOf(new)[i] = all[out + i]
  BY <1>4, <1>5
<1>8. Off(sk) = Len(FileOf(sk)) + Len(BufOf(sk)) /\ Off(new) = Len(FileOf(sk)) + n /\ Off(sk) \in Nat
  <2>1. IsSink(new)
    BY <1>6, <1>7 DEF IsSink
  <2>2. Off(new) = Len(FileOf(new)) + Len(BufOf(new))
    BY <2>1, SinkFacts
  <2> QED
    BY <1>1, <1>2, <1>3, <1>6, <1>7, <2>2, SinkFacts
<1>9. ASSUME NEW i \in 1..n PROVE Cell(new, Len(FileOf(sk)) + i) = all[i]
  <2>1. CASE i <= out
    <3>1. i \in 1..out /\ Len(FileOf(sk)) + i <= Len(FileOf(new))
      BY <1>1, <1>3, <1>6, <2>1
    <3> QED
      BY <1>6, <3>1 DEF Cell
  <2>2. CASE i > out
    <3>1. /\ ~(Len(FileOf(sk)) + i <= Len(FileOf(new))) /\ i - out \in 1..(n - out)
          /\ Len(FileOf(sk)) + i - Len(FileOf(new)) = i - out /\ out + (i - out) = i
      BY <1>1, <1>2, <1>3, <1>6, <2>2
    <3> QED
      BY <1>7, <3>1 DEF Cell
  <2> QED
    BY <1>3, <2>1, <2>2
<1>10. ASSUME NEW i \in 1..Off(sk) PROVE Cell(new, i) = Cell(sk, i)
  <2>1. CASE i <= Len(FileOf(sk))
    <3>1. i \in 1..Len(FileOf(sk)) /\ i <= Len(FileOf(new))
      BY <1>1, <1>3, <1>6, <1>8, <2>1
    <3> QED
      BY <1>6, <2>1, <3>1 DEF Cell
  <2>2. CASE i > Len(FileOf(sk))
    <3> DEFINE j == i - Len(FileOf(sk))
    <3>1. j \in 1..Len(BufOf(sk)) /\ j \in 1..n /\ i = Len(FileOf(sk)) + j /\ ~(i <= Len(FileOf(sk)))
      BY <1>1, <1>2, <1>8, <2>2
    <3>2. Cell(new, i) = all[j]
      BY <1>9, <3>1
    <3>3. Cell(sk, i) = BufOf(sk)[j]
      BY <3>1 DEF Cell
    <3> QED
      BY <1>2, <3>1, <3>2, <3>3
  <2> QED
    BY <1>1, <1>8, <2>1, <2>2
<1>11. ASSUME NEW i \in 1..Len(bytes) PROVE Cell(new, Off(sk) + i) = bytes[i]
  <2>1. Len(BufOf(sk)) + i \in 1..n /\ Off(sk) + i = Len(FileOf(sk)) + (Len(BufOf(sk)) + i)
    BY <1>1, <1>2, <1>8
  <2> QED
    BY <1>2, <1>9, <2>1
<1>12. Len(FileOf(sk)) <= Len(FileOf(new)) /\ Off(sk) <= Off(new) /\ Off(new) = Off(sk) + Len(bytes)
  BY <1>1, <1>2, <1>3, <1>6, <1>8
<1> QED
  BY <1>6, <1>7, <1>10, <1>11, <1>12 DEF Extended, IsSink, new

(* Extending twice.                                                        *)
LEMMA ExtendTwice ==
    ASSUME NEW a, NEW b, NEW c, IsSink(a), Extended(a, b), Extended(b, c)
    PROVE  Extended(a, c)
<1>1. /\ Len(FileOf(a)) \in Nat /\ Len(FileOf(b)) \in Nat /\ Len(FileOf(c)) \in Nat
      /\ Off(a) \in Nat /\ Off(b) \in Nat /\ Off(c) \in Nat
  BY SinkFacts DEF Extended
<1>2. \A i \in 1..Off(a) : i \in 1..Off(b)
  BY <1>1 DEF Extended
<1> QED
  BY <1>1, <1>2 DEF Extended

(* A block is written after some padding that only depends on where the    *)
(* sink ends (writeBlock, align8).                                         *)
LEMMA PutBlockExtends ==
    ASSUME NEW sk, IsSink(sk), NEW block, AnySeq(block)
    PROVE  LET pad == (-Off(sk)) % Align
           IN /\ Extended(sk, PutBlock(sk, block)) /\ pad \in Nat
              /\ Off(PutBlock(sk, block)) = Off(sk) + pad + Len(block)
              /\ \A i \in 1..pad : Cell(PutBlock(sk, block), Off(sk) + i) = PadCell
              /\ \A i \in 1..Len(block) :
                    Cell(PutBlock(sk, block), Off(sk) + pad + i) = block[i]
<1> DEFINE pad == (-Off(sk)) % Align
           padding == [i \in 1..pad |-> PadCell]
           mid == Put(sk, padding)
           new == Put(mid, block)
<1>1. Off(sk) \in Nat /\ Len(block) \in Nat
  BY AnySeqFacts, SinkFacts
<1>2. pad \in Nat
  BY <1>1, ConstantsAssumption
<1> HIDE DEF pad
<1>3. padding \in Seq({PadCell}) /\ Len(padding) = pad /\ \A i \in 1..pad : padding[i] = PadCell
  BY <1>2
<1> HIDE DEF padding
<1>4. AnySeq(padding)
  BY <1>3, SeqIsAnySeq
<1>5. /\ Extended(sk, mid) /\ Off(mid) = Off(sk) + pad
      /\ \A i \in 1..pad : Cell(mid, Off(sk) + i) = PadCell
  BY <1>3, <1>4, PutExtends
<1>6. IsSink(mid)
  BY <1>5 DEF Extended
<1> HIDE DEF mid
<1>7. /\ Extended(mid, new) /\ Off(new) = Off(mid) + Len(block)
      /\ \A i \in 1..Len(block) : Cell(new, Off(mid) + i) = block[i]
  BY <1>6, PutExtends
<1>8. Extended(sk, new)
  BY <1>5, <1>7, ExtendTwice
<1>9. \A i \in 1..pad : Off(sk) + i \in 1..Off(mid)
  BY <1>1, <1>2, <1>5
<1>10. \A i \in 1..pad : Cell(new, Off(sk) + i) = PadCell
  BY <1>5, <1>7, <1>9 DEF Extended
<1>11. PutBlock(sk, block) = new
  BY DEF PutBlock, new, mid, padding, pad
<1> HIDE DEF new
<1>12. /\ Extended(sk, new) /\ pad \in Nat
       /\ Off(new) = Off(sk) + pad + Len(block)
       /\ \A i \in 1..pad : Cell(new, Off(sk) + i) = PadCell
       /\ \A i \in 1..Len(block) : Cell(new, Off(sk) + pad + i) = block[i]
  BY <1>2, <1>5, <1>7, <1>8, <1>10
<1> QED
  BY <1>11, <1>12 DEF pad

(* The sink of this state and the next.                                    *)
LEMMA SinkNow ==
    /\ FileOf(Sink) = file /\ BufOf(Sink) = buf
    /\ FileOf(Sink)' = file' /\ BufOf(Sink)' = buf'
  BY DEF FileOf, BufOf, Sink

(* What the steps of a call leave behind: the writes succeed, or a prefix  *)
(* of them reached the file, or bufio had failed before and nothing        *)
(* happens.                                                                *)
LEMMA WriteOutcome ==
    ASSUME NEW sk, IsSink(Sink), Extended(Sink, sk), err \in BOOLEAN, Reach(sk) \/ Fails(sk)
    PROVE  /\ IsSink(Sink)' /\ Len(file) <= Len(file')
           /\ Off(Sink)' <= Off(sk)
           /\ \A i \in 1..Off(Sink)' : Cell(Sink, i)' = Cell(sk, i)
           /\ Reach(sk) => err' = err /\ Off(Sink)' = Off(sk)
           /\ Fails(sk) => err' = TRUE
           /\ err' \in BOOLEAN /\ (err => err' /\ file' = file /\ buf' = buf)
<1> DEFINE new == [file |-> file', buf |-> buf']
<1>0. FileOf(new) = file' /\ BufOf(new) = buf' /\ Sink' = new
  BY DEF FileOf, BufOf, Sink
<1> HIDE DEF new
<1>1. /\ AnySeq(file) /\ AnySeq(buf) /\ AnySeq(FileOf(sk)) /\ AnySeq(BufOf(sk))
      /\ Len(file) \in Nat /\ Len(FileOf(sk)) \in Nat
      /\ Len(file) <= Len(FileOf(sk)) /\ Off(Sink) <= Off(sk)
      /\ Off(sk) \in Nat /\ Len(FileOf(sk)) <= Off(sk)
  <2>1. AnySeq(file) /\ AnySeq(buf) /\ Len(file) \in Nat
    BY SinkNow, AnySeqFacts DEF IsSink
  <2>2. IsSink(sk) /\ Len(file) <= Len(FileOf(sk)) /\ Off(Sink) <= Off(sk)
    BY SinkNow DEF Extended
  <2>3. /\ Len(FileOf(sk)) \in Nat /\ Len(BufOf(sk)) \in Nat
        /\ Off(sk) = Len(FileOf(sk)) + Len(BufOf(sk)) /\ Off(sk) \in Nat
    BY <2>2, SinkFacts
  <2> QED
    BY <2>1, <2>2, <2>3 DEF IsSink
<1> SUFFICES /\ IsSink(new) /\ Len(file) <= Len(file')
             /\ Off(new) <= Off(sk)
             /\ \A i \in 1..Off(new) : Cell(new, i) = Cell(sk, i)
             /\ Reach(sk) => err' = err /\ Off(new) = Off(sk)
             /\ Fails(sk) => err' = TRUE
             /\ err' \in BOOLEAN /\ (err => err' /\ file' = file /\ buf' = buf)
  BY <1>0
<1>2. CASE Reach(sk)
  <2>1. file' = FileOf(sk) /\ buf' = BufOf(sk) /\ err' = err /\ (err => sk = Sink)
    BY <1>2 DEF Reach, FileOf, BufOf
  <2>2. IsSink(new)
    BY <1>0, <1>1, <2>1 DEF IsSink
  <2>3. Off(new) = Off(sk)
    <3>1. IsSink(sk)
      BY DEF Extended
    <3> QED
      BY <1>0, <2>1, <2>2, <3>1, SinkFacts
  <2>4. \A i \in 1..Off(new) : Cell(new, i) = Cell(sk, i)
    BY <1>0, <2>1 DEF Cell
  <2>5. err => file' = file /\ buf' = buf
    BY <2>1, SinkNow
  <2>6. Fails(sk) => err' = TRUE
    BY DEF Fails
  <2> QED
    BY <1>1, <2>1, <2>2, <2>3, <2>4, <2>5, <2>6
<1>3. CASE err /\ Fails(sk)
  <2>1. UNCHANGED <<file, buf, err>>
    BY <1>3 DEF Fails
  <2>2. new = Sink
    BY <2>1 DEF new, Sink
  <2>3. Reach(sk) => sk = Sink
    BY <1>3 DEF Reach
  <2> QED
    BY <1>1, <1>3, <2>1, <2>2, <2>3 DEF Extended
<1>4. CASE ~err /\ Fails(sk)
  <2>1. PICK n \in Len(file)..(Len(FileOf(sk)) - 1) : file' = SubSeq(FileOf(sk), 1, n)
    BY <1>4, Zenon DEF Fails, FileOf
  <2>2. buf' = <<>> /\ err' = TRUE
    BY <1>4 DEF Fails
  <2>3. n \in Nat /\ n <= Len(FileOf(sk)) /\ n <= Off(sk) /\ Len(file) <= n
    BY <1>1, <2>1
  <2>4. /\ AnySeq(file') /\ Len(file') = n - 1 + 1
        /\ \A i \in 1..(n - 1 + 1) : file'[i] = FileOf(sk)[1 + i - 1]
    BY <1>1, <2>1, <2>3, PartFacts
  <2>5. n - 1 + 1 = n /\ \A i \in 1..n : 1 + i - 1 = i
    BY <2>3
  <2>6. AnySeq(buf') /\ Len(buf') = 0
    BY <2>2, OneFacts
  <2>7. IsSink(new) /\ Off(new) = n
    <3>1. IsSink(new)
      BY <1>0, <2>4, <2>6 DEF IsSink
    <3> QED
      BY <1>0, <2>3, <2>4, <2>5, <2>6, <3>1, SinkFacts
  <2>8. \A i \in 1..n : Cell(new, i) = Cell(sk, i)
    <3> SUFFICES ASSUME NEW i \in 1..n PROVE Cell(new, i) = Cell(sk, i)
      OBVIOUS
    <3>1. i <= Len(file') /\ i <= Len(FileOf(sk)) /\ file'[i] = FileOf(sk)[i]
      BY <1>1, <2>3, <2>4, <2>5
    <3> QED
      BY <1>0, <3>1 DEF Cell
  <2>9. ~Reach(sk)
    BY <1>4, <2>2 DEF Reach
  <2> QED
    BY <1>4, <2>2, <2>3, <2>4, <2>5, <2>7, <2>8, <2>9
<1> QED
  BY <1>2, <1>3, <1>4

(* Flushing the buffer moves it to the file (bufio.Writer.Flush).          *)
LEMMA EmptiedExtends ==
    ASSUME NEW sk, IsSink(sk)
    PROVE  /\ Extended(sk, Emptied(sk)) /\ Off(Emptied(sk)) = Off(sk)
           /\ BufOf(Emptied(sk)) = <<>>
<1> DEFINE new == Emptied(sk)
<1>1. FileOf(new) = FileOf(sk) \o BufOf(sk) /\ BufOf(new) = <<>>
  BY DEF Emptied, FileOf, BufOf
<1> HIDE DEF new
<1>2. /\ Len(FileOf(sk)) \in Nat /\ Len(BufOf(sk)) \in Nat
      /\ Off(sk) = Len(FileOf(sk)) + Len(BufOf(sk)) /\ Off(sk) \in Nat
  BY SinkFacts
<1>3. /\ AnySeq(FileOf(new)) /\ Len(FileOf(new)) = Off(sk)
      /\ \A i \in 1..Len(FileOf(sk)) : FileOf(new)[i] = FileOf(sk)[i]
      /\ \A i \in 1..Len(BufOf(sk)) : FileOf(new)[Len(FileOf(sk)) + i] = BufOf(sk)[i]
  BY <1>1, <1>2, CatFacts DEF IsSink
<1>4. AnySeq(BufOf(new)) /\ Len(BufOf(new)) = 0
  BY <1>1, OneFacts
<1>5. IsSink(new) /\ Off(new) = Off(sk)
  BY <1>2, <1>3, <1>4, SinkFacts DEF IsSink
<1>6. ASSUME NEW i \in 1..Off(sk) PROVE Cell(new, i) = Cell(sk, i)
  <2>1. Cell(new, i) = FileOf(new)[i]
    BY <1>2, <1>3 DEF Cell
  <2>2. CASE i <= Len(FileOf(sk))
    <3>1. i \in 1..Len(FileOf(sk))
      BY <1>2, <2>2
    <3> QED
      BY <1>3, <2>1, <2>2, <3>1 DEF Cell
  <2>3. CASE ~(i <= Len(FileOf(sk)))
    <3>1. /\ i - Len(FileOf(sk)) \in 1..Len(BufOf(sk))
          /\ Len(FileOf(sk)) + (i - Len(FileOf(sk))) = i
      BY <1>2, <2>3
    <3> QED
      BY <1>3, <2>1, <2>3, <3>1 DEF Cell
  <2> QED
    BY <2>2, <2>3
<1> QED
  BY <1>1, <1>2, <1>3, <1>5, <1>6 DEF Extended, new

-----------------------------------------------------------------------------
(* The sequences begin and finalize work through.                          *)

(* The metadata starts with an identification block that says unfinalized  *)
(* (begin).                                                                *)
LEMMA MetadataFacts ==
    /\ AnySeq(Metadata) /\ Len(Metadata) >= 1 /\ Len(Metadata) \in Nat
    /\ Metadata[1] = IDCell(UnfinFlags)
<1> DEFINE S == UNION {Range(GroupMeta(g)) : g \in Groups}
           ss == [i \in Groups |-> GroupMeta(NG + 1 - i)]
           two == <<IDCell(UnfinFlags), HDCell>>
<1>1. ASSUME NEW g \in Groups PROVE AnySeq(GroupMeta(g))
  <2> DEFINE cns == [j \in ChansOf(g) |-> CNCell]
             dg == DGCell(IF g = NG THEN NIL ELSE DGAddr(g + 1), RecSize[g],
                          [j \in ChansOf(g) |-> CNAddr(g, j)])
  <2>1. cns \in Seq({CNCell})
    BY ConstantsAssumption DEF ChansOf
  <2>2. AnySeq(cns) /\ AnySeq(<<dg>>)
    BY <2>1, SeqIsAnySeq, OneFacts
  <2>3. GroupMeta(g) = cns \o <<dg>>
    BY DEF GroupMeta
  <2> HIDE DEF cns, dg
  <2> QED
    BY <2>2, <2>3, CatFacts
<1>2. ASSUME NEW g \in Groups PROVE GroupMeta(g) \in Seq(S)
  <2>1. \A i \in 1..Len(GroupMeta(g)) : GroupMeta(g)[i] \in Range(GroupMeta(g))
    BY <1>1, AnySeqFacts DEF Range
  <2>2. \A x \in Range(GroupMeta(g)) : x \in S
    OBVIOUS
  <2> HIDE DEF S
  <2> QED
    BY <1>1, <2>1, <2>2, AnySeqWiden
<1> HIDE DEF S
<1>3. \A i \in 1..NG : NG + 1 - i \in Groups
  BY ConstantsAssumption DEF Groups
<1>4. NG \in Nat \ {0} /\ ss \in Seq(Seq(S)) /\ Len(ss) = NG /\ \A i \in 1..NG : ss[i] \in Seq(S)
  BY <1>2, <1>3, ConstantsAssumption DEF Groups
<1>5. FlattenSeq(ss) \in Seq(S)
  <2> HIDE DEF ss
  <2>1. AnySeq(ss)
    BY <1>4, SeqIsAnySeq
  <2> QED
    BY <1>4, <2>1, FlattenFacts
<1>6. two \in Seq({IDCell(UnfinFlags), HDCell}) /\ Len(two) = 2 /\ two[1] = IDCell(UnfinFlags)
  OBVIOUS
<1>7. Metadata = two \o FlattenSeq(ss)
  BY DEF Metadata
<1> HIDE DEF two, ss
<1>8. AnySeq(two) /\ AnySeq(FlattenSeq(ss)) /\ Len(FlattenSeq(ss)) \in Nat
  BY <1>5, <1>6, SeqIsAnySeq, AnySeqFacts
<1>9. /\ AnySeq(two \o FlattenSeq(ss))
      /\ Len(two \o FlattenSeq(ss)) = Len(two) + Len(FlattenSeq(ss))
      /\ \A i \in 1..Len(two) : (two \o FlattenSeq(ss))[i] = two[i]
  BY <1>8, CatFacts
<1>10. 1 \in 1..Len(two) /\ Len(two) + Len(FlattenSeq(ss)) \in Nat /\ Len(two) + Len(FlattenSeq(ss)) >= 1
  BY <1>6, <1>8
<1> QED
  BY <1>6, <1>7, <1>9, <1>10

(* finalize links the streams of the groups, and there is one at least.    *)
LEMMA LinkOrderFacts ==
    /\ LinkOrder \in Seq(Streams) /\ Len(LinkOrder) \in Nat /\ Len(LinkOrder) >= 1
    /\ \A i \in 1..Len(LinkOrder) : LinkOrder[i] \in Streams
<1> DEFINE of(g) == [j \in 1..(NStr[g] + 1) |-> <<g, j - 1>>]
           ss == [g \in Groups |-> of(g)]
<1>1. ASSUME NEW g \in Groups PROVE of(g) \in Seq(Streams) /\ Len(of(g)) = NStr[g] + 1
  <2>1. NStr[g] \in Nat
    BY ConstantsAssumption
  <2>2. \A j \in 1..(NStr[g] + 1) : <<g, j - 1>> \in Streams
    <3> SUFFICES ASSUME NEW j \in 1..(NStr[g] + 1) PROVE <<g, j - 1>> \in Streams
      OBVIOUS
    <3>1. j - 1 \in 0..NStr[g]
      BY <2>1
    <3> QED
      BY <3>1 DEF Streams
  <2> QED
    BY <2>1, <2>2
<1> HIDE DEF of
<1>2. /\ NG \in Nat \ {0} /\ 1 \in Groups /\ NStr[1] \in Nat
      /\ ss \in Seq(Seq(Streams)) /\ Len(ss) = NG
      /\ \A g \in 1..NG : ss[g] = of(g) /\ ss[g] \in Seq(Streams)
  BY <1>1, ConstantsAssumption DEF Groups
<1>3. LinkOrder = FlattenSeq(ss)
  BY DEF LinkOrder, of
<1> HIDE DEF ss
<1>4. AnySeq(ss)
  BY <1>2, SeqIsAnySeq
<1>5. LinkOrder \in Seq(Streams) /\ \A k \in 1..NG : Len(ss[k]) <= Len(LinkOrder)
  BY <1>2, <1>3, <1>4, FlattenFacts
<1>6. Len(LinkOrder) \in Nat /\ \A i \in 1..Len(LinkOrder) : LinkOrder[i] \in Streams
  BY <1>5, LenProperties, ElementOfSeq
<1>7. Len(ss[1]) = NStr[1] + 1
  BY <1>1, <1>2
<1>8. 1 \in 1..NG
  BY <1>2
<1>9. NStr[1] + 1 <= Len(LinkOrder)
  BY <1>5, <1>7, <1>8
<1>10. Len(LinkOrder) >= 1
  BY <1>2, <1>6, <1>9
<1> QED
  BY <1>5, <1>6, <1>10
-----------------------------------------------------------------------------
(* The inductive invariant.                                                *)

SegsOf(st) == st.segs
IsStream(st) == /\ DOMAIN st = {"buf", "segs", "total"}
                /\ AnySeq(BufOf(st)) /\ AnySeq(SegsOf(st))

OffsOf(c) == c.offs

Busy == {"patch", "apply", "length", "value", "record"}
Finishing == {"link", "id", "sync", "done"}

(* Types of what the writer keeps.                                         *)
TypeInv ==
    /\ pc \in {"idle", "begin", "crashed"} \union Busy \union Finishing
    /\ err \in BOOLEAN /\ started \in BOOLEAN /\ closed \in BOOLEAN
    /\ IsSink(Sink) /\ AnySeq(disk)
    /\ DOMAIN cs = Streams /\ \A s \in Streams : IsStream(cs[s])
    /\ AnySeq(patches) /\ pi \in Nat
    /\ \A i \in 1..Len(patches) : patches[i].fld \in {"first", "data", "len", "cycles"}

(* The arguments of the running call and how far it has come.              *)
CallInv ==
    /\ DOMAIN call = {"op", "g", "strs", "offs"}
    /\ call.op \in {"none", "append", "close"} /\ call.g \in Groups
    /\ AnySeq(OffsOf(call))
    /\ call.op = "append" => call.strs \in StrArgs(call.g)
    /\ pc \in {"begin", "patch", "apply"} /\ call.op = "append" => Len(OffsOf(call)) = 0
    /\ pc = "length" => Len(OffsOf(call)) < NStr[call.g]
    /\ pc = "value" => Len(OffsOf(call)) \in 1..NStr[call.g]

(* Which steps follow which.                                               *)
StageInv ==
    /\ closed <=> call.op = "close"
    /\ pc \notin {"idle", "crashed"} => call.op # "none"
    /\ pc \in {"length", "value", "record"} => call.op = "append"
    /\ pc \in Finishing => closed
    /\ pc = "idle" => ~closed
    /\ pc = "begin" => ~started
    /\ pc \in Busy \union Finishing => started
    /\ pc = "apply" => pi >= 1
    /\ li \in Nat \ {0} /\ (~closed => li = 1)
    /\ pc = "link" => li <= Len(LinkOrder)
    /\ pc \in {"apply", "id", "sync"} => ~err
    /\ pc = "done" /\ res = "ok" => ~err

(* The first cell of what was written is the identification block, and it  *)
(* says unfinalized.                                                       *)
HeadCell(c) == DOMAIN c = {"t", "unfin"} /\ c.t = "ID" /\ c.unfin # {}
Headed == Off(Sink) >= 1 => HeadCell(Cell(Sink, 1))

HeadInv ==
    /\ ~started => Off(Sink) = 0 /\ ~err
    /\ started /\ ~err /\ pc # "crashed" => Off(Sink) >= 1
    /\ err \/ pc \notin {"sync", "done", "crashed"} => Headed
    /\ pc \notin {"done", "crashed"} /\ Len(disk) >= 1 => HeadCell(disk[1])

WInv == TypeInv /\ CallInv /\ StageInv /\ HeadInv

-----------------------------------------------------------------------------
(* The first cell through the writes of the calls.                         *)

(* Writing behind what is there leaves the first cell alone.               *)
LEMMA WriteKeeps ==
    ASSUME TypeInv, HeadInv, started, pc \notin {"sync", "done", "crashed"},
           NEW sk, Extended(Sink, sk), Reach(sk) \/ Fails(sk)
    PROVE  /\ IsSink(Sink)' /\ err' \in BOOLEAN /\ Headed'
           /\ (~err => Off(Sink) >= 1) /\ (~err' => Off(Sink)' >= 1)
           /\ (Reach(sk) => err' = err) /\ (Fails(sk) => err')
<1>1. IsSink(Sink) /\ err \in BOOLEAN
  BY DEF TypeInv
<1>2. /\ IsSink(Sink)' /\ Off(Sink)' <= Off(sk)
      /\ \A i \in 1..Off(Sink)' : Cell(Sink, i)' = Cell(sk, i)
      /\ Reach(sk) => err' = err /\ Off(Sink)' = Off(sk)
      /\ Fails(sk) => err' = TRUE
      /\ err' \in BOOLEAN /\ (err => err' /\ file' = file /\ buf' = buf)
  BY <1>1, WriteOutcome
<1>3. Off(Sink) \in Nat /\ Off(sk) \in Nat /\ Off(Sink)' \in Nat
  <2>1. IsSink(sk)
    BY DEF Extended
  <2>2. \A x : IsSink(x) => Off(x) \in Nat
    BY SinkFacts
  <2> QED
    BY <1>1, <1>2, <2>1, <2>2
<1>4. Headed /\ (~err => Off(Sink) >= 1)
  BY DEF HeadInv
<1>5. Headed'
  <2>1. CASE err
    <3>1. Sink' = Sink
      BY <1>2, <2>1 DEF Sink
    <3> QED
      BY <1>4, <3>1 DEF Headed
  <2>2. CASE ~err
    <3>1. Cell(sk, 1) = Cell(Sink, 1) /\ HeadCell(Cell(Sink, 1))
      BY <1>3, <1>4, <2>2 DEF Extended, Headed
    <3>2. ASSUME Off(Sink)' >= 1 PROVE HeadCell(Cell(Sink, 1)')
      BY <1>2, <1>3, <3>1, <3>2
    <3> QED
      BY <3>2 DEF Headed, HeadCell
  <2> QED
    BY <1>1, <2>1, <2>2
<1>6. ~err' => Off(Sink)' >= 1
  <2> SUFFICES ASSUME ~err' PROVE Off(Sink)' >= 1
    OBVIOUS
  <2>1. Reach(sk) /\ ~err /\ Off(Sink)' = Off(sk)
    BY <1>1, <1>2
  <2>2. Off(Sink) <= Off(sk)
    BY DEF Extended
  <2> QED
    BY <1>3, <1>4, <2>1, <2>2
<1> QED
  BY <1>2, <1>4, <1>5, <1>6

(* So does flushing the buffer, whatever becomes of it.                    *)
LEMMA FlushOutcome ==
    ASSUME TypeInv, BufFlush \/ BufFlushFails
    PROVE  /\ IsSink(Sink)' /\ err' \in BOOLEAN /\ Len(file) <= Len(file')
           /\ Off(Sink)' \in Nat /\ Off(Sink) \in Nat /\ Off(Sink)' <= Off(Sink)
           /\ \A i \in 1..Off(Sink)' : Cell(Sink, i)' = Cell(Sink, i)
           /\ BufFlush => ~err /\ ~err' /\ Off(Sink)' = Off(Sink) /\ buf' = <<>>
           /\ BufFlushFails => err'
<1>1. IsSink(Sink) /\ err \in BOOLEAN
  BY DEF TypeInv
<1>2. Extended(Sink, Emptied(Sink)) /\ Off(Emptied(Sink)) = Off(Sink)
  BY <1>1, EmptiedExtends
<1>3. \A x : IsSink(x) => Off(x) \in Nat
  BY SinkFacts
<1>4. \A i \in 1..Off(Sink) : Cell(Emptied(Sink), i) = Cell(Sink, i)
  BY <1>2 DEF Extended
<1>5. CASE BufFlush
  <2>1. ~err /\ Reach(Emptied(Sink)) /\ buf' = <<>>
    BY <1>5 DEF BufFlush, Reach, Emptied
  <2>2. /\ IsSink(Sink)' /\ err' = err /\ Off(Sink)' = Off(Emptied(Sink)) /\ Len(file) <= Len(file')
        /\ \A i \in 1..Off(Sink)' : Cell(Sink, i)' = Cell(Emptied(Sink), i)
    BY <1>1, <1>2, <2>1, WriteOutcome
  <2>3. ~BufFlushFails \/ err'
    BY <1>1, <1>2, <2>1, WriteOutcome DEF BufFlushFails
  <2>4. Off(Sink)' \in Nat /\ Off(Sink) \in Nat
    BY <1>1, <1>3, <2>2
  <2> QED
    BY <1>1, <1>2, <1>4, <2>1, <2>2, <2>3, <2>4
<1>6. CASE BufFlushFails /\ err
  <2>1. UNCHANGED <<file, buf, err>>
    BY <1>6 DEF BufFlushFails
  <2>2. Sink' = Sink
    BY <2>1 DEF Sink
  <2>3. ~BufFlush
    BY <1>6 DEF BufFlush
  <2>4. Len(file) \in Nat
    BY <1>1, SinkNow, SinkFacts
  <2> QED
    BY <1>1, <1>3, <1>6, <2>1, <2>2, <2>3, <2>4
<1>7. CASE BufFlushFails /\ ~err
  <2>1. Fails(Emptied(Sink))
    BY <1>7 DEF BufFlushFails
  <2>2. /\ IsSink(Sink)' /\ err' = TRUE /\ Off(Sink)' <= Off(Emptied(Sink)) /\ Len(file) <= Len(file')
        /\ \A i \in 1..Off(Sink)' : Cell(Sink, i)' = Cell(Emptied(Sink), i)
    BY <1>1, <1>2, <2>1, WriteOutcome
  <2>3. ~BufFlush
    BY <1>7, <2>2 DEF BufFlush, Reach
  <2>4. Off(Sink)' \in Nat /\ Off(Sink) \in Nat
    BY <1>1, <1>3, <2>2
  <2>5. \A i \in 1..Off(Sink)' : i \in 1..Off(Sink)
    BY <1>2, <2>2, <2>4
  <2> QED
    BY <1>2, <1>4, <2>2, <2>3, <2>4, <2>5
<1> QED
  BY <1>1, <1>5, <1>6, <1>7

(* A flush leaves the first cell alone.                                    *)
LEMMA FlushKeeps ==
    ASSUME TypeInv, Headed, BufFlush \/ BufFlushFails
    PROVE  Headed'
<1>1. /\ Off(Sink)' \in Nat /\ Off(Sink) \in Nat /\ Off(Sink)' <= Off(Sink)
      /\ \A i \in 1..Off(Sink)' : Cell(Sink, i)' = Cell(Sink, i)
  BY FlushOutcome
<1>2. ASSUME Off(Sink)' >= 1 PROVE HeadCell(Cell(Sink, 1)')
  BY <1>1, <1>2 DEF Headed
<1> QED
  BY <1>2 DEF Headed, HeadCell

(* A write in place changes a field of one cell and nothing else; none of  *)
(* the pending ones can change the identification block (applyPatches).    *)
LEMMA PatchKeeps ==
    ASSUME TypeInv, NEW p, file' = Patched(file, p), buf' = buf
    PROVE  /\ IsSink(Sink)' /\ Off(Sink)' = Off(Sink) /\ Len(file') = Len(file)
           /\ \A i \in 1..Len(file) : i # p.at => file'[i] = file[i]
           /\ p.fld # "unfin" /\ p.fld # "t" /\ Headed => Headed'
<1> DEFINE new == [x \in DOMAIN file[p.at] |-> IF x = p.fld THEN p.val ELSE file[p.at][x]]
<1>1. AnySeq(file) /\ AnySeq(buf) /\ Len(file) \in Nat /\ DOMAIN file = 1..Len(file)
  <2>1. AnySeq(file) /\ AnySeq(buf)
    BY SinkNow DEF TypeInv, IsSink
  <2> QED
    BY <2>1, AnySeqFacts
<1>2. file' = [file EXCEPT ![p.at] = new]
  BY DEF Patched
<1> HIDE DEF new
<1>3. /\ DOMAIN file' = 1..Len(file)
      /\ \A i \in 1..Len(file) : i # p.at => file'[i] = file[i]
      /\ p.at \in 1..Len(file) => file'[p.at] = new
  BY <1>1, <1>2
<1>4. AnySeq(file') /\ Len(file') = Len(file)
  <2>1. \A i \in 1..Len(file) : file'[i] \in Range(file')
    BY <1>3 DEF Range
  <2>2. file' = [i \in 1..Len(file) |-> file'[i]]
    BY <1>2, <1>3
  <2>3. file' \in Seq(Range(file'))
    BY <1>1, <2>1, <2>2
  <2>4. Len(file') = Len(file)
    BY <1>1, <1>3, <2>3, LenProperties
  <2> QED
    BY <2>3, <2>4 DEF AnySeq
<1>5. IsSink(Sink)'
  BY <1>1, <1>4, SinkNow DEF IsSink
<1>6. Off(Sink)' = Off(Sink)
  <2>1. Off(Sink) = Len(FileOf(Sink)) + Len(BufOf(Sink))
    BY SinkFacts DEF TypeInv
  <2>2. Off(Sink)' = Len(FileOf(Sink)') + Len(BufOf(Sink)')
    BY <1>5, SinkFacts
  <2> QED
    BY <1>4, <2>1, <2>2, SinkNow
<1>7. ASSUME p.fld # "unfin", p.fld # "t", Headed, Off(Sink) >= 1 PROVE HeadCell(Cell(Sink, 1)')
  <2>1. HeadCell(Cell(Sink, 1))
    BY <1>7 DEF Headed
  <2>2. CASE 1 <= Len(file) /\ p.at = 1
    <3>1. Cell(Sink, 1) = file[1] /\ Cell(Sink, 1)' = new
      BY <1>1, <1>3, <1>4, <2>2, SinkNow DEF Cell
    <3>2. HeadCell(new)
      BY <1>7, <2>1, <2>2, <3>1 DEF HeadCell, new
    <3> QED
      BY <3>1, <3>2
  <2>3. CASE 1 <= Len(file) /\ p.at # 1
    <3>1. Cell(Sink, 1) = file[1] /\ Cell(Sink, 1)' = file'[1]
      BY <1>1, <1>3, <1>4, <2>3, SinkNow DEF Cell
    <3> QED
      BY <1>1, <1>3, <2>1, <2>3, <3>1
  <2>4. CASE ~(1 <= Len(file))
    <3>1. Cell(Sink, 1) = buf[1 - Len(file)] /\ Cell(Sink, 1)' = buf'[1 - Len(file')]
      BY <1>1, <1>4, <2>4, SinkNow DEF Cell
    <3> QED
      BY <1>4, <2>1, <3>1
  <2> QED
    BY <2>2, <2>3, <2>4
<1> QED
  BY <1>3, <1>4, <1>5, <1>6, <1>7 DEF Headed, HeadCell

-----------------------------------------------------------------------------
(* The streams and their blocks.                                           *)

(* Every form flushChunk may give a block is a sequence of cells.          *)
LEMMA BlocksAreSeqs ==
    ASSUME NEW s, NEW bytes, AnySeq(bytes), NEW block \in ChunkBlocks(s, bytes)
    PROVE  AnySeq(block)
<1>1. CASE block = <<Header(BlockId(s), Len(bytes))>> \o bytes
  <2> DEFINE head == <<Header(BlockId(s), Len(bytes))>>
  <2>1. AnySeq(head)
    BY OneFacts
  <2> HIDE DEF head
  <2>2. AnySeq(head \o bytes)
    BY <2>1, CatFacts
  <2> QED
    BY <1>1, <2>2 DEF head
<1>2. CASE block = ZipBlock(s, bytes)
  <2>1. \E c : block = <<c>>
    BY <1>2 DEF ZipBlock
  <2> QED
    BY <2>1, OneFacts
<1> QED
  BY <1>1, <1>2 DEF ChunkBlocks

(* Buffering bytes in a stream.                                            *)
LEMMA BufferedFacts ==
    ASSUME NEW st, IsStream(st), NEW bytes, AnySeq(bytes)
    PROVE  /\ IsStream(Buffered(st, bytes)) /\ BufOf(Buffered(st, bytes)) = BufOf(st) \o bytes
           /\ SegsOf(Buffered(st, bytes)) = SegsOf(st)
<1> DEFINE new == Buffered(st, bytes)
<1>1. DOMAIN new = {"buf", "segs", "total"} /\ BufOf(new) = BufOf(st) \o bytes /\ SegsOf(new) = SegsOf(st)
  BY DEF Buffered, BufOf, SegsOf, IsStream
<1> HIDE DEF new
<1>2. AnySeq(BufOf(new))
  BY <1>1, CatFacts DEF IsStream
<1> QED
  BY <1>1, <1>2 DEF IsStream, new

(* Flushing a stream's buffer adds a segment to its list (flushChunk).     *)
LEMMA FlushedFacts ==
    ASSUME NEW st, IsStream(st), NEW addr
    PROVE  IsStream(Flushed(st, addr))
<1> DEFINE new == Flushed(st, addr)
           seg == [addr |-> addr, len |-> Len(st.buf)]
<1>1. DOMAIN new = {"buf", "segs", "total"} /\ BufOf(new) = <<>> /\ SegsOf(new) = Append(SegsOf(st), seg)
  BY DEF Flushed, BufOf, SegsOf, IsStream
<1> HIDE DEF new, seg
<1>2. SegsOf(st) \in Seq(Range(SegsOf(st)) \union {seg})
  <2>1. AnySeq(SegsOf(st))
    BY DEF IsStream
  <2>2. \A i \in 1..Len(SegsOf(st)) : SegsOf(st)[i] \in Range(SegsOf(st)) \union {seg}
    BY <2>1, AnySeqFacts DEF Range
  <2> QED
    BY <2>1, <2>2, AnySeqWiden
<1>3. Append(SegsOf(st), seg) \in Seq(Range(SegsOf(st)) \union {seg})
  BY <1>2, AppendProperties
<1>4. AnySeq(SegsOf(new)) /\ AnySeq(BufOf(new))
  BY <1>1, <1>3, SeqIsAnySeq, OneFacts
<1> QED
  BY <1>1, <1>4 DEF IsStream, new

(* One call of appendStream writes behind what is there, succeeds or       *)
(* fails with the write, and keeps every stream a stream.                  *)
LEMMA AppendStreamFacts ==
    ASSUME TypeInv, NEW s \in Streams, NEW bytes, AnySeq(bytes), NEW next,
           AppendStream(s, bytes, next)
    PROVE  /\ \E sk : /\ Extended(Sink, sk)
                      /\ (Reach(sk) /\ Succeed(next)) \/ (Fails(sk) /\ Return)
           /\ DOMAIN cs' = Streams /\ \A r \in Streams : IsStream(cs'[r])
<1> DEFINE stream == Buffered(cs[s], bytes)
<1>1. DOMAIN cs = Streams /\ \A r \in Streams : IsStream(cs[r])
  BY DEF TypeInv
<1>2. IsStream(stream)
  BY <1>1, BufferedFacts
<1>3. IsSink(Sink)
  BY DEF TypeInv
<1>4. \/ cs' = [cs EXCEPT ![s] = stream] /\ Reach(Sink) /\ Succeed(next)
      \/ \E block \in ChunkBlocks(s, BufOf(stream)) :
            \/ /\ Reach(PutBlock(Sink, block)) /\ Succeed(next)
               /\ \E a : cs' = [cs EXCEPT ![s] = Flushed(stream, a)]
            \/ /\ Fails(PutBlock(Sink, block)) /\ Return
               /\ cs' = [cs EXCEPT ![s] = stream]
  BY Zenon DEF AppendStream, BufOf
<1> HIDE DEF stream
<1>5. CASE cs' = [cs EXCEPT ![s] = stream] /\ Reach(Sink) /\ Succeed(next)
  <2>1. Extended(Sink, Sink)
    BY <1>3, SinkFacts DEF Extended
  <2>2. DOMAIN cs' = Streams /\ \A r \in Streams : IsStream(cs'[r])
    BY <1>1, <1>2, <1>5
  <2> QED
    BY <1>5, <2>1, <2>2
<1>6. ASSUME NEW block \in ChunkBlocks(s, BufOf(stream)),
             \/ /\ Reach(PutBlock(Sink, block)) /\ Succeed(next)
                /\ \E a : cs' = [cs EXCEPT ![s] = Flushed(stream, a)]
             \/ /\ Fails(PutBlock(Sink, block)) /\ Return
                /\ cs' = [cs EXCEPT ![s] = stream]
      PROVE  /\ \E sk : /\ Extended(Sink, sk)
                        /\ (Reach(sk) /\ Succeed(next)) \/ (Fails(sk) /\ Return)
             /\ DOMAIN cs' = Streams /\ \A r \in Streams : IsStream(cs'[r])
  <2>1. AnySeq(block)
    BY <1>2, BlocksAreSeqs DEF IsStream
  <2>2. Extended(Sink, PutBlock(Sink, block))
    BY <1>3, <2>1, PutBlockExtends
  <2>3. \E st : IsStream(st) /\ cs' = [cs EXCEPT ![s] = st]
    BY <1>2, <1>6, FlushedFacts
  <2>4. DOMAIN cs' = Streams /\ \A r \in Streams : IsStream(cs'[r])
    BY <1>1, <2>3
  <2> QED
    BY <1>6, <2>2, <2>4
<1> QED
  BY <1>4, <1>5, <1>6

(* linkStream writes behind what is there and keeps the segments a list.   *)
LEMMA LinkedFacts ==
    ASSUME TypeInv, NEW s \in Streams, NEW fl \in FlushAll(s)
    PROVE  Extended(Sink, Linked(fl).sk) /\ AnySeq(SegsOf(fl))
<1>1. IsSink(Sink) /\ IsStream(cs[s])
  BY DEF TypeInv
<1>2. Extended(Sink, fl.sk) /\ AnySeq(SegsOf(fl))
  <2>1. CASE fl = [sk |-> Sink, segs |-> cs[s].segs]
    <3>1. Extended(Sink, Sink)
      BY <1>1, SinkFacts DEF Extended
    <3> QED
      BY <1>1, <2>1, <3>1 DEF IsStream, SegsOf
  <2>2. ASSUME NEW b \in ChunkBlocks(s, cs[s].buf),
               fl = [sk |-> PutBlock(Sink, b), segs |-> Flushed(cs[s], BlockAddr(Sink, b)).segs]
        PROVE  Extended(Sink, fl.sk) /\ AnySeq(SegsOf(fl))
    <3>1. AnySeq(b)
      BY <1>1, BlocksAreSeqs DEF IsStream, BufOf
    <3>2. Extended(Sink, PutBlock(Sink, b))
      BY <1>1, <3>1, PutBlockExtends
    <3>3. IsStream(Flushed(cs[s], BlockAddr(Sink, b)))
      BY <1>1, FlushedFacts
    <3>4. fl.sk = PutBlock(Sink, b) /\ SegsOf(fl) = SegsOf(Flushed(cs[s], BlockAddr(Sink, b)))
      BY <2>2 DEF SegsOf
    <3> QED
      BY <3>2, <3>3, <3>4 DEF IsStream
  <2> QED
    BY <2>1, <2>2 DEF FlushAll
<1>3. Len(SegsOf(fl)) \in Nat
  BY <1>2, AnySeqFacts
<1>4. Linked(fl).sk = fl.sk \/ Linked(fl).sk = PutBlock(fl.sk, LinkBlock(fl.segs))
  <2>0. \A n \in Nat : n = 0 \/ n = 1 \/ n > 1
    OBVIOUS
  <2>1. Len(SegsOf(fl)) = 0 \/ Len(SegsOf(fl)) = 1 \/ Len(SegsOf(fl)) > 1
    BY <1>3, <2>0, Zenon
  <2>2. ~(0 = 1) /\ ~(0 > 1) /\ ~(1 > 1) /\ \A n : n > 1 => n # 0 /\ n # 1
    OBVIOUS
  <2>3. CASE Len(SegsOf(fl)) = 0
    BY <2>2, <2>3, Zenon DEF Linked, SegsOf
  <2>4. CASE Len(SegsOf(fl)) = 1
    BY <2>2, <2>4, Zenon DEF Linked, SegsOf
  <2>5. CASE Len(SegsOf(fl)) > 1
    BY <2>2, <2>5, Zenon DEF Linked, SegsOf
  <2> QED
    BY <2>1, <2>3, <2>4, <2>5
<1>5. IsSink(fl.sk)
  BY <1>2 DEF Extended
<1>6. AnySeq(LinkBlock(fl.segs))
  <2>1. \E c : LinkBlock(fl.segs) = <<c>>
    BY DEF LinkBlock
  <2> QED
    BY <2>1, OneFacts
<1>7. Extended(fl.sk, PutBlock(fl.sk, LinkBlock(fl.segs)))
  BY <1>5, <1>6, PutBlockExtends
<1>8. Extended(Sink, PutBlock(fl.sk, LinkBlock(fl.segs)))
  BY <1>1, <1>2, <1>7, ExtendTwice
<1> QED
  BY <1>2, <1>4, <1>8

-----------------------------------------------------------------------------
(* Every step keeps the invariant.                                         *)

(* The writer starts with nothing written.                                 *)
LEMMA WInvInit == Init => WInv
<1> SUFFICES ASSUME Init PROVE WInv
  OBVIOUS
<1>1. AnySeq(<<>>) /\ Len(<<>>) = 0
  BY OneFacts
<1>2. IsSink(Sink) /\ Off(Sink) = 0
  <2>1. IsSink(Sink)
    BY <1>1, SinkNow DEF Init, IsSink
  <2> QED
    BY <1>1, <2>1, SinkNow, SinkFacts DEF Init
<1>3. DOMAIN cs = Streams /\ \A s \in Streams : IsStream(cs[s])
  <2>1. DOMAIN cs = Streams /\ \A s \in Streams : cs[s] = [buf |-> <<>>, segs |-> <<>>, total |-> 0]
    BY DEF Init
  <2> QED
    BY <1>1, <2>1 DEF IsStream, BufOf, SegsOf
<1>4. TypeInv
  <2>1. AnySeq(disk) /\ AnySeq(patches) /\ Len(patches) = 0
    BY <1>1 DEF Init
  <2>2. /\ pc = "idle" /\ err = FALSE /\ started = FALSE /\ closed = FALSE /\ pi = 0
    BY DEF Init
  <2>3. \A i \in 1..Len(patches) : FALSE
    BY <2>1
  <2> QED
    BY <1>2, <1>3, <2>1, <2>2, <2>3 DEF TypeInv, Busy, Finishing
<1>5. CallInv
  <2>1. OffsOf(call) = <<>> /\ 1 \in Groups
    BY ConstantsAssumption DEF Init, OffsOf, Groups
  <2> QED
    BY <1>1, <2>1 DEF Init, CallInv
<1>6. StageInv
  BY DEF Init, StageInv, Busy, Finishing
<1>7. HeadInv
  <2>1. Len(disk) = 0
    BY <1>1 DEF Init
  <2> QED
    BY <1>2, <2>1 DEF Init, HeadInv, Headed
<1> QED
  BY <1>4, <1>5, <1>6, <1>7 DEF WInv

(* A call that fails returns to the caller.                                *)
LEMMA ReturnFacts ==
    ASSUME Return, closed \in BOOLEAN
    PROVE  res' = "error" /\ (closed => pc' = "done") /\ (~closed => pc' = "idle")
  BY DEF Return

(* Append is called.                                                       *)
LEMMA AppendCallInv ==
    ASSUME WInv, NEW g \in Groups, NEW strs \in StrArgs(g), AppendCall(g, strs)
    PROVE  WInv'
<1>1. /\ pc = "idle" /\ ~closed /\ UNCHANGED <<res, file, disk, buf, err, wvars>>
      /\ call' = [op |-> "append", g |-> g, strs |-> strs, offs |-> <<>>]
      /\ pc' = IF started THEN FirstStep(g) ELSE "begin"
  BY DEF AppendCall
<1>2. Sink' = Sink
  BY <1>1 DEF Sink
<1>3. started \in BOOLEAN /\ NStr[g] \in Nat
  BY ConstantsAssumption DEF WInv, TypeInv
<1>4. TypeInv'
  BY <1>1, <1>2, <1>3 DEF WInv, TypeInv, wvars, FirstStep, Busy, Finishing
<1>5. CallInv'
  <2>1. AnySeq(<<>>) /\ Len(<<>>) = 0 /\ OffsOf(call') = <<>>
    BY <1>1, OneFacts DEF OffsOf
  <2> QED
    BY <1>1, <1>3, <2>1 DEF WInv, CallInv, FirstStep
<1>6. StageInv'
  BY <1>1, <1>3 DEF WInv, StageInv, wvars, FirstStep, Busy, Finishing
<1>7. HeadInv'
  BY <1>1, <1>2, <1>3 DEF WInv, HeadInv, Headed, wvars, FirstStep
<1> QED
  BY <1>4, <1>5, <1>6, <1>7 DEF WInv

(* Close is called.                                                        *)
LEMMA CloseInv ==
    ASSUME WInv, Close
    PROVE  WInv'
<1>1. /\ pc = "idle" /\ ~closed /\ closed' = TRUE
      /\ UNCHANGED <<res, file, disk, buf, err, started, patches, pi, cs, li>>
      /\ call' = [op |-> "close", g |-> 1, strs |-> <<>>, offs |-> <<>>]
      /\ pc' = IF started THEN "link" ELSE "begin"
  BY DEF Close
<1>2. Sink' = Sink
  BY <1>1 DEF Sink
<1>3. started \in BOOLEAN /\ 1 \in Groups /\ li = 1 /\ 1 <= Len(LinkOrder)
  BY <1>1, ConstantsAssumption, LinkOrderFacts DEF WInv, TypeInv, StageInv, Groups
<1>4. TypeInv'
  BY <1>1, <1>2, <1>3 DEF WInv, TypeInv, Busy, Finishing
<1>5. CallInv'
  <2>1. AnySeq(<<>>) /\ Len(<<>>) = 0 /\ OffsOf(call') = <<>>
    BY <1>1, OneFacts DEF OffsOf
  <2> QED
    BY <1>1, <1>3, <2>1 DEF WInv, CallInv
<1>6. StageInv'
  BY <1>1, <1>3 DEF WInv, StageInv, Busy, Finishing
<1>7. HeadInv'
  BY <1>1, <1>2, <1>3 DEF WInv, HeadInv, Headed
<1> QED
  BY <1>4, <1>5, <1>6, <1>7 DEF WInv

(* begin writes the metadata, the identification block first.              *)
LEMMA BeginInv ==
    ASSUME WInv, Begin
    PROVE  WInv'
<1> DEFINE meta == Put(Sink, Metadata)
           sk == IF Growing THEN PutBlock(meta, GrowHeader) ELSE meta
<1>1. /\ pc = "begin" /\ started' = TRUE
      /\ \/ /\ Reach(sk) /\ Succeed("patch")
            /\ patches' = patches \o BeginPatches(growAddr')
         \/ Fails(sk) /\ Return /\ UNCHANGED patches
      /\ UNCHANGED <<call, disk, closed, pi, cs, li>>
  BY Zenon DEF Begin
<1>2. IsSink(Sink) /\ err \in BOOLEAN /\ Off(Sink) = 0 /\ ~err /\ AnySeq(patches)
  BY <1>1 DEF WInv, TypeInv, StageInv, HeadInv
<1>3. /\ Extended(Sink, meta) /\ Off(meta) = Off(Sink) + Len(Metadata)
      /\ \A i \in 1..Len(Metadata) : Cell(meta, Off(Sink) + i) = Metadata[i]
  BY <1>2, MetadataFacts, PutExtends
<1>4. Off(meta) >= 1 /\ HeadCell(Cell(meta, 1))
  <2>1. Off(Sink) + 1 = 1 /\ 1 \in 1..Len(Metadata) /\ Off(Sink) + Len(Metadata) >= 1
    BY <1>2, MetadataFacts
  <2>2. Cell(meta, 1) = IDCell(UnfinFlags)
    BY <1>3, <2>1, MetadataFacts
  <2>3. UnfinFlags # {}
    BY DEF UnfinFlags
  <2> HIDE DEF meta
  <2>4. HeadCell(IDCell(UnfinFlags))
    BY <2>3 DEF HeadCell, IDCell
  <2> QED
    BY <1>3, <2>1, <2>2, <2>4
<1>5. IsSink(meta) /\ Extended(meta, sk)
  <2>1. IsSink(meta)
    BY <1>3 DEF Extended
  <2>2. AnySeq(GrowHeader)
    BY OneFacts DEF GrowHeader
  <2>3. Extended(meta, meta)
    BY <2>1, SinkFacts DEF Extended
  <2>4. Extended(meta, PutBlock(meta, GrowHeader))
    BY <2>1, <2>2, PutBlockExtends
  <2> QED
    BY <2>1, <2>3, <2>4
<1> HIDE DEF meta, sk
<1>6. Extended(Sink, sk) /\ IsSink(sk)
  <2>1. Extended(Sink, sk)
    BY <1>2, <1>3, <1>5, ExtendTwice
  <2> QED
    BY <2>1 DEF Extended
<1>7. Off(meta) \in Nat /\ Off(sk) \in Nat /\ Off(sk) >= 1 /\ Cell(sk, 1) = Cell(meta, 1)
  <2>1. Off(meta) \in Nat /\ Off(sk) \in Nat
    BY <1>5, <1>6, SinkFacts
  <2> QED
    BY <1>4, <1>5, <2>1 DEF Extended
<1>8. Reach(sk) \/ Fails(sk)
  BY <1>1
<1>9. /\ IsSink(Sink)' /\ Off(Sink)' <= Off(sk)
      /\ \A i \in 1..Off(Sink)' : Cell(Sink, i)' = Cell(sk, i)
      /\ Reach(sk) => err' = err /\ Off(Sink)' = Off(sk)
      /\ Fails(sk) => err' = TRUE
      /\ err' \in BOOLEAN
  BY <1>2, <1>6, <1>8, WriteOutcome
<1>10. Off(Sink)' \in Nat
  BY <1>9, SinkFacts
<1>11. Headed'
  <2>1. ASSUME Off(Sink)' >= 1 PROVE HeadCell(Cell(Sink, 1)')
    BY <1>4, <1>7, <1>9, <1>10, <2>1
  <2> QED
    BY <2>1 DEF Headed, HeadCell
<1>12. AnySeq(patches') /\ \A i \in 1..Len(patches') : patches'[i].fld \in {"first", "data", "len", "cycles"}
  <2> DEFINE bp == BeginPatches(growAddr')
             flds == {"first", "data", "len", "cycles"}
  <2>0. \A i \in 1..Len(patches) : patches[i].fld \in flds
    BY DEF WInv, TypeInv
  <2>1. AnySeq(bp) /\ Len(bp) \in Nat /\ \A i \in 1..Len(bp) : bp[i].fld \in flds
    <3>2. PICK p, q : p.fld = "first" /\ q.fld = "data" /\ (bp = <<p, q>> \/ bp = <<p>>)
      <4>1. Patch(2, "first", DGAddr(1)).fld = "first" /\ Patch(DGAddr(1), "data", growAddr').fld = "data"
        BY DEF Patch
      <4> QED
        BY <4>1, PairFacts, Zenon DEF BeginPatches
    <3>3. bp \in Seq({p, q}) /\ Len(bp) \in {1, 2}
      BY <3>2, PairFacts, Zenon
    <3> HIDE DEF bp
    <3>4. AnySeq(bp) /\ \A i \in 1..Len(bp) : bp[i] \in {p, q}
      BY <3>3, SeqIsAnySeq
    <3> QED
      BY <3>2, <3>3, <3>4
  <2> HIDE DEF bp, flds
  <2>2. CASE patches' = patches
    BY <1>2, <2>0, <2>2 DEF flds
  <2>3. CASE patches' = patches \o bp
    <3>1. /\ AnySeq(patches') /\ Len(patches') = Len(patches) + Len(bp)
          /\ \A i \in 1..Len(patches) : patches'[i] = patches[i]
          /\ \A i \in 1..Len(bp) : patches'[Len(patches) + i] = bp[i]
      BY <1>2, <2>1, <2>3, CatFacts
    <3>2. Len(patches) \in Nat
      BY <1>2, AnySeqFacts
    <3>3. ASSUME NEW i \in 1..Len(patches') PROVE patches'[i].fld \in flds
      <4>1. CASE i <= Len(patches)
        BY <2>0, <3>1, <3>2, <4>1
      <4>2. CASE ~(i <= Len(patches))
        <5>1. i - Len(patches) \in 1..Len(bp) /\ Len(patches) + (i - Len(patches)) = i
          BY <2>1, <3>1, <3>2, <4>2
        <5> QED
          BY <2>1, <3>1, <5>1
      <4> QED
        BY <4>1, <4>2
    <3> QED
      BY <3>1, <3>3 DEF flds
  <2> QED
    BY <1>1, <2>2, <2>3 DEF bp
<1>13. /\ pc' \in {"patch", "idle", "done"} /\ (pc' = "patch" => Reach(sk))
       /\ (pc' = "done" => closed /\ res' = "error") /\ (pc' = "idle" => ~closed)
  BY <1>1 DEF Succeed, Return
<1>14. TypeInv'
  BY <1>1, <1>9, <1>12, <1>13 DEF WInv, TypeInv, Busy, Finishing
<1>15. CallInv'
  BY <1>1, <1>13 DEF WInv, CallInv
<1>16. StageInv'
  BY <1>1, <1>13 DEF WInv, StageInv, Busy, Finishing
<1>17. HeadInv'
  BY <1>1, <1>2, <1>7, <1>8, <1>9, <1>11, <1>13 DEF WInv, HeadInv
<1> QED
  BY <1>14, <1>15, <1>16, <1>17 DEF WInv

(* applyPatches flushes the buffer.                                        *)
LEMMA FlushForPatchesInv ==
    ASSUME WInv, FlushForPatches
    PROVE  WInv'
<1>1. /\ pc = "patch"
      /\ \/ BufFlush /\ Succeed("apply") /\ pi' = 1
         \/ BufFlushFails /\ Return /\ UNCHANGED pi
      /\ UNCHANGED <<call, disk, started, closed, patches, cs, li>>
  BY DEF FlushForPatches
<1>2. TypeInv /\ Headed /\ started /\ closed \in BOOLEAN
  BY <1>1 DEF WInv, TypeInv, StageInv, HeadInv, Busy
<1>3. /\ IsSink(Sink)' /\ err' \in BOOLEAN /\ Headed' /\ Off(Sink)' <= Off(Sink)
      /\ BufFlush => ~err /\ ~err' /\ Off(Sink)' = Off(Sink)
      /\ BufFlushFails => err'
  BY <1>1, <1>2, FlushOutcome, FlushKeeps
<1>4. \/ pc' = "apply" /\ pi' = 1 /\ ~err /\ ~err' /\ Off(Sink)' = Off(Sink)
      \/ pc' = "idle" /\ ~closed /\ pi' = pi /\ err'
      \/ pc' = "done" /\ closed /\ res' = "error" /\ pi' = pi /\ err'
  BY <1>1, <1>2, <1>3 DEF Succeed, Return
<1>5. TypeInv'
  BY <1>1, <1>2, <1>3, <1>4 DEF TypeInv, Busy, Finishing
<1>6. CallInv'
  BY <1>1, <1>4 DEF WInv, CallInv
<1>7. StageInv'
  BY <1>1, <1>4 DEF WInv, StageInv, Busy, Finishing
<1>8. HeadInv'
  BY <1>1, <1>2, <1>3, <1>4 DEF WInv, HeadInv
<1> QED
  BY <1>5, <1>6, <1>7, <1>8 DEF WInv

(* applyPatches writes one patch in place.                                 *)
LEMMA ApplyPatchInv ==
    ASSUME WInv, ApplyPatch
    PROVE  WInv'
<1>1. /\ pc = "apply" /\ pi <= Len(patches)
      /\ \/ file' = Patched(file, patches[pi]) /\ pi' = pi + 1 /\ UNCHANGED <<pc, res>>
         \/ Return /\ pi' = 0 /\ UNCHANGED file
      /\ UNCHANGED <<call, disk, buf, err, started, closed, patches, cs, li>>
  BY DEF ApplyPatch
<1>2. TypeInv /\ Headed /\ started /\ ~err /\ closed \in BOOLEAN /\ pi \in Nat /\ pi >= 1
  BY <1>1 DEF WInv, TypeInv, StageInv, HeadInv, Busy
<1>3. Len(patches) \in Nat /\ patches[pi].fld \in {"first", "data", "len", "cycles"}
  <2>1. Len(patches) \in Nat
    BY <1>2, AnySeqFacts DEF TypeInv
  <2> QED
    BY <1>1, <1>2, <2>1 DEF TypeInv
<1>4. IsSink(Sink)' /\ Headed' /\ Off(Sink)' = Off(Sink)
  <2>1. CASE file' = Patched(file, patches[pi])
    <3> DEFINE p == patches[pi]
    <3>1. p.fld # "unfin" /\ p.fld # "t" /\ file' = Patched(file, p)
      BY <1>3, <2>1
    <3> HIDE DEF p
    <3> QED
      BY <1>1, <1>2, <3>1, PatchKeeps
  <2>2. CASE file' = file
    <3>1. Sink' = Sink
      BY <1>1, <2>2 DEF Sink
    <3> QED
      BY <1>2, <3>1 DEF Headed, TypeInv
  <2> QED
    BY <1>1, <2>1, <2>2
<1>5. \/ pc' = "apply" /\ pi' \in Nat /\ pi' >= 1
      \/ pc' = "idle" /\ ~closed /\ pi' = 0
      \/ pc' = "done" /\ closed /\ res' = "error" /\ pi' = 0
  BY <1>1, <1>2 DEF Return
<1>6. TypeInv'
  BY <1>1, <1>2, <1>4, <1>5 DEF TypeInv, Busy, Finishing
<1>7. CallInv'
  BY <1>1, <1>5 DEF WInv, CallInv
<1>8. StageInv'
  BY <1>1, <1>5 DEF WInv, StageInv, Busy, Finishing
<1>9. HeadInv'
  BY <1>1, <1>2, <1>4, <1>5 DEF WInv, HeadInv
<1> QED
  BY <1>6, <1>7, <1>8, <1>9 DEF WInv

(* applyPatches is done; begin or finalize goes on.                        *)
LEMMA PatchesAppliedInv ==
    ASSUME WInv, PatchesApplied
    PROVE  WInv'
<1>1. /\ pc = "apply" /\ patches' = <<>> /\ pi' = 0
      /\ Succeed(IF call.op = "append" THEN FirstStep(call.g)
                 ELSE IF li <= Len(LinkOrder) THEN "link" ELSE "id")
      /\ UNCHANGED <<call, file, disk, buf, err, started, closed, cs, li>>
  BY DEF PatchesApplied
<1>2. Sink' = Sink
  BY <1>1 DEF Sink
<1>3. /\ started /\ ~err /\ call.g \in Groups /\ NStr[call.g] \in Nat
      /\ call.op \in {"none", "append", "close"}
      /\ (call.op = "append" => Len(OffsOf(call)) = 0)
  BY <1>1, ConstantsAssumption DEF WInv, StageInv, CallInv, Busy
<1>4. \/ call.op = "append" /\ pc' = "length" /\ NStr[call.g] # 0
      \/ call.op = "append" /\ pc' = "record"
      \/ call.op # "append" /\ pc' = "link" /\ li <= Len(LinkOrder)
      \/ call.op # "append" /\ pc' = "id"
  BY <1>1 DEF Succeed, FirstStep
<1>5. AnySeq(<<>>) /\ \A i \in 1..Len(<<>>) : FALSE
  <2>1. AnySeq(<<>>) /\ Len(<<>>) = 0
    BY OneFacts
  <2> QED
    BY <2>1
<1>6. TypeInv'
  BY <1>1, <1>2, <1>4, <1>5 DEF WInv, TypeInv, Busy, Finishing
<1>7. CallInv'
  BY <1>1, <1>3, <1>4 DEF WInv, CallInv
<1>8. StageInv'
  BY <1>1, <1>3, <1>4 DEF WInv, StageInv, Busy, Finishing
<1>9. HeadInv'
  BY <1>1, <1>2, <1>3, <1>4 DEF WInv, HeadInv, Headed
<1> QED
  BY <1>6, <1>7, <1>8, <1>9 DEF WInv

(* One step of Append that stores bytes in a stream keeps what does not    *)
(* depend on how far the call has come.                                    *)
LEMMA StreamStepInv ==
    ASSUME WInv, pc \in {"length", "value", "record", "link"}, NEW next,
           \E sk : /\ Extended(Sink, sk)
                   /\ (Reach(sk) /\ Succeed(next)) \/ (Fails(sk) /\ Return),
           next \in {"idle", "value", "length", "record", "patch", "link"},
           DOMAIN cs' = Streams, \A r \in Streams : IsStream(cs'[r]),
           UNCHANGED <<disk, started, closed, pi>>, AnySeq(patches'),
           \A i \in 1..Len(patches') : patches'[i].fld \in {"first", "data", "len", "cycles"},
           next = "idle" => ~closed
    PROVE  /\ TypeInv' /\ HeadInv' /\ started'
           /\ \/ pc' = next
              \/ pc' = "idle" /\ ~closed
              \/ pc' = "done" /\ closed /\ res' = "error"
<1>1. PICK sk : /\ Extended(Sink, sk)
                /\ (Reach(sk) /\ Succeed(next)) \/ (Fails(sk) /\ Return)
  OBVIOUS
<1>2. TypeInv /\ HeadInv /\ started /\ closed \in BOOLEAN
  BY DEF WInv, StageInv, TypeInv, Busy, Finishing
<1>3. /\ IsSink(Sink)' /\ err' \in BOOLEAN /\ Headed'
      /\ (~err => Off(Sink) >= 1) /\ (~err' => Off(Sink)' >= 1)
  BY <1>1, <1>2, WriteKeeps
<1>4. \/ pc' = next
      \/ pc' = "idle" /\ ~closed
      \/ pc' = "done" /\ closed /\ res' = "error"
  BY <1>1, <1>2 DEF Succeed, Return
<1>5. TypeInv'
  BY <1>2, <1>3, <1>4 DEF TypeInv, Busy, Finishing
<1>6. HeadInv'
  BY <1>2, <1>3, <1>4 DEF HeadInv
<1> QED
  BY <1>2, <1>4, <1>5, <1>6

(* The length of a string value goes into the signal data.                 *)
LEMMA StoreLengthInv ==
    ASSUME WInv, StoreLength
    PROVE  WInv'
<1> DEFINE j == Len(call.offs) + 1
           s == <<call.g, j>>
           bytes == <<Byte(s, cs[s].total + 1, call.strs[j])>>
<1>1. /\ pc = "length" /\ call' = [call EXCEPT !.offs = Append(@, cs[s].total)]
      /\ AppendStream(s, bytes, "value")
      /\ UNCHANGED <<disk, started, closed, patches, pi, li>>
  BY DEF StoreLength
<1>2. /\ call.g \in Groups /\ NStr[call.g] \in Nat /\ AnySeq(OffsOf(call))
      /\ Len(OffsOf(call)) \in Nat /\ Len(OffsOf(call)) < NStr[call.g]
      /\ DOMAIN call = {"op", "g", "strs", "offs"}
  BY <1>1, ConstantsAssumption, AnySeqFacts DEF WInv, CallInv
<1>3. s \in Streams
  <2>1. \A m, n \in Nat : m < n => m + 1 \in 0..n
    OBVIOUS
  <2>2. Len(OffsOf(call)) + 1 \in 0..NStr[call.g]
    BY <1>2, <2>1, Zenon
  <2>3. j \in 0..NStr[call.g]
    BY <2>2 DEF OffsOf
  <2> HIDE DEF j
  <2> QED
    BY <1>2, <2>3 DEF Streams
<1>4. AnySeq(bytes)
  BY OneFacts
<1>5. AnySeq(OffsOf(call)') /\ Len(OffsOf(call)') = Len(OffsOf(call)) + 1 /\ call'.g = call.g /\ call'.op = call.op
      /\ call'.strs = call.strs /\ DOMAIN call' = {"op", "g", "strs", "offs"}
  <2> DEFINE new == cs[s].total
             S == Range(OffsOf(call)) \union {new}
  <2>1. /\ OffsOf(call)' = Append(OffsOf(call), new) /\ call'.g = call.g /\ call'.op = call.op
        /\ call'.strs = call.strs /\ DOMAIN call' = {"op", "g", "strs", "offs"}
    BY <1>1, <1>2 DEF OffsOf
  <2> HIDE DEF new
  <2>2. \A i \in 1..Len(OffsOf(call)) : OffsOf(call)[i] \in S
    BY <1>2, AnySeqFacts DEF Range
  <2> HIDE DEF S
  <2>3. OffsOf(call) \in Seq(S)
    BY <1>2, <2>2, AnySeqWiden
  <2>4. new \in S
    BY DEF S
  <2>5. /\ Append(OffsOf(call), new) \in Seq(S)
        /\ Len(Append(OffsOf(call), new)) = Len(OffsOf(call)) + 1
    BY <2>3, <2>4, AppendProperties
  <2> QED
    BY <2>1, <2>5, SeqIsAnySeq
<1> HIDE DEF j, s, bytes
<1>6. /\ \E sk : /\ Extended(Sink, sk)
                 /\ (Reach(sk) /\ Succeed("value")) \/ (Fails(sk) /\ Return)
      /\ DOMAIN cs' = Streams /\ \A r \in Streams : IsStream(cs'[r])
  BY <1>1, <1>3, <1>4, AppendStreamFacts DEF WInv
<1>7. /\ AnySeq(patches')
      /\ \A i \in 1..Len(patches') : patches'[i].fld \in {"first", "data", "len", "cycles"}
  BY <1>1 DEF WInv, TypeInv
<1>8. /\ TypeInv' /\ HeadInv' /\ started'
      /\ \/ pc' = "value"
         \/ pc' = "idle" /\ ~closed
         \/ pc' = "done" /\ closed /\ res' = "error"
  BY <1>1, <1>6, <1>7, StreamStepInv
<1>9. CallInv'
  <2>1. \A m, n \in Nat : m < n => m + 1 \in 1..n
    OBVIOUS
  <2>2. Len(OffsOf(call)') \in 1..NStr[call'.g]
    BY <1>2, <1>5, <2>1, Zenon
  <2> QED
    BY <1>5, <1>8, <2>2 DEF WInv, CallInv
<1>10. StageInv'
  BY <1>1, <1>5, <1>8 DEF WInv, StageInv, Busy, Finishing
<1> QED
  BY <1>8, <1>9, <1>10 DEF WInv

(* The bytes of a string value go into the signal data.                    *)
LEMMA StoreValueInv ==
    ASSUME WInv, StoreValue
    PROVE  WInv'
<1> DEFINE j == Len(call.offs)
           s == CurStream
           n == call.strs[j]
           bytes == [i \in 1..n |-> Byte(s, cs[s].total + i, count[call.g] + 1)]
           next == IF j < NStr[call.g] THEN "length" ELSE "record"
<1>1. /\ pc = "value" /\ AppendStream(s, bytes, next)
      /\ UNCHANGED <<call, disk, started, closed, patches, pi, li>>
  BY Zenon DEF StoreValue
<1>2. /\ call.g \in Groups /\ NStr[call.g] \in Nat /\ OffsOf(call) = call.offs
      /\ Len(OffsOf(call)) \in 1..NStr[call.g] /\ call.strs \in StrArgs(call.g)
  BY <1>1, ConstantsAssumption DEF WInv, CallInv, StageInv, OffsOf
<1>3. j \in 1..NStr[call.g]
  BY <1>2
<1>4. next \in {"length", "record"} /\ (next = "length" => j < NStr[call.g])
  OBVIOUS
<1>5. s = <<call.g, j>>
  BY DEF CurStream
<1> HIDE DEF j, s
<1>6. s \in Streams
  <2>1. j \in 0..NStr[call.g]
    BY <1>2, <1>3
  <2> QED
    BY <1>2, <1>5, <2>1 DEF Streams
<1>7. n \in Nat
  BY <1>2, <1>3, ConstantsAssumption DEF StrArgs, ChansOf
<1> HIDE DEF n
<1>8. AnySeq(bytes)
  <2>1. bytes \in Seq({bytes[i] : i \in 1..n})
    BY <1>7
  <2> QED
    BY <2>1, SeqIsAnySeq
<1> HIDE DEF bytes, next
<1>9. /\ \E sk : /\ Extended(Sink, sk)
                 /\ (Reach(sk) /\ Succeed(next)) \/ (Fails(sk) /\ Return)
      /\ DOMAIN cs' = Streams /\ \A r \in Streams : IsStream(cs'[r])
  BY <1>1, <1>6, <1>8, AppendStreamFacts DEF WInv
<1>10. /\ AnySeq(patches')
       /\ \A i \in 1..Len(patches') : patches'[i].fld \in {"first", "data", "len", "cycles"}
  BY <1>1 DEF WInv, TypeInv
<1>11. /\ TypeInv' /\ HeadInv' /\ started'
       /\ \/ pc' = next
          \/ pc' = "idle" /\ ~closed
          \/ pc' = "done" /\ closed /\ res' = "error"
  BY <1>1, <1>4, <1>9, <1>10, StreamStepInv
<1>12. CallInv'
  <2>1. next = "length" => Len(OffsOf(call)) < NStr[call.g]
    BY <1>2, <1>4 DEF j
  <2> QED
    BY <1>1, <1>4, <1>11, <2>1 DEF WInv, CallInv
<1>13. StageInv'
  BY <1>1, <1>4, <1>11 DEF WInv, StageInv, Busy, Finishing
<1> QED
  BY <1>11, <1>12, <1>13 DEF WInv

(* The record itself.                                                      *)
LEMMA StoreRecordInv ==
    ASSUME WInv, StoreRecord
    PROVE  WInv'
<1> DEFINE g == call.g
           bytes == RecordBytes(g)
<1>1. /\ pc = "record"
      /\ \/ /\ (Reach(Put(Sink, bytes)) /\ Succeed("idle")) \/ (Fails(Put(Sink, bytes)) /\ Return)
            /\ UNCHANGED cs
         \/ AppendStream(<<g, 0>>, bytes, "idle")
      /\ UNCHANGED <<call, disk, started, closed, patches, pi, li>>
  BY Zenon DEF StoreRecord
<1>2. g \in Groups /\ NStr[g] \in Nat /\ RecSize[g] \in Nat /\ ~closed
  BY <1>1, ConstantsAssumption DEF WInv, CallInv, StageInv
<1>3. AnySeq(bytes)
  <2>1. DOMAIN bytes = 1..RecSize[g] /\ bytes = [i \in 1..RecSize[g] |-> bytes[i]]
    BY DEF RecordBytes
  <2> HIDE DEF bytes
  <2> QED
    BY <1>2, <2>1, FunIsSeq
<1>4. <<g, 0>> \in Streams
  <2>1. 0 \in 0..NStr[g]
    BY <1>2
  <2> QED
    BY <1>2, <2>1 DEF Streams
<1>5. IsSink(Sink) /\ DOMAIN cs = Streams /\ \A r \in Streams : IsStream(cs[r])
  BY DEF WInv, TypeInv
<1> HIDE DEF g, bytes
<1>6. Extended(Sink, Put(Sink, bytes))
  BY <1>3, <1>5, PutExtends
<1>7. /\ \E sk : /\ Extended(Sink, sk)
                 /\ (Reach(sk) /\ Succeed("idle")) \/ (Fails(sk) /\ Return)
      /\ DOMAIN cs' = Streams /\ \A r \in Streams : IsStream(cs'[r])
  <2>1. CASE AppendStream(<<g, 0>>, bytes, "idle")
    BY <1>3, <1>4, <2>1, AppendStreamFacts DEF WInv
  <2> QED
    BY <1>1, <1>5, <1>6, <2>1
<1>8. /\ AnySeq(patches')
      /\ \A i \in 1..Len(patches') : patches'[i].fld \in {"first", "data", "len", "cycles"}
  BY <1>1 DEF WInv, TypeInv
<1>9. /\ TypeInv' /\ HeadInv' /\ started'
      /\ \/ pc' = "idle"
         \/ pc' = "idle" /\ ~closed
         \/ pc' = "done" /\ closed /\ res' = "error"
  BY <1>1, <1>2, <1>7, <1>8, StreamStepInv
<1>10. CallInv'
  BY <1>1, <1>9 DEF WInv, CallInv
<1>11. StageInv'
  BY <1>1, <1>2, <1>9 DEF WInv, StageInv, Busy, Finishing
<1> QED
  BY <1>9, <1>10, <1>11 DEF WInv

(* Flush.                                                                  *)
LEMMA FlushInv ==
    ASSUME WInv, Flush
    PROVE  WInv'
<1>1. /\ pc = "idle" /\ ~closed /\ (BufFlush \/ BufFlushFails)
      /\ (BufFlush /\ disk' = file') \/ disk' = disk
      /\ pc' = "idle" /\ UNCHANGED <<call, wvars>>
  BY DEF Flush, Succeed, Return
<1>2. TypeInv /\ Headed
  BY <1>1 DEF WInv, HeadInv
<1>3. /\ IsSink(Sink)' /\ err' \in BOOLEAN /\ Headed' /\ Off(Sink)' <= Off(Sink)
      /\ Off(Sink)' \in Nat /\ Off(Sink) \in Nat
      /\ BufFlush => ~err /\ ~err' /\ Off(Sink)' = Off(Sink) /\ buf' = <<>>
      /\ BufFlushFails => err'
  BY <1>1, <1>2, FlushOutcome, FlushKeeps
<1>4. AnySeq(file') /\ AnySeq(disk') /\ AnySeq(disk)
  BY <1>1, <1>2, <1>3, SinkNow DEF IsSink, TypeInv
<1>5. TypeInv'
  BY <1>1, <1>2, <1>3, <1>4 DEF TypeInv, wvars
<1>6. CallInv'
  BY <1>1 DEF WInv, CallInv
<1>7. StageInv'
  BY <1>1, <1>3 DEF WInv, StageInv, wvars, Busy, Finishing
<1>8. BufFlush /\ disk' = file' /\ Len(disk') >= 1 => HeadCell(disk'[1])
  <2> SUFFICES ASSUME BufFlush, disk' = file', Len(disk') >= 1 PROVE HeadCell(disk'[1])
    OBVIOUS
  <2>1. Len(file') \in Nat /\ 1 <= Len(FileOf(Sink)') /\ FileOf(Sink)' = file'
    BY <1>4, SinkNow, AnySeqFacts
  <2>2. Off(Sink)' = Len(FileOf(Sink)') + Len(BufOf(Sink)') /\ Len(BufOf(Sink)') \in Nat
    BY <1>3, SinkFacts
  <2>3. Off(Sink)' >= 1 /\ Cell(Sink, 1)' = file'[1]
    BY <2>1, <2>2 DEF Cell
  <2> QED
    BY <1>3, <2>3 DEF Headed, HeadCell
<1>9. ~started => Off(Sink)' = 0 /\ ~err'
  <2> SUFFICES ASSUME ~started PROVE Off(Sink)' = 0 /\ ~err'
    OBVIOUS
  <2>1. Off(Sink) = 0 /\ ~err
    BY DEF WInv, HeadInv
  <2>2. ~BufFlushFails
    <3> SUFFICES ASSUME BufFlushFails PROVE FALSE
      OBVIOUS
    <3>1. Len(Emptied(Sink).file) > Len(file)
      BY <2>1 DEF BufFlushFails, Fails
    <3>2. /\ Len(FileOf(Emptied(Sink))) \in Nat /\ Off(Emptied(Sink)) = Off(Sink) /\ Len(file) \in Nat
          /\ Len(FileOf(Emptied(Sink))) <= Off(Emptied(Sink))
      <4>1. IsSink(Sink)
        BY <1>2 DEF TypeInv
      <4>2. Off(Emptied(Sink)) = Off(Sink) /\ IsSink(Emptied(Sink))
        BY <4>1, EmptiedExtends DEF Extended
      <4>3. Len(FileOf(Sink)) \in Nat
        BY <4>1, SinkFacts
      <4> DEFINE e == Emptied(Sink)
      <4>4. IsSink(e)
        BY <4>2
      <4> HIDE DEF e
      <4>5. Len(FileOf(e)) \in Nat /\ Len(BufOf(e)) \in Nat /\ Off(e) = Len(FileOf(e)) + Len(BufOf(e))
        BY <4>4, SinkFacts
      <4>6. Len(FileOf(e)) <= Off(e)
        BY <4>5
      <4> QED
        BY <4>2, <4>3, <4>5, <4>6, SinkNow DEF e
    <3>3. Len(FileOf(Emptied(Sink))) > Len(file)
      BY <3>1, Zenon DEF FileOf
    <3> HIDE DEF FileOf
    <3> QED
      BY <2>1, <3>2, <3>3
  <2> QED
    BY <1>1, <1>3, <2>1, <2>2
<1>10. HeadInv'
  BY <1>1, <1>2, <1>3, <1>8, <1>9 DEF WInv, HeadInv, wvars
<1> QED
  BY <1>5, <1>6, <1>7, <1>10 DEF WInv

(* Lists of patches.                                                       *)
IsPatches(ps) ==
    /\ AnySeq(ps)
    /\ \A i \in 1..Len(ps) : ps[i].fld \in {"first", "data", "len", "cycles"}

(* Pending patches are put behind each other.                              *)
LEMMA AddPatches ==
    ASSUME NEW ps, NEW qs, IsPatches(ps), IsPatches(qs)
    PROVE  IsPatches(ps \o qs)
<1> DEFINE all == ps \o qs
           flds == {"first", "data", "len", "cycles"}
<1>1. /\ AnySeq(all) /\ Len(all) = Len(ps) + Len(qs)
      /\ \A i \in 1..Len(ps) : all[i] = ps[i]
      /\ \A i \in 1..Len(qs) : all[Len(ps) + i] = qs[i]
  BY CatFacts DEF IsPatches
<1>2. Len(ps) \in Nat /\ Len(qs) \in Nat
  BY AnySeqFacts DEF IsPatches
<1>3. /\ \A i \in 1..Len(ps) : ps[i].fld \in flds
      /\ \A i \in 1..Len(qs) : qs[i].fld \in flds
  BY DEF IsPatches
<1> HIDE DEF all, flds
<1>4. ASSUME NEW i \in 1..Len(all) PROVE all[i].fld \in flds
  <2>1. CASE i <= Len(ps)
    BY <1>1, <1>2, <1>3, <2>1
  <2>2. CASE ~(i <= Len(ps))
    <3>1. i - Len(ps) \in 1..Len(qs) /\ Len(ps) + (i - Len(ps)) = i
      BY <1>1, <1>2, <2>2
    <3> QED
      BY <1>1, <1>3, <3>1
  <2> QED
    BY <2>1, <2>2
<1> QED
  BY <1>1, <1>4 DEF IsPatches, all, flds

(* A single patch.                                                         *)
LEMMA OnePatch ==
    ASSUME NEW at, NEW val, NEW fld \in {"first", "data", "len", "cycles"}
    PROVE  IsPatches(<<Patch(at, fld, val)>>) /\ IsPatches(<<>>)
<1> DEFINE p == Patch(at, fld, val)
<1>1. p.fld = fld
  BY DEF Patch
<1> HIDE DEF p
<1>2. AnySeq(<<p>>) /\ Len(<<p>>) = 1 /\ <<p>>[1] = p /\ AnySeq(<<>>) /\ Len(<<>>) = 0
  BY OneFacts
<1>3. IsPatches(<<p>>)
  BY <1>1, <1>2 DEF IsPatches
<1>4. IsPatches(<<>>)
  BY <1>2 DEF IsPatches
<1> QED
  BY <1>3, <1>4 DEF p

(* finalize links one stream.                                              *)
LEMMA LinkStreamInv ==
    ASSUME WInv, LinkStream
    PROVE  WInv'
<1> DEFINE s == LinkOrder[li]
           g == s[1]
           last == IF s[2] = NStr[g] THEN CyclePatch(g) ELSE <<>>
           next == IF li = Len(LinkOrder) THEN "patch" ELSE "link"
           at == IF s[2] = 0 THEN DGAddr(g) ELSE CNAddr(g, s[2])
<1>1. /\ pc = "link"
      /\ \/ /\ patches' = patches \o LengthPatch \o last
            /\ li' = li + 1 /\ Reach(Sink) /\ Succeed(next) /\ UNCHANGED cs
         \/ \E fl \in FlushAll(s) :
               \/ /\ Reach(Linked(fl).sk) /\ Succeed(next) /\ li' = li + 1
                  /\ patches' = patches \o <<Patch(at, "data", Linked(fl).addr)>> \o last
                  /\ cs' = [cs EXCEPT ![s] = [@ EXCEPT !.buf = <<>>, !.segs = fl.segs]]
               \/ Fails(Linked(fl).sk) /\ Return /\ UNCHANGED <<patches, li, cs>>
      /\ UNCHANGED <<call, disk, started, closed, pi>>
  BY Zenon DEF LinkStream
<1>2. /\ li \in Nat \ {0} /\ li <= Len(LinkOrder) /\ closed /\ call.op = "close"
      /\ DOMAIN cs = Streams /\ \A r \in Streams : IsStream(cs[r])
      /\ IsPatches(patches) /\ IsSink(Sink) /\ Len(LinkOrder) \in Nat
  BY <1>1, LinkOrderFacts DEF WInv, StageInv, TypeInv, Finishing, IsPatches
<1>3. s \in Streams
  BY <1>2, LinkOrderFacts
<1>4. next \in {"patch", "link"} /\ (next = "link" => li + 1 <= Len(LinkOrder))
  BY <1>2
<1>5. IsPatches(LengthPatch) /\ IsPatches(last) /\ \A a : IsPatches(<<Patch(at, "data", a)>>)
  BY OnePatch DEF LengthPatch, CyclePatch
<1> HIDE DEF s, g, last, next, at
<1>6. IsPatches(patches')
  <2>1. CASE patches' = patches \o LengthPatch \o last
    BY <1>2, <1>5, <2>1, AddPatches
  <2>2. ASSUME NEW a, patches' = patches \o <<Patch(at, "data", a)>> \o last
        PROVE  IsPatches(patches')
    <3>1. IsPatches(patches \o <<Patch(at, "data", a)>>)
      BY <1>2, <1>5, AddPatches
    <3> DEFINE ps == patches \o <<Patch(at, "data", a)>>
    <3>2. IsPatches(ps) /\ patches' = ps \o last
      BY <2>2, <3>1
    <3> HIDE DEF ps
    <3> QED
      BY <1>5, <3>2, AddPatches
  <2> QED
    BY <1>1, <1>2, <2>1, <2>2
<1>7. /\ \E sk : /\ Extended(Sink, sk)
                 /\ \/ Reach(sk) /\ Succeed(next) /\ li' = li + 1
                    \/ Fails(sk) /\ Return /\ li' = li
      /\ DOMAIN cs' = Streams /\ \A r \in Streams : IsStream(cs'[r])
  <2>1. CASE li' = li + 1 /\ Reach(Sink) /\ Succeed(next) /\ UNCHANGED cs
    <3>1. Extended(Sink, Sink)
      BY <1>2, SinkFacts DEF Extended
    <3> QED
      BY <1>2, <2>1, <3>1
  <2>2. ASSUME NEW fl \in FlushAll(s),
               \/ /\ Reach(Linked(fl).sk) /\ Succeed(next) /\ li' = li + 1
                  /\ cs' = [cs EXCEPT ![s] = [@ EXCEPT !.buf = <<>>, !.segs = fl.segs]]
               \/ Fails(Linked(fl).sk) /\ Return /\ UNCHANGED <<patches, li, cs>>
        PROVE  /\ \E sk : /\ Extended(Sink, sk)
                          /\ \/ Reach(sk) /\ Succeed(next) /\ li' = li + 1
                             \/ Fails(sk) /\ Return /\ li' = li
               /\ DOMAIN cs' = Streams /\ \A r \in Streams : IsStream(cs'[r])
    <3>1. Extended(Sink, Linked(fl).sk) /\ AnySeq(SegsOf(fl))
      BY <1>3, LinkedFacts DEF WInv
    <3> DEFINE st == [cs[s] EXCEPT !.buf = <<>>, !.segs = fl.segs]
    <3>2. IsStream(st)
      <4>1. DOMAIN st = {"buf", "segs", "total"} /\ BufOf(st) = <<>> /\ SegsOf(st) = SegsOf(fl)
        BY <1>2, <1>3 DEF BufOf, SegsOf, IsStream
      <4> HIDE DEF st
      <4> QED
        BY <3>1, <4>1, OneFacts DEF IsStream
    <3>3. cs' = [cs EXCEPT ![s] = st] \/ cs' = cs
      BY <2>2
    <3> HIDE DEF st
    <3>4. DOMAIN cs' = Streams /\ \A r \in Streams : IsStream(cs'[r])
      BY <1>2, <3>2, <3>3
    <3> QED
      BY <2>2, <3>1, <3>4
  <2> QED
    BY <1>1, <2>1, <2>2
<1>8. /\ TypeInv' /\ HeadInv' /\ started'
      /\ \/ pc' = next
         \/ pc' = "idle" /\ ~closed
         \/ pc' = "done" /\ closed /\ res' = "error"
  BY <1>1, <1>4, <1>6, <1>7, StreamStepInv DEF IsPatches
<1>9. li' = li \/ li' = li + 1
  BY <1>7
<1>10. pc' = "link" => li' = li + 1 /\ next = "link"
  BY <1>2, <1>4, <1>7 DEF Succeed, Return
<1>11. CallInv'
  BY <1>1, <1>2, <1>4, <1>8 DEF WInv, CallInv
<1>12. StageInv'
  <2>1. UNCHANGED <<call, closed>>
    BY <1>1
  <2>2. closed' /\ call'.op = "close" /\ li' \in Nat \ {0} /\ (pc' = "link" => li' <= Len(LinkOrder))
    BY <1>2, <1>4, <1>9, <1>10, <2>1
  <2>3. pc' \in {"patch", "link", "done"} /\ (pc' = "done" => res' = "error")
    BY <1>2, <1>4, <1>8
  <2> QED
    BY <1>8, <2>2, <2>3 DEF StageInv, Busy, Finishing
<1> QED
  BY <1>8, <1>11, <1>12 DEF WInv

(* finalize writes the identification block, its last write.               *)
LEMMA WriteFinalIDInv ==
    ASSUME WInv, WriteFinalID
    PROVE  WInv'
<1>1. /\ pc = "id"
      /\ \/ file' = Patched(file, Patch(1, "unfin", {})) /\ pc' = "sync"
         \/ pc' = "done" /\ res' = "error" /\ UNCHANGED file
      /\ UNCHANGED <<call, disk, buf, err, wvars>>
  BY DEF WriteFinalID, Succeed, Return, WInv, StageInv, Finishing
<1>2. TypeInv /\ Headed /\ started /\ ~err /\ closed
  BY <1>1 DEF WInv, TypeInv, StageInv, HeadInv, Finishing
<1>3. IsSink(Sink)' /\ Off(Sink)' = Off(Sink) /\ (pc' = "done" => Headed')
  <2>1. CASE file' = Patched(file, Patch(1, "unfin", {})) /\ pc' = "sync"
    <3> DEFINE p == Patch(1, "unfin", {})
    <3>1. file' = Patched(file, p) /\ buf' = buf
      BY <1>1, <2>1
    <3> HIDE DEF p
    <3> QED
      BY <1>2, <2>1, <3>1, PatchKeeps
  <2>2. CASE file' = file
    <3>1. Sink' = Sink
      BY <1>1, <2>2 DEF Sink
    <3> QED
      BY <1>2, <3>1 DEF Headed, TypeInv
  <2> QED
    BY <1>1, <2>1, <2>2
<1>4. TypeInv'
  BY <1>1, <1>2, <1>3 DEF TypeInv, wvars, Busy, Finishing
<1>5. CallInv'
  BY <1>1 DEF WInv, CallInv
<1>6. StageInv'
  BY <1>1, <1>2 DEF WInv, StageInv, wvars, Busy, Finishing
<1>7. HeadInv'
  BY <1>1, <1>2, <1>3 DEF WInv, HeadInv, wvars
<1> QED
  BY <1>4, <1>5, <1>6, <1>7 DEF WInv

(* The fsync of Close.                                                     *)
LEMMA SyncCloseInv ==
    ASSUME WInv, SyncClose
    PROVE  WInv'
<1>1. /\ pc = "sync" /\ pc' = "done" /\ (disk' = file \/ disk' = disk)
      /\ UNCHANGED <<call, file, buf, err, wvars>>
  BY DEF SyncClose, Succeed, Return, WInv, StageInv, Finishing
<1>2. Sink' = Sink
  BY <1>1 DEF Sink
<1>3. ~err /\ started /\ AnySeq(file) /\ AnySeq(disk')
  BY <1>1, SinkNow DEF WInv, TypeInv, StageInv, IsSink, Finishing
<1>4. TypeInv'
  BY <1>1, <1>2, <1>3 DEF WInv, TypeInv, wvars, Busy, Finishing
<1>5. CallInv'
  BY <1>1 DEF WInv, CallInv
<1>6. StageInv'
  BY <1>1, <1>3 DEF WInv, StageInv, wvars, Busy, Finishing
<1>7. HeadInv'
  BY <1>1, <1>2, <1>3 DEF WInv, HeadInv, wvars
<1> QED
  BY <1>4, <1>5, <1>6, <1>7 DEF WInv

(* The power is lost: the first cell of what survives is one that was      *)
(* there.                                                                  *)
LEMMA PowerLossInv ==
    ASSUME WInv, PowerLoss
    PROVE  WInv'
<1>1. /\ pc \notin {"crashed", "done"} /\ disk' = file' /\ pc' = "crashed" /\ buf' = <<>>
      /\ UNCHANGED <<call, res, err, wvars>>
  BY DEF PowerLoss
<1>2. AnySeq(file) /\ AnySeq(disk) /\ Len(file) \in Nat /\ Len(disk) \in Nat
  <2>1. AnySeq(file) /\ AnySeq(disk)
    BY SinkNow DEF WInv, TypeInv, IsSink
  <2> QED
    BY <2>1, AnySeqFacts
<1>3. PICK n \in Len(disk)..Len(file), S \in SUBSET {i \in 1..Len(disk) : disk[i] # file[i]} :
         file' = [i \in 1..n |-> IF i <= Len(disk) /\ i \notin S THEN disk[i] ELSE file[i]]
  BY DEF PowerLoss
<1>4. n \in Nat /\ n <= Len(file)
  BY <1>2, <1>3
<1>5. AnySeq(file') /\ Len(file') = n
  <2>1. DOMAIN file' = 1..n /\ file' = [i \in 1..n |-> file'[i]]
    BY <1>3
  <2> QED
    BY <1>4, <2>1, FunIsSeq
<1>6. IsSink(Sink)' /\ Off(Sink)' = n
  <2>1. AnySeq(buf') /\ Len(buf') = 0
    BY <1>1, OneFacts
  <2>2. IsSink(Sink)'
    BY <1>5, <2>1, SinkNow DEF IsSink
  <2>3. Off(Sink)' = Len(FileOf(Sink)') + Len(BufOf(Sink)')
    BY <2>2, SinkFacts
  <2> QED
    BY <1>4, <1>5, <2>1, <2>2, <2>3, SinkNow
<1>7. ASSUME err PROVE Headed'
  <2>1. Headed /\ (Len(disk) >= 1 => HeadCell(disk[1]))
    BY <1>1, <1>7 DEF WInv, HeadInv
  <2> SUFFICES ASSUME n >= 1 PROVE HeadCell(Cell(Sink, 1)')
    BY <1>6 DEF Headed, HeadCell
  <2>2. 1 <= Len(file) /\ Off(Sink) >= 1
    <3>1. Len(FileOf(Sink)) \in Nat /\ Len(BufOf(Sink)) \in Nat /\ Off(Sink) = Len(FileOf(Sink)) + Len(BufOf(Sink))
      BY SinkFacts DEF WInv, TypeInv
    <3> QED
      BY <1>4, <3>1, SinkNow
  <2>3. HeadCell(file[1])
    BY <2>1, <2>2, SinkNow DEF Headed, Cell
  <2>4. file'[1] = file[1] \/ (Len(disk) >= 1 /\ file'[1] = disk[1])
    BY <1>2, <1>3, <1>4
  <2>5. Cell(Sink, 1)' = file'[1]
    BY <1>4, <1>5, SinkNow DEF Cell
  <2> QED
    BY <2>1, <2>3, <2>4, <2>5
<1>8. TypeInv'
  BY <1>1, <1>5, <1>6 DEF WInv, TypeInv, wvars
<1>9. CallInv'
  BY <1>1 DEF WInv, CallInv
<1>10. StageInv'
  BY <1>1 DEF WInv, StageInv, wvars, Busy, Finishing
<1>11. HeadInv'
  <2>1. ~started => n = 0
    <3>1. Len(FileOf(Sink)) \in Nat /\ Len(BufOf(Sink)) \in Nat /\ Off(Sink) = Len(FileOf(Sink)) + Len(BufOf(Sink))
      BY SinkFacts DEF WInv, TypeInv
    <3>2. ~started => Off(Sink) = 0
      BY DEF WInv, HeadInv
    <3> QED
      BY <1>4, <3>1, <3>2, SinkNow
  <2> QED
    BY <1>1, <1>6, <1>7, <2>1 DEF WInv, HeadInv, wvars
<1> QED
  BY <1>8, <1>9, <1>10, <1>11 DEF WInv

(* Every step of the writer keeps the invariant.                           *)
LEMMA WInvNext == WInv /\ [Next]_vars => WInv'
<1> SUFFICES ASSUME WInv, [Next]_vars PROVE WInv'
  OBVIOUS
<1>1. CASE \E g \in Groups : \E strs \in StrArgs(g) : AppendCall(g, strs)
  BY <1>1, AppendCallInv
<1>2. CASE Flush
  BY <1>2, FlushInv
<1>3. CASE Close
  BY <1>3, CloseInv
<1>4. CASE Step
  BY <1>4, BeginInv, FlushForPatchesInv, ApplyPatchInv, PatchesAppliedInv, StoreLengthInv,
     StoreValueInv, StoreRecordInv, LinkStreamInv, WriteFinalIDInv, SyncCloseInv DEF Step
<1>5. CASE PowerLoss
  BY <1>5, PowerLossInv
<1>6. CASE UNCHANGED vars
  <2>1. /\ UNCHANGED <<pc, call, res, file, disk, buf, err>>
        /\ UNCHANGED <<started, closed, patches, pi, cs, li>>
    BY <1>6 DEF vars, wvars
  <2>2. Sink' = Sink
    BY <2>1 DEF Sink
  <2>3. TypeInv' /\ CallInv'
    BY <2>1, <2>2 DEF WInv, TypeInv, CallInv
  <2>4. StageInv' /\ HeadInv'
    BY <2>1, <2>2 DEF WInv, StageInv, HeadInv, Headed
  <2> QED
    BY <2>3, <2>4 DEF WInv
<1> QED
  BY <1>1, <1>2, <1>3, <1>4, <1>5, <1>6 DEF Next

(* In every layout, through every failure and power loss, the parts of the *)
(* writer keep their shape and the first cell its flags (Writer).          *)
THEOREM WriterInv == Spec => []WInv
<1>1. Init => WInv
  BY WInvInit
<1>2. WInv /\ [Next]_vars => WInv'
  BY WInvNext
<1> QED
  BY <1>1, <1>2, PTL DEF Spec

(* A failed write is final in every layout: no Close reports success after *)
(* it, and a file in which it happened never says that it is finalized     *)
(* (bufio's sticky error, finalize).                                       *)
THEOREM FailureIsFinal == Spec => []ErrorIsFinal
<1>1. WInv => ErrorIsFinal
  <2> SUFFICES ASSUME WInv, err
               PROVE  /\ ~(pc = "done" /\ res = "ok")
                      /\ PeekID(file, 1) = "ID" => file[1].unfin # {}
    BY DEF ErrorIsFinal
  <2>1. ~(pc = "done" /\ res = "ok")
    BY DEF WInv, StageInv
  <2>2. AnySeq(file) /\ Headed /\ IsSink(Sink)
    BY SinkNow DEF WInv, TypeInv, HeadInv, IsSink
  <2>3. DOMAIN file = 1..Len(file) /\ Len(file) \in Nat
    BY <2>2, AnySeqFacts
  <2>4. ASSUME PeekID(file, 1) = "ID" PROVE file[1].unfin # {}
    <3>1. 1 \in DOMAIN file
      BY <2>4 DEF PeekID
    <3>2. Len(FileOf(Sink)) \in Nat /\ Len(BufOf(Sink)) \in Nat /\ Off(Sink) = Len(FileOf(Sink)) + Len(BufOf(Sink))
      BY <2>2, SinkFacts
    <3>3. Off(Sink) >= 1 /\ Cell(Sink, 1) = file[1]
      BY <2>3, <3>1, <3>2, SinkNow DEF Cell
    <3> QED
      BY <2>2, <3>3 DEF Headed, HeadCell
  <2> QED
    BY <2>1, <2>4
<1> QED
  BY <1>1, WriterInv, PTL
=============================================================================
