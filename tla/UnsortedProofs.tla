--------------------------- MODULE UnsortedProofs ---------------------------
(***************************************************************************)
(* Proofs about the pass over an unsorted data group: for any groups,      *)
(* record sizes, VLSD values and buffer, any recording, torn or whole, and *)
(* reads of the section that fail anywhere.                                *)
(***************************************************************************)
EXTENDS Unsorted, TLAPS, SequenceTheorems, FiniteSetTheorems, WellFoundedInduction

(* The file is a recording, or what is left of one.                        *)
FileInv ==
    /\ log \in Logs /\ unfin \in BOOLEAN
    /\ section \in Seq(Nat) /\ Len(section) <= Len(Raw(log, Len(log)))
    /\ \A i \in 1..Len(section) : section[i] = Raw(log, Len(log))[i]
    /\ ~unfin => Len(section) = Len(Raw(log, Len(log)))

(* Where the buffered reader is in the section.                            *)
Consumed == src - (Len(rbuf) - rpos)

(* What is left in the buffer comes next in the section, and what ReadFull *)
(* has got is what came last.                                              *)
ReaderInv ==
    /\ src \in 0..Len(section) /\ rbuf \in Seq(Nat) /\ rpos \in Nat
    /\ want \in Nat /\ got \in Seq(Nat)
    /\ step # "error" =>
          /\ rpos <= Len(rbuf) /\ Len(rbuf) - rpos <= src
          /\ \A i \in (rpos + 1)..Len(rbuf) : rbuf[i] = section[src - Len(rbuf) + i]
          /\ Len(got) <= want /\ Len(got) <= Consumed
          /\ \A i \in 1..Len(got) : got[i] = section[Consumed - Len(got) + i]

(* Where the bytes begin that ReadFull is reading.                         *)
Start == Consumed - Len(got)

(* The streams hold the first m records.                                   *)
Taken(m) == \A id \in Known : bufs[id] = Projection(m, id)

(* m records are done, and step is about the next one.                     *)
InRecord(m) ==
    /\ m < Len(log) /\ Whole(m) < Len(section)
    /\ step = "id" => pos = Whole(m) /\ want = IdSize /\ Start = pos /\ Taken(m)
    /\ step # "id" => pos = Whole(m) + IdSize /\ cur = log[m + 1].id /\ cur \in Known
    /\ step = "len" => want = LenSize /\ Start = pos /\ cur \in VlsdIDs /\ Taken(m)
    /\ step = "body" =>
          /\ want = log[m + 1].len
          /\ Start = pos + (IF cur \in VlsdIDs THEN LenSize ELSE 0)
          /\ \A id \in Known :
                bufs[id] = IF id = cur /\ id \in VlsdIDs
                           THEN Projection(m, id) \o Digits(log[m + 1].len, LenSize)
                           ELSE Projection(m, id)

PassInv ==
    /\ step \in {"id", "len", "body", "done", "open", "error"}
    /\ bufs \in [Known -> Seq(Nat)] /\ pos \in Nat
    /\ step \in {"id", "len", "body"} => \E m \in 0..Len(log) : InRecord(m)
    /\ step \in {"done", "open"} =>
          \E m \in 0..Len(log) : pos = Whole(m) /\ pos = Len(section) /\ Taken(m)

(* Counters as they were stored, or as they were recomputed.               *)
CountInv ==
    /\ step # "open" =>
          counts = [id \in GroupIDs \union ElemIDs |->
                       IF unfin THEN 0 ELSE Times(log, Len(log), id)]
    /\ step = "open" =>
          \A g \in GroupIDs : RecSize[g] > 0 =>
              counts[g] = IF unfin THEN Len(bufs[g]) \div RecSize[g]
                          ELSE Times(log, Len(log), g)

UInv == FileInv /\ ReaderInv /\ PassInv /\ CountInv /\ NoFalseAlarm

-----------------------------------------------------------------------------
(* Induction over the numbers up to n.                                     *)
LEMMA Climb ==
    ASSUME NEW n \in Nat, NEW P, 0 \in P,
           \A m \in 1..n : m - 1 \in P => m \in P
    PROVE  \A m \in 0..n : m \in P
<1> DEFINE C == {m \in 0..n : m \notin P}
<1>1. SUFFICES ASSUME C # {} PROVE FALSE
  OBVIOUS
<1>2. C \subseteq Nat
  OBVIOUS
<1>3. PICK m \in C : \A k \in C : ~(<<k, m>> \in OpToRel(<, Nat))
  <2> HIDE DEF C
  <2> QED
    BY <1>1, <1>2, NatLessThanWellFounded, WFMin
<1>4. \A k \in C : ~(k < m)
  BY <1>2, <1>3 DEF OpToRel
<1>5. m # 0 /\ m \in 1..n /\ m - 1 \in 0..n
  OBVIOUS
<1>6. m - 1 \in P
  BY <1>4, <1>5
<1> QED
  BY <1>5, <1>6

(* What a concatenation holds.                                             *)
LEMMA Joined ==
    ASSUME NEW s \in Seq(Nat), NEW t \in Seq(Nat)
    PROVE  /\ s \o t \in Seq(Nat) /\ Len(s \o t) = Len(s) + Len(t)
           /\ \A b \in 1..(Len(s) + Len(t)) :
                 (s \o t)[b] = IF b <= Len(s) THEN s[b] ELSE t[b - Len(s)]
  BY ConcatProperties

LEMMA JoinedParts ==
    ASSUME NEW s \in Seq(Nat), NEW t \in Seq(Nat)
    PROVE  /\ s \o t \in Seq(Nat) /\ Len(s \o t) = Len(s) + Len(t)
           /\ \A i \in 1..Len(s) : (s \o t)[i] = s[i]
           /\ \A i \in 1..Len(t) : (s \o t)[Len(s) + i] = t[i]
<1>1. Len(s) \in Nat /\ Len(t) \in Nat
  BY LenProperties
<1>2. ASSUME NEW i \in 1..Len(s) PROVE (s \o t)[i] = s[i]
  <2>1. i \in 1..(Len(s) + Len(t)) /\ i <= Len(s)
    BY <1>1
  <2> QED
    BY <2>1, Joined
<1>3. ASSUME NEW i \in 1..Len(t) PROVE (s \o t)[Len(s) + i] = t[i]
  <2>1. PICK b : b = Len(s) + i
    OBVIOUS
  <2>2. b \in 1..(Len(s) + Len(t)) /\ ~(b <= Len(s)) /\ b - Len(s) = i
    BY <1>1, <2>1
  <2>3. (s \o t)[b] = t[b - Len(s)]
    BY <2>2, Joined
  <2> QED
    BY <2>1, <2>2, <2>3
<1> QED
  BY <1>2, <1>3, Joined

LEMMA Reassociated ==
    ASSUME NEW s \in Seq(Nat), NEW t \in Seq(Nat), NEW u \in Seq(Nat)
    PROVE  (s \o t) \o u = s \o (t \o u)
  BY ConcatAssociative, SMTT(40)

(* Flattening adds the sequences one by one.                               *)
FlatSteps(p, n, c) ==
    /\ c \in [0..n -> Seq(Nat)] /\ c[0] = <<>>
    /\ \A i \in 1..n : c[i] = c[i - 1] \o p[i]

LEMMA FlatExists ==
    ASSUME NEW n \in Nat, NEW p \in [1..n -> Seq(Nat)]
    PROVE  \E c : FlatSteps(p, n, c)
<1> DEFINE P == {m \in 0..n : \E c : FlatSteps(p, m, c)}
<1>1. 0 \in P
  <2> DEFINE c == [i \in 0..0 |-> <<>>]
  <2>1. FlatSteps(p, 0, c)
    BY DEF FlatSteps
  <2> QED
    BY <2>1
<1>2. ASSUME NEW m \in 1..n, m - 1 \in P PROVE m \in P
  <2>1. PICK c : FlatSteps(p, m - 1, c)
    BY <1>2
  <2> DEFINE d == [i \in 0..m |-> IF i = m THEN c[m - 1] \o p[m] ELSE c[i]]
  <2>2. c[m - 1] \in Seq(Nat) /\ p[m] \in Seq(Nat)
    BY <2>1 DEF FlatSteps
  <2>3. c[m - 1] \o p[m] \in Seq(Nat)
    BY <2>2, Joined
  <2>4. \A i \in 0..m : i # m => i \in 0..(m - 1)
    OBVIOUS
  <2>5. d \in [0..m -> Seq(Nat)]
    BY <2>1, <2>3, <2>4 DEF FlatSteps
  <2>6. d[0] = <<>>
    BY <2>1 DEF FlatSteps
  <2>7. ASSUME NEW i \in 1..m PROVE d[i] = d[i - 1] \o p[i]
    <3>1. i - 1 \in 0..m /\ i - 1 # m /\ i \in 0..m /\ (i # m => i \in 1..(m - 1))
      OBVIOUS
    <3>2. d[i - 1] = c[i - 1]
      BY <3>1
    <3>3. i # m => c[i] = c[i - 1] \o p[i]
      BY <2>1, <3>1 DEF FlatSteps
    <3>4. d[i] = c[i - 1] \o p[i]
      BY <3>1, <3>3
    <3> HIDE DEF d
    <3> QED
      BY <3>2, <3>4
  <2> HIDE DEF d
  <2>8. FlatSteps(p, m, d)
    BY <2>5, <2>6, <2>7 DEF FlatSteps
  <2> QED
    BY <2>8
<1> HIDE DEF P
<1>3. \A m \in 0..n : m \in P
  BY <1>1, <1>2, Climb
<1>4. n \in P
  BY <1>3
<1> QED
  BY <1>4 DEF P

(* What FlattenSeq computes is the last of these sums.                     *)
LEMMA FlatIs ==
    ASSUME NEW n \in Nat, NEW p \in [1..n -> Seq(Nat)], NEW c, FlatSteps(p, n, c)
    PROVE  FlattenSeq(p) = c[n]
<1>1. Len(p) = n
  OBVIOUS
<1>2. CASE n = 0
  <2>1. p = <<>>
    BY <1>2
  <2> QED
    BY <1>1, <1>2, <2>1 DEF FlattenSeq, FlatSteps
<1>3. CASE n # 0
  <2> DEFINE Part(f, i) == IF i = 1 THEN p[i] ELSE f[i - 1] \o p[i]
             Eq(f) == f = [i \in 1..n |-> Part(f, i)]
             F == CHOOSE f : Eq(f)
             g == [i \in 1..n |-> c[i]]
  <2>1. ASSUME NEW i \in 1..n PROVE g[i] = Part(g, i)
    <3>1. c[i] = c[i - 1] \o p[i] /\ p[i] \in Seq(Nat) /\ c[0] = <<>>
      BY DEF FlatSteps
    <3>2. CASE i = 1
      <4>0. i - 1 = 0
        BY <3>2
      <4>1. c[1] = <<>> \o p[1]
        BY <3>1, <3>2, <4>0
      <4>2. c[1] = p[1]
        BY <3>1, <3>2, <4>1, ConcatEmptySeq
      <4> QED
        BY <3>2, <4>2
    <3>3. CASE i # 1
      <4>1. i - 1 \in 1..n
        BY <3>3
      <4>2. g[i - 1] = c[i - 1] /\ g[i] = c[i]
        BY <4>1
      <4> HIDE DEF g
      <4> QED
        BY <3>1, <3>3, <4>2
    <3> QED
      BY <3>2, <3>3
  <2>2. Eq(g)
    <3>1. g = [i \in 1..n |-> g[i]]
      OBVIOUS
    <3> HIDE DEF g, Part
    <3> QED
      BY <2>1, <3>1, Zenon
  <2>3. Eq(F)
    <3> HIDE DEF Eq, g
    <3> QED
      BY <2>2, Zenon
  <2>4. FlattenSeq(p) = F[n]
    <3>1. Len(p) # 0
      BY <1>1, <1>3
    <3>2. FlattenSeq(p) = (CHOOSE f : f = [i \in 1..Len(p) |-> Part(f, i)])[Len(p)]
      BY <3>1, Zenon DEF FlattenSeq
    <3> QED
      BY <1>1, <3>2
  <2> HIDE DEF F
  <2>5. \A i \in 1..n : F[i] = IF i = 1 THEN p[i] ELSE F[i - 1] \o p[i]
    <3>1. \A i \in 1..n : F[i] = Part(F, i)
      <4> HIDE DEF Part
      <4> QED
        BY <2>3
    <3> QED
      BY <3>1
  <2>6. \A i \in 1..n : g[i] = IF i = 1 THEN p[i] ELSE g[i - 1] \o p[i]
    BY <2>1
  <2> DEFINE P == {i \in 0..n : i # 0 => F[i] = g[i]}
  <2>7. 0 \in P
    OBVIOUS
  <2>8. ASSUME NEW m \in 1..n, m - 1 \in P PROVE m \in P
    <3> HIDE DEF g
    <3>1. F[m] = IF m = 1 THEN p[m] ELSE F[m - 1] \o p[m]
      BY <2>5
    <3>2. g[m] = IF m = 1 THEN p[m] ELSE g[m - 1] \o p[m]
      BY <2>6
    <3>3. m # 1 => F[m - 1] = g[m - 1]
      BY <2>8
    <3> QED
      BY <3>1, <3>2, <3>3
  <2> HIDE DEF P
  <2>9. \A m \in 0..n : m \in P
    BY <2>7, <2>8, Climb
  <2>10. F[n] = g[n]
    <3>1. n \in P
      BY <2>9
    <3> QED
      BY <1>3, <3>1 DEF P
  <2>11. g[n] = c[n]
    BY <1>3
  <2> QED
    BY <2>4, <2>10, <2>11
<1> QED
  BY <1>2, <1>3

(* All pieces but the last, then the last.                                 *)
LEMMA FlatGrows ==
    ASSUME NEW n \in Nat \ {0}, NEW p \in [1..n -> Seq(Nat)],
           NEW q \in [1..(n - 1) -> Seq(Nat)], \A i \in 1..(n - 1) : q[i] = p[i]
    PROVE  /\ FlattenSeq(q) \in Seq(Nat) /\ FlattenSeq(p) \in Seq(Nat)
           /\ FlattenSeq(p) = FlattenSeq(q) \o p[n]
<1>1. PICK c : FlatSteps(p, n, c)
  BY FlatExists
<1>2. FlattenSeq(p) = c[n]
  BY <1>1, FlatIs
<1> DEFINE d == [i \in 0..(n - 1) |-> c[i]]
<1>3. /\ c \in [0..n -> Seq(Nat)] /\ c[0] = <<>>
      /\ \A i \in 1..n : c[i] = c[i - 1] \o p[i]
  BY <1>1 DEF FlatSteps
<1>4. d \in [0..(n - 1) -> Seq(Nat)] /\ d[0] = <<>>
  BY <1>3
<1>5. ASSUME NEW i \in 1..(n - 1) PROVE d[i] = d[i - 1] \o q[i]
  <2>1. i \in 1..n /\ i \in 0..(n - 1) /\ i - 1 \in 0..(n - 1)
    OBVIOUS
  <2>2. d[i] = c[i] /\ d[i - 1] = c[i - 1] /\ c[i] = c[i - 1] \o p[i] /\ q[i] = p[i]
    BY <1>3, <2>1
  <2> HIDE DEF d
  <2> QED
    BY <2>2
<1>6. d[n - 1] = c[n - 1] /\ c[n] = c[n - 1] \o p[n] /\ c[n] \in Seq(Nat) /\ c[n - 1] \in Seq(Nat)
  <2>1. n \in 1..n /\ n \in 0..n /\ n - 1 \in 0..n /\ n - 1 \in 0..(n - 1)
    OBVIOUS
  <2>2. d[n - 1] = c[n - 1]
    BY <2>1
  <2> HIDE DEF d
  <2> QED
    BY <1>3, <2>1, <2>2
<1> HIDE DEF d
<1>7. FlatSteps(q, n - 1, d)
  BY <1>4, <1>5 DEF FlatSteps
<1>8. n - 1 \in Nat
  OBVIOUS
<1>9. FlattenSeq(q) = d[n - 1]
  BY <1>7, <1>8, FlatIs
<1> QED
  BY <1>2, <1>6, <1>9

LEMMA FlatNothing ==
    ASSUME NEW p \in [1..0 -> Seq(Nat)]
    PROVE  FlattenSeq(p) = <<>>
<1>1. p = <<>> /\ Len(p) = 0
  OBVIOUS
<1> QED
  BY <1>1 DEF FlattenSeq

-----------------------------------------------------------------------------
(* Little-endian numbers.                                                  *)

NumSteps(b, n, c) ==
    /\ c \in [0..n -> Nat] /\ c[0] = 0
    /\ \A k \in 1..n : c[k] = c[k - 1] * 256 + b[n - k + 1]

LEMMA NumExists ==
    ASSUME NEW n \in Nat, NEW b \in [1..n -> Nat]
    PROVE  \E c : NumSteps(b, n, c)
<1> DEFINE Eq(m, c) == /\ c \in [0..m -> Nat] /\ c[0] = 0
                       /\ \A k \in 1..m : c[k] = c[k - 1] * 256 + b[n - k + 1]
           P == {m \in 0..n : \E c : Eq(m, c)}
<1>1. 0 \in P
  <2> DEFINE c == [i \in 0..0 |-> 0]
  <2>1. Eq(0, c)
    OBVIOUS
  <2> HIDE DEF Eq
  <2> QED
    BY <2>1
<1>2. ASSUME NEW m \in 1..n, m - 1 \in P PROVE m \in P
  <2>1. PICK c : Eq(m - 1, c)
    BY <1>2
  <2> DEFINE d == [i \in 0..m |-> IF i = m THEN c[m - 1] * 256 + b[n - m + 1] ELSE c[i]]
  <2>2. m - 1 \in 0..(m - 1) /\ n - m + 1 \in 1..n
    OBVIOUS
  <2>3. c[m - 1] \in Nat /\ b[n - m + 1] \in Nat
    BY <2>1, <2>2
  <2>4. \A i \in 0..m : i # m => i \in 0..(m - 1)
    OBVIOUS
  <2>5. d \in [0..m -> Nat]
    BY <2>1, <2>3, <2>4
  <2>6. d[0] = 0
    BY <2>1
  <2>7. ASSUME NEW k \in 1..m PROVE d[k] = d[k - 1] * 256 + b[n - k + 1]
    <3>1. k - 1 \in 0..m /\ k - 1 # m /\ k \in 0..m
      OBVIOUS
    <3>2. d[k - 1] = c[k - 1]
      BY <3>1
    <3>3. k # m => c[k] = c[k - 1] * 256 + b[n - k + 1]
      BY <2>1
    <3>4. d[k] = c[k - 1] * 256 + b[n - k + 1]
      BY <3>1, <3>3
    <3> HIDE DEF d
    <3> QED
      BY <3>2, <3>4
  <2> HIDE DEF d
  <2>8. Eq(m, d)
    BY <2>5, <2>6, <2>7
  <2> HIDE DEF Eq
  <2> QED
    BY <2>8
<1> HIDE DEF P
<1>3. \A m \in 0..n : m \in P
  BY <1>1, <1>2, Climb
<1>4. n \in P
  BY <1>3
<1> QED
  BY <1>4 DEF P, NumSteps

LEMMA NumIs ==
    ASSUME NEW n \in Nat, NEW b \in [1..n -> Nat]
    PROVE  \E c : NumSteps(b, n, c) /\ Number(b) = c[n]
<1>1. Len(b) = n
  OBVIOUS
<1>2. PICK c : NumSteps(b, n, c)
  BY NumExists
<1> DEFINE Part(f, k) == IF k = 0 THEN 0 ELSE f[k - 1] * 256 + b[n - k + 1]
           Eq(f) == f = [k \in 0..n |-> Part(f, k)]
           F == CHOOSE f : Eq(f)
<1>3. Eq(c)
  <2>1. \A k \in 0..n : c[k] = Part(c, k)
    BY <1>2 DEF NumSteps
  <2>2. c = [k \in 0..n |-> c[k]]
    BY <1>2 DEF NumSteps
  <2> HIDE DEF Part
  <2> QED
    BY <2>1, <2>2, Zenon
<1>4. Eq(F)
  <2> HIDE DEF Eq
  <2> QED
    BY <1>3, Zenon
<1>5. Number(b) = F[n]
  <2>1. Number(b) = (CHOOSE f : f = [k \in 0..Len(b) |->
                        IF k = 0 THEN 0 ELSE f[k - 1] * 256 + b[Len(b) - k + 1]])[Len(b)]
    BY Zenon DEF Number
  <2> QED
    BY <1>1, <2>1
<1> HIDE DEF F
<1>6. \A k \in 0..n : F[k] = IF k = 0 THEN 0 ELSE F[k - 1] * 256 + b[n - k + 1]
  <2>1. \A k \in 0..n : F[k] = Part(F, k)
    <3> HIDE DEF Part
    <3> QED
      BY <1>4
  <2> QED
    BY <2>1
<1> DEFINE P == {k \in 0..n : F[k] = c[k]}
<1>7. 0 \in P
  BY <1>2, <1>6 DEF NumSteps
<1>8. ASSUME NEW m \in 1..n, m - 1 \in P PROVE m \in P
  <2>1. F[m] = F[m - 1] * 256 + b[n - m + 1] /\ F[m - 1] = c[m - 1]
    BY <1>6, <1>8
  <2>2. c[m] = c[m - 1] * 256 + b[n - m + 1]
    BY <1>2 DEF NumSteps
  <2> QED
    BY <2>1, <2>2
<1> HIDE DEF P
<1>9. \A m \in 0..n : m \in P
  BY <1>7, <1>8, Climb
<1>10. F[n] = c[n]
  <2>1. n \in P
    BY <1>9
  <2> QED
    BY <2>1 DEF P
<1> QED
  BY <1>2, <1>5, <1>10

(* Each shift takes one byte off.                                          *)
ShiftSteps(v, n, s) ==
    /\ s \in [0..n -> Nat] /\ s[0] = v
    /\ \A i \in 1..n : s[i] = s[i - 1] \div 256

LEMMA ShiftIs ==
    ASSUME NEW v \in Nat, NEW n \in Nat
    PROVE  ShiftSteps(v, n, Shifted(v, n))
<1> DEFINE Steps(m, c) == /\ c \in [0..m -> Nat] /\ c[0] = v
                          /\ \A i \in 1..m : c[i] = c[i - 1] \div 256
           P == {m \in 0..n : \E c : Steps(m, c)}
<1>1. 0 \in P
  <2> DEFINE c == [i \in 0..0 |-> v]
  <2>1. Steps(0, c)
    OBVIOUS
  <2> HIDE DEF Steps
  <2> QED
    BY <2>1
<1>2. ASSUME NEW m \in 1..n, m - 1 \in P PROVE m \in P
  <2>1. PICK c : Steps(m - 1, c)
    BY <1>2
  <2> DEFINE d == [i \in 0..m |-> IF i = m THEN c[m - 1] \div 256 ELSE c[i]]
  <2>2. m - 1 \in 0..(m - 1)
    OBVIOUS
  <2>3. c[m - 1] \in Nat
    BY <2>1, <2>2
  <2>4. \A i \in 0..m : i # m => i \in 0..(m - 1)
    OBVIOUS
  <2>5. c[m - 1] \div 256 \in Nat
    BY <2>3
  <2>6. d \in [0..m -> Nat]
    BY <2>1, <2>4, <2>5
  <2>7. d[0] = v
    BY <2>1
  <2>8. ASSUME NEW i \in 1..m PROVE d[i] = d[i - 1] \div 256
    <3>1. i - 1 \in 0..m /\ i - 1 # m /\ i \in 0..m /\ (i # m => i \in 1..(m - 1))
      OBVIOUS
    <3>2. d[i - 1] = c[i - 1]
      BY <3>1
    <3>3. i # m => c[i] = c[i - 1] \div 256
      BY <2>1, <3>1
    <3>4. d[i] = c[i - 1] \div 256
      BY <3>1, <3>3
    <3> HIDE DEF d
    <3> QED
      BY <3>2, <3>4
  <2> HIDE DEF d
  <2>9. Steps(m, d)
    BY <2>6, <2>7, <2>8
  <2> HIDE DEF Steps
  <2> QED
    BY <2>9
<1> HIDE DEF P
<1>3. \A m \in 0..n : m \in P
  BY <1>1, <1>2, Climb
<1>4. n \in P
  BY <1>3
<1>5. PICK c : Steps(n, c)
  <2> HIDE DEF Steps
  <2> QED
    BY <1>4 DEF P
<1> DEFINE Part(f, i) == IF i = 0 THEN v ELSE f[i - 1] \div 256
           Eq(f) == f = [i \in 0..n |-> Part(f, i)]
           F == CHOOSE f : Eq(f)
<1>6. Eq(c)
  <2>1. \A i \in 0..n : c[i] = Part(c, i)
    BY <1>5
  <2>2. c = [i \in 0..n |-> c[i]]
    BY <1>5
  <2> HIDE DEF Part
  <2> QED
    BY <2>1, <2>2, Zenon
<1>7. Eq(F)
  <2> HIDE DEF Eq
  <2> QED
    BY <1>6, Zenon
<1>8. Shifted(v, n) = F
  BY Zenon DEF Shifted
<1> HIDE DEF F
<1>9. F = [i \in 0..n |-> F[i]] /\ \A i \in 0..n : F[i] = IF i = 0 THEN v ELSE F[i - 1] \div 256
  <2>1. F = [i \in 0..n |-> F[i]] /\ \A i \in 0..n : F[i] = Part(F, i)
    <3> HIDE DEF Part
    <3> QED
      BY <1>7
  <2> QED
    BY <2>1
<1> DEFINE Q == {i \in 0..n : F[i] = c[i]}
<1>10. 0 \in Q
  <2>1. 0 \in 0..n
    OBVIOUS
  <2>2. F[0] = v
    BY <1>9, <2>1
  <2>3. c[0] = v
    BY <1>5
  <2> QED
    BY <2>1, <2>2, <2>3
<1>11. ASSUME NEW m \in 1..n, m - 1 \in Q PROVE m \in Q
  <2>1. m \in 0..n /\ m # 0
    OBVIOUS
  <2>2. F[m] = F[m - 1] \div 256
    BY <1>9, <2>1
  <2>3. c[m] = c[m - 1] \div 256
    BY <1>5
  <2>4. F[m - 1] = c[m - 1]
    BY <1>11
  <2> QED
    BY <2>1, <2>2, <2>3, <2>4
<1> HIDE DEF Q
<1>12. \A m \in 0..n : m \in Q
  BY <1>10, <1>11, Climb
<1>13. \A m \in 0..n : F[m] = c[m]
  BY <1>12 DEF Q
<1>14. F = c
  BY <1>5, <1>9, <1>13
<1>15. ShiftSteps(v, n, c)
  BY <1>5 DEF ShiftSteps
<1> QED
  BY <1>8, <1>14, <1>15

LEMMA DigitsType ==
    ASSUME NEW v \in Nat, NEW n \in Nat
    PROVE  /\ Digits(v, n) \in [1..n -> Nat] /\ Digits(v, n) \in Seq(Nat)
           /\ Len(Digits(v, n)) = n
<1>1. \A i \in 1..n : Shifted(v, n)[i - 1] \in Nat
  BY ShiftIs DEF ShiftSteps
<1>2. \A i \in 1..n : Shifted(v, n)[i - 1] % 256 \in Nat
  BY <1>1
<1>3. Digits(v, n) \in [1..n -> Nat]
  BY <1>2 DEF Digits
<1> QED
  BY <1>3

(* Reading the digits gives the number back.                               *)
LEMMA NumberOfDigits ==
    ASSUME NEW v \in Nat, NEW n \in Nat, Fits(v, n)
    PROVE  Number(Digits(v, n)) = v
<1>1. PICK s : s = Shifted(v, n)
  OBVIOUS
<1>2. /\ s \in [0..n -> Nat] /\ s[0] = v /\ s[n] = 0
      /\ \A i \in 1..n : s[i] = s[i - 1] \div 256
  <2>1. ShiftSteps(v, n, s)
    BY <1>1, ShiftIs
  <2>2. s[n] = 0
    BY <1>1 DEF Fits
  <2> QED
    BY <2>1, <2>2 DEF ShiftSteps
<1>3. PICK b : b = Digits(v, n)
  OBVIOUS
<1>4. b \in [1..n -> Nat] /\ \A i \in 1..n : b[i] = s[i - 1] % 256
  BY <1>1, <1>3, DigitsType DEF Digits
<1>5. PICK c : NumSteps(b, n, c) /\ Number(b) = c[n]
  BY <1>4, NumIs
<1> DEFINE P == {k \in 0..n : c[k] = s[n - k]}
<1>6. 0 \in P
  BY <1>2, <1>5 DEF NumSteps
<1>7. ASSUME NEW m \in 1..n, m - 1 \in P PROVE m \in P
  <2>1. PICK i : i = n - m + 1
    OBVIOUS
  <2>2. i \in 1..n /\ i - 1 \in 0..n /\ n - (m - 1) = i /\ n - m = i - 1
    BY <2>1
  <2>3. c[m] = c[m - 1] * 256 + b[i] /\ c[m - 1] = s[i]
    BY <1>5, <1>7, <2>1, <2>2 DEF NumSteps
  <2>4. s[i] = s[i - 1] \div 256 /\ b[i] = s[i - 1] % 256 /\ s[i - 1] \in Nat
    BY <1>2, <1>4, <2>2
  <2>5. PICK q \in Nat : q = s[i - 1]
    BY <2>4
  <2>6. (q \div 256) * 256 + (q % 256) = q
    OBVIOUS
  <2>7. c[m] = q
    BY <2>3, <2>4, <2>5, <2>6
  <2> QED
    BY <2>2, <2>5, <2>7
<1> HIDE DEF P
<1>8. \A m \in 0..n : m \in P
  BY <1>6, <1>7, Climb
<1>9. n \in P
  BY <1>8
<1>10. c[n] = s[0]
  BY <1>9 DEF P
<1> QED
  BY <1>2, <1>3, <1>5, <1>10

-----------------------------------------------------------------------------
(* Recordings.                                                             *)

(* Any list of pieces.                                                     *)
LEMMA FlatType ==
    ASSUME NEW n \in Nat, NEW p \in [1..n -> Seq(Nat)]
    PROVE  FlattenSeq(p) \in Seq(Nat) /\ Len(FlattenSeq(p)) \in Nat
<1>1. PICK c : FlatSteps(p, n, c)
  BY FlatExists
<1>2. FlattenSeq(p) = c[n]
  BY <1>1, FlatIs
<1>3. c[n] \in Seq(Nat)
  BY <1>1 DEF FlatSteps
<1> QED
  BY <1>2, <1>3, LenProperties

(* What is recorded, and that it can be written.                           *)
LEMMA LogFacts ==
    ASSUME NEW l \in Logs
    PROVE  /\ Len(l) \in Nat /\ DOMAIN l = 1..Len(l)
           /\ \A n \in 1..Len(l) :
                 /\ l[n].id \in Known \union AlienIDs /\ l[n].id \in Nat /\ l[n].len \in Nat
                 /\ Fits(l[n].id, IdSize)
                 /\ l[n].id \in VlsdIDs => Fits(l[n].len, LenSize)
                 /\ l[n].id \in GroupIDs \union ElemIDs => l[n].len = RecSize[l[n].id]
           /\ \A n \in 1..Len(l) : \A g \in DOMAIN PointsTo :
                 Times(l, n, g) <= Times(l, n, PointsTo[g])
<1>1. PICK m \in Nat : l \in [1..m -> Entries]
  BY UnsortedAssumption DEF Logs
<1>2. Len(l) = m /\ DOMAIN l = 1..m
  BY <1>1
<1>3. ASSUME NEW e \in Entries
      PROVE  /\ e.id \in Known \union AlienIDs /\ e.id \in Nat /\ e.len \in Nat
             /\ Fits(e.id, IdSize)
             /\ e.id \in VlsdIDs => Fits(e.len, LenSize)
             /\ e.id \in GroupIDs \union ElemIDs => e.len = RecSize[e.id]
  <2>1. CASE \E id \in GroupIDs \union ElemIDs : e = Entry(id, RecSize[id])
    BY <2>1, UnsortedAssumption, FieldsAssumption DEF Entry, Known
  <2>2. CASE \E id \in VlsdIDs, n \in ValueLens : e = Entry(id, n)
    BY <2>2, UnsortedAssumption, FieldsAssumption DEF Entry, Known
  <2>3. CASE \E id \in AlienIDs : e = Entry(id, 1)
    BY <2>3, UnsortedAssumption, FieldsAssumption DEF Entry, Known
  <2> QED
    BY <2>1, <2>2, <2>3 DEF Entries
<1>4. \A n \in 1..m : l[n] \in Entries
  BY <1>1
<1>5. \A n \in 1..m : \A g \in DOMAIN PointsTo : Times(l, n, g) <= Times(l, n, PointsTo[g])
  BY <1>2 DEF Logs
<1> QED
  BY <1>2, <1>3, <1>4, <1>5

LEMMA ValueType ==
    ASSUME NEW l \in Logs, NEW n \in 1..Len(l)
    PROVE  /\ Value(l, n) \in Seq(Nat) /\ Len(Value(l, n)) = LenSize + l[n].len
           /\ \A i \in 1..LenSize : Value(l, n)[i] = Digits(l[n].len, LenSize)[i]
           /\ \A i \in 1..l[n].len : Value(l, n)[LenSize + i] = n
<1>1. l[n].len \in Nat /\ n \in Nat /\ LenSize = 4
  BY LogFacts DEF LenSize
<1>2. Digits(l[n].len, LenSize) \in Seq(Nat) /\ Len(Digits(l[n].len, LenSize)) = LenSize
  BY <1>1, DigitsType
<1> DEFINE t == [i \in 1..l[n].len |-> n]
<1>3. t \in Seq(Nat) /\ Len(t) = l[n].len /\ \A i \in 1..l[n].len : t[i] = n
  BY <1>1
<1> HIDE DEF t
<1>4. Value(l, n) = Digits(l[n].len, LenSize) \o t
  BY DEF Value, t
<1>5. PICK d : d = Digits(l[n].len, LenSize)
  OBVIOUS
<1>6. /\ d \o t \in Seq(Nat) /\ Len(d \o t) = Len(d) + Len(t)
      /\ \A i \in 1..Len(d) : (d \o t)[i] = d[i]
      /\ \A i \in 1..Len(t) : (d \o t)[Len(d) + i] = t[i]
  BY <1>2, <1>3, <1>5, JoinedParts
<1>11. Len(Value(l, n)) = LenSize + l[n].len /\ Value(l, n) \in Seq(Nat)
  BY <1>2, <1>3, <1>4, <1>5, <1>6
<1> QED
  BY <1>2, <1>3, <1>4, <1>5, <1>6, <1>11

(* The values of the VLSD group v before its k-th.                         *)
Earlier(l, v, k) ==
    [m \in 1..Len(l) |-> IF l[m].id = v /\ Times(l, m, v) < k THEN Value(l, m) ELSE <<>>]

LEMMA OffsetType ==
    ASSUME NEW l \in Logs, NEW n
    PROVE  /\ OffsetFor(l, n) = Len(FlattenSeq(Earlier(l, PointsTo[l[n].id], Times(l, n, l[n].id))))
           /\ OffsetFor(l, n) \in Nat
<1>1. PICK p : p = Earlier(l, PointsTo[l[n].id], Times(l, n, l[n].id))
  OBVIOUS
<1>2. \A m \in 1..Len(l) : Value(l, m) \in Seq(Nat) /\ <<>> \in Seq(Nat)
  BY ValueType
<1>3. p \in [1..Len(l) -> Seq(Nat)]
  BY <1>1, <1>2 DEF Earlier
<1>4. Len(l) \in Nat
  BY LogFacts
<1>5. Len(FlattenSeq(p)) \in Nat
  BY <1>3, <1>4, FlatType
<1>6. OffsetFor(l, n) = Len(FlattenSeq(p))
  BY <1>1, Zenon DEF OffsetFor, Earlier
<1> QED
  BY <1>1, <1>5, <1>6

BodySize(l, n) == l[n].len + (IF l[n].id \in VlsdIDs THEN LenSize ELSE 0)

LEMMA BodyType ==
    ASSUME NEW l \in Logs, NEW n \in 1..Len(l)
    PROVE  /\ Body(l, n) \in Seq(Nat) /\ Len(Body(l, n)) = BodySize(l, n)
           /\ BodySize(l, n) \in Nat
<1>1. l[n].len \in Nat /\ n \in Nat
  BY LogFacts
<1>2. CASE l[n].id \in VlsdIDs
  <2>1. Body(l, n) = Value(l, n)
    BY <1>2, Zenon DEF Body
  <2> QED
    BY <1>1, <1>2, <2>1, ValueType DEF BodySize, LenSize
<1>3. CASE l[n].id \notin VlsdIDs
  <2>1. Body(l, n) = [i \in 1..l[n].len |->
                IF i = 1 /\ l[n].id \in DOMAIN PointsTo THEN OffsetFor(l, n) ELSE n]
    BY <1>3, Zenon DEF Body
  <2>2. OffsetFor(l, n) \in Nat
    BY OffsetType
  <2>3. PICK o \in Nat : o = OffsetFor(l, n)
    BY <2>2
  <2>4. Body(l, n) \in [1..l[n].len -> Nat]
    BY <1>1, <2>1, <2>3
  <2> QED
    BY <1>1, <1>3, <2>4 DEF BodySize
<1> QED
  BY <1>2, <1>3

LEMMA RecordType ==
    ASSUME NEW l \in Logs, NEW n \in 1..Len(l)
    PROVE  /\ RawRecord(l, n) \in Seq(Nat)
           /\ Len(RawRecord(l, n)) = IdSize + BodySize(l, n)
           /\ \A i \in 1..IdSize : RawRecord(l, n)[i] = Digits(l[n].id, IdSize)[i]
           /\ \A i \in 1..BodySize(l, n) : RawRecord(l, n)[IdSize + i] = Body(l, n)[i]
<1>1. l[n].id \in Nat /\ IdSize \in Nat /\ BodySize(l, n) \in Nat
  BY LogFacts, BodyType, UnsortedAssumption
<1>2. PICK d, t : d = Digits(l[n].id, IdSize) /\ t = Body(l, n)
  OBVIOUS
<1>3. d \in Seq(Nat) /\ Len(d) = IdSize /\ t \in Seq(Nat) /\ Len(t) = BodySize(l, n)
  BY <1>1, <1>2, DigitsType, BodyType
<1>4. /\ d \o t \in Seq(Nat) /\ Len(d \o t) = Len(d) + Len(t)
      /\ \A i \in 1..Len(d) : (d \o t)[i] = d[i]
      /\ \A i \in 1..Len(t) : (d \o t)[Len(d) + i] = t[i]
  BY <1>3, JoinedParts
<1>5. RawRecord(l, n) = d \o t
  BY <1>2 DEF RawRecord
<1> QED
  BY <1>2, <1>3, <1>4, <1>5

(* One record more.                                                        *)
LEMMA RawGrows ==
    ASSUME NEW l \in Logs, NEW m \in 1..Len(l)
    PROVE  /\ Raw(l, m) = Raw(l, m - 1) \o RawRecord(l, m)
           /\ Raw(l, m) \in Seq(Nat) /\ Raw(l, m - 1) \in Seq(Nat)
           /\ Len(Raw(l, m)) = Len(Raw(l, m - 1)) + Len(RawRecord(l, m))
<1> DEFINE p == [n \in 1..m |-> RawRecord(l, n)]
           q == [n \in 1..(m - 1) |-> RawRecord(l, n)]
<1>1. Len(l) \in Nat /\ m \in Nat \ {0}
  BY LogFacts
<1>2. \A n \in 1..m : n \in 1..Len(l) /\ RawRecord(l, n) \in Seq(Nat)
  BY <1>1, RecordType
<1>3. p \in [1..m -> Seq(Nat)] /\ q \in [1..(m - 1) -> Seq(Nat)] /\ p[m] = RawRecord(l, m)
  BY <1>1, <1>2
<1>4. \A i \in 1..(m - 1) : q[i] = p[i]
  BY <1>1
<1>5. Raw(l, m) = FlattenSeq(p) /\ Raw(l, m - 1) = FlattenSeq(q)
  BY DEF Raw
<1> HIDE DEF p, q
<1>6. /\ FlattenSeq(q) \in Seq(Nat) /\ FlattenSeq(p) \in Seq(Nat)
      /\ FlattenSeq(p) = FlattenSeq(q) \o p[m]
  BY <1>1, <1>3, <1>4, FlatGrows
<1>7. RawRecord(l, m) \in Seq(Nat)
  BY RecordType
<1>8. Raw(l, m) = Raw(l, m - 1) \o RawRecord(l, m) /\ Raw(l, m) \in Seq(Nat) /\ Raw(l, m - 1) \in Seq(Nat)
  BY <1>3, <1>5, <1>6
<1>9. Len(Raw(l, m - 1) \o RawRecord(l, m)) = Len(Raw(l, m - 1)) + Len(RawRecord(l, m))
  BY <1>7, <1>8, Joined
<1> QED
  BY <1>8, <1>9

LEMMA RawNothing ==
    ASSUME NEW l
    PROVE  Raw(l, 0) = <<>>
<1> DEFINE p == [n \in 1..0 |-> RawRecord(l, n)]
<1>1. p \in [1..0 -> Seq(Nat)]
  OBVIOUS
<1>2. Raw(l, 0) = FlattenSeq(p)
  BY DEF Raw
<1> HIDE DEF p
<1> QED
  BY <1>1, <1>2, FlatNothing

(* The k-th record lies behind the ones before it, and a longer recording  *)
(* only adds to a shorter one.                                             *)
LEMMA RawPrefix ==
    ASSUME NEW l \in Logs, NEW n \in 0..Len(l)
    PROVE  /\ Raw(l, n) \in Seq(Nat) /\ Len(Raw(l, n)) \in Nat
           /\ \A m \in 0..n :
                 /\ Raw(l, m) \in Seq(Nat) /\ Len(Raw(l, m)) \in Nat
                 /\ Len(Raw(l, m)) <= Len(Raw(l, n))
                 /\ m < n => Len(Raw(l, m)) < Len(Raw(l, n))
                 /\ \A i \in 1..Len(Raw(l, m)) : Raw(l, n)[i] = Raw(l, m)[i]
<1> DEFINE Longer(k, m) ==
               /\ Raw(l, m) \in Seq(Nat) /\ Len(Raw(l, m)) \in Nat
               /\ Len(Raw(l, m)) <= Len(Raw(l, k))
               /\ m < k => Len(Raw(l, m)) < Len(Raw(l, k))
               /\ \A i \in 1..Len(Raw(l, m)) : Raw(l, k)[i] = Raw(l, m)[i]
           P == {k \in 0..Len(l) : \A m \in 0..k : Longer(k, m)}
<1>1. Len(l) \in Nat
  BY LogFacts
<1>2. 0 \in P
  <2>1. Raw(l, 0) = <<>>
    BY RawNothing
  <2>2. Raw(l, 0) \in Seq(Nat) /\ Len(Raw(l, 0)) = 0
    <3>1. <<>> \in Seq(Nat) /\ Len(<<>>) = 0
      OBVIOUS
    <3> QED
      BY <2>1, <3>1, Zenon
  <2>3. \A m \in 0..0 : m = 0
    OBVIOUS
  <2>4. Longer(0, 0)
    BY <2>2
  <2> HIDE DEF Longer
  <2> QED
    BY <1>1, <2>3, <2>4
<1>3. ASSUME NEW k \in 1..Len(l), k - 1 \in P PROVE k \in P
  <2>1. PICK r, a, b : r = RawRecord(l, k) /\ a = Raw(l, k - 1) /\ b = Raw(l, k)
    OBVIOUS
  <2>2. b = a \o r /\ a \in Seq(Nat) /\ b \in Seq(Nat) /\ Len(b) = Len(a) + Len(r)
    BY <2>1, RawGrows
  <2>3. r \in Seq(Nat) /\ Len(r) \in Nat /\ Len(r) > 0
    <3>1. r \in Seq(Nat) /\ Len(r) = IdSize + BodySize(l, k) /\ BodySize(l, k) \in Nat
      BY <2>1, RecordType, BodyType
    <3>2. IdSize \in Nat /\ IdSize > 0
      BY UnsortedAssumption
    <3> QED
      BY <3>1, <3>2
  <2>4. /\ \A i \in 1..Len(a) : b[i] = a[i]
        /\ Len(a) \in Nat /\ Len(b) \in Nat /\ Len(a) < Len(b)
    BY <2>2, <2>3, JoinedParts
  <2>5. ASSUME NEW m \in 0..k PROVE Longer(k, m)
    <3>1. CASE m = k
      <4>1. Raw(l, m) \in Seq(Nat) /\ Len(Raw(l, m)) \in Nat
        BY <2>1, <2>2, <2>4, <3>1
      <4>2. ~(m < k)
        BY <3>1
      <4>3. Len(Raw(l, m)) <= Len(Raw(l, m))
        BY <4>1
      <4> QED
        BY <3>1, <4>1, <4>2, <4>3
    <3>2. CASE m # k
      <4>1. m \in 0..(k - 1)
        BY <3>2
      <4>2. Longer(k - 1, m)
        BY <1>3, <4>1
      <4>3. PICK c : c = Raw(l, m)
        OBVIOUS
      <4>4. /\ c \in Seq(Nat) /\ Len(c) \in Nat /\ Len(c) <= Len(a)
            /\ \A i \in 1..Len(c) : a[i] = c[i]
        BY <2>1, <4>2, <4>3
      <4>5. Len(c) <= Len(b) /\ Len(c) < Len(b) /\ \A i \in 1..Len(c) : b[i] = c[i]
        BY <2>4, <4>4
      <4> QED
        BY <2>1, <4>3, <4>4, <4>5
    <3> QED
      BY <3>1, <3>2
  <2> HIDE DEF Longer
  <2> QED
    BY <1>1, <2>5
<1> HIDE DEF P
<1>4. \A k \in 0..Len(l) : k \in P
  BY <1>1, <1>2, <1>3, Climb
<1>5. \A m \in 0..n : Longer(n, m)
  <2> HIDE DEF Longer
  <2> QED
    BY <1>4 DEF P
<1>6. n \in 0..n
  BY <1>1
<1> QED
  BY <1>5, <1>6

LEMMA RecordAt ==
    ASSUME NEW l \in Logs, NEW m \in 1..Len(l), NEW i \in 1..Len(RawRecord(l, m))
    PROVE  /\ Len(Raw(l, m - 1)) + i \in 1..Len(Raw(l, m))
           /\ Raw(l, Len(l))[Len(Raw(l, m - 1)) + i] = RawRecord(l, m)[i]
<1>1. Len(l) \in Nat
  BY LogFacts
<1>2. PICK r, a, b : r = RawRecord(l, m) /\ a = Raw(l, m - 1) /\ b = Raw(l, m)
  OBVIOUS
<1>3. b = a \o r /\ a \in Seq(Nat) /\ r \in Seq(Nat) /\ Len(b) = Len(a) + Len(r)
  BY <1>2, RawGrows, RecordType
<1>4. b[Len(a) + i] = r[i] /\ Len(a) + i \in 1..Len(b)
  BY <1>2, <1>3, JoinedParts, LenProperties, SMTT(40)
<1>5. Len(l) \in 0..Len(l) /\ m \in 0..Len(l)
  BY <1>1
<1>6. \A j \in 1..Len(b) : Raw(l, Len(l))[j] = b[j]
  BY <1>2, <1>5, RawPrefix
<1> QED
  BY <1>2, <1>4, <1>6

-----------------------------------------------------------------------------
(* What the streams should hold.                                           *)

Piece(l, n, id) == IF l[n].id = id THEN Body(l, n) ELSE <<>>
Proj(l, m, id) == FlattenSeq([n \in 1..m |-> Piece(l, n, id)])

LEMMA ProjectionIs ==
    ASSUME NEW m, NEW id
    PROVE  Projection(m, id) = Proj(log, m, id)
  BY Zenon DEF Projection, Proj, Piece

LEMMA PieceType ==
    ASSUME NEW l \in Logs, NEW n \in 1..Len(l), NEW id
    PROVE  Piece(l, n, id) \in Seq(Nat)
<1>1. <<>> \in Seq(Nat) /\ Body(l, n) \in Seq(Nat)
  BY BodyType
<1> QED
  BY <1>1 DEF Piece

LEMMA ProjGrows ==
    ASSUME NEW l \in Logs, NEW m \in 1..Len(l), NEW id
    PROVE  /\ Proj(l, m, id) = Proj(l, m - 1, id) \o Piece(l, m, id)
           /\ Proj(l, m, id) \in Seq(Nat) /\ Proj(l, m - 1, id) \in Seq(Nat)
           /\ Len(Proj(l, m, id)) = Len(Proj(l, m - 1, id)) + Len(Piece(l, m, id))
<1> DEFINE p == [n \in 1..m |-> Piece(l, n, id)]
           q == [n \in 1..(m - 1) |-> Piece(l, n, id)]
<1>1. Len(l) \in Nat /\ m \in Nat \ {0}
  BY LogFacts
<1>2. \A n \in 1..m : n \in 1..Len(l) /\ Piece(l, n, id) \in Seq(Nat)
  BY <1>1, PieceType
<1>3. p \in [1..m -> Seq(Nat)] /\ q \in [1..(m - 1) -> Seq(Nat)] /\ p[m] = Piece(l, m, id)
  BY <1>1, <1>2
<1>4. \A i \in 1..(m - 1) : q[i] = p[i]
  BY <1>1
<1>5. Proj(l, m, id) = FlattenSeq(p) /\ Proj(l, m - 1, id) = FlattenSeq(q)
  BY DEF Proj
<1> HIDE DEF p, q
<1>6. /\ FlattenSeq(q) \in Seq(Nat) /\ FlattenSeq(p) \in Seq(Nat)
      /\ FlattenSeq(p) = FlattenSeq(q) \o p[m]
  BY <1>1, <1>3, <1>4, FlatGrows
<1>7. Piece(l, m, id) \in Seq(Nat)
  BY PieceType
<1>8. Proj(l, m, id) = Proj(l, m - 1, id) \o Piece(l, m, id) /\ Proj(l, m, id) \in Seq(Nat) /\ Proj(l, m - 1, id) \in Seq(Nat)
  BY <1>3, <1>5, <1>6
<1>9. Len(Proj(l, m - 1, id) \o Piece(l, m, id)) = Len(Proj(l, m - 1, id)) + Len(Piece(l, m, id))
  BY <1>7, <1>8, Joined
<1> QED
  BY <1>8, <1>9

LEMMA ProjNothing ==
    ASSUME NEW l, NEW id
    PROVE  Proj(l, 0, id) = <<>>
<1> DEFINE p == [n \in 1..0 |-> Piece(l, n, id)]
<1>1. p \in [1..0 -> Seq(Nat)]
  OBVIOUS
<1>2. Proj(l, 0, id) = FlattenSeq(p)
  BY DEF Proj
<1> HIDE DEF p
<1> QED
  BY <1>1, <1>2, FlatNothing

(* A stream only grows.                                                    *)
LEMMA ProjPrefix ==
    ASSUME NEW l \in Logs, NEW id, NEW n \in 0..Len(l)
    PROVE  /\ Proj(l, n, id) \in Seq(Nat) /\ Len(Proj(l, n, id)) \in Nat
           /\ \A m \in 0..n :
                 /\ Proj(l, m, id) \in Seq(Nat) /\ Len(Proj(l, m, id)) \in Nat
                 /\ Len(Proj(l, m, id)) <= Len(Proj(l, n, id))
                 /\ \A i \in 1..Len(Proj(l, m, id)) : Proj(l, n, id)[i] = Proj(l, m, id)[i]
<1> DEFINE Longer(k, m) ==
               /\ Proj(l, m, id) \in Seq(Nat) /\ Len(Proj(l, m, id)) \in Nat
               /\ Len(Proj(l, m, id)) <= Len(Proj(l, k, id))
               /\ \A i \in 1..Len(Proj(l, m, id)) : Proj(l, k, id)[i] = Proj(l, m, id)[i]
           P == {k \in 0..Len(l) : \A m \in 0..k : Longer(k, m)}
<1>1. Len(l) \in Nat
  BY LogFacts
<1>2. 0 \in P
  <2>1. Proj(l, 0, id) = <<>>
    BY ProjNothing
  <2>2. Proj(l, 0, id) \in Seq(Nat) /\ Len(Proj(l, 0, id)) = 0
    <3>1. <<>> \in Seq(Nat) /\ Len(<<>>) = 0
      OBVIOUS
    <3> QED
      BY <2>1, <3>1, Zenon
  <2>3. \A m \in 0..0 : m = 0
    OBVIOUS
  <2>4. Longer(0, 0)
    BY <2>2
  <2> HIDE DEF Longer
  <2> QED
    BY <1>1, <2>3, <2>4
<1>3. ASSUME NEW k \in 1..Len(l), k - 1 \in P PROVE k \in P
  <2>1. PICK r, a, b : r = Piece(l, k, id) /\ a = Proj(l, k - 1, id) /\ b = Proj(l, k, id)
    OBVIOUS
  <2>2. b = a \o r /\ a \in Seq(Nat) /\ b \in Seq(Nat) /\ Len(b) = Len(a) + Len(r)
    BY <2>1, ProjGrows
  <2>3. r \in Seq(Nat) /\ Len(r) \in Nat
    BY <2>1, PieceType, LenProperties
  <2>4. /\ \A i \in 1..Len(a) : b[i] = a[i]
        /\ Len(a) \in Nat /\ Len(b) \in Nat /\ Len(a) <= Len(b)
    BY <2>2, <2>3, JoinedParts, LenProperties
  <2>5. ASSUME NEW m \in 0..k PROVE Longer(k, m)
    <3>1. CASE m = k
      <4>1. Proj(l, m, id) \in Seq(Nat) /\ Len(Proj(l, m, id)) \in Nat
        BY <2>1, <2>2, <2>4, <3>1
      <4>2. Len(Proj(l, m, id)) <= Len(Proj(l, m, id))
        BY <4>1
      <4> QED
        BY <3>1, <4>1, <4>2
    <3>2. CASE m # k
      <4>1. m \in 0..(k - 1)
        BY <3>2
      <4>2. Longer(k - 1, m)
        BY <1>3, <4>1
      <4>3. PICK c : c = Proj(l, m, id)
        OBVIOUS
      <4>4. /\ c \in Seq(Nat) /\ Len(c) \in Nat /\ Len(c) <= Len(a)
            /\ \A i \in 1..Len(c) : a[i] = c[i]
        BY <2>1, <4>2, <4>3
      <4>5. Len(c) <= Len(b) /\ \A i \in 1..Len(c) : b[i] = c[i]
        BY <2>4, <4>4
      <4> QED
        BY <2>1, <4>3, <4>4, <4>5
    <3> QED
      BY <3>1, <3>2
  <2> HIDE DEF Longer
  <2> QED
    BY <1>1, <2>5
<1> HIDE DEF P
<1>4. \A k \in 0..Len(l) : k \in P
  BY <1>1, <1>2, <1>3, Climb
<1>5. \A m \in 0..n : Longer(n, m)
  <2> HIDE DEF Longer
  <2> QED
    BY <1>4 DEF P
<1>6. n \in 0..n
  BY <1>1
<1> QED
  BY <1>5, <1>6

LEMMA PieceAt ==
    ASSUME NEW l \in Logs, NEW n \in 0..Len(l), NEW m \in 1..n,
           NEW i \in 1..Len(Body(l, m))
    PROVE  /\ Len(Proj(l, m - 1, l[m].id)) + i \in 1..Len(Proj(l, n, l[m].id))
           /\ Proj(l, n, l[m].id)[Len(Proj(l, m - 1, l[m].id)) + i] = Body(l, m)[i]
<1>1. Len(l) \in Nat
  BY LogFacts
<1>2. PICK id, r, a, b : /\ id = l[m].id /\ r = Piece(l, m, id)
                         /\ a = Proj(l, m - 1, id) /\ b = Proj(l, m, id)
  OBVIOUS
<1>3. m \in 1..Len(l) /\ m \in 0..n
  BY <1>1
<1>4. b = a \o r /\ a \in Seq(Nat) /\ r \in Seq(Nat) /\ Len(b) = Len(a) + Len(r) /\ r = Body(l, m)
  BY <1>2, <1>3, ProjGrows, PieceType DEF Piece
<1>5. b[Len(a) + i] = r[i] /\ Len(a) + i \in 1..Len(b)
  BY <1>2, <1>4, JoinedParts, LenProperties
<1>6. /\ \A j \in 1..Len(b) : Proj(l, n, id)[j] = b[j]
      /\ Len(b) <= Len(Proj(l, n, id)) /\ Len(b) \in Nat /\ Len(Proj(l, n, id)) \in Nat
  BY <1>2, <1>3, ProjPrefix
<1>7. Proj(l, n, id)[Len(a) + i] = b[Len(a) + i] /\ Len(a) + i \in 1..Len(Proj(l, n, id))
  BY <1>5, <1>6
<1> QED
  BY <1>2, <1>4, <1>5, <1>7

-----------------------------------------------------------------------------
(* Steps of the pass.                                                      *)

(* The sizes the argument is about.                                        *)
LEMMA WholeFacts ==
    ASSUME log \in Logs
    PROVE  /\ Len(log) \in Nat /\ Whole(0) = 0
           /\ \A m \in 0..Len(log) : Whole(m) \in Nat
           /\ \A m, n \in 0..Len(log) : m < n => Whole(m) < Whole(n)
           /\ \A m \in 0..Len(log) : m < Len(log) =>
                 /\ m + 1 \in 1..Len(log) /\ BodySize(log, m + 1) \in Nat
                 /\ Whole(m + 1) = Whole(m) + IdSize + BodySize(log, m + 1)
           /\ IdSize \in Nat /\ IdSize > 0
<1>1. Len(log) \in Nat
  BY LogFacts
<1>2. Whole(0) = 0
  BY RawNothing DEF Whole
<1>3. \A n \in 0..Len(log) : Len(Raw(log, n)) \in Nat /\ \A m \in 0..n : m < n => Len(Raw(log, m)) < Len(Raw(log, n))
  BY RawPrefix
<1>4. \A m, n \in 0..Len(log) : m < n => Whole(m) < Whole(n)
  <2>1. \A m, n \in 0..Len(log) : m < n => m \in 0..n
    BY <1>1
  <2> QED
    BY <1>3, <2>1 DEF Whole
<1>5. ASSUME NEW m \in 0..Len(log), m < Len(log)
      PROVE  /\ m + 1 \in 1..Len(log) /\ BodySize(log, m + 1) \in Nat
             /\ Whole(m + 1) = Whole(m) + IdSize + BodySize(log, m + 1)
  <2>1. PICK k : k = m + 1
    OBVIOUS
  <2>2. k \in 1..Len(log) /\ k - 1 = m
    BY <1>1, <1>5, <2>1
  <2>3. Len(Raw(log, k)) = Len(Raw(log, m)) + Len(RawRecord(log, k))
    BY <2>2, RawGrows
  <2>4. Len(RawRecord(log, k)) = IdSize + BodySize(log, k) /\ BodySize(log, k) \in Nat
    BY <2>2, RecordType, BodyType
  <2>5. Len(Raw(log, m)) \in Nat /\ IdSize \in Nat
    BY <1>3, UnsortedAssumption
  <2> QED
    BY <2>1, <2>2, <2>3, <2>4, <2>5 DEF Whole
<1>6. IdSize \in Nat /\ IdSize > 0
  BY UnsortedAssumption
<1>7. \A m \in 0..Len(log) : Whole(m) \in Nat
  BY <1>3 DEF Whole
<1> QED
  BY <1>1, <1>2, <1>4, <1>5, <1>6, <1>7

(* Where the bytes of a record are in the section.                         *)
LEMMA InSection ==
    ASSUME FileInv, NEW m \in 0..Len(log), m < Len(log)
    PROVE  /\ \A i \in 1..IdSize : Whole(m) + i <= Len(section) =>
                 section[Whole(m) + i] = Digits(log[m + 1].id, IdSize)[i]
           /\ \A i \in 1..BodySize(log, m + 1) : Whole(m) + IdSize + i <= Len(section) =>
                 section[Whole(m) + IdSize + i] = Body(log, m + 1)[i]
<1>1. log \in Logs /\ Len(section) \in Nat /\ \A i \in 1..Len(section) : section[i] = Raw(log, Len(log))[i]
  BY LenProperties DEF FileInv
<1>2. PICK k, w : k = m + 1 /\ w = Whole(m)
  OBVIOUS
<1>3. /\ k \in 1..Len(log) /\ k - 1 = m /\ BodySize(log, k) \in Nat /\ IdSize \in Nat /\ w \in Nat
      /\ w = Len(Raw(log, k - 1))
  BY <1>1, <1>2, WholeFacts DEF Whole
<1>4. /\ Len(RawRecord(log, k)) = IdSize + BodySize(log, k)
      /\ \A i \in 1..IdSize : RawRecord(log, k)[i] = Digits(log[k].id, IdSize)[i]
      /\ \A i \in 1..BodySize(log, k) : RawRecord(log, k)[IdSize + i] = Body(log, k)[i]
  BY <1>1, <1>3, RecordType
<1>5. \A i \in 1..(IdSize + BodySize(log, k)) : Raw(log, Len(log))[w + i] = RawRecord(log, k)[i]
  BY <1>1, <1>3, <1>4, RecordAt
<1>6. \A i \in 1..(IdSize + BodySize(log, k)) : w + i <= Len(section) => section[w + i] = RawRecord(log, k)[i]
  <2> SUFFICES ASSUME NEW i \in 1..(IdSize + BodySize(log, k)), w + i <= Len(section)
               PROVE  section[w + i] = RawRecord(log, k)[i]
    OBVIOUS
  <2>1. w + i \in 1..Len(section)
    BY <1>1, <1>3
  <2> QED
    BY <1>1, <1>5, <2>1
<1>7. ASSUME NEW i \in 1..IdSize, w + i <= Len(section)
      PROVE  section[w + i] = Digits(log[k].id, IdSize)[i]
  <2>1. i \in 1..(IdSize + BodySize(log, k))
    BY <1>3
  <2> QED
    BY <1>4, <1>6, <1>7, <2>1
<1>8. ASSUME NEW i \in 1..BodySize(log, k), w + IdSize + i <= Len(section)
      PROVE  section[w + IdSize + i] = Body(log, k)[i]
  <2>1. PICK j : j = IdSize + i
    OBVIOUS
  <2>2. j \in 1..(IdSize + BodySize(log, k)) /\ w + j = w + IdSize + i
    BY <1>3, <2>1
  <2>3. section[w + j] = RawRecord(log, k)[j]
    BY <1>6, <1>8, <2>2
  <2> QED
    BY <1>4, <2>1, <2>2, <2>3
<1> QED
  BY <1>2, <1>7, <1>8

(* A run of a sequence's elements.                                         *)
LEMMA Cut ==
    ASSUME NEW b \in Seq(Nat), NEW at \in Nat, NEW n \in Nat, at + n <= Len(b)
    PROVE  /\ SubSeq(b, at + 1, at + n) \in Seq(Nat) /\ Len(SubSeq(b, at + 1, at + n)) = n
           /\ \A i \in 1..n : SubSeq(b, at + 1, at + n)[i] = b[at + i]
<1>1. PICK x, y : x = at + 1 /\ y = at + n
  OBVIOUS
<1>2. Len(b) \in Nat /\ x \in Int /\ y \in Int /\ y - x + 1 = n /\ (x <= y \/ n = 0) /\ (n = 0 => ~(x <= y))
  BY <1>1, LenProperties
<1>3. \A i \in x..y : i \in 1..Len(b)
  BY <1>1, <1>2
<1>4. \A i \in x..y : b[i] \in Nat
  BY <1>3, ElementOfSeq
<1>5. /\ SubSeq(b, x, y) \in Seq(Nat)
      /\ Len(SubSeq(b, x, y)) = IF x <= y THEN y - x + 1 ELSE 0
      /\ \A i \in 1..(y - x + 1) : SubSeq(b, x, y)[i] = b[x + i - 1]
  BY <1>2, <1>4, SubSeqProperties
<1>6. Len(SubSeq(b, x, y)) = n
  BY <1>2, <1>5
<1>7. \A i \in 1..n : SubSeq(b, x, y)[i] = b[at + i]
  <2>1. \A i \in 1..n : x + i - 1 = at + i
    BY <1>1
  <2> QED
    BY <1>2, <1>5, <2>1
<1> QED
  BY <1>1, <1>5, <1>6, <1>7

(* bufferedReader hands over the next bytes of the section.                *)
LEMMA DeliverOK ==
    ASSUME FileInv, ReaderInv, step # "error", NEW b \in Seq(Nat), NEW at \in Nat,
           at <= Len(b), src' \in 0..Len(section), Len(b) - at <= src',
           src' - (Len(b) - at) = Consumed,
           \A i \in (at + 1)..Len(b) : b[i] = section[src' - Len(b) + i],
           Deliver(b, at), step' = step, section' = section, want' = want
    PROVE  ReaderInv' /\ Start' = Start
<1>1. /\ want \in Nat /\ got \in Seq(Nat) /\ Len(got) \in Nat /\ Len(got) <= want
      /\ Len(got) <= Consumed
      /\ \A i \in 1..Len(got) : got[i] = section[Consumed - Len(got) + i]
  BY LenProperties DEF ReaderInv
<1>2. PICK n, t : /\ n = Smaller(want - Len(got), Len(b) - at) /\ t = SubSeq(b, at + 1, at + n)
                  /\ got' = got \o t /\ rbuf' = b /\ rpos' = at + n
  BY DEF Deliver
<1>3. Len(b) \in Nat /\ Len(section) \in Nat /\ src' \in Nat
  BY LenProperties DEF FileInv
<1>4. n \in Nat /\ n <= want - Len(got) /\ n <= Len(b) - at
  <2>1. PICK x, y : x = want - Len(got) /\ y = Len(b) - at
    OBVIOUS
  <2>2. x \in Nat /\ y \in Nat
    BY <1>1, <1>3, <2>1
  <2>3. n = IF x < y THEN x ELSE y
    BY <1>2, <2>1 DEF Smaller
  <2>4. n \in Nat /\ n <= x /\ n <= y
    BY <2>2, <2>3
  <2> QED
    BY <2>1, <2>4
<1>5. t \in Seq(Nat) /\ Len(t) = n /\ \A i \in 1..n : t[i] = b[at + i]
  <2>1. at + n <= Len(b)
    BY <1>3, <1>4
  <2> QED
    BY <1>2, <1>4, <2>1, Cut
<1>6. PICK c, g : c = Consumed /\ g = Len(got)
  OBVIOUS
<1>7. c \in Nat /\ g \in Nat /\ c = src' - (Len(b) - at) /\ g <= c /\ g + n <= want
  BY <1>1, <1>3, <1>4, <1>6
<1>8. /\ got' \in Seq(Nat) /\ Len(got') = g + n
      /\ \A i \in 1..g : got'[i] = got[i]
      /\ \A i \in 1..n : got'[g + i] = t[i]
  <2>1. PICK a : a = got'
    OBVIOUS
  <2>2. a = got \o t
    BY <1>2, <2>1
  <2>3. /\ a \in Seq(Nat) /\ Len(a) = Len(got) + Len(t)
        /\ \A i \in 1..Len(got) : a[i] = got[i]
        /\ \A i \in 1..Len(t) : a[Len(got) + i] = t[i]
    BY <1>1, <1>5, <2>2, JoinedParts, Zenon
  <2>4. /\ a \in Seq(Nat) /\ Len(a) = g + n
        /\ \A i \in 1..g : a[i] = got[i]
        /\ \A i \in 1..n : a[g + i] = t[i]
    BY <1>5, <1>6, <2>3, Zenon
  <2> QED
    BY <2>1, <2>4, Zenon
<1>9. Consumed' = c + n
  <2>1. Consumed' = src' - (Len(b) - (at + n))
    BY <1>2 DEF Consumed
  <2> QED
    BY <1>3, <1>4, <1>7, <2>1
<1>10. Start' = Start
  <2>1. Start' = (c + n) - (g + n) /\ Start = c - g
    BY <1>6, <1>8, <1>9 DEF Start
  <2> QED
    BY <1>4, <1>7, <2>1
<1>11. ASSUME NEW i \in 1..(g + n) PROVE got'[i] = section[c - g + i]
  <2>1. CASE i <= g
    <3>1. i \in 1..g
      BY <1>4, <1>7, <2>1
    <3>2. got'[i] = got[i] /\ got[i] = section[Consumed - Len(got) + i]
      BY <1>1, <1>6, <1>8, <3>1
    <3> QED
      BY <1>6, <3>2
  <2>2. CASE i > g
    <3>1. PICK j : j = i - g
      OBVIOUS
    <3>2. j \in 1..n /\ i = g + j
      BY <1>4, <1>7, <2>2, <3>1
    <3>3. got'[i] = b[at + j]
      BY <1>5, <1>8, <3>2
    <3>4. at + j \in (at + 1)..Len(b)
      BY <1>3, <1>4, <3>2, SMTT(40)
    <3>5. b[at + j] = section[src' - Len(b) + (at + j)]
      BY <3>4
    <3>6. src' - Len(b) + (at + j) = c - g + i
      BY <1>3, <1>7, <3>2, SMTT(40)
    <3> QED
      BY <3>3, <3>5, <3>6
  <2> QED
    BY <1>7, <2>1, <2>2
<1>12. /\ rpos' \in Nat /\ rpos' <= Len(rbuf') /\ Len(rbuf') - rpos' <= src'
       /\ \A i \in (rpos' + 1)..Len(rbuf') : rbuf'[i] = section[src' - Len(rbuf') + i]
  <2>1. PICK r : r = at + n
    OBVIOUS
  <2>2. r \in Nat /\ at <= r /\ r <= Len(b) /\ Len(b) - r <= src'
    BY <1>3, <1>4, <2>1
  <2>3. \A i \in (r + 1)..Len(b) : i \in (at + 1)..Len(b)
    BY <1>3, <2>2
  <2>4. \A i \in (r + 1)..Len(b) : b[i] = section[src' - Len(b) + i]
    BY <2>3
  <2>5. rpos' = r /\ rbuf' = b
    BY <1>2, <2>1
  <2> QED
    BY <2>2, <2>4, <2>5, Zenon
<1>13. \A i \in 1..Len(got') : got'[i] = section[Consumed' - Len(got') + i]
  <2>1. Consumed' - Len(got') = c - g
    BY <1>4, <1>7, <1>8, <1>9
  <2> QED
    BY <1>8, <1>11, <2>1
<1>14. Len(got') <= want /\ Len(got') <= Consumed'
  BY <1>1, <1>4, <1>6, <1>7, <1>8, <1>9
<1>15. rbuf' \in Seq(Nat)
  BY <1>2
<1> QED
  BY <1>1, <1>8, <1>10, <1>12, <1>13, <1>14, <1>15 DEF ReaderInv

(* A step that leaves the file alone.                                      *)
LEMMA FileStays ==
    ASSUME UNCHANGED filevars
    PROVE  /\ FileInv' <=> FileInv
           /\ \A m : Whole(m)' = Whole(m)
           /\ \A m, id : Projection(m, id)' = Projection(m, id)
           /\ Torn' <=> Torn
           /\ Alien' <=> Alien
<1>1. log' = log /\ section' = section /\ unfin' = unfin
  BY DEF filevars
<1>2. FileInv' <=> FileInv
  BY <1>1, Zenon DEF FileInv
<1>3. \A m : Whole(m)' = Whole(m)
  BY <1>1, Zenon DEF Whole
<1>4. \A m, id : Projection(m, id)' = Projection(m, id)
  BY <1>1, Zenon DEF Projection
<1>5. Torn' <=> Torn
  BY <1>1, <1>3, Zenon DEF Torn
<1>6. Alien' <=> Alien
  BY <1>1, Zenon DEF Alien
<1> QED
  BY <1>2, <1>3, <1>4, <1>5, <1>6

(* A read that leaves its place and its purpose alone.                     *)
LEMMA RecordStays ==
    ASSUME UNCHANGED <<filevars, step, want, pos, cur, bufs>>, Start' = Start,
           NEW m, InRecord(m)
    PROVE  InRecord(m)'
<1>1. log' = log /\ section' = section /\ unfin' = unfin /\ UNCHANGED filevars
  BY DEF filevars
<1>2. Whole(m)' = Whole(m) /\ \A id : Projection(m, id)' = Projection(m, id)
  BY <1>1, FileStays
<1>3. Taken(m)' <=> Taken(m)
  BY <1>2, Zenon DEF Taken
<1> QED
  BY <1>1, <1>2, <1>3, Zenon DEF InRecord

(* Sizes of the record that the pass is in.                                *)
LEMMA InRecordFacts ==
    ASSUME FileInv, ReaderInv, step \in {"id", "len", "body"},
           NEW m \in 0..Len(log), InRecord(m)
    PROVE  /\ m + 1 \in 1..Len(log) /\ m < Len(log)
           /\ Whole(m) \in Nat /\ Whole(m + 1) \in Nat /\ IdSize \in Nat
           /\ Whole(m) < Len(section) /\ Len(section) \in Nat
           /\ log[m + 1].len \in Nat /\ LenSize \in Nat /\ want \in Nat
           /\ Whole(m + 1) = Whole(m) + IdSize + BodySize(log, m + 1)
           /\ BodySize(log, m + 1) \in Nat
           /\ Start \in Nat /\ Start + want <= Whole(m + 1)
           /\ Consumed \in Nat /\ Consumed = Start + Len(got) /\ Consumed <= src
           /\ src <= Len(section) /\ src \in Nat
           /\ \A i \in 1..Len(got) : got[i] = section[Start + i]
<1>1. log \in Logs /\ section \in Seq(Nat) /\ Len(section) \in Nat
  BY LenProperties DEF FileInv
<1>2. m < Len(log) /\ Whole(m) < Len(section) /\ Len(log) \in Nat
  BY <1>1, WholeFacts DEF InRecord
<1>3. /\ m + 1 \in 1..Len(log) /\ BodySize(log, m + 1) \in Nat
      /\ Whole(m + 1) = Whole(m) + IdSize + BodySize(log, m + 1)
      /\ Whole(m) \in Nat /\ IdSize \in Nat
  BY <1>1, <1>2, WholeFacts
<1>4. log[m + 1].len \in Nat /\ LenSize = 4
  BY <1>1, <1>3, LogFacts DEF LenSize
<1>5. /\ src \in 0..Len(section) /\ rbuf \in Seq(Nat) /\ rpos \in Nat
      /\ want \in Nat /\ got \in Seq(Nat) /\ Len(rbuf) \in Nat /\ Len(got) \in Nat
      /\ rpos <= Len(rbuf) /\ Len(rbuf) - rpos <= src /\ Len(got) <= Consumed
      /\ \A i \in 1..Len(got) : got[i] = section[Consumed - Len(got) + i]
  BY LenProperties DEF ReaderInv
<1>6. Consumed \in Nat /\ Consumed <= src /\ src \in Nat /\ src <= Len(section)
  BY <1>1, <1>5 DEF Consumed
<1>7. Start \in Nat /\ Consumed = Start + Len(got)
  BY <1>5, <1>6 DEF Start
<1>8. \A i \in 1..Len(got) : got[i] = section[Start + i]
  BY <1>5 DEF Start
<1>9. Start + want <= Whole(m + 1)
  <2>1. CASE step = "id"
    <3>1. Start = Whole(m) /\ want = IdSize
      BY <2>1 DEF InRecord
    <3> QED
      BY <1>3, <3>1
  <2>2. CASE step = "len"
    <3>1. Start = Whole(m) + IdSize /\ want = LenSize /\ log[m + 1].id \in VlsdIDs
      BY <2>2 DEF InRecord
    <3>2. BodySize(log, m + 1) = log[m + 1].len + LenSize
      BY <3>1 DEF BodySize
    <3> QED
      BY <1>3, <1>4, <3>1, <3>2, SMTT(40)
  <2>3. CASE step = "body"
    <3>1. /\ Start = Whole(m) + IdSize + (IF log[m + 1].id \in VlsdIDs THEN LenSize ELSE 0)
          /\ want = log[m + 1].len
      BY <2>3 DEF InRecord
    <3>2. CASE log[m + 1].id \in VlsdIDs
      <4>1. BodySize(log, m + 1) = log[m + 1].len + LenSize
        BY <3>2 DEF BodySize
      <4> QED
        BY <1>3, <1>4, <3>1, <3>2, <4>1, SMTT(40)
    <3>3. CASE log[m + 1].id \notin VlsdIDs
      <4>1. BodySize(log, m + 1) = log[m + 1].len + 0
        BY <3>3 DEF BodySize
      <4> QED
        BY <1>3, <1>4, <3>1, <3>3, <4>1, SMTT(40)
    <3> QED
      BY <3>2, <3>3
  <2> QED
    BY <2>1, <2>2, <2>3
<1>10. Whole(m + 1) \in Nat
  BY <1>3
<1> QED
  BY <1>1, <1>2, <1>3, <1>4, <1>5, <1>6, <1>7, <1>8, <1>9, <1>10

(* A section that ends in a record.                                        *)
LEMMA TornThere ==
    ASSUME log \in Logs, Len(section) \in Nat, NEW m \in 0..Len(log), m < Len(log),
           Whole(m) < Len(section), Len(section) < Whole(m + 1)
    PROVE  Torn
<1>1. /\ Len(log) \in Nat /\ \A k \in 0..Len(log) : Whole(k) \in Nat
      /\ \A j, k \in 0..Len(log) : j < k => Whole(j) < Whole(k)
  BY WholeFacts
<1>2. ASSUME NEW k \in 0..Len(log), Len(section) = Whole(k) PROVE FALSE
  <2>1. m + 1 \in 0..Len(log)
    BY <1>1
  <2>2. CASE k < m
    <3>1. Whole(k) < Whole(m) /\ Whole(m) \in Nat /\ Whole(k) \in Nat
      BY <1>1, <2>2
    <3> QED
      BY <1>2, <3>1
  <2>3. CASE k = m
    BY <1>1, <1>2, <2>3
  <2>4. CASE k = m + 1
    BY <1>1, <1>2, <2>4
  <2>5. CASE k > m + 1
    <3>1. Whole(m + 1) < Whole(k) /\ Whole(m + 1) \in Nat /\ Whole(k) \in Nat
      BY <1>1, <2>1, <2>5
    <3> QED
      BY <1>2, <3>1
  <2> QED
    BY <1>1, <2>2, <2>3, <2>4, <2>5
<1> QED
  BY <1>2 DEF Torn

(* The pass begins with nothing done.                                      *)
LEMMA InitKeeps == Init => UInv
<1> SUFFICES ASSUME Init PROVE UInv
  OBVIOUS
<1>1. log \in Logs /\ unfin \in BOOLEAN
  BY DEF Init
<1>2. PICK all : all = Raw(log, Len(log))
  OBVIOUS
<1>3. Len(log) \in Nat /\ Len(log) \in 0..Len(log)
  <2>1. Len(log) \in Nat
    BY <1>1, LogFacts
  <2> QED
    BY <2>1
<1>4. all \in Seq(Nat) /\ Len(all) \in Nat
  BY <1>1, <1>2, <1>3, RawPrefix
<1>5. /\ section \in Seq(Nat) /\ Len(section) <= Len(all)
      /\ \A i \in 1..Len(section) : section[i] = all[i]
      /\ ~unfin => Len(section) = Len(all)
  <2>1. CASE ~unfin
    <3>1. section = all
      BY <1>2, <2>1 DEF Init
    <3> QED
      BY <1>4, <3>1
  <2>2. CASE unfin
    <3>1. PICK e : e = Max({0, Len(log) - 1})
      OBVIOUS
    <3>2. e \in {0, Len(log) - 1} /\ e >= 0
      <4>1. \E x \in {0, Len(log) - 1} : \A y \in {0, Len(log) - 1} : x >= y
        BY <1>3
      <4>2. e \in {0, Len(log) - 1} /\ \A y \in {0, Len(log) - 1} : e >= y
        BY <3>1, <4>1 DEF Max
      <4> QED
        BY <4>2
    <3>3. e \in 0..Len(log)
      BY <1>3, <3>2
    <3>4. Len(Raw(log, e)) \in Nat
      BY <1>1, <3>3, RawPrefix
    <3>5. PICK k \in Len(Raw(log, e))..Len(all) : section = SubSeq(all, 1, k)
      BY <1>2, <2>2, <3>1 DEF Init
    <3>6. k \in Nat /\ k <= Len(all) /\ 0 + 1 = 1 /\ 0 + k = k
      BY <1>4, <3>4
    <3>7. /\ SubSeq(all, 0 + 1, 0 + k) \in Seq(Nat) /\ Len(SubSeq(all, 0 + 1, 0 + k)) = k
          /\ \A i \in 1..k : SubSeq(all, 0 + 1, 0 + k)[i] = all[0 + i]
      BY <1>4, <3>6, Cut
    <3>8. \A i \in 1..k : 0 + i = i
      OBVIOUS
    <3>9. section \in Seq(Nat) /\ Len(section) = k /\ \A i \in 1..k : section[i] = all[i]
      BY <3>5, <3>6, <3>7, <3>8
    <3> QED
      BY <2>2, <3>6, <3>9
  <2> QED
    BY <2>1, <2>2
<1>6. FileInv
  BY <1>1, <1>2, <1>5 DEF FileInv
<1>7. /\ src = 0 /\ rbuf = <<>> /\ rpos = 0 /\ got = <<>> /\ pos = 0 /\ bufs = [id \in Known |-> <<>>]
      /\ IF section = <<>> THEN step = "done" /\ want = 0 ELSE step = "id" /\ want = IdSize
      /\ counts = [id \in GroupIDs \union ElemIDs |-> IF unfin THEN 0 ELSE Times(log, Len(log), id)]
  BY DEF Init
<1>8. IdSize \in Nat /\ Whole(0) = 0 /\ Len(section) \in Nat
  BY <1>1, <1>5, WholeFacts, LenProperties
<1>9. step \in {"id", "done"} /\ want \in Nat
  BY <1>7, <1>8
<1>10. Consumed = 0 /\ Start = 0
  <2>1. Len(rbuf) = 0 /\ Len(got) = 0 /\ src = 0 /\ rpos = 0
    BY <1>7
  <2> QED
    BY <2>1 DEF Consumed, Start
<1>11. ReaderInv
  BY <1>7, <1>8, <1>9, <1>10 DEF ReaderInv
<1>12. Taken(0)
  <2>1. \A id \in Known : Projection(0, id) = <<>>
    BY ProjectionIs, ProjNothing
  <2> QED
    BY <1>7, <2>1 DEF Taken
<1>13. PassInv
  <2>1. bufs \in [Known -> Seq(Nat)] /\ pos \in Nat /\ 0 \in 0..Len(log)
    BY <1>3, <1>7
  <2>2. CASE section = <<>>
    <3>1. step = "done" /\ Len(section) = 0
      BY <1>7, <2>2
    <3> QED
      BY <1>7, <1>8, <1>12, <2>1, <3>1 DEF PassInv
  <2>3. CASE section # <<>>
    <3>1. step = "id" /\ want = IdSize /\ Len(section) > 0
      BY <1>5, <1>7, <1>8, <2>3, EmptySeq
    <3>2. 0 < Len(log)
      <4>1. CASE Len(log) = 0
        <5>1. Len(all) = 0
          BY <1>2, <1>8, <4>1 DEF Whole
        <5> QED
          BY <1>4, <1>5, <1>8, <3>1, <5>1
      <4> QED
        BY <1>3, <4>1
    <3>3. InRecord(0)
      BY <1>7, <1>8, <1>10, <1>12, <3>1, <3>2 DEF InRecord
    <3> QED
      BY <2>1, <3>1, <3>3 DEF PassInv
  <2> QED
    BY <2>2, <2>3
<1>14. CountInv
  BY <1>7, <1>9 DEF CountInv
<1>15. NoFalseAlarm
  BY <1>9 DEF NoFalseAlarm
<1> QED
  BY <1>6, <1>11, <1>13, <1>14, <1>15 DEF UInv

(* io.ReadFull reads on, or fails.                                         *)
LEMMA ReadKeeps ==
    ASSUME UInv, Read
    PROVE  UInv'
<1>1. FileInv /\ ReaderInv /\ PassInv /\ CountInv /\ NoFalseAlarm
  BY DEF UInv
<1>2. /\ step \in {"id", "len", "body"} /\ Len(got) < want
      /\ UNCHANGED <<filevars, want, pos, cur, bufs, counts>>
  BY DEF Read
<1>3. log' = log /\ section' = section /\ unfin' = unfin /\ UNCHANGED filevars
  BY <1>2 DEF filevars
<1>4. FileInv' /\ (Torn' <=> Torn) /\ (Alien' <=> Alien)
  BY <1>1, <1>3, FileStays
<1>5. PICK m \in 0..Len(log) : InRecord(m)
  BY <1>1, <1>2 DEF PassInv
<1>6. /\ src \in 0..Len(section) /\ rbuf \in Seq(Nat) /\ rpos \in Nat
      /\ want \in Nat /\ got \in Seq(Nat) /\ Len(rbuf) \in Nat /\ Len(got) \in Nat
      /\ rpos <= Len(rbuf) /\ Len(rbuf) - rpos <= src
      /\ \A i \in (rpos + 1)..Len(rbuf) : rbuf[i] = section[src - Len(rbuf) + i]
  BY <1>1, <1>2, LenProperties DEF ReaderInv
<1>7. Len(section) \in Nat /\ section \in Seq(Nat) /\ log \in Logs
  BY <1>1, LenProperties DEF FileInv
<1>8. step # "error" /\ step # "open"
  BY <1>2
<1>9. ASSUME ReaderInv', Start' = Start, step' = step, failed' = failed PROVE UInv'
  <2>1. InRecord(m)'
    BY <1>2, <1>5, <1>9, RecordStays
  <2>2. PassInv'
    BY <1>1, <1>2, <1>3, <1>9, <2>1 DEF PassInv
  <2>3. CountInv'
    BY <1>1, <1>2, <1>3, <1>8, <1>9 DEF CountInv
  <2>4. NoFalseAlarm'
    BY <1>8, <1>9 DEF NoFalseAlarm
  <2> QED
    BY <1>4, <1>9, <2>2, <2>3, <2>4 DEF UInv
<1>10. CASE rpos < Len(rbuf) /\ Deliver(rbuf, rpos) /\ UNCHANGED <<step, src, failed>>
  <2>1. src' \in 0..Len(section) /\ Len(rbuf) - rpos <= src' /\ src' - (Len(rbuf) - rpos) = Consumed
    BY <1>6, <1>10 DEF Consumed
  <2>2. \A i \in (rpos + 1)..Len(rbuf) : rbuf[i] = section[src' - Len(rbuf) + i]
    BY <1>6, <1>10
  <2>3. ReaderInv' /\ Start' = Start
    BY <1>1, <1>2, <1>3, <1>6, <1>8, <1>10, <2>1, <2>2, DeliverOK
  <2> QED
    BY <1>9, <1>10, <2>3
<1>11. CASE /\ rpos >= Len(rbuf) /\ src < Len(section)
            /\ LET most == Smaller(BufCap, Len(section) - src)
               IN \E n \in (IF IoErrors THEN 1..most ELSE {most}) : Refill(n)
            /\ UNCHANGED <<step, failed>>
  <2>1. PICK most : most = Smaller(BufCap, Len(section) - src)
    OBVIOUS
  <2>2. PICK n \in (IF IoErrors THEN 1..most ELSE {most}) : Refill(n)
    BY <1>11, <2>1
  <2>3. most \in Nat /\ most <= Len(section) - src
    <3>1. BufCap \in Nat
      BY UnsortedAssumption
    <3>2. PICK x : x = Len(section) - src
      OBVIOUS
    <3>3. x \in Nat
      BY <1>6, <1>7, <1>11, <3>2
    <3>4. most = IF BufCap < x THEN BufCap ELSE x
      BY <2>1, <3>2 DEF Smaller
    <3>5. most \in Nat /\ most <= x
      BY <3>1, <3>3, <3>4
    <3> QED
      BY <3>2, <3>5
  <2>4. n \in Nat /\ n <= Len(section) - src
    BY <1>6, <1>7, <2>2, <2>3
  <2>5. PICK b : b = SubSeq(section, src + 1, src + n)
    OBVIOUS
  <2>6. b \in Seq(Nat) /\ Len(b) = n /\ \A i \in 1..n : b[i] = section[src + i]
    <3>1. src + n <= Len(section) /\ src \in Nat
      BY <1>6, <1>7, <2>4
    <3> QED
      BY <1>7, <2>4, <2>5, <3>1, Cut
  <2>7. src' = src + n /\ Deliver(b, 0)
    BY <2>2, <2>5 DEF Refill
  <2>8. /\ src' \in 0..Len(section) /\ Len(b) - 0 <= src' /\ src' - (Len(b) - 0) = Consumed
        /\ 0 <= Len(b) /\ 0 \in Nat
    <3>1. src \in Nat /\ src + n <= Len(section) /\ Len(rbuf) - rpos = 0
      BY <1>6, <1>7, <1>11, <2>4
    <3>2. Consumed = src - 0
      BY <3>1 DEF Consumed
    <3> QED
      BY <1>7, <2>4, <2>6, <2>7, <3>1, <3>2
  <2>9. \A i \in (0 + 1)..Len(b) : b[i] = section[src' - Len(b) + i]
    <3>1. src' - Len(b) = src
      BY <1>6, <2>4, <2>6, <2>7
    <3>2. (0 + 1)..Len(b) = 1..n
      BY <2>6
    <3> QED
      BY <2>6, <3>1, <3>2
  <2>10. ReaderInv' /\ Start' = Start
    BY <1>1, <1>2, <1>3, <1>8, <1>11, <2>6, <2>7, <2>8, <2>9, DeliverOK
  <2> QED
    BY <1>9, <1>11, <2>10
<1>12. CASE ReadFails
  <2>1. /\ rpos >= Len(rbuf) /\ step' = "error" /\ failed' = (src # Len(section))
        /\ rbuf' = StaleBuffer /\ src' = src /\ rpos' = rpos /\ got' = got
    BY <1>12 DEF ReadFails
  <2>2. StaleBuffer \in Seq(Nat)
    <3>1. BufCap \in Nat /\ DOMAIN rbuf = 1..Len(rbuf)
      BY <1>6, LenProperties, UnsortedAssumption
    <3>2. \A i \in DOMAIN rbuf : rbuf[i] \in Nat
      BY <1>6, <3>1, ElementOfSeq
    <3>3. StaleBuffer \in [1..BufCap -> Nat]
      BY <3>2 DEF StaleBuffer
    <3> QED
      BY <3>1, <3>3
  <2>3. ReaderInv'
    BY <1>2, <1>3, <1>6, <2>1, <2>2 DEF ReaderInv
  <2>4. PassInv'
    BY <1>1, <1>2, <2>1 DEF PassInv
  <2>5. CountInv'
    BY <1>1, <1>2, <1>3, <1>8, <2>1 DEF CountInv
  <2>6. failed' \/ Torn
    <3> SUFFICES ASSUME src = Len(section) PROVE Torn
      BY <2>1
    <3>1. /\ Whole(m) < Len(section) /\ m < Len(log) /\ Whole(m + 1) \in Nat /\ Start \in Nat
          /\ Start + want <= Whole(m + 1) /\ Consumed = Start + Len(got)
      BY <1>1, <1>2, <1>5, InRecordFacts
    <3>2. Consumed = Len(section)
      <4>1. Len(rbuf) - rpos = 0
        BY <1>6, <2>1
      <4>2. Consumed = Len(section) - 0
        BY <4>1 DEF Consumed
      <4> QED
        BY <1>7, <4>2
    <3>3. Len(section) < Whole(m + 1)
      BY <1>2, <1>6, <1>7, <3>1, <3>2
    <3> QED
      BY <1>7, <3>1, <3>3, TornThere
  <2>7. NoFalseAlarm'
    BY <1>4, <2>6 DEF NoFalseAlarm
  <2> QED
    BY <1>4, <2>3, <2>4, <2>5, <2>7 DEF UInv
<1> QED
  BY <1>10, <1>11, <1>12 DEF Read

(* The bytes got are the record's, from wherever ReadFull started in it.   *)
LEMMA GotIs ==
    ASSUME FileInv, ReaderInv, step \in {"id", "len", "body"},
           NEW m \in 0..Len(log), InRecord(m), Len(got) = want
    PROVE  /\ step = "id" => got = Digits(log[m + 1].id, IdSize)
           /\ step = "len" => got = Digits(log[m + 1].len, LenSize)
           /\ step = "body" /\ log[m + 1].id \in VlsdIDs =>
                 Value(log, m + 1) = Digits(log[m + 1].len, LenSize) \o got
           /\ step = "body" /\ log[m + 1].id \notin VlsdIDs => got = Body(log, m + 1)
<1>1. log \in Logs /\ section \in Seq(Nat) /\ got \in Seq(Nat)
  BY DEF FileInv, ReaderInv
<1>2. PICK k : k = m + 1
  OBVIOUS
<1>3. /\ k \in 1..Len(log) /\ m < Len(log) /\ Whole(m) \in Nat /\ IdSize \in Nat
      /\ Len(section) \in Nat /\ log[k].len \in Nat /\ LenSize \in Nat /\ want \in Nat
      /\ BodySize(log, k) \in Nat /\ Start \in Nat /\ Start + want <= Len(section)
      /\ \A i \in 1..want : got[i] = section[Start + i]
  <2>1. Start + want <= src /\ src <= Len(section) /\ src \in Nat
    BY InRecordFacts
  <2>2. /\ k \in 1..Len(log) /\ m < Len(log) /\ Whole(m) \in Nat /\ IdSize \in Nat
        /\ Len(section) \in Nat /\ log[k].len \in Nat /\ LenSize \in Nat /\ want \in Nat
        /\ BodySize(log, k) \in Nat /\ Start \in Nat
        /\ \A i \in 1..want : got[i] = section[Start + i]
    BY <1>2, InRecordFacts
  <2>3. Start \in Nat /\ want \in Nat /\ Len(section) \in Nat
    BY <2>2
  <2>4. Start + want <= Len(section)
    BY <2>1, <2>3
  <2> QED
    BY <2>2, <2>4, Zenon
<1>4. /\ \A i \in 1..IdSize : Whole(m) + i <= Len(section) =>
            section[Whole(m) + i] = Digits(log[k].id, IdSize)[i]
      /\ \A i \in 1..BodySize(log, k) : Whole(m) + IdSize + i <= Len(section) =>
            section[Whole(m) + IdSize + i] = Body(log, k)[i]
  BY <1>2, <1>3, InSection
<1>5. log[k].id \in Nat
  BY <1>1, <1>3, LogFacts
<1>6. ASSUME step = "id" PROVE got = Digits(log[k].id, IdSize)
  <2>1. Start = Whole(m) /\ want = IdSize
    BY <1>6 DEF InRecord
  <2>2. PICK d : d = Digits(log[k].id, IdSize)
    OBVIOUS
  <2>3. d \in Seq(Nat) /\ Len(d) = IdSize
    BY <1>3, <1>5, <2>2, DigitsType
  <2>4. \A i \in 1..IdSize : Whole(m) + i <= Len(section)
    BY <1>3, <2>1
  <2>5. \A i \in 1..IdSize : got[i] = d[i]
    BY <1>3, <1>4, <2>1, <2>2, <2>4
  <2>6. got = d
    BY <1>1, <2>1, <2>3, <2>5, SeqEqual
  <2> QED
    BY <2>2, <2>6
<1>7. ASSUME log[k].id \in VlsdIDs
      PROVE  /\ Body(log, k) = Value(log, k) /\ BodySize(log, k) = LenSize + log[k].len
             /\ Value(log, k) \in Seq(Nat) /\ Len(Value(log, k)) = LenSize + log[k].len
             /\ \A i \in 1..LenSize : Value(log, k)[i] = Digits(log[k].len, LenSize)[i]
             /\ \A i \in 1..log[k].len : Value(log, k)[LenSize + i] = k
             /\ Digits(log[k].len, LenSize) \in Seq(Nat)
             /\ Len(Digits(log[k].len, LenSize)) = LenSize
  <2>1. Body(log, k) = Value(log, k)
    BY <1>7, Zenon DEF Body
  <2>2. BodySize(log, k) = log[k].len + LenSize
    BY <1>7 DEF BodySize
  <2>3. BodySize(log, k) = LenSize + log[k].len
    BY <1>3, <2>2
  <2>4. /\ Value(log, k) \in Seq(Nat) /\ Len(Value(log, k)) = LenSize + log[k].len
        /\ \A i \in 1..LenSize : Value(log, k)[i] = Digits(log[k].len, LenSize)[i]
        /\ \A i \in 1..log[k].len : Value(log, k)[LenSize + i] = k
    BY <1>1, <1>3, ValueType, Zenon
  <2>5. Digits(log[k].len, LenSize) \in Seq(Nat) /\ Len(Digits(log[k].len, LenSize)) = LenSize
    BY <1>3, DigitsType, Zenon
  <2> QED
    BY <2>1, <2>3, <2>4, <2>5, Zenon
<1>8. ASSUME step = "len" PROVE got = Digits(log[k].len, LenSize)
  <2>1. Start = Whole(m) + IdSize /\ want = LenSize /\ log[k].id \in VlsdIDs
    BY <1>2, <1>8 DEF InRecord
  <2>2. PICK d : d = Digits(log[k].len, LenSize)
    OBVIOUS
  <2>3. d \in Seq(Nat) /\ Len(d) = LenSize
    BY <1>7, <2>1, <2>2
  <2>4. \A i \in 1..LenSize : Whole(m) + IdSize + i <= Len(section) /\ i \in 1..BodySize(log, k)
    <3>1. BodySize(log, k) = LenSize + log[k].len
      BY <1>7, <2>1
    <3>2. PICK z : z = BodySize(log, k)
      OBVIOUS
    <3>3. \A i \in 1..LenSize : i \in 1..z
      BY <1>3, <3>1, <3>2
    <3>4. \A i \in 1..LenSize : Whole(m) + IdSize + i <= Len(section)
      BY <1>3, <2>1
    <3> QED
      BY <3>2, <3>3, <3>4
  <2>5. \A i \in 1..LenSize : got[i] = d[i]
    BY <1>3, <1>4, <1>7, <2>1, <2>2, <2>4
  <2>6. got = d
    BY <1>1, <2>1, <2>3, <2>5, SeqEqual
  <2> QED
    BY <2>2, <2>6
<1>9. ASSUME step = "body", log[k].id \in VlsdIDs
      PROVE  Value(log, k) = Digits(log[k].len, LenSize) \o got
  <2>1. Start = Whole(m) + IdSize + LenSize /\ want = log[k].len
    BY <1>2, <1>9 DEF InRecord
  <2>2. PICK d, v, x : d = Digits(log[k].len, LenSize) /\ v = Value(log, k) /\ x = d \o got
    OBVIOUS
  <2>3. /\ d \in Seq(Nat) /\ Len(d) = LenSize /\ v \in Seq(Nat) /\ Len(v) = LenSize + want
        /\ \A i \in 1..LenSize : v[i] = d[i]
    BY <1>7, <1>9, <2>1, <2>2
  <2>4. ASSUME NEW i \in 1..want PROVE v[LenSize + i] = got[i]
    <3>1. PICK j : j = LenSize + i
      OBVIOUS
    <3>2. /\ j \in 1..BodySize(log, k) /\ Whole(m) + IdSize + j = Start + i
          /\ Whole(m) + IdSize + j <= Len(section)
      <4>1. BodySize(log, k) = LenSize + want
        BY <1>7, <1>9, <2>1
      <4>2. j \in 1..(LenSize + want) /\ j = LenSize + i
        BY <1>3, <3>1
      <4>3. Whole(m) + IdSize + j = Start + i
        BY <1>3, <2>1, <4>2
      <4>4. Start + i <= Len(section)
        BY <1>3
      <4> QED
        BY <4>1, <4>2, <4>3, <4>4
    <3>3. section[Whole(m) + IdSize + j] = v[j]
      BY <1>4, <1>7, <1>9, <2>2, <3>2
    <3> QED
      BY <1>3, <3>1, <3>2, <3>3
  <2>5. /\ x \in Seq(Nat) /\ Len(x) = LenSize + want
        /\ \A i \in 1..LenSize : x[i] = d[i]
        /\ \A i \in 1..want : x[LenSize + i] = got[i]
    <3>1. /\ d \o got \in Seq(Nat) /\ Len(d \o got) = Len(d) + Len(got)
          /\ \A i \in 1..Len(d) : (d \o got)[i] = d[i]
          /\ \A i \in 1..Len(got) : (d \o got)[Len(d) + i] = got[i]
      BY <1>1, <2>3, JoinedParts
    <3>2. x = d \o got /\ Len(d) = LenSize /\ Len(got) = want
      BY <2>2, <2>3
    <3> QED
      BY <3>1, <3>2, Zenon
  <2>6. ASSUME NEW i \in 1..Len(v) PROVE v[i] = x[i]
    <3>1. CASE i <= LenSize
      <4>1. i \in 1..LenSize
        BY <1>3, <2>3, <3>1
      <4> QED
        BY <2>3, <2>5, <4>1
    <3>2. CASE i > LenSize
      <4>1. PICK j : j = i - LenSize
        OBVIOUS
      <4>2. j \in 1..want /\ i = LenSize + j
        <5>1. i \in 1..(LenSize + want) /\ LenSize \in Nat /\ want \in Nat
          BY <1>3, <2>3
        <5> QED
          BY <3>2, <4>1, <5>1
      <4> QED
        BY <2>4, <2>5, <4>2
    <3> QED
      BY <1>3, <2>3, <3>1, <3>2
  <2>7. v = x
    BY <2>3, <2>5, <2>6, SeqEqual
  <2> QED
    BY <2>2, <2>7
<1>10. ASSUME step = "body", log[k].id \notin VlsdIDs PROVE got = Body(log, k)
  <2>1. Start = Whole(m) + IdSize + 0 /\ want = log[k].len
    BY <1>2, <1>10 DEF InRecord
  <2>2. BodySize(log, k) = log[k].len + 0
    BY <1>10 DEF BodySize
  <2>3. PICK d : d = Body(log, k)
    OBVIOUS
  <2>4. d \in Seq(Nat) /\ Len(d) = want
    BY <1>1, <1>3, <2>1, <2>2, <2>3, BodyType
  <2>5. \A i \in 1..want : Whole(m) + IdSize + i <= Len(section) /\ i \in 1..BodySize(log, k) /\ Start + i = Whole(m) + IdSize + i
    BY <1>3, <2>1, <2>2, SMTT(40)
  <2>6. \A i \in 1..want : got[i] = d[i]
    BY <1>3, <1>4, <2>3, <2>5
  <2>7. got = d
    BY <1>1, <2>4, <2>6, SeqEqual
  <2> QED
    BY <2>3, <2>7
<1> QED
  BY <1>2, <1>6, <1>8, <1>9, <1>10

(* The next read begins where the last one ended.                          *)
LEMMA Begins ==
    ASSUME ReaderInv, step # "error", UNCHANGED <<section, src, rbuf, rpos>>,
           got' = <<>>, want' \in Nat, step' # "error"
    PROVE  ReaderInv' /\ Start' = Consumed
<1>1. /\ src \in 0..Len(section) /\ rbuf \in Seq(Nat) /\ rpos \in Nat
      /\ Len(rbuf) \in Nat /\ got \in Seq(Nat) /\ Len(got) \in Nat
      /\ rpos <= Len(rbuf) /\ Len(rbuf) - rpos <= src
      /\ \A i \in (rpos + 1)..Len(rbuf) : rbuf[i] = section[src - Len(rbuf) + i]
  BY LenProperties DEF ReaderInv
<1>2. Consumed' = Consumed
  BY DEF Consumed
<1>3. Consumed \in Nat
  <2>1. PICK b : b = Len(rbuf) - rpos
    OBVIOUS
  <2>2. src \in Int /\ b \in Int /\ b <= src
    BY <1>1, <2>1
  <2>3. Consumed = src - b
    BY <2>1 DEF Consumed
  <2> QED
    BY <2>2, <2>3
<1>4. got' \in Seq(Nat) /\ Len(got') = 0
  OBVIOUS
<1>5. Start' = Consumed
  BY <1>2, <1>3, <1>4 DEF Start
<1>6. Len(got') <= want' /\ Len(got') <= Consumed' /\ \A i \in 1..Len(got') : got'[i] = section'[Consumed' - Len(got') + i]
  <2>1. 0 <= want' /\ 0 <= Consumed
    BY <1>3
  <2>2. \A i \in 1..0 : FALSE
    OBVIOUS
  <2> QED
    BY <1>2, <1>4, <2>1, <2>2
<1>7. /\ src' \in 0..Len(section') /\ rbuf' \in Seq(Nat) /\ rpos' \in Nat
      /\ rpos' <= Len(rbuf') /\ Len(rbuf') - rpos' <= src'
      /\ \A i \in (rpos' + 1)..Len(rbuf') : rbuf'[i] = section'[src' - Len(rbuf') + i]
  BY <1>1
<1> QED
  BY <1>4, <1>5, <1>6, <1>7 DEF ReaderInv

(* The record ID is the one recorded.                                      *)
LEMMA TakeIdKeeps ==
    ASSUME UInv, TakeId
    PROVE  UInv'
<1>1. FileInv /\ ReaderInv /\ PassInv /\ CountInv /\ NoFalseAlarm
  BY DEF UInv
<1>2. /\ step = "id" /\ Len(got) = want /\ pos' = pos + IdSize
      /\ UNCHANGED <<filevars, src, rbuf, rpos, bufs, counts, failed>>
  BY DEF TakeId
<1>3. log' = log /\ section' = section /\ unfin' = unfin /\ UNCHANGED filevars
  BY <1>2 DEF filevars
<1>4. /\ FileInv' /\ (Torn' <=> Torn) /\ (Alien' <=> Alien)
      /\ \A k : Whole(k)' = Whole(k)
      /\ \A k, id : Projection(k, id)' = Projection(k, id)
  BY <1>1, <1>3, FileStays
<1>5. PICK m \in 0..Len(log) : InRecord(m)
  BY <1>1, <1>2 DEF PassInv
<1>6. /\ pos = Whole(m) /\ want = IdSize /\ Start = pos /\ Taken(m)
      /\ m < Len(log) /\ Whole(m) < Len(section)
  BY <1>2, <1>5 DEF InRecord
<1>7. /\ m + 1 \in 1..Len(log) /\ IdSize \in Nat /\ LenSize \in Nat /\ Whole(m) \in Nat
      /\ Consumed = Start + Len(got)
  BY <1>1, <1>2, <1>5, InRecordFacts
<1>8. PICK k, id : k = m + 1 /\ id = log[k].id
  OBVIOUS
<1>9. /\ log \in Logs /\ k \in 1..Len(log) /\ id \in Known \union AlienIDs /\ id \in Nat
      /\ Fits(id, IdSize) /\ log[k].len \in Nat
      /\ id \in GroupIDs \union ElemIDs => log[k].len = RecSize[id]
  <2>1. log \in Logs
    BY <1>1 DEF FileInv
  <2> QED
    BY <1>7, <1>8, <2>1, LogFacts
<1>10. Number(got) = id
  <2>1. got = Digits(id, IdSize)
    BY <1>1, <1>2, <1>5, <1>8, GotIs
  <2> QED
    BY <1>7, <1>9, <2>1, NumberOfDigits
<1>11. Consumed = Whole(m) + IdSize /\ pos' = Whole(m) + IdSize
  BY <1>2, <1>6, <1>7
<1>12. bufs' \in [Known -> Seq(Nat)] /\ pos' \in Nat /\ Taken(m)'
  <2>1. bufs' \in [Known -> Seq(Nat)]
    BY <1>1, <1>2 DEF PassInv
  <2>2. pos' \in Nat
    BY <1>7, <1>11
  <2>3. Taken(m)'
    BY <1>2, <1>4, <1>6 DEF Taken
  <2> QED
    BY <2>1, <2>2, <2>3
<1>13. ASSUME step' # "open" PROVE CountInv'
  BY <1>1, <1>2, <1>3, <1>13 DEF CountInv
<1>14. CASE id \in Known
  <2>1. /\ cur' = id /\ got' = <<>>
        /\ id \in VlsdIDs => step' = "len" /\ want' = LenSize
        /\ id \notin VlsdIDs => step' = "body" /\ want' = RecSize[id]
    BY <1>10, <1>14 DEF TakeId, HasStream, Expect
  <2>2. step' \in {"len", "body"} /\ want' \in Nat
    <3>1. id \notin VlsdIDs => RecSize[id] = log[k].len
      BY <1>9, <1>14 DEF Known
    <3> QED
      BY <1>7, <1>9, <2>1, <3>1
  <2>3. ReaderInv' /\ Start' = Consumed
    BY <1>1, <1>2, <1>3, <2>1, <2>2, Begins
  <2>4. InRecord(m)'
    <3>1. /\ (m < Len(log) /\ Whole(m) < Len(section))'
          /\ step' # "id" /\ pos' = Whole(m)' + IdSize /\ cur' = log'[m + 1].id /\ cur' \in Known
      BY <1>3, <1>4, <1>6, <1>8, <1>11, <1>14, <2>1, <2>2
    <3>2. CASE id \in VlsdIDs
      <4>1. step' = "len" /\ want' = LenSize /\ Start' = pos' /\ cur' \in VlsdIDs
        BY <1>11, <2>1, <2>3, <3>2
      <4> QED
        BY <1>12, <3>1, <4>1 DEF InRecord
    <3>3. CASE id \notin VlsdIDs
      <4>1. step' = "body" /\ want' = log'[m + 1].len
        BY <1>3, <1>8, <1>9, <1>14, <2>1, <3>3 DEF Known
      <4>2. Start' = pos' + (IF cur' \in VlsdIDs THEN LenSize ELSE 0)
        BY <1>7, <1>11, <2>1, <2>3, <3>3
      <4>3. \A i \in Known :
               bufs'[i] = IF i = cur' /\ i \in VlsdIDs
                          THEN Projection(m, i)' \o Digits(log'[m + 1].len, LenSize)
                          ELSE Projection(m, i)'
        BY <1>12, <2>1, <3>3 DEF Taken
      <4> QED
        BY <3>1, <4>1, <4>2, <4>3 DEF InRecord
    <3> QED
      BY <3>2, <3>3
  <2>5. PassInv'
    BY <1>3, <1>12, <2>2, <2>4 DEF PassInv
  <2>6. NoFalseAlarm'
    BY <2>2 DEF NoFalseAlarm
  <2> QED
    BY <1>4, <1>13, <2>2, <2>3, <2>5, <2>6 DEF UInv
<1>15. CASE id \notin Known
  <2>1. step' = "error" /\ want' = want /\ got' = got
    BY <1>10, <1>15 DEF TakeId, HasStream
  <2>2. Alien
    <3>1. DOMAIN log = 1..Len(log)
      BY <1>9, LogFacts
    <3> QED
      BY <1>8, <1>9, <1>15, <3>1 DEF Alien
  <2>3. ReaderInv'
    BY <1>1, <1>2, <1>3, <2>1 DEF ReaderInv
  <2>4. PassInv'
    BY <1>12, <2>1 DEF PassInv
  <2>5. NoFalseAlarm'
    BY <1>4, <2>2 DEF NoFalseAlarm
  <2> QED
    BY <1>4, <1>13, <2>1, <2>3, <2>4, <2>5 DEF UInv
<1> QED
  BY <1>14, <1>15

(* The length is the one recorded, and stays in the stream.                *)
LEMMA TakeLenKeeps ==
    ASSUME UInv, TakeLen
    PROVE  UInv'
<1>1. FileInv /\ ReaderInv /\ PassInv /\ CountInv /\ NoFalseAlarm
  BY DEF UInv
<1>2. /\ step = "len" /\ Len(got) = want /\ bufs' = [bufs EXCEPT ![cur] = @ \o got]
      /\ step' = "body" /\ want' = Number(got) /\ got' = <<>>
      /\ UNCHANGED <<filevars, src, rbuf, rpos, pos, cur, counts, failed>>
  BY DEF TakeLen, Expect
<1>3. log' = log /\ section' = section /\ unfin' = unfin /\ UNCHANGED filevars
  BY <1>2 DEF filevars
<1>4. /\ FileInv'
      /\ \A k : Whole(k)' = Whole(k)
      /\ \A k, id : Projection(k, id)' = Projection(k, id)
  BY <1>1, <1>3, FileStays
<1>5. PICK m \in 0..Len(log) : InRecord(m)
  BY <1>1, <1>2 DEF PassInv
<1>6. PICK k, d : k = m + 1 /\ d = Digits(log[k].len, LenSize)
  OBVIOUS
<1>7. /\ pos = Whole(m) + IdSize /\ want = LenSize /\ Start = pos /\ Taken(m)
      /\ m < Len(log) /\ Whole(m) < Len(section)
      /\ cur = log[k].id /\ cur \in VlsdIDs /\ cur \in Known
  BY <1>2, <1>5, <1>6 DEF InRecord
<1>8. /\ k \in 1..Len(log) /\ IdSize \in Nat /\ LenSize \in Nat /\ Whole(m) \in Nat
      /\ Consumed = Start + Len(got) /\ log[k].len \in Nat
  BY <1>1, <1>2, <1>5, <1>6, InRecordFacts
<1>9. got = d
  BY <1>1, <1>2, <1>5, <1>6, GotIs
<1>10. Number(got) = log[k].len
  <2>1. Fits(log[k].len, LenSize)
    <3>1. log \in Logs
      BY <1>1 DEF FileInv
    <3> QED
      BY <1>7, <1>8, <3>1, LogFacts
  <2> QED
    BY <1>6, <1>8, <1>9, <2>1, NumberOfDigits
<1>11. ReaderInv' /\ Start' = Consumed
  BY <1>1, <1>2, <1>3, <1>8, <1>10, Begins
<1>12. bufs \in [Known -> Seq(Nat)] /\ got \in Seq(Nat)
  BY <1>1 DEF PassInv, ReaderInv
<1>13. /\ bufs' \in [Known -> Seq(Nat)] /\ bufs'[cur] = bufs[cur] \o got
       /\ \A id \in Known : id # cur => bufs'[id] = bufs[id]
  <2>1. bufs[cur] \o got \in Seq(Nat)
    BY <1>7, <1>12, Joined
  <2>2. PICK q : q = bufs[cur] \o got
    OBVIOUS
  <2>3. bufs' = [bufs EXCEPT ![cur] = q]
    BY <1>2, <2>2
  <2> QED
    BY <1>7, <1>12, <2>1, <2>2, <2>3
<1>14. InRecord(m)'
  <2>1. /\ (m < Len(log) /\ Whole(m) < Len(section))'
        /\ step' = "body" /\ pos' = Whole(m)' + IdSize /\ cur' = log'[m + 1].id /\ cur' \in Known
    BY <1>2, <1>3, <1>4, <1>6, <1>7
  <2>2. want' = log'[m + 1].len
    BY <1>2, <1>3, <1>6, <1>10
  <2>3. Start' = pos' + (IF cur' \in VlsdIDs THEN LenSize ELSE 0)
    BY <1>2, <1>7, <1>8, <1>11
  <2>4. ASSUME NEW i \in Known
        PROVE  bufs'[i] = IF i = cur' /\ i \in VlsdIDs
                          THEN Projection(m, i)' \o Digits(log'[m + 1].len, LenSize)
                          ELSE Projection(m, i)'
    <3>1. bufs[i] = Projection(m, i) /\ Projection(m, i)' = Projection(m, i)
      BY <1>4, <1>7 DEF Taken
    <3>2. Digits(log'[m + 1].len, LenSize) = got
      BY <1>3, <1>6, <1>9
    <3>3. cur' = cur
      BY <1>2
    <3> QED
      BY <1>7, <1>13, <3>1, <3>2, <3>3
  <2> QED
    BY <2>1, <2>2, <2>3, <2>4 DEF InRecord
<1>15. PassInv'
  <2>1. pos' \in Nat
    BY <1>1, <1>2 DEF PassInv
  <2> QED
    BY <1>2, <1>3, <1>13, <1>14, <2>1 DEF PassInv
<1>16. CountInv'
  BY <1>1, <1>2, <1>3 DEF CountInv
<1>17. NoFalseAlarm'
  BY <1>2 DEF NoFalseAlarm
<1> QED
  BY <1>4, <1>11, <1>15, <1>16, <1>17 DEF UInv

(* The stream of the record's ID has one record more, and no other has.    *)
LEMMA StreamsGrow ==
    ASSUME UInv, TakeBody, NEW m \in 0..Len(log), InRecord(m)
    PROVE  /\ bufs' \in [Known -> Seq(Nat)]
           /\ \A id \in Known : bufs'[id] = Projection(m + 1, id)
<1>1. FileInv /\ ReaderInv /\ PassInv
  BY DEF UInv
<1>2. step = "body" /\ Len(got) = want /\ bufs' = [bufs EXCEPT ![cur] = @ \o got]
  BY DEF TakeBody
<1>3. log \in Logs /\ bufs \in [Known -> Seq(Nat)] /\ got \in Seq(Nat)
  BY <1>1 DEF FileInv, PassInv, ReaderInv
<1>4. PICK k : k = m + 1
  OBVIOUS
<1>5. /\ cur = log[k].id /\ cur \in Known
      /\ \A id \in Known :
            bufs[id] = IF id = cur /\ id \in VlsdIDs
                       THEN Projection(m, id) \o Digits(log[k].len, LenSize)
                       ELSE Projection(m, id)
  BY <1>2, <1>4 DEF InRecord
<1>6. k \in 1..Len(log) /\ log[k].len \in Nat /\ LenSize \in Nat /\ k - 1 = m
  BY <1>1, <1>2, <1>4, InRecordFacts
<1>7. /\ bufs' \in [Known -> Seq(Nat)] /\ bufs'[cur] = bufs[cur] \o got
      /\ \A id \in Known : id # cur => bufs'[id] = bufs[id]
  <2>1. bufs[cur] \o got \in Seq(Nat)
    BY <1>3, <1>5, Joined
  <2>2. PICK q : q = bufs[cur] \o got
    OBVIOUS
  <2>3. bufs' = [bufs EXCEPT ![cur] = q]
    BY <1>2, <2>2
  <2> QED
    BY <1>3, <1>5, <2>1, <2>2, <2>3
<1>8. ASSUME NEW id \in Known PROVE bufs'[id] = Projection(k, id)
  <2>1. PICK p, q, r : p = Projection(m, id) /\ q = Projection(k, id) /\ r = Piece(log, k, id)
    OBVIOUS
  <2>2. q = p \o r /\ p \in Seq(Nat) /\ r \in Seq(Nat)
    BY <1>3, <1>6, <2>1, ProjectionIs, ProjGrows, PieceType
  <2>3. CASE id # cur
    <3>1. r = <<>>
      BY <1>5, <2>1, <2>3 DEF Piece
    <3>2. q = p
      BY <2>2, <3>1, ConcatEmptySeq
    <3> QED
      BY <1>5, <1>7, <2>1, <2>3, <3>2
  <2>4. CASE id = cur /\ cur \notin VlsdIDs
    <3>1. r = Body(log, k)
      BY <1>5, <2>1, <2>4 DEF Piece
    <3>2. got = Body(log, k)
      BY <1>1, <1>2, <1>4, <1>5, <2>4, GotIs
    <3>3. bufs[id] = p
      BY <1>5, <2>1, <2>4
    <3> QED
      BY <1>7, <2>1, <2>2, <2>4, <3>1, <3>2, <3>3
  <2>5. CASE id = cur /\ cur \in VlsdIDs
    <3>1. PICK d : d = Digits(log[k].len, LenSize)
      OBVIOUS
    <3>2. d \in Seq(Nat)
      BY <1>6, <3>1, DigitsType
    <3>3. r = Value(log, k)
      <4>1. r = Body(log, k)
        BY <1>5, <2>1, <2>5 DEF Piece
      <4>2. Body(log, k) = Value(log, k)
        BY <1>5, <2>5, Zenon DEF Body
      <4> QED
        BY <4>1, <4>2
    <3>4. Value(log, k) = d \o got
      BY <1>1, <1>2, <1>4, <1>5, <2>5, <3>1, GotIs
    <3>5. bufs[id] = p \o d
      BY <1>5, <2>1, <2>5, <3>1
    <3>6. (p \o d) \o got = p \o (d \o got)
      <4>1. p \in Seq(Nat) /\ d \in Seq(Nat) /\ got \in Seq(Nat)
        BY <1>3, <2>2, <3>2
      <4> QED
        BY <4>1, Reassociated
    <3> QED
      BY <1>7, <2>1, <2>2, <2>5, <3>3, <3>4, <3>5, <3>6
  <2> QED
    BY <2>3, <2>4, <2>5
<1> QED
  BY <1>4, <1>7, <1>8

LEMMA TakeBodyKeeps ==
    ASSUME UInv, TakeBody
    PROVE  UInv'
<1>1. FileInv /\ ReaderInv /\ PassInv /\ CountInv /\ NoFalseAlarm
  BY DEF UInv
<1>2. /\ step = "body" /\ Len(got) = want
      /\ pos' = pos + want + (IF cur \in VlsdIDs THEN LenSize ELSE 0) /\ Loop(pos')
      /\ UNCHANGED <<filevars, src, rbuf, rpos, cur, counts, failed>>
  BY DEF TakeBody
<1>3. log' = log /\ section' = section /\ unfin' = unfin /\ UNCHANGED filevars
  BY <1>2 DEF filevars
<1>4. /\ FileInv'
      /\ \A i : Whole(i)' = Whole(i)
      /\ \A i, id : Projection(i, id)' = Projection(i, id)
  BY <1>1, <1>3, FileStays
<1>5. PICK m \in 0..Len(log) : InRecord(m)
  BY <1>1, <1>2 DEF PassInv
<1>6. PICK k : k = m + 1
  OBVIOUS
<1>7. /\ pos = Whole(m) + IdSize /\ cur = log[k].id /\ want = log[k].len
      /\ Start = pos + (IF cur \in VlsdIDs THEN LenSize ELSE 0)
  BY <1>2, <1>5, <1>6 DEF InRecord
<1>8. /\ k \in 1..Len(log) /\ IdSize \in Nat /\ LenSize \in Nat /\ Whole(m) \in Nat
      /\ want \in Nat /\ Whole(k) \in Nat /\ Whole(k) = Whole(m) + IdSize + BodySize(log, k)
      /\ Consumed = Start + Len(got) /\ Consumed <= src /\ src <= Len(section) /\ src \in Nat
      /\ Len(section) \in Nat
  BY <1>1, <1>2, <1>5, <1>6, InRecordFacts
<1>9. pos' = Whole(k) /\ Consumed = Whole(k)
  <2>1. PICK x \in Nat : x = IF cur \in VlsdIDs THEN LenSize ELSE 0
    BY <1>8
  <2>2. BodySize(log, k) = want + x
    BY <1>7, <2>1 DEF BodySize
  <2>3. pos' = pos + want + x /\ Start = pos + x
    BY <1>2, <1>7, <2>1
  <2>4. Whole(k) = Whole(m) + IdSize + (want + x) /\ Consumed = (pos + x) + want
    BY <1>2, <1>8, <2>2, <2>3
  <2>5. pos = Whole(m) + IdSize /\ pos \in Nat
    <3>1. Whole(m) \in Nat /\ IdSize \in Nat
      BY <1>8, Zenon
    <3>2. pos = Whole(m) + IdSize
      BY <1>7, Zenon
    <3> QED
      BY <3>1, <3>2
  <2>6. Whole(k) = pos + (want + x)
    BY <2>4, <2>5
  <2>7. pos + want + x = pos + (want + x) /\ (pos + x) + want = pos + (want + x)
    BY <1>8, <2>5
  <2> QED
    BY <2>3, <2>4, <2>6, <2>7, Zenon
<1>10. /\ bufs' \in [Known -> Seq(Nat)] /\ Taken(k)'
  <2>1. bufs' \in [Known -> Seq(Nat)] /\ \A id \in Known : bufs'[id] = Projection(k, id)
    BY <1>5, <1>6, StreamsGrow
  <2> QED
    BY <1>4, <2>1 DEF Taken
<1>11. /\ got' = <<>>
       /\ pos' < Len(section) => step' = "id" /\ want' = IdSize
       /\ ~(pos' < Len(section)) => step' = "done" /\ want' = 0
  BY <1>2 DEF Loop, Expect
<1>12. step' \in {"id", "done"} /\ want' \in Nat
  BY <1>8, <1>11
<1>13. ReaderInv' /\ Start' = Consumed
  BY <1>1, <1>2, <1>3, <1>11, <1>12, Begins
<1>14. /\ Len(log) \in Nat /\ k \in 0..Len(log)
       /\ \A i, j \in 0..Len(log) : i < j => Whole(i) < Whole(j)
       /\ Len(section) <= Whole(Len(log)) /\ Whole(Len(log)) \in Nat
  <2>1. log \in Logs /\ Len(section) <= Whole(Len(log))
    BY <1>1 DEF FileInv, Whole
  <2>2. Len(log) \in Nat /\ \A i \in 0..Len(log) : Whole(i) \in Nat
    BY <2>1, WholeFacts
  <2>3. k \in 0..Len(log) /\ Len(log) \in 0..Len(log)
    BY <1>8, <2>2
  <2> QED
    BY <2>1, <2>2, <2>3, WholeFacts
<1>15. PassInv'
  <2>1. CASE pos' < Len(section)
    <3>1. step' = "id" /\ want' = IdSize
      BY <1>11, <2>1
    <3>2. k < Len(log)
      <4>1. CASE k = Len(log)
        BY <1>8, <1>9, <1>14, <2>1, <4>1
      <4> QED
        BY <1>14, <4>1
    <3>3. InRecord(k)'
      <4>1. (k < Len(log) /\ Whole(k) < Len(section))'
        BY <1>3, <1>4, <1>9, <2>1, <3>2
      <4>2. pos' = Whole(k)' /\ Start' = pos'
        BY <1>4, <1>9, <1>13
      <4> QED
        BY <1>10, <3>1, <4>1, <4>2 DEF InRecord
    <3>4. pos' \in Nat
      BY <1>8, <1>9
    <3> QED
      BY <1>3, <1>10, <1>14, <3>1, <3>3, <3>4 DEF PassInv
  <2>2. CASE ~(pos' < Len(section))
    <3>1. step' = "done"
      BY <1>11, <2>2
    <3>2. pos' = Len(section) /\ pos' \in Nat
      BY <1>8, <1>9, <2>2
    <3>3. pos' = Whole(k)' /\ pos' = Len(section')
      BY <1>3, <1>4, <1>9, <3>2
    <3> QED
      BY <1>3, <1>10, <1>14, <3>1, <3>2, <3>3 DEF PassInv
  <2> QED
    BY <2>1, <2>2
<1>16. CountInv'
  <2>1. step' # "open" /\ step # "open"
    BY <1>2, <1>12
  <2> QED
    BY <1>1, <1>2, <1>3, <2>1 DEF CountInv
<1>17. NoFalseAlarm'
  BY <1>12 DEF NoFalseAlarm
<1> QED
  BY <1>4, <1>13, <1>15, <1>16, <1>17 DEF UInv

LEMMA PublishKeeps ==
    ASSUME UInv, Publish
    PROVE  UInv'
<1>1. FileInv /\ ReaderInv /\ PassInv /\ CountInv /\ NoFalseAlarm
  BY DEF UInv
<1>2. /\ step = "done" /\ step' = "open" /\ counts' = IF unfin THEN FixedCounts ELSE counts
      /\ UNCHANGED <<filevars, src, rbuf, rpos, want, got, pos, cur, bufs, failed>>
  BY DEF Publish
<1>3. log' = log /\ section' = section /\ unfin' = unfin /\ UNCHANGED filevars
  BY <1>2 DEF filevars
<1>4. /\ FileInv'
      /\ \A i : Whole(i)' = Whole(i)
      /\ \A i, id : Projection(i, id)' = Projection(i, id)
  BY <1>1, <1>3, FileStays
<1>5. ReaderInv'
  <2>1. Consumed' = Consumed
    BY <1>2 DEF Consumed
  <2> QED
    BY <1>1, <1>2, <1>3, <2>1 DEF ReaderInv
<1>6. PICK m \in 0..Len(log) : pos = Whole(m) /\ pos = Len(section) /\ Taken(m)
  BY <1>1, <1>2 DEF PassInv
<1>7. Taken(m)'
  BY <1>2, <1>4, <1>6 DEF Taken
<1>8. PassInv'
  BY <1>1, <1>2, <1>3, <1>4, <1>6, <1>7 DEF PassInv
<1>9. CountInv'
  <2>1. counts = [id \in GroupIDs \union ElemIDs |-> IF unfin THEN 0 ELSE Times(log, Len(log), id)]
    BY <1>1, <1>2 DEF CountInv
  <2>2. ASSUME NEW g \in GroupIDs, RecSize[g] > 0
        PROVE  counts'[g] = IF unfin THEN Len(bufs[g]) \div RecSize[g] ELSE Times(log, Len(log), g)
    BY <1>2, <2>1, <2>2 DEF FixedCounts
  <2> QED
    BY <1>2, <1>3, <2>2 DEF CountInv
<1>10. NoFalseAlarm'
  BY <1>2 DEF NoFalseAlarm
<1> QED
  BY <1>4, <1>5, <1>8, <1>9, <1>10 DEF UInv

-----------------------------------------------------------------------------
(* deinterleave keeps to the recording: whatever a refill returns, the     *)
(* streams hold the first records and the reader is at the next one.       *)
THEOREM UnsortedInv == Spec => []UInv
<1>1. Init => UInv
  BY InitKeeps
<1>2. UInv /\ [Next]_vars => UInv'
  <2> SUFFICES ASSUME UInv, [Next]_vars PROVE UInv'
    OBVIOUS
  <2>1. CASE UNCHANGED vars
    <3>1. /\ UNCHANGED <<filevars, src, rbuf, rpos, step, want, got, pos, cur, bufs, counts, failed>>
      BY <2>1 DEF vars
    <3>2. UNCHANGED <<log, section, unfin>> /\ UNCHANGED filevars
      BY <3>1 DEF filevars
    <3>3. /\ FileInv' <=> FileInv
          /\ \A m : Whole(m)' = Whole(m)
          /\ \A m, id : Projection(m, id)' = Projection(m, id)
          /\ Torn' <=> Torn
          /\ Alien' <=> Alien
      BY <3>2, FileStays
    <3>4. Consumed' = Consumed
      BY <3>1 DEF Consumed
    <3>5. Start' = Start
      BY <3>1, <3>4 DEF Start
    <3>6. ReaderInv'
      BY <3>1, <3>2, <3>4 DEF UInv, ReaderInv
    <3>7. PassInv'
      <4>1. \A m : Taken(m)' <=> Taken(m)
        BY <3>1, <3>3 DEF Taken
      <4>2. \A m : InRecord(m) => InRecord(m)'
        BY <3>1, <3>5, RecordStays
      <4> QED
        BY <3>1, <3>2, <3>3, <4>1, <4>2 DEF UInv, PassInv
    <3>8. CountInv'
      BY <3>1, <3>2 DEF UInv, CountInv
    <3>9. NoFalseAlarm'
      BY <3>1, <3>3 DEF UInv, NoFalseAlarm
    <3> QED
      BY <3>3, <3>6, <3>7, <3>8, <3>9 DEF UInv
  <2>2. CASE Read
    BY <2>2, ReadKeeps
  <2>3. CASE TakeId
    BY <2>3, TakeIdKeeps
  <2>4. CASE TakeLen
    BY <2>4, TakeLenKeeps
  <2>5. CASE TakeBody
    BY <2>5, TakeBodyKeeps
  <2>6. CASE Publish
    BY <2>6, PublishKeeps
  <2> QED
    BY <2>1, <2>2, <2>3, <2>4, <2>5, <2>6 DEF Next
<1> QED
  BY <1>1, <1>2, PTL DEF Spec

(* deinterleave gives up only on a section that cannot be read, that ends  *)
(* inside a record, or that holds a record of an ID nothing declares.      *)
THEOREM AlarmsAreJustified == Spec => []NoFalseAlarm
<1>1. UInv => NoFalseAlarm
  BY DEF UInv
<1> QED
  BY <1>1, UnsortedInv, PTL

(* What the section holds up to the end of a record.                       *)
LEMMA SectionPrefix ==
    ASSUME FileInv, NEW m \in 0..Len(log), Whole(m) <= Len(section)
    PROVE  SubSeq(section, 1, Whole(m)) = Raw(log, m)
<1>1. log \in Logs /\ section \in Seq(Nat) /\ Len(section) \in Nat
  BY LenProperties DEF FileInv
<1>2. PICK w, r : w = Whole(m) /\ r = Raw(log, m)
  OBVIOUS
<1>3. Len(log) \in Nat /\ Len(log) \in 0..Len(log)
  <2>1. Len(log) \in Nat
    BY <1>1, LogFacts
  <2> QED
    BY <2>1
<1>4. /\ r \in Seq(Nat) /\ Len(r) = w /\ w \in Nat
      /\ \A i \in 1..w : Raw(log, Len(log))[i] = r[i]
  BY <1>1, <1>2, <1>3, RawPrefix DEF Whole
<1>5. \A i \in 1..w : i \in 1..Len(section)
  BY <1>1, <1>2, <1>4
<1>6. \A i \in 1..w : section[i] = r[i]
  BY <1>4, <1>5 DEF FileInv
<1>7. PICK s : s = SubSeq(section, 1, w)
  OBVIOUS
<1>8. s \in Seq(Nat) /\ Len(s) = w /\ \A i \in 1..w : s[i] = section[i]
  <2>1. 0 + 1 = 1 /\ 0 + w = w /\ 0 + w <= Len(section) /\ \A i \in 1..w : 0 + i = i
    BY <1>2, <1>4
  <2>2. /\ SubSeq(section, 0 + 1, 0 + w) \in Seq(Nat) /\ Len(SubSeq(section, 0 + 1, 0 + w)) = w
        /\ \A i \in 1..w : SubSeq(section, 0 + 1, 0 + w)[i] = section[0 + i]
    BY <1>1, <1>4, <2>1, Cut
  <2> QED
    BY <1>7, <2>1, <2>2
<1>9. s = r
  BY <1>4, <1>6, <1>8, SeqEqual
<1> QED
  BY <1>2, <1>7, <1>9

(* Between two rounds of deinterleave's loop, and when the streams are in  *)
(* use, they are the projections of the records consumed.                  *)
THEOREM StreamsAreRight == Spec => []StreamsAreProjections
<1>1. ASSUME UInv PROVE StreamsAreProjections
  <2>1. FileInv /\ ReaderInv /\ PassInv
    BY <1>1 DEF UInv
  <2>2. log \in Logs /\ Len(section) \in Nat /\ \A m \in 0..Len(log) : Whole(m) \in Nat
    BY <2>1, LenProperties, WholeFacts DEF FileInv
  <2>3. CASE step = "id"
    <3>1. PICK m \in 0..Len(log) : InRecord(m)
      BY <2>1, <2>3 DEF PassInv
    <3>2. pos = Whole(m) /\ Whole(m) < Len(section) /\ Taken(m)
      BY <2>3, <3>1 DEF InRecord
    <3>3. Whole(m) <= Len(section)
      BY <2>2, <3>2
    <3>4. SubSeq(section, 1, pos) = Raw(log, m)
      BY <2>1, <3>2, <3>3, SectionPrefix
    <3> QED
      BY <2>3, <3>2, <3>4 DEF StreamsAreProjections, Taken
  <2>4. CASE step \in {"done", "open"}
    <3>1. PICK m \in 0..Len(log) : pos = Whole(m) /\ pos = Len(section) /\ Taken(m)
      BY <2>1, <2>4 DEF PassInv
    <3>2. Whole(m) <= Len(section)
      BY <2>2, <3>1
    <3>3. SubSeq(section, 1, pos) = Raw(log, m)
      BY <2>1, <3>1, <3>2, SectionPrefix
    <3> QED
      BY <2>4, <3>1, <3>3 DEF StreamsAreProjections, Taken
  <2> QED
    BY <2>3, <2>4 DEF StreamsAreProjections
<1> QED
  BY <1>1, UnsortedInv, PTL

-----------------------------------------------------------------------------
(* Counting records.                                                       *)

LEMMA TimesGrows ==
    ASSUME NEW l, NEW id
    PROVE  /\ Times(l, 0, id) = 0
           /\ \A m \in Nat : Times(l, m, id) \in Nat
           /\ \A m \in Nat \ {0} :
                 Times(l, m, id) = Times(l, m - 1, id) + (IF l[m].id = id THEN 1 ELSE 0)
<1> DEFINE S(m) == {n \in 1..m : l[n].id = id}
<1>1. \A m \in Nat : IsFiniteSet(S(m)) /\ Cardinality(S(m)) \in Nat
  <2> SUFFICES ASSUME NEW m \in Nat PROVE IsFiniteSet(S(m)) /\ Cardinality(S(m)) \in Nat
    OBVIOUS
  <2>1. IsFiniteSet(1..m)
    BY FS_Interval
  <2>2. S(m) \in SUBSET (1..m)
    OBVIOUS
  <2>3. IsFiniteSet(S(m))
    <3> HIDE DEF S
    <3> QED
      BY <2>1, <2>2, FS_Subset
  <2> HIDE DEF S
  <2> QED
    BY <2>3, FS_CardinalityType
<1>2. S(0) = {}
  OBVIOUS
<1>3. ASSUME NEW m \in Nat \ {0}
      PROVE  Cardinality(S(m)) = Cardinality(S(m - 1)) + (IF l[m].id = id THEN 1 ELSE 0)
  <2>1. m - 1 \in Nat
    OBVIOUS
  <2>2. CASE l[m].id = id
    <3>1. S(m) = S(m - 1) \cup {m} /\ m \notin S(m - 1)
      BY <2>2
    <3> HIDE DEF S
    <3>2. IsFiniteSet(S(m - 1)) /\ Cardinality(S(m - 1)) \in Nat
      BY <1>1, <2>1
    <3>3. Cardinality(S(m - 1) \cup {m}) = Cardinality(S(m - 1)) + 1
      BY <3>1, <3>2, FS_AddElement
    <3> QED
      BY <2>2, <3>1, <3>3
  <2>3. CASE l[m].id # id
    <3>1. S(m) = S(m - 1)
      BY <2>3
    <3> HIDE DEF S
    <3> QED
      BY <1>1, <2>1, <2>3, <3>1
  <2> QED
    BY <2>2, <2>3
<1>4. \A m : Times(l, m, id) = Cardinality(S(m))
  BY DEF Times
<1> HIDE DEF S
<1> QED
  BY <1>1, <1>2, <1>3, <1>4, FS_EmptySet

(* Counts only grow, and grow at each record of the group.                 *)
LEMMA TimesMonotone ==
    ASSUME NEW l, NEW id, NEW n \in Nat
    PROVE  \A m \in 0..n :
               /\ Times(l, m, id) <= Times(l, n, id)
               /\ m < n /\ l[n].id = id => Times(l, m, id) < Times(l, n, id)
<1> DEFINE P == {k \in 0..n : \A m \in 0..k : Times(l, m, id) <= Times(l, k, id)}
<1>1. \A m \in 0..n : Times(l, m, id) \in Nat
  <2>1. \A m \in Nat : Times(l, m, id) \in Nat
    BY TimesGrows
  <2> QED
    BY <2>1
<1>2. 0 \in P
  BY <1>1
<1>3. \A k \in 1..n : /\ k \in Nat \ {0} /\ k - 1 \in 0..n /\ k \in 0..n
                      /\ Times(l, k - 1, id) <= Times(l, k, id)
                      /\ l[k].id = id => Times(l, k - 1, id) < Times(l, k, id)
  <2> SUFFICES ASSUME NEW k \in 1..n
               PROVE  /\ k \in Nat \ {0} /\ k - 1 \in 0..n /\ k \in 0..n
                      /\ Times(l, k - 1, id) <= Times(l, k, id)
                      /\ l[k].id = id => Times(l, k - 1, id) < Times(l, k, id)
    OBVIOUS
  <2>1. k \in Nat \ {0} /\ k - 1 \in 0..n /\ k \in 0..n
    OBVIOUS
  <2>2. Times(l, k, id) = Times(l, k - 1, id) + (IF l[k].id = id THEN 1 ELSE 0)
    BY <2>1, TimesGrows
  <2>3. Times(l, k, id) \in Nat /\ Times(l, k - 1, id) \in Nat
    BY <1>1, <2>1
  <2> QED
    BY <2>1, <2>2, <2>3
<1>4. ASSUME NEW k \in 1..n, k - 1 \in P PROVE k \in P
  <2>1. ASSUME NEW m \in 0..k PROVE Times(l, m, id) <= Times(l, k, id)
    <3>1. CASE m = k
      BY <1>1, <3>1
    <3>2. CASE m # k
      <4>1. m \in 0..(k - 1) /\ m \in 0..n
        BY <3>2
      <4>2. Times(l, m, id) <= Times(l, k - 1, id)
        BY <1>4, <4>1
      <4> QED
        BY <1>1, <1>3, <4>1, <4>2
    <3> QED
      BY <3>1, <3>2
  <2> QED
    BY <2>1
<1> HIDE DEF P
<1>5. \A k \in 0..n : k \in P
  BY <1>2, <1>4, Climb
<1>6. \A k \in 0..n : \A m \in 0..k : Times(l, m, id) <= Times(l, k, id)
  BY <1>5 DEF P
<1>7. ASSUME NEW m \in 0..n, m < n, l[n].id = id PROVE Times(l, m, id) < Times(l, n, id)
  <2>1. n \in 1..n /\ m \in 0..(n - 1) /\ n - 1 \in 0..n
    BY <1>7
  <2>2. Times(l, m, id) <= Times(l, n - 1, id) /\ Times(l, n - 1, id) < Times(l, n, id)
    BY <1>3, <1>6, <1>7, <2>1
  <2>3. Times(l, m, id) \in Nat /\ Times(l, n - 1, id) \in Nat /\ Times(l, n, id) \in Nat
    BY <1>1, <2>1
  <2> QED
    BY <2>2, <2>3
<1>8. n \in 0..n
  OBVIOUS
<1> QED
  BY <1>6, <1>7, <1>8

(* A group's stream is as long as its records together.                    *)
LEMMA StreamLength ==
    ASSUME NEW l \in Logs, NEW g \in GroupIDs
    PROVE  \A m \in 0..Len(l) : Len(Proj(l, m, g)) = Times(l, m, g) * RecSize[g]
<1> DEFINE P == {m \in 0..Len(l) : Len(Proj(l, m, g)) = Times(l, m, g) * RecSize[g]}
<1>1. Len(l) \in Nat /\ RecSize[g] \in Nat /\ g \notin VlsdIDs
  BY LogFacts, UnsortedAssumption
<1>2. 0 \in P
  <2>1. Proj(l, 0, g) = <<>> /\ Times(l, 0, g) = 0
    BY ProjNothing, TimesGrows
  <2>2. Len(Proj(l, 0, g)) = 0
    BY <2>1
  <2> QED
    BY <1>1, <2>1, <2>2
<1>3. ASSUME NEW m \in 1..Len(l), m - 1 \in P PROVE m \in P
  <2>1. PICK t, r, x : t = Times(l, m - 1, g) /\ r = RecSize[g] /\ x = Len(Piece(l, m, g))
    OBVIOUS
  <2>2. m \in Nat \ {0} /\ m - 1 \in Nat /\ m \in 0..Len(l)
    BY <1>1
  <2>3. t \in Nat /\ r \in Nat /\ Times(l, m, g) = t + (IF l[m].id = g THEN 1 ELSE 0)
    BY <1>1, <2>1, <2>2, TimesGrows
  <2>4. Len(Proj(l, m, g)) = t * r + x
    <3>1. Len(Proj(l, m - 1, g)) = t * r
      BY <1>3, <2>1
    <3>2. Len(Proj(l, m, g)) = Len(Proj(l, m - 1, g)) + x
      BY <2>1, ProjGrows
    <3> QED
      BY <3>1, <3>2
  <2>5. CASE l[m].id = g
    <3>1. x = r
      <4>1. Len(Body(l, m)) = BodySize(l, m) /\ l[m].len = RecSize[g] /\ Piece(l, m, g) = Body(l, m)
        BY <2>5, BodyType, LogFacts DEF Piece
      <4>2. BodySize(l, m) = l[m].len + 0
        BY <1>1, <2>5 DEF BodySize
      <4> QED
        BY <1>1, <2>1, <4>1, <4>2
    <3>2. t * r + r = (t + 1) * r
      BY <2>3
    <3>3. Times(l, m, g) = t + 1
      BY <2>3, <2>5
    <3> QED
      BY <2>1, <2>2, <2>4, <3>1, <3>2, <3>3
  <2>6. CASE l[m].id # g
    <3>1. x = 0
      BY <2>1, <2>6 DEF Piece
    <3>2. Times(l, m, g) = t
      BY <2>3, <2>6
    <3>3. t * r \in Nat
      BY <2>3
    <3> QED
      BY <2>1, <2>2, <2>4, <3>1, <3>2, <3>3
  <2> QED
    BY <2>5, <2>6
<1> HIDE DEF P
<1>4. \A m \in 0..Len(l) : m \in P
  BY <1>1, <1>2, <1>3, Climb
<1> QED
  BY <1>4 DEF P

(* Whole records in the section are the ones that were taken.              *)
LEMMA RecordedIs ==
    ASSUME FileInv, NEW m \in 0..Len(log), Whole(m) = Len(section), NEW g
    PROVE  /\ Recorded(g) = Times(log, m, g)
           /\ \A n \in DOMAIN log : Whole(n) <= Len(section) => n \in 1..m
           /\ ~unfin => m = Len(log)
<1>1. log \in Logs
  BY DEF FileInv
<1>2. /\ Len(log) \in Nat /\ DOMAIN log = 1..Len(log)
      /\ \A n \in 0..Len(log) : Whole(n) \in Nat
      /\ \A i, n \in 0..Len(log) : i < n => Whole(i) < Whole(n)
  BY <1>1, WholeFacts, LogFacts
<1>3. \A n \in DOMAIN log : Whole(n) <= Len(section) <=> n \in 1..m
  <2> SUFFICES ASSUME NEW n \in 1..Len(log) PROVE Whole(n) <= Whole(m) <=> n \in 1..m
    BY <1>2
  <2>1. n \in 0..Len(log) /\ Whole(n) \in Nat /\ Whole(m) \in Nat
    BY <1>2
  <2>2. CASE n <= m
    <3>1. CASE n = m
      BY <2>1, <2>2, <3>1
    <3>2. CASE n < m
      <4>1. Whole(n) < Whole(m)
        BY <1>2, <2>1, <3>2
      <4> QED
        BY <2>1, <3>2, <4>1
    <3> QED
      BY <2>1, <2>2, <3>1, <3>2
  <2>3. CASE n > m
    <3>1. Whole(m) < Whole(n)
      BY <1>2, <2>1, <2>3
    <3> QED
      BY <2>1, <2>3, <3>1
  <2> QED
    BY <1>2, <2>2, <2>3
<1>4. {n \in DOMAIN log : log[n].id = g /\ Whole(n) <= Len(section)} = {n \in 1..m : log[n].id = g}
  <2>1. \A n \in 1..m : n \in DOMAIN log
    BY <1>2
  <2> QED
    BY <1>3, <2>1
<1>5. Recorded(g) = Times(log, m, g)
  BY <1>4 DEF Recorded, Times
<1>6. ASSUME ~unfin PROVE m = Len(log)
  <2>1. Len(section) = Whole(Len(log))
    BY <1>6 DEF FileInv, Whole
  <2>2. ~(m < Len(log))
    <3> SUFFICES ASSUME m < Len(log) PROVE FALSE
      OBVIOUS
    <3>1. Len(log) \in 0..Len(log) /\ Whole(m) \in Nat
      BY <1>2
    <3>2. Whole(m) < Whole(Len(log)) /\ Whole(Len(log)) \in Nat
      BY <1>2, <3>1
    <3> QED
      BY <2>1, <3>1, <3>2
  <2>3. Len(log) \in Nat
    BY <1>2
  <2> QED
    BY <2>2, <2>3
<1> QED
  BY <1>3, <1>5, <1>6

LEMMA WholeDivision ==
    ASSUME NEW t \in Nat, NEW r \in Nat, r > 0
    PROVE  (t * r) \div r = t
  OBVIOUS

(* Channel groups of an opened file claim what their streams hold: the     *)
(* stored counter of a finalized file, the recomputed one of the others.   *)
THEOREM CountsAreRight == Spec => []GroupCountsAreRight
<1>1. ASSUME UInv PROVE GroupCountsAreRight
  <2> SUFFICES ASSUME step = "open", NEW g \in GroupIDs, RecSize[g] > 0
               PROVE  counts[g] = Recorded(g)
    BY DEF GroupCountsAreRight
  <2>1. FileInv /\ PassInv /\ CountInv
    BY <1>1 DEF UInv
  <2>2. log \in Logs /\ g \in Known /\ RecSize[g] \in Nat
    BY <2>1, UnsortedAssumption DEF FileInv, Known
  <2>3. PICK m \in 0..Len(log) : pos = Whole(m) /\ pos = Len(section) /\ Taken(m)
    BY <2>1 DEF PassInv
  <2>4. Recorded(g) = Times(log, m, g) /\ (~unfin => m = Len(log))
    BY <2>1, <2>3, RecordedIs
  <2>5. counts[g] = IF unfin THEN Len(bufs[g]) \div RecSize[g] ELSE Times(log, Len(log), g)
    BY <2>1 DEF CountInv
  <2>6. CASE ~unfin
    BY <2>4, <2>5, <2>6
  <2>7. CASE unfin
    <3>1. bufs[g] = Proj(log, m, g)
      BY <2>2, <2>3, ProjectionIs DEF Taken
    <3>2. Len(bufs[g]) = Times(log, m, g) * RecSize[g]
      BY <2>2, <3>1, StreamLength
    <3>3. Times(log, m, g) \in Nat
      <4>1. Len(log) \in Nat
        BY <2>2, LogFacts
      <4>2. m \in Nat
        BY <4>1
      <4> QED
        BY <4>2, TimesGrows
    <3>4. (Times(log, m, g) * RecSize[g]) \div RecSize[g] = Times(log, m, g)
      BY <2>2, <3>3, WholeDivision
    <3> QED
      BY <2>4, <2>5, <2>7, <3>2, <3>4
  <2> QED
    BY <2>6, <2>7
<1> QED
  BY <1>1, UnsortedInv, PTL

-----------------------------------------------------------------------------
(* VLSD values.                                                            *)

(* The k-th value has been logged before the n-th record if there are k.   *)
LEMMA KthValue ==
    ASSUME NEW l, NEW v, NEW n \in Nat, NEW k \in Nat, k > 0, k <= Times(l, n, v)
    PROVE  \E i \in 1..n : l[i].id = v /\ Times(l, i, v) = k
<1> DEFINE Here(j) == \E i \in 1..j : l[i].id = v /\ Times(l, i, v) = k
           P == {j \in 0..n : k <= Times(l, j, v) => Here(j)}
<1>1. 0 \in P
  <2>1. Times(l, 0, v) = 0
    BY TimesGrows
  <2>2. ~(k <= 0)
    OBVIOUS
  <2> QED
    BY <2>1, <2>2
<1>2. ASSUME NEW j \in 1..n, j - 1 \in P PROVE j \in P
  <2>1. PICK t : t = Times(l, j - 1, v)
    OBVIOUS
  <2>2. j \in Nat \ {0} /\ j - 1 \in Nat /\ j \in 0..n
    OBVIOUS
  <2>3. t \in Nat /\ Times(l, j, v) = t + (IF l[j].id = v THEN 1 ELSE 0)
    BY <2>1, <2>2, TimesGrows
  <2>4. CASE k <= t
    <3>1. Here(j - 1)
      BY <1>2, <2>1, <2>4
    <3>2. \A i \in 1..(j - 1) : i \in 1..j
      OBVIOUS
    <3>3. Here(j)
      BY <3>1, <3>2
    <3> QED
      BY <2>2, <3>3
  <2>5. CASE ~(k <= t)
    <3>1. CASE k <= Times(l, j, v)
      <4>1. l[j].id = v /\ Times(l, j, v) = k
        BY <2>3, <2>5, <3>1
      <4>2. Here(j)
        BY <4>1
      <4> QED
        BY <2>2, <4>2
    <3> QED
      BY <2>2, <3>1
  <2> QED
    BY <2>4, <2>5
<1> HIDE DEF P
<1>3. \A j \in 0..n : j \in P
  BY <1>1, <1>2, Climb
<1>4. n \in P
  BY <1>3
<1> QED
  BY <1>4 DEF P

(* The offset a record carries is the length of the values before its own. *)
LEMMA OffsetOfValue ==
    ASSUME NEW l \in Logs, NEW v \in VlsdIDs, NEW i \in 1..Len(l), l[i].id = v,
           NEW k, Times(l, i, v) = k
    PROVE  Len(FlattenSeq(Earlier(l, v, k))) = Len(Proj(l, i - 1, v))
<1>1. Len(l) \in Nat /\ i \in Nat
  BY LogFacts
<1>2. PICK e : e = Earlier(l, v, k)
  OBVIOUS
<1>3. ASSUME NEW j \in 1..Len(l)
      PROVE  e[j] = IF j < i THEN Piece(l, j, v) ELSE <<>>
  <2>1. e[j] = IF l[j].id = v /\ Times(l, j, v) < k THEN Value(l, j) ELSE <<>>
    BY <1>2 DEF Earlier
  <2>2. CASE l[j].id # v
    BY <2>1, <2>2 DEF Piece
  <2>3. CASE l[j].id = v
    <3>1. Piece(l, j, v) = Value(l, j)
      <4>1. Body(l, j) = Value(l, j)
        BY <2>3, Zenon DEF Body
      <4> QED
        BY <2>3, <4>1 DEF Piece
    <3>2. j \in Nat
      BY <1>1
    <3>3. Times(l, j, v) \in Nat /\ Times(l, i, v) \in Nat
      BY <1>1, <3>2, TimesGrows
    <3>4. CASE j < i
      <4>1. j \in 0..i
        BY <1>1, <3>4
      <4>2. Times(l, j, v) < Times(l, i, v)
        BY <1>1, <3>4, <4>1, TimesMonotone
      <4> QED
        BY <2>1, <2>3, <3>1, <3>4, <4>2
    <3>5. CASE ~(j < i)
      <4>1. i \in 0..j
        BY <1>1, <3>2, <3>5
      <4>2. Times(l, i, v) <= Times(l, j, v)
        BY <3>2, <4>1, TimesMonotone
      <4>3. ~(Times(l, j, v) < k)
        BY <3>3, <4>2
      <4> QED
        BY <2>1, <3>5, <4>3
    <3> QED
      BY <3>4, <3>5
  <2> QED
    BY <2>2, <2>3
<1>4. \A j \in 1..Len(l) : e[j] \in Seq(Nat)
  <2>1. <<>> \in Seq(Nat) /\ \A j \in 1..Len(l) : Piece(l, j, v) \in Seq(Nat)
    BY PieceType
  <2> QED
    BY <1>3, <2>1
<1> DEFINE Part(j) == [x \in 1..j |-> e[x]]
           At(j) == IF j < i THEN j ELSE i - 1
           P == {j \in 0..Len(l) : FlattenSeq(Part(j)) = Proj(l, At(j), v)}
<1>5. 0 \in P
  <2>1. Part(0) \in [1..0 -> Seq(Nat)]
    OBVIOUS
  <2>2. At(0) = 0 /\ 0 \in 0..Len(l)
    BY <1>1
  <2>3. FlattenSeq(Part(0)) = <<>>
    <3> HIDE DEF Part
    <3> QED
      BY <2>1, FlatNothing
  <2> HIDE DEF Part, At
  <2> QED
    BY <2>2, <2>3, ProjNothing
<1>6. ASSUME NEW j \in 1..Len(l), j - 1 \in P PROVE j \in P
  <2>1. j \in Nat \ {0} /\ j \in 0..Len(l)
    BY <1>1
  <2>2. \A x \in 1..j : x \in 1..Len(l)
    BY <1>1
  <2>3. Part(j) \in [1..j -> Seq(Nat)] /\ Part(j)[j] = e[j]
    BY <1>4, <2>1, <2>2
  <2>4. Part(j - 1) \in [1..(j - 1) -> Seq(Nat)] /\ \A x \in 1..(j - 1) : Part(j - 1)[x] = Part(j)[x]
    BY <1>4, <2>1, <2>2
  <2>5. FlattenSeq(Part(j - 1)) = Proj(l, At(j - 1), v)
    BY <1>6
  <2>6. FlattenSeq(Part(j)) = FlattenSeq(Part(j - 1)) \o e[j]
    <3> HIDE DEF Part
    <3> QED
      BY <2>1, <2>3, <2>4, FlatGrows
  <2>7. CASE j < i
    <3>1. At(j - 1) = j - 1 /\ At(j) = j
      BY <1>1, <2>1, <2>7
    <3>2. e[j] = Piece(l, j, v)
      BY <1>3, <2>7
    <3>3. Proj(l, j, v) = Proj(l, j - 1, v) \o Piece(l, j, v)
      BY ProjGrows
    <3> HIDE DEF Part, At
    <3> QED
      BY <2>1, <2>5, <2>6, <3>1, <3>2, <3>3
  <2>8. CASE ~(j < i)
    <3>1. At(j - 1) = i - 1 /\ At(j) = i - 1
      BY <1>1, <2>1, <2>8
    <3>2. e[j] = <<>>
      BY <1>3, <2>8
    <3>3. Proj(l, i - 1, v) \in Seq(Nat)
      BY ProjGrows
    <3>4. Proj(l, i - 1, v) \o <<>> = Proj(l, i - 1, v)
      BY <3>3, ConcatEmptySeq
    <3> HIDE DEF Part, At
    <3> QED
      BY <2>1, <2>5, <2>6, <3>1, <3>2, <3>4
  <2> QED
    BY <2>7, <2>8
<1>7. \A j \in 0..Len(l) : j \in P
  <2> HIDE DEF P
  <2> QED
    BY <1>1, <1>5, <1>6, Climb
<1>8. FlattenSeq(Part(Len(l))) = Proj(l, At(Len(l)), v)
  <2>1. Len(l) \in 0..Len(l)
    BY <1>1
  <2> HIDE DEF Part, At
  <2> QED
    BY <1>7, <2>1
<1>9. At(Len(l)) = i - 1
  BY <1>1
<1>10. Part(Len(l)) = e
  BY <1>2 DEF Earlier
<1> HIDE DEF Part, At, P
<1> QED
  BY <1>2, <1>8, <1>9, <1>10

(* resolveVLSD finds a value at its offset.                                *)
LEMMA ValueThere ==
    ASSUME NEW l \in Logs, NEW m \in 0..Len(l), NEW i \in 1..m, NEW v \in VlsdIDs,
           l[i].id = v
    PROVE  /\ ValueOK(Proj(l, m, v), Len(Proj(l, i - 1, v)))
           /\ ValueAt(Proj(l, m, v), Len(Proj(l, i - 1, v))) = [x \in 1..l[i].len |-> i]
<1> SUFFICES ASSUME NEW sd, sd = Proj(l, m, v), NEW off, off = Len(Proj(l, i - 1, v))
             PROVE  /\ ValueOK(sd, off)
                    /\ ValueAt(sd, off) = [x \in 1..l[i].len |-> i]
  OBVIOUS
<1>1. Len(l) \in Nat /\ i \in 1..Len(l) /\ m \in 0..m
  <2>1. Len(l) \in Nat
    BY LogFacts
  <2> QED
    BY <2>1
<1>2. PICK n, val : n = l[i].len /\ val = Value(l, i)
  OBVIOUS
<1>3. n \in Nat /\ LenSize \in Nat /\ Fits(n, LenSize)
  BY <1>1, <1>2, LogFacts DEF LenSize
<1>4. /\ val \in Seq(Nat) /\ Len(val) = LenSize + n /\ Body(l, i) = val
      /\ \A x \in 1..LenSize : val[x] = Digits(n, LenSize)[x]
      /\ \A x \in 1..n : val[LenSize + x] = i
  <2>1. Body(l, i) = Value(l, i)
    BY Zenon DEF Body
  <2>2. /\ Value(l, i) \in Seq(Nat) /\ Len(Value(l, i)) = LenSize + l[i].len
        /\ \A x \in 1..LenSize : Value(l, i)[x] = Digits(l[i].len, LenSize)[x]
        /\ \A x \in 1..l[i].len : Value(l, i)[LenSize + x] = i
    BY <1>1, ValueType, Zenon
  <2> QED
    BY <1>2, <2>1, <2>2, Zenon
<1>5. sd \in Seq(Nat) /\ Len(sd) \in Nat /\ off \in Nat
  <2>1. Proj(l, i - 1, v) \in Seq(Nat)
    BY <1>1, ProjGrows
  <2>2. off \in Nat
    BY <2>1, LenProperties
  <2> QED
    BY <2>2, ProjPrefix
<1>6. \A x \in 1..(LenSize + n) : off + x \in 1..Len(sd) /\ sd[off + x] = val[x]
  BY <1>4, PieceAt
<1>7. off + (LenSize + n) <= Len(sd)
  <2>1. LenSize + n \in 1..(LenSize + n)
    BY <1>3 DEF LenSize
  <2>2. PICK x : x = LenSize + n
    OBVIOUS
  <2>3. off + x \in 1..Len(sd)
    BY <1>6, <2>1, <2>2
  <2> QED
    BY <1>5, <2>2, <2>3
<1>8. off + LenSize <= Len(sd)
  BY <1>3, <1>5, <1>7
<1>9. Number(SubSeq(sd, off + 1, off + LenSize)) = n
  <2>1. PICK s, d : s = SubSeq(sd, off + 1, off + LenSize) /\ d = Digits(n, LenSize)
    OBVIOUS
  <2>2. s \in Seq(Nat) /\ Len(s) = LenSize /\ \A x \in 1..LenSize : s[x] = sd[off + x]
    <3>1. /\ SubSeq(sd, off + 1, off + LenSize) \in Seq(Nat)
          /\ Len(SubSeq(sd, off + 1, off + LenSize)) = LenSize
          /\ \A x \in 1..LenSize : SubSeq(sd, off + 1, off + LenSize)[x] = sd[off + x]
      <4> HIDE DEF LenSize
      <4>1. sd \in Seq(Nat) /\ off \in Nat /\ LenSize \in Nat
        BY <1>3, <1>5
      <4> QED
        BY <1>8, <4>1, Cut, SMTT(40)
    <3> QED
      BY <2>1, <3>1, Zenon
  <2>3. d \in Seq(Nat) /\ Len(d) = LenSize
    BY <1>3, <2>1, DigitsType
  <2>4. \A x \in 1..LenSize : x \in 1..(LenSize + n)
    BY <1>3
  <2>5. \A x \in 1..LenSize : s[x] = d[x]
    BY <1>4, <1>6, <2>1, <2>2, <2>4
  <2>6. s = d
    BY <2>2, <2>3, <2>5, SeqEqual
  <2>7. Number(d) = n
    BY <1>3, <2>1, NumberOfDigits
  <2> QED
    BY <2>1, <2>6, <2>7
<1>10. ValueOK(sd, off)
  <2>1. off + LenSize + n = off + (LenSize + n)
    BY <1>3, <1>5
  <2> QED
    BY <1>7, <1>8, <1>9, <2>1 DEF ValueOK
<1>11. ValueAt(sd, off) = [x \in 1..n |-> i]
  <2>1. PICK o, s : o = off + LenSize /\ s = SubSeq(sd, o + 1, o + n)
    OBVIOUS
  <2>2. o \in Nat /\ o + n <= Len(sd)
    BY <1>3, <1>5, <1>7, <2>1
  <2>3. s \in Seq(Nat) /\ Len(s) = n /\ \A x \in 1..n : s[x] = sd[o + x]
    <3>1. sd \in Seq(Nat) /\ o \in Nat /\ n \in Nat
      BY <1>3, <1>5, <2>2
    <3>2. /\ SubSeq(sd, o + 1, o + n) \in Seq(Nat) /\ Len(SubSeq(sd, o + 1, o + n)) = n
          /\ \A x \in 1..n : SubSeq(sd, o + 1, o + n)[x] = sd[o + x]
      BY <2>2, <3>1, Cut
    <3> QED
      BY <2>1, <3>2, Zenon
  <2>4. ASSUME NEW x \in 1..n PROVE s[x] = i
    <3>1. PICK y : y = LenSize + x
      OBVIOUS
    <3>2. y \in 1..(LenSize + n) /\ off + y = o + x
      BY <1>3, <1>5, <2>1, <3>1
    <3>3. sd[off + y] = val[y]
      BY <1>6, <3>2
    <3> QED
      BY <1>4, <2>3, <3>1, <3>2, <3>3
  <2> DEFINE t == [x \in 1..n |-> i]
  <2>5. t \in Seq(Nat) /\ Len(t) = n /\ \A x \in 1..n : t[x] = i
    BY <1>1, <1>3
  <2> HIDE DEF t
  <2>6. s = t
    BY <2>3, <2>4, <2>5, SeqEqual
  <2>7. ValueAt(sd, off) = s
    BY <1>9, <2>1 DEF ValueAt
  <2> QED
    BY <2>6, <2>7 DEF t
<1> QED
  BY <1>2, <1>10, <1>11

(* The offsets in the records lead to the values logged for them: the      *)
(* streams keep the layout of SD data, as deinterleaved's comment promises.*)
THEOREM OffsetsAreRight == Spec => []OffsetsResolve
<1>1. ASSUME UInv PROVE OffsetsResolve
  <2> SUFFICES ASSUME step = "open", NEW n \in DOMAIN log, Whole(n) <= Len(section),
                      log[n].id \in DOMAIN PointsTo
               PROVE  LET v  == PointsTo[log[n].id]
                          k  == Times(log, n, log[n].id)
                          at == (k - 1) * RecSize[log[n].id] + 1
                          off == bufs[log[n].id][at]
                          m  == CHOOSE i \in DOMAIN log :
                                   log[i].id = v /\ Times(log, i, v) = k
                      IN /\ ValueOK(bufs[v], off)
                         /\ ValueAt(bufs[v], off) = [i \in 1..log[m].len |-> m]
    BY Zenon DEF OffsetsResolve
  <2>1. FileInv /\ PassInv
    BY <1>1 DEF UInv
  <2> DEFINE g == log[n].id
             v == PointsTo[g]
             k == Times(log, n, g)
             r == RecSize[g]
             i == CHOOSE i \in DOMAIN log : log[i].id = v /\ Times(log, i, v) = k
             at == (k - 1) * r + 1
             off == bufs[g][at]
  <2>2. g = log[n].id /\ v = PointsTo[g] /\ k = Times(log, n, g) /\ r = RecSize[g]
    OBVIOUS
  <2>9. i = CHOOSE x \in DOMAIN log : log[x].id = v /\ Times(log, x, v) = k
    OBVIOUS
  <2>12. at = (k - 1) * r + 1 /\ off = bufs[g][at]
    OBVIOUS
  <2> HIDE DEF g, v, k, r, i, at, off
  <2>3. /\ log \in Logs /\ g \in GroupIDs /\ v \in VlsdIDs /\ g \in Known /\ v \in Known
        /\ r \in Nat /\ r > 0 /\ g \notin VlsdIDs
    BY <2>1, <2>2, UnsortedAssumption DEF FileInv, Known
  <2>4. /\ Len(log) \in Nat /\ DOMAIN log = 1..Len(log) /\ n \in 1..Len(log) /\ n \in Nat \ {0}
        /\ k <= Times(log, n, v) /\ log[n].len = r
    BY <2>2, <2>3, LogFacts
  <2>5. PICK m \in 0..Len(log) : pos = Whole(m) /\ pos = Len(section) /\ Taken(m)
    BY <2>1 DEF PassInv
  <2>6. n \in 1..m
    BY <2>1, <2>5, RecordedIs
  <2>7. bufs[g] = Proj(log, m, g) /\ bufs[v] = Proj(log, m, v)
    BY <2>3, <2>5, ProjectionIs DEF Taken
  <2>8. k \in Nat /\ k > 0 /\ Times(log, n - 1, g) = k - 1 /\ n - 1 \in Nat
    <3>1. n - 1 \in Nat
      BY <2>4
    <3>2. Times(log, n - 1, g) \in Nat /\ k = Times(log, n - 1, g) + 1
      BY <2>2, <2>4, <3>1, TimesGrows
    <3> QED
      BY <3>1, <3>2
  <2>10. i \in 1..Len(log) /\ log[i].id = v /\ Times(log, i, v) = k
    <3>1. \E j \in 1..n : log[j].id = v /\ Times(log, j, v) = k
      <4>1. n \in Nat /\ k <= Times(log, n, v)
        BY <2>4
      <4> QED
        BY <2>8, <4>1, KthValue
    <3>2. \A j \in 1..n : j \in DOMAIN log
      BY <2>4
    <3>3. \E j \in DOMAIN log : log[j].id = v /\ Times(log, j, v) = k
      BY <3>1, <3>2
    <3>4. i \in DOMAIN log /\ log[i].id = v /\ Times(log, i, v) = k
      BY <2>9, <3>3, Zenon
    <3> QED
      BY <2>4, <3>4
  <2>11. i \in 1..m
    <3>1. i <= n
      <4> SUFFICES ASSUME ~(i <= n) PROVE FALSE
        OBVIOUS
      <4>1. i \in Nat /\ n \in 0..i /\ n < i
        BY <2>4, <2>10
      <4>2. Times(log, n, v) < k
        BY <2>10, <4>1, TimesMonotone
      <4>3. Times(log, n, v) \in Nat
        BY <2>4, TimesGrows
      <4> QED
        BY <2>4, <2>8, <4>2, <4>3
    <3> QED
      BY <2>4, <2>6, <2>10, <3>1
  <2>13. off = Len(Proj(log, i - 1, v))
    <3>1. Len(Proj(log, n - 1, g)) = (k - 1) * r
      <4>1. n - 1 \in 0..Len(log)
        BY <2>4
      <4>2. Len(Proj(log, n - 1, g)) = Times(log, n - 1, g) * RecSize[g]
        BY <2>3, <4>1, StreamLength
      <4> QED
        BY <2>2, <2>8, <4>2
    <3>2. /\ Body(log, n) = [x \in 1..r |-> IF x = 1 /\ g \in DOMAIN PointsTo THEN OffsetFor(log, n) ELSE n]
      <4>1. Body(log, n) = [x \in 1..log[n].len |->
                IF x = 1 /\ log[n].id \in DOMAIN PointsTo THEN OffsetFor(log, n) ELSE n]
        BY <2>2, <2>3, Zenon DEF Body
      <4> QED
        BY <2>2, <2>4, <4>1, Zenon
    <3>3. 1 \in 1..r
      BY <2>3
    <3>4. Body(log, n)[1] = OffsetFor(log, n)
      BY <2>2, <3>2, <3>3
    <3>5. 1 \in 1..Len(Body(log, n))
      BY <2>3, <3>2
    <3>6. Proj(log, m, g)[Len(Proj(log, n - 1, g)) + 1] = Body(log, n)[1]
      BY <2>2, <2>3, <2>6, <3>5, PieceAt
    <3>7. off = OffsetFor(log, n)
      BY <2>7, <2>12, <3>1, <3>4, <3>6
    <3>8. OffsetFor(log, n) = Len(FlattenSeq(Earlier(log, v, k)))
      BY <2>2, <2>3, OffsetType
    <3>9. Len(FlattenSeq(Earlier(log, v, k))) = Len(Proj(log, i - 1, v))
      BY <2>3, <2>10, OffsetOfValue
    <3> QED
      BY <3>7, <3>8, <3>9
  <2>14. ValueOK(bufs[v], off) /\ ValueAt(bufs[v], off) = [x \in 1..log[i].len |-> i]
    <3>1. PICK sd : sd = bufs[v]
      OBVIOUS
    <3>2. sd = Proj(log, m, v)
      BY <2>7, <3>1
    <3>3. ValueOK(sd, off) /\ ValueAt(sd, off) = [x \in 1..log[i].len |-> i]
      <4>1. log \in Logs /\ v \in VlsdIDs /\ i \in 1..m /\ log[i].id = v
        BY <2>3, <2>10, <2>11
      <4>2. off = Len(Proj(log, i - 1, v))
        BY <2>13
      <4>3. /\ ValueOK(Proj(log, m, v), Len(Proj(log, i - 1, v)))
            /\ ValueAt(Proj(log, m, v), Len(Proj(log, i - 1, v))) = [x \in 1..log[i].len |-> i]
        BY <4>1, ValueThere
      <4> QED
        BY <3>2, <4>2, <4>3
    <3> QED
      BY <3>1, <3>3
  <2> QED
    BY <2>14 DEF g, v, k, r, i, at, off
<1> QED
  BY <1>1, UnsortedInv, PTL

=============================================================================
