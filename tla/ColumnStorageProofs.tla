------------------------- MODULE ColumnStorageProofs -------------------------
(***************************************************************************)
(* Proofs about column storage: for any chain of lists, block sizes, order *)
(* of blocks and channels, what is read out of the two streams is what the *)
(* recorder put into the blocks.                                           *)
(***************************************************************************)
EXTENDS ColumnStorage, TLAPS, SequenceTheorems, WellFoundedInduction

-----------------------------------------------------------------------------
(* Induction over the numbers up to n.                                     *)
LEMMA Climb ==
    ASSUME NEW n \in Nat, NEW P, 0 \in P,
           \A m \in 1..n : m - 1 \in P => m \in P
    PROVE  \A m \in 0..n : m \in P
<1> DEFINE C == {m \in 0..n : m \notin P}
<1>1. SUFFICES ASSUME C # {} PROVE FALSE
  OBVIOUS
<1>2. C \subseteq Nat
  OBVIOUS
<1>3. PICK m \in C : \A k \in C : ~(<<k, m>> \in OpToRel(<, Nat))
  <2> HIDE DEF C
  <2> QED
    BY <1>1, <1>2, NatLessThanWellFounded, WFMin
<1>4. \A k \in C : ~(k < m)
  BY <1>2, <1>3 DEF OpToRel
<1>5. m # 0 /\ m \in 1..n /\ m - 1 \in 0..n
  OBVIOUS
<1>6. m - 1 \in P
  BY <1>4, <1>5
<1> QED
  BY <1>5, <1>6

(* The values a recursion goes through.                                    *)
Goes(c, n, T, a, step) ==
    /\ c \in [0..n -> T] /\ c[0] = a
    /\ \A k \in 1..n : c[k] = step[k][c[k - 1]]

(* Where each step is a function, there are such values.                   *)
LEMMA Recursion ==
    ASSUME NEW n \in Nat, NEW T, NEW a \in T, NEW step \in [1..n -> [T -> T]]
    PROVE  \E c : Goes(c, n, T, a, step)
<1> DEFINE Steps(m, c) == /\ c \in [0..m -> T] /\ c[0] = a
                          /\ \A k \in 1..m : c[k] = step[k][c[k - 1]]
           P == {m \in 0..n : \E c : Steps(m, c)}
<1>1. 0 \in P
  <2> DEFINE c == [k \in 0..0 |-> a]
  <2>1. Steps(0, c)
    OBVIOUS
  <2> HIDE DEF Steps
  <2> QED
    BY <2>1
<1>2. ASSUME NEW m \in 1..n, m - 1 \in P PROVE m \in P
  <2>1. PICK c : Steps(m - 1, c)
    BY <1>2
  <2> DEFINE d == [k \in 0..m |-> IF k = m THEN step[m][c[m - 1]] ELSE c[k]]
  <2>2. m - 1 \in 0..(m - 1) /\ step[m] \in [T -> T]
    OBVIOUS
  <2>3. c[m - 1] \in T
    BY <2>1, <2>2
  <2>4. step[m][c[m - 1]] \in T
    BY <2>2, <2>3
  <2>5. \A k \in 0..m : k # m => k \in 0..(m - 1)
    OBVIOUS
  <2>6. d \in [0..m -> T]
    BY <2>1, <2>4, <2>5
  <2>7. d[0] = a
    BY <2>1
  <2>8. ASSUME NEW k \in 1..m PROVE d[k] = step[k][d[k - 1]]
    <3>1. k - 1 \in 0..m /\ k - 1 # m /\ k \in 0..m /\ (k # m => k \in 1..(m - 1))
      OBVIOUS
    <3>2. d[k - 1] = c[k - 1]
      BY <3>1
    <3>3. k # m => c[k] = step[k][c[k - 1]]
      BY <2>1, <3>1
    <3>4. d[k] = step[k][c[k - 1]]
      BY <3>1, <3>3
    <3> HIDE DEF d
    <3> QED
      BY <3>2, <3>4
  <2> HIDE DEF d
  <2>9. Steps(m, d)
    BY <2>6, <2>7, <2>8
  <2> HIDE DEF Steps
  <2> QED
    BY <2>9
<1> HIDE DEF P
<1>3. \A m \in 0..n : m \in P
  BY <1>1, <1>2, Climb
<1>4. n \in P
  BY <1>3
<1>5. PICK c : Steps(n, c)
  <2> HIDE DEF Steps
  <2> QED
    BY <1>4 DEF P
<1> QED
  BY <1>5 DEF Goes

-----------------------------------------------------------------------------
(* Arithmetic.                                                             *)

LEMMA ProductFacts ==
    ASSUME NEW a \in Nat, NEW b \in Nat, NEW w \in Nat
    PROVE  /\ a * w \in Nat
           /\ (a + b) * w = a * w + b * w
           /\ a <= b => a * w <= b * w
           /\ w > 0 /\ a < b => a * w + w <= b * w
           /\ w > 0 /\ a * w = b * w => a = b
           /\ w > 0 /\ a * w <= b * w => a <= b
<1>1. a * w \in Nat /\ b * w \in Nat /\ (a + b) * w = a * w + b * w
  OBVIOUS
<1>2. a <= b => a * w <= b * w
  <2>1. CASE a <= b
    <3>1. PICK d \in Nat : b = a + d
      <4>1. b - a \in Nat /\ b = a + (b - a)
        BY <2>1
      <4> QED
        BY <4>1
    <3>2. b * w = a * w + d * w /\ d * w \in Nat /\ a * w \in Nat
      BY <3>1
    <3> QED
      BY <3>2
  <2> QED
    BY <2>1
<1>3. w > 0 /\ a < b => a * w + w <= b * w
  <2>1. CASE w > 0 /\ a < b
    <3>1. PICK d \in Nat : b = a + 1 + d
      <4>1. b - a - 1 \in Nat /\ b = a + 1 + (b - a - 1)
        BY <2>1
      <4> QED
        BY <4>1
    <3>2. b * w = a * w + w + d * w /\ d * w \in Nat /\ a * w \in Nat
      BY <3>1
    <3> QED
      BY <3>2
  <2> QED
    BY <2>1
<1>4. w > 0 /\ b < a => b * w + w <= a * w
  <2>1. CASE w > 0 /\ b < a
    <3>1. PICK d \in Nat : a = b + 1 + d
      <4>1. a - b - 1 \in Nat /\ a = b + 1 + (a - b - 1)
        BY <2>1
      <4> QED
        BY <4>1
    <3>2. a * w = b * w + w + d * w /\ d * w \in Nat /\ b * w \in Nat
      BY <3>1
    <3> QED
      BY <3>2
  <2> QED
    BY <2>1
<1> QED
  BY <1>1, <1>2, <1>3, <1>4

(* The entry and the byte of it that an offset is in.                      *)
LEMMA DivMod ==
    ASSUME NEW w \in Nat \ {0}, NEW a \in Nat, NEW r \in 0..(w - 1)
    PROVE  (a * w + r) \div w = a /\ (a * w + r) % w = r
<1>1. PICK x \in Nat : x = a * w + r
  OBVIOUS
<1>2. PICK q \in Nat : q = x \div w
  OBVIOUS
<1>3. PICK m \in 0..(w - 1) : m = x % w
  OBVIOUS
<1>4. x = q * w + m
  BY <1>1, <1>2, <1>3
<1>5. ~(q < a)
  <2>1. q < a => q * w + w <= a * w
    BY ProductFacts
  <2>2. q * w \in Nat /\ a * w \in Nat
    OBVIOUS
  <2> QED
    BY <1>1, <1>4, <2>1, <2>2
<1>6. ~(a < q)
  <2>1. a < q => a * w + w <= q * w
    BY ProductFacts
  <2>2. q * w \in Nat /\ a * w \in Nat
    OBVIOUS
  <2> QED
    BY <1>1, <1>4, <2>1, <2>2
<1>7. q = a
  BY <1>5, <1>6
<1>8. m = r
  BY <1>1, <1>4, <1>7
<1> QED
  BY <1>1, <1>2, <1>3, <1>7, <1>8

LEMMA MaxIs ==
    ASSUME NEW S \in SUBSET Nat, NEW x \in S, \A y \in S : y <= x
    PROVE  Max(S) = x
<1>1. x >= x /\ \A y \in S : x >= y
  OBVIOUS
<1>2. Max(S) \in S /\ \A y \in S : Max(S) >= y
  BY <1>1 DEF Max
<1>3. Max(S) \in Nat /\ x \in Nat /\ Max(S) >= x /\ Max(S) <= x
  BY <1>2
<1> QED
  BY <1>3

LEMMA MaxThere ==
    ASSUME NEW n \in Nat, NEW S \in SUBSET (0..n), 0 \in S
    PROVE  Max(S) \in S /\ \A y \in S : y <= Max(S)
<1> DEFINE P == {m \in 0..n : \E x \in S : \A y \in S : y <= m => y <= x}
<1>1. 0 \in P
  OBVIOUS
<1>2. ASSUME NEW m \in 1..n, m - 1 \in P PROVE m \in P
  <2>1. PICK x \in S : \A y \in S : y <= m - 1 => y <= x
    BY <1>2
  <2>2. CASE m \in S
    BY <2>2
  <2>3. CASE m \notin S
    <3>1. \A y \in S : y <= m => y <= m - 1
      BY <2>3
    <3> QED
      BY <2>1, <3>1
  <2> QED
    BY <2>2, <2>3
<1> HIDE DEF P
<1>3. n \in P
  <2>1. \A m \in 0..n : m \in P
    BY <1>1, <1>2, Climb
  <2> QED
    BY <2>1
<1>4. PICK x \in S : \A y \in S : y <= n => y <= x
  BY <1>3 DEF P
<1>5. \A y \in S : y <= x
  BY <1>4
<1>6. Max(S) = x
  BY <1>5, MaxIs
<1> QED
  BY <1>5, <1>6

LEMMA MinThere ==
    ASSUME NEW n \in Nat, NEW S \in SUBSET (1..n), S # {}
    PROVE  Min(S) \in S /\ \A y \in S : Min(S) <= y
<1>1. S \subseteq Nat
  OBVIOUS
<1>2. PICK x \in S : \A k \in S : ~(<<k, x>> \in OpToRel(<, Nat))
  BY <1>1, NatLessThanWellFounded, WFMin
<1>3. \A k \in S : ~(k < x)
  BY <1>1, <1>2 DEF OpToRel
<1>4. \A k \in S : x <= k
  BY <1>1, <1>3
<1> QED
  BY <1>1, <1>4 DEF Min

-----------------------------------------------------------------------------
(* Segments in a row.                                                      *)

SegSet == [kind : {"DV", "DI", "zero"}, logical : Nat, length : Int, from : Nat]

InARow(segs) ==
    \A s, t \in DOMAIN segs :
        s < t => segs[s].logical + segs[s].length <= segs[t].logical

(* A byte is found in the segment that holds it.                           *)
LEMMA OwnerIs ==
    ASSUME NEW segs \in Seq(SegSet), InARow(segs), NEW s \in DOMAIN segs, NEW off \in Nat,
           segs[s].logical <= off, off < segs[s].logical + segs[s].length
    PROVE  OwnerOf(segs, off) = s /\ Holds(segs, off)
<1> DEFINE S == {0} \union {t \in DOMAIN segs : segs[t].logical <= off}
<1>1. Len(segs) \in Nat /\ DOMAIN segs = 1..Len(segs)
  OBVIOUS
<1>2. ASSUME NEW t \in DOMAIN segs PROVE segs[t].logical \in Nat /\ segs[t].length \in Int
  <2>1. segs[t] \in SegSet
    BY <1>1
  <2> QED
    BY <2>1 DEF SegSet
<1>3. S \in SUBSET Nat /\ s \in S /\ s > 0
  BY <1>1
<1>4. ASSUME NEW t \in S PROVE t <= s
  <2>1. CASE t = 0
    BY <1>1, <2>1
  <2>2. CASE t # 0
    <3>1. t \in DOMAIN segs /\ segs[t].logical <= off
      BY <2>2
    <3>2. s < t => segs[s].logical + segs[s].length <= segs[t].logical
      BY <3>1 DEF InARow
    <3>3. ~(s < t)
      BY <1>2, <3>1, <3>2
    <3> QED
      BY <1>1, <3>1, <3>3
  <2> QED
    BY <2>1, <2>2
<1>5. Max(S) = s
  <2> HIDE DEF S
  <2> QED
    BY <1>3, <1>4, MaxIs
<1>6. OwnerOf(segs, off) = s
  BY <1>5 DEF OwnerOf
<1> QED
  BY <1>3, <1>6 DEF Holds

LEMMA OwnerThere ==
    ASSUME NEW segs \in Seq(SegSet), NEW off \in Nat, Holds(segs, off)
    PROVE  \E s \in DOMAIN segs :
              /\ s = OwnerOf(segs, off)
              /\ segs[s].logical <= off /\ off < segs[s].logical + segs[s].length
<1> DEFINE S == {0} \union {t \in DOMAIN segs : segs[t].logical <= off}
<1>1. Len(segs) \in Nat /\ DOMAIN segs = 1..Len(segs)
  OBVIOUS
<1>2. S \in SUBSET (0..Len(segs)) /\ 0 \in S
  BY <1>1
<1>3. Max(S) \in S
  <2> HIDE DEF S
  <2> QED
    BY <1>1, <1>2, MaxThere
<1>4. Max(S) = OwnerOf(segs, off)
  BY DEF OwnerOf
<1>5. Max(S) > 0
  BY <1>4 DEF Holds
<1>6. PICK s : s = Max(S)
  OBVIOUS
<1>7. s \in DOMAIN segs /\ segs[s].logical <= off
  BY <1>3, <1>5, <1>6
<1> QED
  BY <1>4, <1>6, <1>7 DEF Holds

-----------------------------------------------------------------------------
(* Files.                                                                  *)

LEMMA PlaceFacts ==
    ASSUME NEW f \in Seq(AnyList), NEW p \in Places(f)
    PROVE  /\ p[1] \in 1..Len(f) /\ p[2] \in 1..Len(f[p[1]].blocks)
           /\ p = <<p[1], p[2]>> /\ f[p[1]] \in AnyList /\ At(f, p) \in AnyBlock
           /\ At(f, p).from \in Nat /\ At(f, p).n \in Nat
<1>1. PICK l \in DOMAIN f : p \in {<<l, b>> : b \in DOMAIN f[l].blocks}
  BY DEF Places
<1>2. PICK b \in DOMAIN f[l].blocks : p = <<l, b>>
  BY <1>1
<1>3. l \in 1..Len(f) /\ f[l] \in AnyList
  OBVIOUS
<1>4. f[l].blocks \in Seq(AnyBlock)
  BY <1>3 DEF AnyList
<1>5. b \in 1..Len(f[l].blocks) /\ f[l].blocks[b] \in AnyBlock
  BY <1>4
<1>6. p[1] = l /\ p[2] = b
  BY <1>2
<1>7. At(f, p) \in AnyBlock
  BY <1>5, <1>6 DEF At
<1> QED
  BY <1>2, <1>3, <1>5, <1>6, <1>7 DEF AnyBlock

LEMMA PlaceThere ==
    ASSUME NEW f \in Seq(AnyList), NEW l \in DOMAIN f, NEW b \in DOMAIN f[l].blocks
    PROVE  <<l, b>> \in Places(f) /\ At(f, <<l, b>>) = f[l].blocks[b]
  BY DEF Places, At

(* The running index of the blocks.                                        *)
LEMMA FirstIs ==
    ASSUME NEW f \in Seq(AnyList)
    PROVE  /\ First(f, 1) = 0
           /\ \A l \in 1..(Len(f) + 1) : First(f, l) \in Nat
           /\ \A l \in 1..Len(f) : First(f, l + 1) = First(f, l) + Len(f[l].blocks)
<1>1. PICK n \in Nat : n = Len(f)
  OBVIOUS
<1>2. \A m \in 1..n : Len(f[m].blocks) \in Nat
  <2>1. \A m \in 1..n : f[m] \in AnyList
    BY <1>1
  <2>2. \A m \in 1..n : f[m].blocks \in Seq(AnyBlock)
    BY <2>1 DEF AnyList
  <2> QED
    BY <2>2
<1> DEFINE step == [m \in 1..n |-> [v \in Nat |-> v + Len(f[m].blocks)]]
<1>3. step \in [1..n -> [Nat -> Nat]]
  BY <1>2
<1>4. PICK c : Goes(c, n, Nat, 0, step)
  <2> HIDE DEF step
  <2> QED
    BY <1>3, Recursion
<1>5. ASSUME NEW m \in 1..n PROVE c[m] = c[m - 1] + Len(f[m].blocks)
  <2>1. c[m - 1] \in Nat
    <3>1. m - 1 \in 0..n
      OBVIOUS
    <3> QED
      BY <1>4, <3>1 DEF Goes
  <2>2. c[m] = step[m][c[m - 1]]
    BY <1>4 DEF Goes
  <2> QED
    BY <2>1, <2>2
<1> DEFINE Part(g, m) == IF m = 0 THEN 0 ELSE g[m - 1] + Len(f[m].blocks)
           Eq(g) == g = [m \in 0..n |-> Part(g, m)]
           F == CHOOSE g : Eq(g)
<1>6. Eq(c)
  <2>1. \A m \in 0..n : c[m] = Part(c, m)
    BY <1>4, <1>5 DEF Goes
  <2>2. c = [m \in 0..n |-> c[m]]
    BY <1>4 DEF Goes
  <2> HIDE DEF Part
  <2> QED
    BY <2>1, <2>2, Zenon
<1>7. Eq(F)
  <2> HIDE DEF Eq
  <2> QED
    BY <1>6, Zenon
<1>8. \A l : First(f, l) = F[l - 1]
  <2>1. \A l : First(f, l) = (CHOOSE g : g = [m \in 0..Len(f) |->
                  IF m = 0 THEN 0 ELSE g[m - 1] + Len(f[m].blocks)])[l - 1]
    BY Zenon DEF First
  <2> QED
    BY <1>1, <2>1
<1> HIDE DEF F
<1>9. \A m \in 0..n : F[m] = IF m = 0 THEN 0 ELSE F[m - 1] + Len(f[m].blocks)
  <2>1. \A m \in 0..n : F[m] = Part(F, m)
    <3> HIDE DEF Part
    <3> QED
      BY <1>7
  <2> QED
    BY <2>1
<1> DEFINE P == {m \in 0..n : F[m] \in Nat}
<1>10. 0 \in P
  BY <1>9
<1>11. ASSUME NEW m \in 1..n, m - 1 \in P PROVE m \in P
  <2>1. F[m] = F[m - 1] + Len(f[m].blocks) /\ F[m - 1] \in Nat /\ m \in 0..n
    BY <1>9, <1>11
  <2> QED
    BY <1>2, <2>1
<1> HIDE DEF P
<1>12. \A m \in 0..n : m \in P
  BY <1>10, <1>11, Climb
<1>13. \A m \in 0..n : F[m] \in Nat
  BY <1>12 DEF P
<1>14. First(f, 1) = 0
  <2>1. First(f, 1) = F[1 - 1] /\ 1 - 1 = 0
    BY <1>8
  <2> QED
    BY <1>9, <2>1
<1>15. ASSUME NEW l \in 1..(Len(f) + 1) PROVE First(f, l) \in Nat
  BY <1>1, <1>8, <1>13
<1>16. ASSUME NEW l \in 1..Len(f) PROVE First(f, l + 1) = First(f, l) + Len(f[l].blocks)
  <2>1. First(f, l + 1) = F[l]
    <3>1. First(f, l + 1) = F[(l + 1) - 1]
      BY <1>8
    <3> QED
      BY <3>1
  <2>2. First(f, l) = F[l - 1]
    BY <1>8
  <2> QED
    BY <1>1, <1>9, <2>1, <2>2
<1> QED
  BY <1>14, <1>15, <1>16

(* What a file of the recorder is.                                         *)
LEMMA FileFacts ==
    ASSUME NEW f \in Files
    PROVE  /\ f \in Seq(AnyList)
           /\ \A p \in Places(f) :
                 f[p[1]].equal > 0 =>
                     At(f, p).from = f[p[1]].equal * (First(f, p[1]) + p[2] - 1)
           /\ \/ \A p, q \in Places(f) :
                    Ahead(p, q) => EndsBefore(At(f, p), At(f, q))
              \/ \A p, q \in Places(f) :
                    p # q => /\ At(f, p).from # At(f, q).from
                             /\ \/ EndsBefore(At(f, p), At(f, q))
                                \/ EndsBefore(At(f, q), At(f, p))
  BY FilesAssumption, Zenon

LEMMA AsSeq ==
    ASSUME NEW n \in Nat, NEW T, NEW g, g = [s \in 1..n |-> g[s]],
           \A s \in 1..n : g[s] \in T
    PROVE  g \in Seq(T) /\ Len(g) = n
<1>1. g \in [1..n -> T]
  OBVIOUS
<1>2. g \in Seq(T)
  BY <1>1
<1> QED
  BY <1>1, <1>2

(* Segments taken in another order, so that they are in a row.             *)
RowOf(q, segs, sorted, n) ==
    /\ q \in [1..n -> 1..n]
    /\ \A s \in 1..n : \E t \in 1..n : q[t] = s
    /\ sorted = [s \in 1..n |-> segs[q[s]]]
    /\ InARow(sorted)

(* Segments for the blocks at these places, in a stream of entries of w.   *)
SegsFor(segs, f, place, n, w) ==
    \A s \in 1..n : /\ segs[s].logical = At(f, place[s]).from * w
                    /\ segs[s].length <= At(f, place[s]).n * w

(* Sorting puts the segments of a file in a row.                           *)
LEMMA SortedRow ==
    ASSUME NEW f \in Files, NEW n \in Nat, NEW place \in [1..n -> Places(f)],
           \A s, t \in 1..n : s < t => Ahead(place[s], place[t]),
           NEW w \in Nat \ {0}, NEW segs \in Seq(SegSet), Len(segs) = n,
           SegsFor(segs, f, place, n, w), NEW sorted \in SortSlice(segs)
    PROVE  \E q : RowOf(q, segs, sorted, n)
<1> DEFINE from(s) == At(f, place[s]).from
           size(s) == At(f, place[s]).n
<1>1. f \in Seq(AnyList) /\ DOMAIN segs = 1..n /\ segs = [s \in 1..n |-> segs[s]]
  BY FileFacts
<1>2. ASSUME NEW s \in 1..n
      PROVE  /\ from(s) \in Nat /\ size(s) \in Nat
             /\ segs[s].logical = from(s) * w /\ segs[s].length <= size(s) * w
             /\ segs[s].length \in Int
  <2>1. segs[s] \in SegSet /\ place[s] \in Places(f)
    BY <1>1
  <2>2. segs[s].length \in Int
    BY <2>1 DEF SegSet
  <2>3. from(s) \in Nat /\ size(s) \in Nat
    BY <1>1, <2>1, PlaceFacts
  <2> QED
    BY <2>2, <2>3 DEF SegsFor
<1>3. ASSUME NEW s \in 1..n, NEW t \in 1..n, s < t
      PROVE  Ahead(place[s], place[t]) /\ place[s] # place[t]
  <2>1. Ahead(place[s], place[t])
    BY <1>3
  <2>2. place[s][1] \in Int /\ place[s][2] \in Int
    BY <1>1, PlaceFacts
  <2> QED
    BY <2>1, <2>2 DEF Ahead
<1>4. ASSUME NEW s \in 1..n, NEW t \in 1..n, EndsBefore(At(f, place[s]), At(f, place[t]))
      PROVE  /\ from(s) + size(s) <= from(t) /\ from(s) <= from(t)
             /\ segs[s].logical + segs[s].length <= segs[t].logical
             /\ segs[s].logical <= segs[t].logical
  <2>1. PICK a \in Nat, b \in Nat, c \in Nat : a = from(s) /\ b = size(s) /\ c = from(t)
    BY <1>2
  <2>2. a + b <= c
    BY <1>4, <2>1 DEF EndsBefore
  <2>3. (a + b) * w = a * w + b * w /\ (a + b) * w <= c * w /\ b * w \in Nat /\ a * w \in Nat
        /\ c * w \in Nat
    BY <2>2, ProductFacts
  <2>4. segs[s].logical = a * w /\ segs[t].logical = c * w /\ segs[s].length <= b * w
        /\ segs[s].length \in Int
    BY <1>2, <2>1
  <2>5. a * w + segs[s].length <= c * w /\ a * w <= c * w
    <3>1. PICK x, y, z, l : x = a * w /\ y = b * w /\ z = c * w /\ l = segs[s].length
      OBVIOUS
    <3>2. x \in Nat /\ y \in Nat /\ z \in Nat /\ l \in Int /\ x + y <= z /\ l <= y
      BY <2>3, <2>4, <3>1
    <3>3. x + l <= z /\ x <= z
      BY <3>2
    <3> QED
      BY <3>1, <3>3
  <2> QED
    BY <2>1, <2>2, <2>4, <2>5
<1> HIDE DEF from, size
<1>5. CASE InSequence(segs)
  <2>1. sorted = segs
    BY <1>5 DEF SortSlice
  <2> DEFINE q == [s \in 1..n |-> s]
  <2>2. q \in [1..n -> 1..n] /\ sorted = [s \in 1..n |-> segs[q[s]]]
    BY <1>1, <2>1
  <2>3. \A s \in 1..n : \E t \in 1..n : q[t] = s
    OBVIOUS
  <2>4. ASSUME NEW s \in 1..n, NEW t \in 1..n, s < t
        PROVE  segs[s].logical + segs[s].length <= segs[t].logical
    <3>1. segs[s].logical <= segs[t].logical
      BY <1>1, <1>5, <2>4 DEF InSequence
    <3>2. place[s] \in Places(f) /\ place[t] \in Places(f)
      OBVIOUS
    <3>3. CASE EndsBefore(At(f, place[s]), At(f, place[t]))
      BY <1>4, <3>3
    <3>4. CASE ~EndsBefore(At(f, place[s]), At(f, place[t]))
      <4>1. EndsBefore(At(f, place[t]), At(f, place[s])) /\ from(s) # from(t)
        BY <1>3, <2>4, <3>2, <3>4, FileFacts DEF from
      <4>2. from(t) <= from(s)
        BY <1>4, <4>1
      <4>3. from(t) \in Nat /\ from(s) \in Nat /\ from(s) * w <= from(t) * w
        BY <1>2, <3>1
      <4>4. from(s) <= from(t)
        BY <4>3, ProductFacts
      <4> QED
        BY <4>1, <4>2, <4>3, <4>4
    <3> QED
      BY <3>3, <3>4
  <2>5. InARow(sorted)
    BY <1>1, <2>1, <2>4 DEF InARow
  <2> HIDE DEF q
  <2> QED
    BY <2>2, <2>3, <2>5 DEF RowOf
<1>6. CASE ~InSequence(segs)
  <2>1. PICK s0 \in 1..n, t0 \in 1..n : s0 < t0 /\ ~(segs[s0].logical <= segs[t0].logical)
    BY <1>1, <1>6 DEF InSequence
  <2>2. ~EndsBefore(At(f, place[s0]), At(f, place[t0])) /\ Ahead(place[s0], place[t0])
    BY <1>3, <1>4, <2>1
  <2>3. \A u, v \in Places(f) :
           u # v => /\ At(f, u).from # At(f, v).from
                    /\ \/ EndsBefore(At(f, u), At(f, v))
                       \/ EndsBefore(At(f, v), At(f, u))
    BY <2>2, FileFacts
  <2>4. sorted \in {[s \in DOMAIN segs |-> segs[p[s]]] : p \in Bijection(DOMAIN segs, DOMAIN segs)}
        /\ InSequence(sorted)
    BY <1>6 DEF SortSlice
  <2>5. PICK q \in Bijection(1..n, 1..n) : sorted = [s \in 1..n |-> segs[q[s]]]
    BY <1>1, <2>4
  <2>6. q \in [1..n -> 1..n] /\ (\A s \in 1..n : \E t \in 1..n : q[t] = s)
        /\ \A s, t \in 1..n : q[s] = q[t] => s = t
    BY <2>5 DEF Bijection, Injection, Surjection, IsInjective
  <2>7. ASSUME NEW s \in 1..n, NEW t \in 1..n, s < t
        PROVE  sorted[s].logical + sorted[s].length <= sorted[t].logical
    <3>1. PICK x \in 1..n, y \in 1..n : x = q[s] /\ y = q[t] /\ x # y
      <4>1. q[s] \in 1..n /\ q[t] \in 1..n /\ s # t
        BY <2>6, <2>7
      <4>2. q[s] # q[t]
        BY <2>6, <4>1
      <4> QED
        BY <4>1, <4>2
    <3>2. sorted[s] = segs[x] /\ sorted[t] = segs[y]
      BY <2>5, <3>1
    <3>3. segs[x].logical <= segs[y].logical
      BY <2>4, <2>5, <2>7, <3>2 DEF InSequence
    <3>4. place[x] # place[y]
      <4>1. x < y \/ y < x
        BY <3>1
      <4> QED
        BY <1>3, <4>1
    <3>5. place[x] \in Places(f) /\ place[y] \in Places(f)
      OBVIOUS
    <3>6. CASE EndsBefore(At(f, place[x]), At(f, place[y]))
      BY <1>4, <3>2, <3>6
    <3>7. CASE ~EndsBefore(At(f, place[x]), At(f, place[y]))
      <4>1. EndsBefore(At(f, place[y]), At(f, place[x])) /\ from(x) # from(y)
        BY <2>3, <3>4, <3>5, <3>7 DEF from
      <4>2. from(y) <= from(x)
        BY <1>4, <4>1
      <4>3. from(y) \in Nat /\ from(x) \in Nat /\ from(x) * w <= from(y) * w
        BY <1>2, <3>3
      <4>4. from(x) <= from(y)
        BY <4>3, ProductFacts
      <4> QED
        BY <4>1, <4>2, <4>3, <4>4
    <3> QED
      BY <3>6, <3>7
  <2>8. DOMAIN sorted = 1..n
    BY <2>5
  <2>9. InARow(sorted)
    BY <2>7, <2>8 DEF InARow
  <2> QED
    BY <2>5, <2>6, <2>9 DEF RowOf
<1> QED
  BY <1>5, <1>6

-----------------------------------------------------------------------------
(* The invariant.                                                          *)

(* The segments a block of the file becomes.                               *)
DataSeg(p) ==
    Seg("DV", At(chain, p).from * RecSize, At(chain, p).n * RecSize, At(chain, p).from)

Flagged(p) == chain[p[1]].inval /\ At(chain, p).di = "DI"

FlagSeg(p) ==
    IF Flagged(p)
    THEN Seg("DI", At(chain, p).from * InvalSize, At(chain, p).n * InvalSize,
             At(chain, p).from)
    ELSE ZeroSeg(At(chain, p).from * InvalSize)

(* The blocks that have been added, and those with a segment in iv.        *)
Walked == {p \in Places(chain) : p[1] < ld \/ (p[1] = ld /\ p[2] < i)}
Tracked(p) == InvalSize > 0 /\ \E l \in 1..p[1] : chain[l].inval

(* place runs through the places of S in the order of the file.            *)
Visits(place, n, S) ==
    /\ place \in [1..n -> S]
    /\ \A p \in S : \E s \in 1..n : place[s] = p
    /\ \A s, t \in 1..n : s < t => Ahead(place[s], place[t])

ShapeInv ==
    /\ chain \in Files /\ chain \in Seq(AnyList)
    /\ ld \in 1..(Len(chain) + 1) /\ i \in Nat /\ sampleIdx \in Nat
    /\ data \in Seq(SegSet) /\ iv \in Seq(SegSet) /\ hasIv \in BOOLEAN
    /\ status \in {"walking", "ready", "failed"}

(* While the lists are walked, the segments are those of the blocks so far.*)
WalkInv ==
    status = "walking" =>
        /\ i # 0 => ld <= Len(chain) /\ i \in 1..(Len(chain[ld].blocks) + 1)
        /\ sampleIdx = First(chain, ld) + (IF i = 0 THEN 0 ELSE i - 1)
        /\ hasIv <=> /\ InvalSize > 0
                     /\ \E l \in 1..Len(chain) :
                           (l < ld \/ (l = ld /\ i > 0)) /\ chain[l].inval
        /\ \E place \in [1..Len(data) -> Walked] :
              /\ Visits(place, Len(data), Walked)
              /\ \A s \in 1..Len(data) : data[s] = DataSeg(place[s])
        /\ \E place \in [1..Len(iv) -> {p \in Walked : Tracked(p)}] :
              /\ Visits(place, Len(iv), {p \in Walked : Tracked(p)})
              /\ \A s \in 1..Len(iv) : iv[s] = FlagSeg(place[s])

EmptyAt(p) ==
    \E q \in Places(chain) :
        At(chain, q).n = 0 /\ At(chain, q).from = At(chain, p).from

(* An omitted block is a segment of zeros of the same size; but where there*)
(* is an empty block at its start, zeroSegLen measured that one.           *)
FlagOK(seg, p) ==
    \/ Flagged(p) /\ seg = FlagSeg(p)
    \/ /\ ~Flagged(p) /\ seg.kind = "zero"
       /\ seg.logical = At(chain, p).from * InvalSize
       /\ seg.length = IF EmptyAt(p) THEN 0 ELSE At(chain, p).n * InvalSize

(* When they have been, each stream is a row of them.                      *)
DataInv ==
    /\ InARow(data)
    /\ \E place \in [1..Len(data) -> Places(chain)] :
          /\ \A p \in Places(chain) : \E s \in 1..Len(data) : place[s] = p
          /\ \A s \in 1..Len(data) : data[s] = DataSeg(place[s])

FlagInv ==
    /\ InARow(iv)
    /\ \E place \in [1..Len(iv) -> {p \in Places(chain) : Tracked(p)}] :
          /\ \A p \in Places(chain) : Tracked(p) => \E s \in 1..Len(iv) : place[s] = p
          /\ \A s \in 1..Len(iv) : FlagOK(iv[s], place[s])

ReadyInv ==
    status = "ready" =>
        /\ hasIv <=> InvalSize > 0 /\ \E l \in 1..Len(chain) : chain[l].inval
        /\ DataInv /\ FlagInv

(* What was read is what the streams give.                                 *)
ColInv ==
    col.done =>
        /\ status = "ready"
        /\ \E c \in Channels : \E e \in DOMAIN Elements(c) :
           \E from, count \in 0..MaxSamples : col = Column(c, e, from, count)

ColumnInv == ShapeInv /\ WalkInv /\ ReadyInv /\ ColInv

LEMMA SegTypes ==
    ASSUME chain \in Seq(AnyList), NEW p \in Places(chain)
    PROVE  DataSeg(p) \in SegSet /\ FlagSeg(p) \in SegSet
<1>1. At(chain, p).from \in Nat /\ At(chain, p).n \in Nat
  BY PlaceFacts
<1>2. RecSize \in Nat /\ InvalSize \in Nat
  BY SizeAssumption
<1>3. /\ At(chain, p).from * RecSize \in Nat /\ At(chain, p).n * RecSize \in Nat
      /\ At(chain, p).from * InvalSize \in Nat /\ At(chain, p).n * InvalSize \in Nat
  BY <1>1, <1>2, ProductFacts
<1>4. -1 \in Int /\ 0 \in Nat
  OBVIOUS
<1> QED
  BY <1>1, <1>3, <1>4 DEF DataSeg, FlagSeg, Seg, ZeroSeg, SegSet

GoesOn(more, place, n, S, p) ==
    /\ Visits(more, n + 1, S \union {p}) /\ more[n + 1] = p
    /\ \A s \in 1..n : more[s] = place[s]

LEMMA VisitsMore ==
    ASSUME NEW n \in Nat, NEW S, NEW place, Visits(place, n, S), NEW p,
           \A q \in S : Ahead(q, p)
    PROVE  \E more : GoesOn(more, place, n, S, p)
<1>0. PICK T : T = S \union {p}
  OBVIOUS
<1> DEFINE more == [s \in 1..(n + 1) |-> IF s = n + 1 THEN p ELSE place[s]]
<1>1. place \in [1..n -> S] /\ \A q \in S : \E s \in 1..n : place[s] = q
  BY DEF Visits
<1>2. \A s \in 1..(n + 1) : s # n + 1 => s \in 1..n
  OBVIOUS
<1>3. /\ more[n + 1] = p /\ \A s \in 1..n : more[s] = place[s] /\ s \in 1..(n + 1)
      /\ n + 1 \in 1..(n + 1)
  OBVIOUS
<1>4. more \in [1..(n + 1) -> T]
  BY <1>0, <1>1, <1>2
<1> HIDE DEF more
<1>5. \A q \in T : \E s \in 1..(n + 1) : more[s] = q
  BY <1>0, <1>1, <1>3
<1>6. ASSUME NEW s \in 1..(n + 1), NEW t \in 1..(n + 1), s < t
      PROVE  Ahead(more[s], more[t])
  <2>1. s \in 1..n
    BY <1>6
  <2>2. CASE t = n + 1
    BY <1>1, <1>3, <2>1, <2>2
  <2>3. CASE t # n + 1
    <3>1. t \in 1..n
      BY <2>3
    <3> QED
      BY <1>3, <1>6, <2>1, <3>1 DEF Visits
  <2> QED
    BY <2>2, <2>3
<1> QED
  BY <1>0, <1>3, <1>4, <1>5, <1>6 DEF Visits, GoesOn

LEMMA InitKeeps == Init => ColumnInv
<1> SUFFICES ASSUME Init PROVE ColumnInv
  OBVIOUS
<1>1. chain \in Files /\ chain \in Seq(AnyList)
  BY FileFacts DEF Init
<1>2. /\ ld = 1 /\ i = 0 /\ sampleIdx = 0 /\ data = <<>> /\ iv = <<>> /\ hasIv = FALSE
      /\ status = "walking" /\ col.done = FALSE
  BY DEF Init, NoColumn
<1>3. ShapeInv
  <2>1. Len(chain) \in Nat
    BY <1>1
  <2>2. data \in Seq(SegSet) /\ iv \in Seq(SegSet)
    BY <1>2
  <2>3. 1 \in 1..(Len(chain) + 1) /\ 0 \in Nat
    BY <2>1
  <2> QED
    BY <1>1, <1>2, <2>2, <2>3, Zenon DEF ShapeInv
<1>4. Walked = {}
  <2>1. SUFFICES ASSUME NEW p \in Walked PROVE FALSE
    OBVIOUS
  <2>2. p \in Places(chain) /\ (p[1] < 1 \/ (p[1] = 1 /\ p[2] < 0))
    BY <1>2 DEF Walked
  <2>3. p[1] \in 1..Len(chain) /\ p[2] \in 1..Len(chain[p[1]].blocks)
    BY <1>1, <2>2, PlaceFacts
  <2> QED
    BY <2>2, <2>3
<1>5. WalkInv
  <2>1. sampleIdx = First(chain, ld) + (IF i = 0 THEN 0 ELSE i - 1)
    BY <1>1, <1>2, FirstIs
  <2>2. ~ \E l \in 1..Len(chain) : (l < ld \/ (l = ld /\ i > 0)) /\ chain[l].inval
    BY <1>2
  <2> DEFINE place == [s \in 1..0 |-> 0]
  <2>3. Len(data) = 0 /\ Len(iv) = 0 /\ {p \in Walked : Tracked(p)} = {}
    BY <1>2, <1>4
  <2>4. place \in [1..0 -> {}] /\ Visits(place, 0, {})
    BY DEF Visits
  <2> HIDE DEF place
  <2>5. \E pl \in [1..Len(data) -> Walked] :
            Visits(pl, Len(data), Walked) /\ \A s \in 1..Len(data) : data[s] = DataSeg(pl[s])
    BY <1>4, <2>3, <2>4
  <2>6. \E pl \in [1..Len(iv) -> {p \in Walked : Tracked(p)}] :
            /\ Visits(pl, Len(iv), {p \in Walked : Tracked(p)})
            /\ \A s \in 1..Len(iv) : iv[s] = FlagSeg(pl[s])
    BY <2>3, <2>4
  <2> QED
    BY <1>2, <2>1, <2>2, <2>5, <2>6 DEF WalkInv
<1> QED
  BY <1>2, <1>3, <1>5 DEF ColumnInv, ReadyInv, ColInv

(* What a step that leaves the chain alone does not change.                *)
LEMMA ChainStays ==
    ASSUME chain' = chain
    PROVE  /\ \A p : DataSeg(p)' = DataSeg(p) /\ FlagSeg(p)' = FlagSeg(p)
           /\ \A p : Tracked(p)' = Tracked(p)
           /\ Places(chain)' = Places(chain)
  BY DEF DataSeg, FlagSeg, Flagged, Tracked

LEMMA EnterKeeps ==
    ASSUME ColumnInv, EnterLD
    PROVE  ColumnInv'
<1>1. ShapeInv /\ WalkInv /\ ReadyInv /\ ColInv
  BY DEF ColumnInv
<1>2. /\ status = "walking" /\ i = 0 /\ ld <= Len(chain) /\ i' = 1
      /\ hasIv' = (hasIv \/ (chain[ld].inval /\ InvalSize > 0))
      /\ chain' = chain /\ ld' = ld /\ sampleIdx' = sampleIdx /\ data' = data /\ iv' = iv
      /\ status' = status /\ col' = col
  BY DEF EnterLD
<1>3. /\ chain \in Seq(AnyList) /\ ld \in 1..Len(chain) /\ Len(chain) \in Nat
      /\ chain[ld] \in AnyList /\ Len(chain[ld].blocks) \in Nat /\ chain[ld].inval \in BOOLEAN
  <2>1. chain \in Seq(AnyList) /\ ld \in 1..Len(chain) /\ Len(chain) \in Nat
    BY <1>1, <1>2 DEF ShapeInv
  <2>2. chain[ld] \in AnyList
    BY <2>1
  <2> QED
    BY <2>1, <2>2 DEF AnyList
<1>4. ShapeInv'
  BY <1>1, <1>2, <1>3 DEF ShapeInv
<1>5. Walked' = Walked
  <2>1. ASSUME NEW p \in Places(chain)
        PROVE  (p[1] < ld \/ (p[1] = ld /\ p[2] < i)) <=> (p[1] < ld \/ (p[1] = ld /\ p[2] < 1))
    BY <1>2, <1>3, PlaceFacts
  <2> QED
    BY <1>2, <2>1 DEF Walked
<1>6. WalkInv'
  <2>1. i' # 0 => ld' <= Len(chain') /\ i' \in 1..(Len(chain'[ld'].blocks) + 1)
    BY <1>2, <1>3
  <2>2. sampleIdx' = First(chain', ld') + (IF i' = 0 THEN 0 ELSE i' - 1)
    BY <1>1, <1>2 DEF WalkInv
  <2>3. hasIv' <=> /\ InvalSize > 0
                   /\ \E l \in 1..Len(chain') :
                         (l < ld' \/ (l = ld' /\ i' > 0)) /\ chain'[l].inval
    <3>1. hasIv <=> InvalSize > 0 /\ \E l \in 1..Len(chain) : l < ld /\ chain[l].inval
      BY <1>1, <1>2 DEF WalkInv
    <3>2. (\E l \in 1..Len(chain) : (l < ld \/ (l = ld /\ 1 > 0)) /\ chain[l].inval)
            <=> chain[ld].inval \/ \E l \in 1..Len(chain) : l < ld /\ chain[l].inval
      BY <1>3
    <3> QED
      BY <1>2, <3>1, <3>2
  <2>4. \A p : DataSeg(p)' = DataSeg(p) /\ FlagSeg(p)' = FlagSeg(p) /\ Tracked(p)' = Tracked(p)
    BY <1>2, ChainStays
  <2>5. {p \in Walked' : Tracked(p)'} = {p \in Walked : Tracked(p)}
    BY <1>5, <2>4
  <2>6. \E place \in [1..Len(data)' -> Walked'] :
            /\ Visits(place, Len(data)', Walked')
            /\ \A s \in 1..Len(data)' : data'[s] = DataSeg(place[s])'
    BY <1>1, <1>2, <1>5, <2>4 DEF WalkInv
  <2>7. \E place \in [1..Len(iv)' -> {p \in Walked' : Tracked(p)'}] :
            /\ Visits(place, Len(iv)', {p \in Walked' : Tracked(p)'})
            /\ \A s \in 1..Len(iv)' : iv'[s] = FlagSeg(place[s])'
    BY <1>1, <1>2, <2>4, <2>5 DEF WalkInv
  <2> QED
    BY <2>1, <2>2, <2>3, <2>6, <2>7 DEF WalkInv
<1> QED
  BY <1>1, <1>2, <1>4, <1>6 DEF ColumnInv, ReadyInv, ColInv

LEMMA LeaveKeeps ==
    ASSUME ColumnInv, LeaveLD
    PROVE  ColumnInv'
<1>1. ShapeInv /\ WalkInv /\ ReadyInv /\ ColInv
  BY DEF ColumnInv
<1>2. /\ status = "walking" /\ ld <= Len(chain) /\ i = Len(chain[ld].blocks) + 1
      /\ ld' = ld + 1 /\ i' = 0 /\ hasIv' = hasIv
      /\ chain' = chain /\ sampleIdx' = sampleIdx /\ data' = data /\ iv' = iv
      /\ status' = status /\ col' = col
  BY DEF LeaveLD
<1>3. /\ chain \in Seq(AnyList) /\ ld \in 1..Len(chain) /\ Len(chain) \in Nat
      /\ chain[ld] \in AnyList /\ Len(chain[ld].blocks) \in Nat
  <2>1. chain \in Seq(AnyList) /\ ld \in 1..Len(chain) /\ Len(chain) \in Nat
    BY <1>1, <1>2 DEF ShapeInv
  <2>2. chain[ld] \in AnyList
    BY <2>1
  <2> QED
    BY <2>1, <2>2 DEF AnyList
<1>4. ShapeInv'
  BY <1>1, <1>2, <1>3 DEF ShapeInv
<1>5. Walked' = Walked
  <2>1. ASSUME NEW p \in Places(chain)
        PROVE  (p[1] < ld \/ (p[1] = ld /\ p[2] < i))
                  <=> (p[1] < ld + 1 \/ (p[1] = ld + 1 /\ p[2] < 0))
    <3>1. p[1] \in 1..Len(chain) /\ p[2] \in 1..Len(chain[p[1]].blocks)
      BY <1>3, PlaceFacts
    <3>2. p[1] = ld => p[2] < i
      BY <1>2, <1>3, <3>1
    <3> QED
      BY <1>3, <3>1, <3>2
  <2> QED
    BY <1>2, <2>1 DEF Walked
<1>6. WalkInv'
  <2>1. i' = 0
    BY <1>2
  <2>2. sampleIdx' = First(chain', ld') + (IF i' = 0 THEN 0 ELSE i' - 1)
    <3>1. sampleIdx = First(chain, ld) + (i - 1) /\ i - 1 = Len(chain[ld].blocks)
      BY <1>1, <1>2, <1>3 DEF WalkInv
    <3>2. First(chain, ld + 1) = First(chain, ld) + Len(chain[ld].blocks) /\ First(chain, ld) \in Nat
      BY <1>3, FirstIs
    <3>3. First(chain, ld + 1) + 0 = sampleIdx
      BY <1>3, <3>1, <3>2
    <3> QED
      BY <1>2, <3>3
  <2>3. hasIv' <=> /\ InvalSize > 0
                   /\ \E l \in 1..Len(chain') :
                         (l < ld' \/ (l = ld' /\ i' > 0)) /\ chain'[l].inval
    <3>1. i > 0
      BY <1>2, <1>3
    <3>2. hasIv <=> InvalSize > 0 /\ \E l \in 1..Len(chain) : (l < ld \/ l = ld) /\ chain[l].inval
      BY <1>1, <1>2, <3>1 DEF WalkInv
    <3>3. \A l \in 1..Len(chain) : (l < ld \/ l = ld) <=> (l < ld + 1 \/ (l = ld + 1 /\ 0 > 0))
      BY <1>3
    <3> QED
      BY <1>2, <3>2, <3>3
  <2>4. \A p : DataSeg(p)' = DataSeg(p) /\ FlagSeg(p)' = FlagSeg(p) /\ Tracked(p)' = Tracked(p)
    BY <1>2, ChainStays
  <2>5. {p \in Walked' : Tracked(p)'} = {p \in Walked : Tracked(p)}
    BY <1>5, <2>4
  <2>6. \E place \in [1..Len(data)' -> Walked'] :
            /\ Visits(place, Len(data)', Walked')
            /\ \A s \in 1..Len(data)' : data'[s] = DataSeg(place[s])'
    BY <1>1, <1>2, <1>5, <2>4 DEF WalkInv
  <2>7. \E place \in [1..Len(iv)' -> {p \in Walked' : Tracked(p)'}] :
            /\ Visits(place, Len(iv)', {p \in Walked' : Tracked(p)'})
            /\ \A s \in 1..Len(iv)' : iv'[s] = FlagSeg(place[s])'
    BY <1>1, <1>2, <2>4, <2>5 DEF WalkInv
  <2> QED
    BY <2>1, <2>2, <2>3, <2>6, <2>7 DEF WalkInv
<1> QED
  BY <1>1, <1>2, <1>4, <1>6 DEF ColumnInv, ReadyInv, ColInv

(* The list tells where the block starts that comes next.                  *)
LEMMA StartIs ==
    ASSUME ShapeInv, WalkInv, status = "walking", ld <= Len(chain), i \in DOMAIN chain[ld].blocks
    PROVE  /\ <<ld, i>> \in Places(chain) /\ At(chain, <<ld, i>>) = chain[ld].blocks[i]
           /\ StartOf(chain[ld]) = At(chain, <<ld, i>>).from
<1>1. /\ chain \in Seq(AnyList) /\ chain \in Files /\ ld \in 1..Len(chain)
      /\ chain[ld] \in AnyList /\ ld \in DOMAIN chain
  <2>1. chain \in Seq(AnyList) /\ chain \in Files /\ ld \in 1..Len(chain)
    BY DEF ShapeInv
  <2> QED
    BY <2>1
<1>2. chain[ld].blocks \in Seq(AnyBlock) /\ chain[ld].equal \in Nat
  BY <1>1 DEF AnyList
<1>3. i \in 1..Len(chain[ld].blocks)
  BY <1>2
<1>4. PICK p : p = <<ld, i>>
  OBVIOUS
<1>5. p \in Places(chain) /\ At(chain, p) = chain[ld].blocks[i] /\ p[1] = ld /\ p[2] = i
  BY <1>1, <1>4, PlaceThere
<1>6. chain[p[1]].equal > 0 => At(chain, p).from = chain[p[1]].equal * (First(chain, p[1]) + p[2] - 1)
  BY <1>1, <1>5, FileFacts
<1>7. sampleIdx = First(chain, ld) + (i - 1) /\ First(chain, ld) \in Nat
  BY <1>1, <1>3, FirstIs DEF WalkInv
<1>8. sampleIdx = First(chain, ld) + i - 1
  BY <1>3, <1>7
<1>9. CASE chain[ld].equal > 0
  BY <1>4, <1>5, <1>6, <1>8, <1>9 DEF StartOf
<1>10. CASE ~(chain[ld].equal > 0)
  BY <1>4, <1>5, <1>10 DEF StartOf
<1> QED
  BY <1>4, <1>5, <1>9, <1>10

LEMMA AddKeeps ==
    ASSUME ColumnInv, AddBlock
    PROVE  ColumnInv'
<1>1. ShapeInv /\ WalkInv /\ ReadyInv /\ ColInv
  BY DEF ColumnInv
<1> DEFINE p == <<ld, i>>
           seg == InvalSeg(chain[ld], chain[ld].blocks[i])
<1>2. /\ status = "walking" /\ ld <= Len(chain) /\ i \in DOMAIN chain[ld].blocks
      /\ data' = Append(data, Seg("DV", StartOf(chain[ld]) * RecSize,
                                  chain[ld].blocks[i].n * RecSize, chain[ld].blocks[i].from))
      /\ iv' = IF hasIv THEN Append(iv, seg) ELSE iv
      /\ sampleIdx' = sampleIdx + 1 /\ i' = i + 1
      /\ chain' = chain /\ ld' = ld /\ hasIv' = hasIv /\ status' = status /\ col' = col
  BY DEF AddBlock
<1>3. /\ chain \in Seq(AnyList) /\ ld \in 1..Len(chain) /\ Len(chain) \in Nat
      /\ chain[ld] \in AnyList /\ Len(chain[ld].blocks) \in Nat
      /\ i \in 1..Len(chain[ld].blocks)
      /\ data \in Seq(SegSet) /\ iv \in Seq(SegSet)
  <2>1. /\ chain \in Seq(AnyList) /\ ld \in 1..Len(chain) /\ Len(chain) \in Nat
        /\ data \in Seq(SegSet) /\ iv \in Seq(SegSet)
    BY <1>1, <1>2 DEF ShapeInv
  <2>2. chain[ld] \in AnyList
    BY <2>1
  <2>3. chain[ld].blocks \in Seq(AnyBlock)
    BY <2>2 DEF AnyList
  <2> QED
    BY <1>2, <2>1, <2>2, <2>3
<1>4. /\ p \in Places(chain) /\ At(chain, p) = chain[ld].blocks[i]
      /\ StartOf(chain[ld]) = At(chain, p).from /\ p[1] = ld /\ p[2] = i
  BY <1>1, <1>2, StartIs
<1>5. data' = Append(data, DataSeg(p))
  BY <1>2, <1>4 DEF DataSeg
<1>6. seg = FlagSeg(p)
  BY <1>4 DEF InvalSeg, FlagSeg, Flagged
<1>7. DataSeg(p) \in SegSet /\ FlagSeg(p) \in SegSet
  BY <1>3, <1>4, SegTypes
<1>8. hasIv <=> Tracked(p)
  <2>1. hasIv <=> /\ InvalSize > 0
                  /\ \E l \in 1..Len(chain) : (l < ld \/ (l = ld /\ i > 0)) /\ chain[l].inval
    BY <1>1, <1>2 DEF WalkInv
  <2>2. \A l \in 1..Len(chain) : (l < ld \/ (l = ld /\ i > 0)) <=> l \in 1..ld
    BY <1>3
  <2>3. \A l \in 1..ld : l \in 1..Len(chain)
    BY <1>3
  <2> QED
    BY <1>4, <2>1, <2>2, <2>3 DEF Tracked
<1> HIDE DEF p, seg
<1>9. ShapeInv'
  <2>1. Append(data, DataSeg(p)) \in Seq(SegSet) /\ Append(iv, FlagSeg(p)) \in Seq(SegSet)
    BY <1>3, <1>7
  <2>2. data' \in Seq(SegSet) /\ iv' \in Seq(SegSet)
    BY <1>2, <1>3, <1>5, <1>6, <2>1
  <2>3. i' \in Nat /\ sampleIdx' \in Nat
    <3>1. i' = i + 1 /\ sampleIdx' = sampleIdx + 1
      BY <1>2
    <3>2. i \in Nat /\ sampleIdx \in Nat
      BY <1>1 DEF ShapeInv
    <3> QED
      BY <3>1, <3>2
  <2> QED
    BY <1>1, <1>2, <2>2, <2>3 DEF ShapeInv
<1>10. Walked' = Walked \union {p}
  <2>1. ASSUME NEW q \in Places(chain)
        PROVE  (q[1] < ld \/ (q[1] = ld /\ q[2] < i + 1))
                  <=> (q[1] < ld \/ (q[1] = ld /\ q[2] < i)) \/ q = p
    <3>1. q[1] \in Nat /\ q[2] \in Nat /\ q = <<q[1], q[2]>>
      BY <1>3, PlaceFacts
    <3>2. q = p <=> q[1] = ld /\ q[2] = i
      BY <1>4, <3>1 DEF p
    <3>3. q[2] < i + 1 <=> q[2] < i \/ q[2] = i
      BY <1>3, <3>1
    <3> QED
      BY <3>2, <3>3
  <2> QED
    BY <1>2, <1>4, <2>1 DEF Walked
<1>11. ASSUME NEW q \in Walked PROVE Ahead(q, p)
  BY <1>4 DEF Walked, Ahead
<1>12. \A q : DataSeg(q)' = DataSeg(q) /\ FlagSeg(q)' = FlagSeg(q) /\ Tracked(q)' = Tracked(q)
  BY <1>2, ChainStays
<1>13. \E place \in [1..Len(data') -> Walked'] :
          /\ Visits(place, Len(data'), Walked')
          /\ \A s \in 1..Len(data') : data'[s] = DataSeg(place[s])'
  <2>2. PICK n \in Nat : n = Len(data)
    BY <1>3
  <2>1. PICK place : /\ Visits(place, n, Walked)
                     /\ \A s \in 1..n : data[s] = DataSeg(place[s])
    BY <1>1, <1>2, <2>2 DEF WalkInv
  <2>3. PICK more \in [1..(n + 1) -> Walked'] :
            /\ Visits(more, n + 1, Walked') /\ more[n + 1] = p
            /\ \A s \in 1..n : more[s] = place[s]
    <3>1. PICK more : GoesOn(more, place, n, Walked, p)
      BY <1>11, <2>1, VisitsMore
    <3>2. more \in [1..(n + 1) -> Walked']
      BY <1>10, <3>1 DEF Visits, GoesOn
    <3> QED
      BY <1>10, <3>1, <3>2 DEF GoesOn
  <2>4. Len(data') = n + 1 /\ data'[n + 1] = DataSeg(p) /\ \A s \in 1..n : data'[s] = data[s]
    BY <1>3, <1>5, <1>7, <2>2
  <2>5. ASSUME NEW s \in 1..(n + 1) PROVE data'[s] = DataSeg(more[s])
    <3>1. CASE s = n + 1
      BY <2>3, <2>4, <3>1
    <3>2. CASE s # n + 1
      <4>1. s \in 1..n
        BY <3>2
      <4> QED
        BY <2>1, <2>2, <2>3, <2>4, <4>1
    <3> QED
      BY <3>1, <3>2
  <2> QED
    BY <1>12, <2>3, <2>4, <2>5
<1>14. \E place \in [1..Len(iv') -> {q \in Walked' : Tracked(q)'}] :
          /\ Visits(place, Len(iv'), {q \in Walked' : Tracked(q)'})
          /\ \A s \in 1..Len(iv') : iv'[s] = FlagSeg(place[s])'
  <2> DEFINE S == {q \in Walked : Tracked(q)}
             T == {q \in Walked' : Tracked(q)'}
  <2>1. PICK place \in [1..Len(iv) -> S] :
            Visits(place, Len(iv), S) /\ \A s \in 1..Len(iv) : iv[s] = FlagSeg(place[s])
    BY <1>1, <1>2 DEF WalkInv
  <2>2. CASE ~hasIv
    <3>1. T = S
      BY <1>8, <1>10, <1>12, <2>2
    <3>2. iv' = iv
      BY <1>2, <2>2
    <3> HIDE DEF S, T
    <3>3. Visits(place, Len(iv), T) /\ place \in [1..Len(iv) -> T]
      BY <2>1, <3>1
    <3>4. \A s \in 1..Len(iv) : iv[s] = FlagSeg(place[s])'
      BY <1>12, <2>1
    <3>5. \E pl \in [1..Len(iv') -> T] :
              Visits(pl, Len(iv'), T) /\ \A s \in 1..Len(iv') : iv'[s] = FlagSeg(pl[s])'
      BY <3>2, <3>3, <3>4
    <3> QED
      BY <3>5 DEF T
  <2>3. CASE hasIv
    <3>1. T = S \union {p}
      BY <1>8, <1>10, <1>12, <2>3
    <3>2. PICK n \in Nat : n = Len(iv)
      BY <1>3
    <3>3. \A q \in S : Ahead(q, p)
      BY <1>11
    <3> HIDE DEF S, T
    <3>4. PICK more \in [1..(n + 1) -> T] :
              /\ Visits(more, n + 1, T) /\ more[n + 1] = p
              /\ \A s \in 1..n : more[s] = place[s]
      <4>0. PICK U, pl : U = S /\ pl = place
        OBVIOUS
      <4>1. Visits(pl, n, U) /\ \A q \in U : Ahead(q, p)
        BY <2>1, <3>2, <3>3, <4>0
      <4>2. PICK more : GoesOn(more, pl, n, U, p)
        BY <4>1, VisitsMore
      <4>3. more \in [1..(n + 1) -> T]
        BY <3>1, <4>0, <4>2 DEF Visits, GoesOn
      <4> QED
        BY <3>1, <4>0, <4>2, <4>3 DEF GoesOn
    <3>5. iv' = Append(iv, FlagSeg(p))
      BY <1>2, <1>6, <2>3
    <3>6. Len(iv') = n + 1 /\ iv'[n + 1] = FlagSeg(p) /\ \A s \in 1..n : iv'[s] = iv[s]
      BY <1>3, <1>7, <3>2, <3>5
    <3>7. ASSUME NEW s \in 1..(n + 1) PROVE iv'[s] = FlagSeg(more[s])
      <4>1. CASE s = n + 1
        BY <3>4, <3>6, <4>1
      <4>2. CASE s # n + 1
        <5>1. s \in 1..n
          BY <4>2
        <5> QED
          BY <2>1, <3>2, <3>4, <3>6, <5>1
      <4> QED
        BY <4>1, <4>2
    <3>8. \E pl \in [1..Len(iv') -> T] :
              Visits(pl, Len(iv'), T) /\ \A s \in 1..Len(iv') : iv'[s] = FlagSeg(pl[s])'
      BY <1>12, <3>4, <3>6, <3>7
    <3> QED
      BY <3>8 DEF T
  <2> QED
    BY <2>2, <2>3
<1>15. WalkInv'
  <2>1. i' # 0 => ld' <= Len(chain') /\ i' \in 1..(Len(chain'[ld'].blocks) + 1)
    BY <1>2, <1>3
  <2>2. sampleIdx' = First(chain', ld') + (IF i' = 0 THEN 0 ELSE i' - 1)
    <3>1. sampleIdx = First(chain, ld) + (i - 1) /\ First(chain, ld) \in Nat
      BY <1>1, <1>2, <1>3, FirstIs DEF WalkInv
    <3>2. sampleIdx + 1 = First(chain, ld) + ((i + 1) - 1) /\ i + 1 # 0
      BY <1>3, <3>1
    <3> QED
      BY <1>2, <3>2
  <2>3. hasIv' <=> /\ InvalSize > 0
                   /\ \E l \in 1..Len(chain') :
                         (l < ld' \/ (l = ld' /\ i' > 0)) /\ chain'[l].inval
    <3>1. hasIv <=> InvalSize > 0 /\ \E l \in 1..Len(chain) : (l < ld \/ (l = ld /\ i > 0)) /\ chain[l].inval
      BY <1>1, <1>2 DEF WalkInv
    <3>2. i > 0 /\ i + 1 > 0
      BY <1>3
    <3> QED
      BY <1>2, <3>1, <3>2
  <2> QED
    BY <1>13, <1>14, <2>1, <2>2, <2>3 DEF WalkInv
<1> QED
  BY <1>1, <1>2, <1>9, <1>15 DEF ColumnInv, ReadyInv, ColInv

LEMMA WholeDivision ==
    ASSUME NEW t \in Nat, NEW r \in Nat, r > 0
    PROVE  (t * r) \div r = t
  OBVIOUS

(* An omitted block is measured by its data block, unless an empty one has *)
(* the same start.                                                         *)
LEMMA ZeroLength ==
    ASSUME chain \in Seq(AnyList), InvalSize > 0,
           NEW segs \in Seq(SegSet), InARow(segs), NEW n \in Nat, n = Len(segs),
           NEW place \in [1..n -> Places(chain)],
           \A q \in Places(chain) : \E s \in 1..n : place[s] = q,
           \A s \in 1..n : segs[s] = DataSeg(place[s]),
           NEW p \in Places(chain)
    PROVE  ZeroSegLen(segs, At(chain, p).from * InvalSize) =
              IF EmptyAt(p) THEN 0 ELSE At(chain, p).n * InvalSize
<1>1. PICK o \in 1..n : place[o] = p
  OBVIOUS
<1>2. PICK from \in Nat, size \in Nat : from = At(chain, p).from /\ size = At(chain, p).n
  BY PlaceFacts
<1>3. InvalSize \in Nat /\ RecSize \in Nat /\ RecSize > 0
  BY SizeAssumption
<1>4. (from * InvalSize) \div InvalSize = from
  BY <1>3, WholeDivision
<1> DEFINE same == {s \in DOMAIN segs : segs[s].logical = from * RecSize}
<1>5. DOMAIN segs = 1..n
  OBVIOUS
<1>6. ASSUME NEW s \in 1..n
      PROVE  /\ segs[s].logical = At(chain, place[s]).from * RecSize
             /\ segs[s].length = At(chain, place[s]).n * RecSize
             /\ place[s] \in Places(chain)
             /\ At(chain, place[s]).from \in Nat /\ At(chain, place[s]).n \in Nat
  <2>1. segs[s] = DataSeg(place[s]) /\ place[s] \in Places(chain)
    OBVIOUS
  <2> QED
    BY <2>1, PlaceFacts DEF DataSeg, Seg
<1>7. o \in same
  BY <1>1, <1>2, <1>5, <1>6
<1>8. ZeroSegLen(segs, from * InvalSize) = (segs[Min(same)].length \div RecSize) * InvalSize
  BY <1>4, <1>7 DEF ZeroSegLen
<1>9. Min(same) \in same /\ \A y \in same : Min(same) <= y
  <2>1. same \in SUBSET (1..n) /\ same # {}
    BY <1>5, <1>7
  <2> HIDE DEF same
  <2> QED
    BY <2>1, MinThere
<1>10. PICK m \in 1..n :
          /\ m = Min(same) /\ m <= o /\ segs[m].logical = from * RecSize
          /\ \A t \in 1..n : segs[t].logical = from * RecSize => m <= t
  BY <1>5, <1>7, <1>9
<1> HIDE DEF same
<1>11. PICK b \in Nat, k \in Nat : b = At(chain, place[m]).from /\ k = At(chain, place[m]).n
  BY <1>6
<1>12. b * RecSize = from * RecSize /\ segs[m].length = k * RecSize
  BY <1>6, <1>10, <1>11
<1>13. b = from
  BY <1>3, <1>12, ProductFacts
<1>14. ZeroSegLen(segs, from * InvalSize) = k * InvalSize
  <2>1. (k * RecSize) \div RecSize = k
    BY <1>3, WholeDivision
  <2> QED
    BY <1>8, <1>10, <1>12, <2>1
<1>15. ASSUME NEW t \in 1..n, segs[t].logical = from * RecSize, m # t PROVE k = 0
  <2>1. m < t
    BY <1>10, <1>15
  <2>2. segs[m].logical + segs[m].length <= segs[t].logical
    BY <1>5, <2>1 DEF InARow
  <2>3. PICK x \in Nat, y \in Nat : x = from * RecSize /\ y = k * RecSize
    BY <1>3, ProductFacts
  <2>4. x + y <= x
    BY <1>10, <1>12, <1>15, <2>2, <2>3
  <2>5. k * RecSize = 0 * RecSize
    BY <1>3, <2>3, <2>4
  <2> QED
    BY <1>3, <2>5, ProductFacts
<1>16. CASE EmptyAt(p)
  <2>1. PICK q \in Places(chain) : At(chain, q).n = 0 /\ At(chain, q).from = from
    BY <1>2, <1>16 DEF EmptyAt
  <2>2. PICK t \in 1..n : place[t] = q
    BY <2>1
  <2>3. segs[t].logical = from * RecSize
    BY <1>6, <2>1, <2>2
  <2>4. k = 0
    BY <1>11, <1>15, <2>1, <2>2, <2>3
  <2>5. ZeroSegLen(segs, from * InvalSize) = 0
    BY <1>3, <1>14, <2>4
  <2> QED
    BY <1>2, <1>16, <2>5
<1>17. CASE ~EmptyAt(p)
  <2>1. m = o
    <3>1. SUFFICES ASSUME m # o PROVE FALSE
      OBVIOUS
    <3>2. segs[o].logical = from * RecSize
      BY <1>1, <1>2, <1>6
    <3>3. k = 0
      BY <1>15, <3>1, <3>2
    <3>4. place[m] \in Places(chain)
      BY <1>6
    <3> QED
      BY <1>2, <1>11, <1>13, <1>17, <3>3, <3>4 DEF EmptyAt
  <2> QED
    BY <1>1, <1>2, <1>11, <1>14, <1>17, <2>1
<1> QED
  BY <1>16, <1>17

(* A segment whose length is settled, for the block p.                     *)
SettledFor(p, seg) ==
    /\ seg \in SegSet /\ FlagOK(seg, p)
    /\ seg.logical = At(chain, p).from * InvalSize
    /\ seg.length <= At(chain, p).n * InvalSize

(* What the segments of the second stream are once they are measured.      *)
LEMMA SettledOK ==
    ASSUME chain \in Seq(AnyList), InvalSize > 0,
           NEW segs \in Seq(SegSet), InARow(segs), NEW n \in Nat, n = Len(segs),
           NEW place \in [1..n -> Places(chain)],
           \A q \in Places(chain) : \E s \in 1..n : place[s] = q,
           \A s \in 1..n : segs[s] = DataSeg(place[s]),
           NEW t \in DOMAIN iv, NEW p \in Places(chain), iv[t] = FlagSeg(p)
    PROVE  SettledFor(p, Settled(segs)[t])
<1>1. PICK from \in Nat, size \in Nat : from = At(chain, p).from /\ size = At(chain, p).n
  BY PlaceFacts
<1>2. InvalSize \in Nat /\ from * InvalSize \in Nat /\ size * InvalSize \in Nat
  BY SizeAssumption, ProductFacts
<1>3. PICK sg : sg = Settled(segs)[t]
  OBVIOUS
<1>4. CASE Flagged(p)
  <2>1. iv[t] = Seg("DI", from * InvalSize, size * InvalSize, from)
    BY <1>1, <1>4 DEF FlagSeg
  <2>2. sg = iv[t]
    BY <1>3, <2>1 DEF Settled, Seg
  <2>3. sg \in SegSet /\ sg.logical = from * InvalSize /\ sg.length = size * InvalSize
    BY <1>2, <2>1, <2>2 DEF Seg, SegSet
  <2> QED
    BY <1>1, <1>2, <1>3, <1>4, <2>2, <2>3 DEF FlagOK, SettledFor
<1>5. CASE ~Flagged(p)
  <2>1. iv[t] = ZeroSeg(from * InvalSize)
    BY <1>1, <1>5 DEF FlagSeg
  <2>2. PICK z : z = ZeroSegLen(segs, from * InvalSize)
    OBVIOUS
  <2>3. /\ iv[t].kind = "zero" /\ iv[t].logical = from * InvalSize
    BY <2>1 DEF ZeroSeg
  <2>4. sg = [iv[t] EXCEPT !.length = z]
    BY <1>3, <2>2, <2>3 DEF Settled
  <2>5. sg = [kind |-> "zero", logical |-> from * InvalSize, length |-> z, from |-> 0]
    BY <2>1, <2>4 DEF ZeroSeg
  <2>6. z = IF EmptyAt(p) THEN 0 ELSE size * InvalSize
    BY <1>1, <2>2, ZeroLength
  <2>7. z \in Nat /\ z <= size * InvalSize
    <3>1. PICK y \in Nat : y = size * InvalSize
      BY <1>2
    <3> QED
      BY <2>6, <3>1
  <2>8. sg \in SegSet
    BY <1>2, <2>5, <2>7 DEF SegSet
  <2>9. sg.kind = "zero" /\ sg.logical = from * InvalSize /\ sg.length = z
    BY <2>5
  <2> QED
    BY <1>1, <1>3, <1>5, <2>6, <2>7, <2>8, <2>9 DEF FlagOK, SettledFor
<1> QED
  BY <1>4, <1>5

(* The order of the blocks in a row, after sorting.                        *)
LEMMA FinishKeeps ==
    ASSUME ColumnInv, Finish
    PROVE  ColumnInv'
<1>1. ShapeInv /\ WalkInv
  BY DEF ColumnInv
<1>2. /\ status = "walking" /\ ld = Len(chain) + 1
      /\ data' \in SortSlice(data) /\ iv' \in SortSlice(Settled(data')) /\ status' = "ready"
      /\ chain' = chain /\ ld' = ld /\ i' = i /\ sampleIdx' = sampleIdx /\ hasIv' = hasIv
      /\ col' = col
  BY DEF Finish
<1>3. /\ chain \in Files /\ chain \in Seq(AnyList) /\ Len(chain) \in Nat
      /\ data \in Seq(SegSet) /\ iv \in Seq(SegSet)
  BY <1>1 DEF ShapeInv
<1>4. PICK n \in Nat, k \in Nat : n = Len(data) /\ k = Len(iv)
  BY <1>3
<1>5. Walked = Places(chain)
  <2>1. ASSUME NEW p \in Places(chain) PROVE p[1] < ld
    BY <1>2, <1>3, PlaceFacts
  <2> QED
    BY <2>1 DEF Walked
<1>6. hasIv <=> InvalSize > 0 /\ \E l \in 1..Len(chain) : chain[l].inval
  <2>1. hasIv <=> /\ InvalSize > 0
                  /\ \E l \in 1..Len(chain) : (l < ld \/ (l = ld /\ i > 0)) /\ chain[l].inval
    BY <1>1, <1>2 DEF WalkInv
  <2>2. \A l \in 1..Len(chain) : l < ld
    BY <1>2, <1>3
  <2> QED
    BY <2>1, <2>2
<1>7. PICK dp \in [1..n -> Places(chain)] :
          Visits(dp, n, Places(chain)) /\ \A s \in 1..n : data[s] = DataSeg(dp[s])
  BY <1>1, <1>2, <1>4, <1>5 DEF WalkInv
<1>8. ASSUME NEW s \in 1..n
      PROVE  /\ data[s].logical = At(chain, dp[s]).from * RecSize
             /\ data[s].length <= At(chain, dp[s]).n * RecSize
  <2>1. dp[s] \in Places(chain) /\ data[s] = DataSeg(dp[s])
    BY <1>7
  <2>2. At(chain, dp[s]).n * RecSize \in Nat
    BY <1>3, <2>1, PlaceFacts, SizeAssumption, ProductFacts
  <2> QED
    BY <2>1, <2>2 DEF DataSeg, Seg
<1>9. PICK q \in [1..n -> 1..n] :
          /\ \A s \in 1..n : \E t \in 1..n : q[t] = s
          /\ data' = [s \in 1..n |-> data[q[s]]]
          /\ InARow(data')
  <2>1. \A s, t \in 1..n : s < t => Ahead(dp[s], dp[t])
    BY <1>7 DEF Visits
  <2>2. RecSize \in Nat \ {0}
    BY SizeAssumption
  <2>3. SegsFor(data, chain, dp, n, RecSize)
    BY <1>8 DEF SegsFor
  <2>4. PICK segs, sorted, f : segs = data /\ sorted = data' /\ f = chain
    OBVIOUS
  <2>5. /\ f \in Files /\ dp \in [1..n -> Places(f)] /\ segs \in Seq(SegSet)
        /\ Len(segs) = n /\ SegsFor(segs, f, dp, n, RecSize) /\ sorted \in SortSlice(segs)
    BY <1>2, <1>3, <1>4, <1>7, <2>3, <2>4
  <2>6. PICK q : RowOf(q, segs, sorted, n)
    BY <2>1, <2>2, <2>5, SortedRow
  <2> QED
    BY <2>4, <2>6 DEF RowOf
<1>10. data' \in Seq(SegSet) /\ Len(data') = n
  <2>1. \A s \in 1..n : data[q[s]] \in SegSet
    BY <1>3, <1>4
  <2> QED
    BY <1>9, <2>1
<1> DEFINE dq == [s \in 1..n |-> dp[q[s]]]
<1>11. /\ dq \in [1..n -> Places(chain)]
       /\ \A p \in Places(chain) : \E s \in 1..n : dq[s] = p
       /\ \A s \in 1..n : data'[s] = DataSeg(dq[s])
  <2>1. dq \in [1..n -> Places(chain)]
    OBVIOUS
  <2>2. ASSUME NEW p \in Places(chain) PROVE \E s \in 1..n : dq[s] = p
    <3>1. PICK s \in 1..n : dp[s] = p
      BY <1>7 DEF Visits
    <3>2. PICK t \in 1..n : q[t] = s
      BY <1>9
    <3> QED
      BY <3>1, <3>2
  <2>3. ASSUME NEW s \in 1..n PROVE data'[s] = DataSeg(dq[s])
    <3>1. q[s] \in 1..n /\ dq[s] = dp[q[s]] /\ data'[s] = data[q[s]]
      BY <1>9
    <3>2. data[q[s]] = DataSeg(dp[q[s]])
      BY <1>7, <3>1
    <3> HIDE DEF dq
    <3> QED
      BY <3>1, <3>2
  <2> QED
    BY <2>1, <2>2, <2>3
<1> HIDE DEF dq
<1>12. \A p : DataSeg(p)' = DataSeg(p) /\ Tracked(p)' = Tracked(p)
  BY <1>2, ChainStays
<1>13. DataInv'
  <2>1. \A s \in 1..n : data'[s] = DataSeg(dq[s])'
    BY <1>11, <1>12
  <2>2. \E place \in [1..n -> Places(chain)] :
           /\ \A p \in Places(chain) : \E s \in 1..n : place[s] = p
           /\ \A s \in 1..n : data'[s] = DataSeg(place[s])'
    BY <1>11, <2>1
  <2>3. Places(chain)' = Places(chain) /\ 1..Len(data)' = 1..n /\ InARow(data)'
    <3>1. Places(chain)' = Places(chain')
      BY DEF Places
    <3>2. InARow(data)'
      BY <1>9 DEF InARow
    <3> QED
      BY <1>2, <1>10, <3>1, <3>2
  <2>4. (\E place \in [1..Len(data) -> Places(chain)] :
           /\ \A p \in Places(chain) : \E s \in 1..Len(data) : place[s] = p
           /\ \A s \in 1..Len(data) : data[s] = DataSeg(place[s]))'
    BY <2>2, <2>3
  <2> QED
    BY <2>3, <2>4 DEF DataInv
<1> DEFINE S == {p \in Places(chain) : Tracked(p)}
<1>14. PICK fp \in [1..k -> S] :
          Visits(fp, k, S) /\ \A s \in 1..k : iv[s] = FlagSeg(fp[s])
  BY <1>1, <1>2, <1>4, <1>5 DEF WalkInv
<1>15. /\ iv' \in Seq(SegSet) /\ InARow(iv') /\ Len(iv') = k
       /\ \E place \in [1..k -> S] :
             /\ \A p \in S : \E s \in 1..k : place[s] = p
             /\ \A s \in 1..k : FlagOK(iv'[s], place[s])
  <2> DEFINE old == Settled(data')
  <2>1. Len(old) = k /\ old = [s \in 1..k |-> old[s]] /\ DOMAIN old = 1..k /\ DOMAIN iv = 1..k
    BY <1>3, <1>4 DEF Settled
  <2>2. CASE InvalSize > 0
    <3>1. ASSUME NEW s \in 1..k
          PROVE  /\ old[s] \in SegSet /\ FlagOK(old[s], fp[s])
                 /\ old[s].logical = At(chain, fp[s]).from * InvalSize
                 /\ old[s].length <= At(chain, fp[s]).n * InvalSize
      <4>1. fp[s] \in Places(chain) /\ iv[s] = FlagSeg(fp[s]) /\ s \in DOMAIN iv
        BY <1>14, <2>1
      <4>2. n = Len(data') /\ InARow(data')
        BY <1>9, <1>10
      <4>3. PICK segs : segs = data'
        OBVIOUS
      <4> HIDE DEF S
      <4>4. SettledFor(fp[s], Settled(segs)[s])
        <5>1. segs \in Seq(SegSet) /\ InARow(segs) /\ n = Len(segs)
              /\ \A t \in 1..n : segs[t] = DataSeg(dq[t])
          BY <1>10, <1>11, <4>2, <4>3
        <5> QED
          BY <1>3, <1>11, <2>2, <4>1, <5>1, SettledOK
      <4> QED
        BY <4>3, <4>4 DEF SettledFor
    <3>2. \A s, t \in 1..k : s < t => Ahead(fp[s], fp[t])
      BY <1>14 DEF Visits
    <3>3. InvalSize \in Nat \ {0} /\ fp \in [1..k -> Places(chain)]
      BY <2>2, SizeAssumption
    <3>4. iv' \in SortSlice(old)
      BY <1>2
    <3> HIDE DEF old
    <3>5. PICK segs, sorted, f : segs = old /\ sorted = iv' /\ f = chain
      OBVIOUS
    <3>6. PICK r \in [1..k -> 1..k] :
              /\ \A s \in 1..k : \E t \in 1..k : r[t] = s
              /\ iv' = [s \in 1..k |-> old[r[s]]]
              /\ InARow(iv')
      <4>1. segs \in Seq(SegSet) /\ Len(segs) = k
        <5>1. segs = [s \in 1..k |-> segs[s]] /\ \A s \in 1..k : segs[s] \in SegSet
          BY <2>1, <3>1, <3>5
        <5>2. segs \in Seq(SegSet)
          BY <5>1, AsSeq
        <5> QED
          BY <2>1, <3>5, <5>2
      <4>2. SegsFor(segs, f, fp, k, InvalSize)
        BY <3>1, <3>5 DEF SegsFor
      <4>3. f \in Files /\ fp \in [1..k -> Places(f)] /\ sorted \in SortSlice(segs)
        BY <1>3, <3>3, <3>4, <3>5
      <4>4. PICK r : RowOf(r, segs, sorted, k)
        BY <3>2, <3>3, <4>1, <4>2, <4>3, SortedRow
      <4> QED
        BY <3>5, <4>4 DEF RowOf
    <3>7. iv' \in Seq(SegSet) /\ Len(iv') = k
      <4>1. \A s \in 1..k : old[r[s]] \in SegSet
        BY <3>1, <3>6
      <4>2. PICK sorted2 : sorted2 = iv'
        OBVIOUS
      <4>3. sorted2 = [s \in 1..k |-> sorted2[s]] /\ \A s \in 1..k : sorted2[s] \in SegSet
        BY <3>6, <4>1, <4>2
      <4> QED
        BY <4>2, <4>3, AsSeq
    <3> DEFINE fq == [s \in 1..k |-> fp[r[s]]]
    <3> HIDE DEF S
    <3>8. fq \in [1..k -> S]
      OBVIOUS
    <3>9. ASSUME NEW p \in S PROVE \E s \in 1..k : fq[s] = p
      <4>1. PICK s \in 1..k : fp[s] = p
        BY <1>14 DEF Visits
      <4>2. PICK t \in 1..k : r[t] = s
        BY <3>6
      <4> QED
        BY <4>1, <4>2
    <3>10. ASSUME NEW s \in 1..k PROVE FlagOK(iv'[s], fq[s])
      <4>1. r[s] \in 1..k /\ fq[s] = fp[r[s]] /\ iv'[s] = old[r[s]]
        BY <3>6
      <4> HIDE DEF fq
      <4> QED
        BY <3>1, <4>1
    <3> HIDE DEF fq
    <3> QED
      BY <3>6, <3>7, <3>8, <3>9, <3>10
  <2>3. CASE ~(InvalSize > 0)
    <3>1. S = {}
      BY <2>3 DEF Tracked
    <3>2. k = 0
      <4>1. k # 0 => 1 \in 1..k
        OBVIOUS
      <4> QED
        BY <1>14, <3>1, <4>1
    <3>3. InSequence(old)
      BY <2>1, <3>2 DEF InSequence
    <3>4. iv' = old
      BY <1>2, <3>3 DEF SortSlice
    <3> HIDE DEF old, S
    <3>5. iv' = <<>>
      BY <2>1, <3>2, <3>4
    <3>6. iv' \in Seq(SegSet) /\ InARow(iv') /\ Len(iv') = 0
      BY <3>5 DEF InARow
    <3>7. \E place \in [1..k -> S] :
              /\ \A p \in S : \E s \in 1..k : place[s] = p
              /\ \A s \in 1..k : FlagOK(iv'[s], place[s])
      <4>1. 1..k = {}
        BY <3>2
      <4> QED
        BY <1>14, <3>1, <4>1
    <3> QED
      BY <3>2, <3>6, <3>7
  <2> QED
    BY <2>2, <2>3
<1>17. FlagInv'
  <2>1. S = {p \in Places(chain)' : Tracked(p)'}
    BY <1>2, <1>12
  <2>2. PICK place \in [1..k -> S] :
             /\ \A p \in S : \E s \in 1..k : place[s] = p
             /\ \A s \in 1..k : FlagOK(iv'[s], place[s])
    BY <1>15
  <2>3. \A p \in Places(chain)' : Tracked(p)' => p \in S
    BY <2>1
  <2>4. \A s \in 1..k : FlagOK(iv[s], place[s])'
    BY <1>2, <2>2 DEF FlagOK, FlagSeg, Flagged, EmptyAt
  <2> HIDE DEF S
  <2> QED
    BY <1>15, <2>1, <2>2, <2>3, <2>4 DEF FlagInv
<1>18. ShapeInv'
  BY <1>1, <1>2, <1>10, <1>15 DEF ShapeInv
<1>19. ~col.done
  BY <1>2 DEF ColumnInv, ColInv
<1> QED
  BY <1>2, <1>6, <1>13, <1>17, <1>18, <1>19 DEF ColumnInv, WalkInv, ReadyInv, ColInv

LEMMA FailKeeps ==
    ASSUME ColumnInv, FailStorage
    PROVE  ColumnInv'
<1>1. /\ status = "walking" /\ status' = "failed"
      /\ UNCHANGED <<chain, ld, i, sampleIdx, data, iv, hasIv, col>>
  BY DEF FailStorage
<1>2. ShapeInv'
  BY <1>1 DEF ColumnInv, ShapeInv
<1>3. ~col.done
  BY <1>1 DEF ColumnInv, ColInv
<1> QED
  BY <1>1, <1>2, <1>3 DEF ColumnInv, WalkInv, ReadyInv, ColInv

(* What a column is depends on the streams alone.                          *)
LEMMA SameStreams ==
    ASSUME data' = data, iv' = iv, hasIv' = hasIv
    PROVE  \A c, e, from, count : Column(c, e, from, count)' = Column(c, e, from, count)
  BY DEF Column, ReadFails, Total, SizeOf, NeedsInval, FlagsOf, ReadAtOK, Holds, OwnerOf, Entry

LEMMA ReadKeeps ==
    ASSUME ColumnInv, Read
    PROVE  ColumnInv'
<1>1. PICK c \in Channels : \E e \in DOMAIN Elements(c) :
        \E from, count \in 0..MaxSamples : ReadColumn(c, e, from, count)
  BY DEF Read
<1>2. PICK e \in DOMAIN Elements(c), from \in 0..MaxSamples, count \in 0..MaxSamples :
        ReadColumn(c, e, from, count)
  BY <1>1
<1>3. /\ status = "ready" /\ col' = Column(c, e, from, count)
      /\ chain' = chain /\ ld' = ld /\ i' = i /\ sampleIdx' = sampleIdx /\ data' = data
      /\ iv' = iv /\ hasIv' = hasIv /\ status' = status
  BY <1>2 DEF ReadColumn
<1>4. ColInv'
  <2>1. Column(c, e, from, count)' = Column(c, e, from, count)
    BY <1>3, SameStreams
  <2>2. status' = "ready"
    BY <1>3
  <2> QED
    BY <1>3, <2>1, <2>2 DEF ColInv
<1>5. ShapeInv' /\ WalkInv'
  BY <1>3 DEF ColumnInv, ShapeInv, WalkInv
<1>6. DataInv' /\ FlagInv' /\ hasIv' = hasIv
  <2>1. DataInv /\ FlagInv
    BY <1>3 DEF ColumnInv, ReadyInv
  <2>2. DataInv'
    BY <1>3, <2>1 DEF DataInv, InARow, DataSeg
  <2>3. FlagInv'
    BY <1>3, <2>1 DEF FlagInv, InARow, FlagOK, FlagSeg, Flagged, EmptyAt, Tracked
  <2> QED
    BY <1>3, <2>2, <2>3
<1>7. ReadyInv'
  BY <1>3, <1>6 DEF ColumnInv, ReadyInv
<1> QED
  BY <1>4, <1>5, <1>7 DEF ColumnInv

(* The invariant of column storage: while the lists are walked the two     *)
(* streams are the blocks so far in the order of the file, and afterwards  *)
(* a row without overlaps, in which every block has its place.             *)
THEOREM ColumnStorageInv == Spec => []ColumnInv
<1>1. ASSUME ColumnInv, Next PROVE ColumnInv'
  BY <1>1, EnterKeeps, AddKeeps, LeaveKeeps, FailKeeps, FinishKeeps, ReadKeeps DEF Next
<1>2. ASSUME ColumnInv, UNCHANGED vars PROVE ColumnInv'
  <2>1. /\ status' = status /\ col' = col
        /\ chain' = chain /\ ld' = ld /\ i' = i /\ sampleIdx' = sampleIdx /\ data' = data
        /\ iv' = iv /\ hasIv' = hasIv
    BY <1>2 DEF vars
  <2>2. ShapeInv'
    BY <1>2, <2>1 DEF ColumnInv, ShapeInv
  <2>3. WalkInv'
    BY <1>2, <2>1 DEF ColumnInv, WalkInv, Walked, DataSeg, FlagSeg, Flagged, Tracked
  <2>4. ReadyInv'
    <3>1. DataInv' <=> DataInv
      BY <2>1 DEF DataInv, InARow, DataSeg
    <3>2. \A seg, p : FlagOK(seg, p)' <=> FlagOK(seg, p)
      BY <2>1 DEF FlagOK, FlagSeg, Flagged, EmptyAt
    <3>3. \A p : Tracked(p)' <=> Tracked(p)
      BY <2>1 DEF Tracked
    <3>4. FlagInv' <=> FlagInv
      BY <2>1, <3>2, <3>3 DEF FlagInv, InARow
    <3> QED
      BY <1>2, <2>1, <3>1, <3>4 DEF ColumnInv, ReadyInv
  <2>5. ColInv'
    <3>1. \A c, e, from, count : Column(c, e, from, count)' = Column(c, e, from, count)
      BY <2>1, SameStreams
    <3> QED
      BY <1>2, <2>1, <3>1 DEF ColumnInv, ColInv
  <2> QED
    BY <2>2, <2>3, <2>4, <2>5 DEF ColumnInv
<1> QED
  BY <1>1, <1>2, InitKeeps, PTL DEF Spec

-----------------------------------------------------------------------------
(* What a read finds in the streams.                                       *)

Has(p, k) == At(chain, p).from <= k /\ k < At(chain, p).from + At(chain, p).n

(* The byte r of entry k in a segment for n entries from the entry a on.   *)
LEMMA InSegment ==
    ASSUME NEW w \in Nat \ {0}, NEW a \in Nat, NEW n \in Nat, NEW k \in Nat,
           NEW r \in 0..(w - 1), NEW len \in Int, len <= n * w,
           NEW lo, lo = a * w, NEW off, off = k * w + r, lo <= off, off < lo + len
    PROVE  /\ a <= k /\ k < a + n
           /\ (off - lo) \div w = k - a /\ (off - lo) % w = r
<1>1. PICK x \in Nat, y \in Nat, z \in Nat : x = a * w /\ y = k * w /\ z = n * w
  BY ProductFacts
<1>2. x + z = (a + n) * w
  BY <1>1, ProductFacts
<1>3. x <= y + r /\ y + r < x + z /\ r >= 0 /\ r < w
  BY <1>1
<1>4. a <= k
  <2>1. k < a => y + w <= x
    BY <1>1, ProductFacts
  <2> QED
    BY <1>3, <2>1
<1>5. k < a + n
  <2>1. a + n <= k => (a + n) * w <= y
    BY <1>1, ProductFacts
  <2> QED
    BY <1>2, <1>3, <2>1
<1>6. PICK d \in Nat : k = a + d /\ d = k - a
  <2>1. k - a \in Nat /\ k = a + (k - a)
    BY <1>4
  <2> QED
    BY <2>1
<1>7. y = x + d * w /\ d * w \in Nat
  BY <1>1, <1>6, ProductFacts
<1>8. y + r - x = d * w + r
  BY <1>7
<1>9. (d * w + r) \div w = d /\ (d * w + r) % w = r
  BY DivMod
<1> QED
  BY <1>1, <1>4, <1>5, <1>6, <1>8, <1>9

(* A whole entry that can be read, byte by byte.                           *)
LEMMA ReadsEntry ==
    ASSUME NEW segs, NEW w \in Nat \ {0}, NEW from \in Nat, NEW count \in Nat,
           ReadAtOK(segs, w, from, count), NEW s \in 1..count, NEW b \in 1..w
    PROVE  /\ from + s - 1 \in Nat /\ b - 1 \in 0..(w - 1)
           /\ (from + s - 1) * w + b - 1 \in Nat
           /\ (from + s - 1) * w + b - 1 = (from + s - 1) * w + (b - 1)
           /\ Holds(segs, (from + s - 1) * w + b - 1)
<1>1. PICK k \in Nat : k = from + s - 1
  OBVIOUS
<1>2. k + 1 <= from + count /\ from <= k
  BY <1>1
<1>3. from * w <= k * w /\ from * w \in Nat /\ k * w \in Nat
  BY <1>2, ProductFacts
<1>4. (k + 1) * w <= (from + count) * w /\ (k + 1) * w = k * w + 1 * w /\ 1 * w = w
  BY <1>2, ProductFacts
<1>5. (from + count) * w \in Nat
  BY ProductFacts
<1>6. PICK x \in Nat, y \in Nat, z \in Nat : x = from * w /\ y = k * w /\ z = (from + count) * w
  BY <1>3, <1>5
<1>7. x <= y /\ y + w <= z
  BY <1>3, <1>4, <1>6
<1>8. y + b - 1 \in x .. z - 1 /\ y + b - 1 \in Nat /\ y + b - 1 = y + (b - 1)
  BY <1>7
<1>9. Holds(segs, y + b - 1)
  BY <1>6, <1>8 DEF ReadAtOK
<1> QED
  BY <1>1, <1>6, <1>8, <1>9

(* A record that can be read is the one the recorder wrote.                *)
LEMMA RecordRead ==
    ASSUME chain \in Seq(AnyList), data \in Seq(SegSet), DataInv, NEW k \in Nat,
           NEW b \in 1..RecSize, k * RecSize + b - 1 \in Nat,
           Holds(data, k * RecSize + b - 1)
    PROVE  /\ Entry(data, RecSize, k)[b] = RecByte(k, b)
           /\ \E p \in Places(chain) : Has(p, k)
<1>1. PICK off \in Nat : off = k * RecSize + b - 1
  OBVIOUS
<1>2. RecSize \in Nat \ {0} /\ b - 1 \in 0..(RecSize - 1) /\ off = k * RecSize + (b - 1)
  BY <1>1, SizeAssumption
<1>3. PICK s \in DOMAIN data :
        /\ s = OwnerOf(data, off)
        /\ data[s].logical <= off /\ off < data[s].logical + data[s].length
  BY <1>1, OwnerThere
<1>4. PICK p \in Places(chain) : data[s] = DataSeg(p)
  <2>1. PICK place \in [1..Len(data) -> Places(chain)] :
          \A t \in 1..Len(data) : data[t] = DataSeg(place[t])
    BY Zenon DEF DataInv
  <2>2. s \in 1..Len(data)
    OBVIOUS
  <2>3. place[s] \in Places(chain) /\ data[s] = DataSeg(place[s])
    BY <2>1, <2>2
  <2> QED
    BY <2>3
<1>5. PICK a \in Nat, n \in Nat : a = At(chain, p).from /\ n = At(chain, p).n
  BY PlaceFacts
<1>6. PICK seg : seg = data[s]
  OBVIOUS
<1>7. /\ seg.kind = "DV" /\ seg.logical = a * RecSize /\ seg.length = n * RecSize
      /\ seg.from = a
  BY <1>4, <1>5, <1>6 DEF DataSeg, Seg
<1>8. n * RecSize \in Nat
  BY <1>2, ProductFacts
<1>9. /\ a <= k /\ k < a + n
      /\ (off - seg.logical) \div RecSize = k - a /\ (off - seg.logical) % RecSize = b - 1
  <2>1. PICK lo, len, r : lo = seg.logical /\ len = seg.length /\ r = b - 1
    OBVIOUS
  <2>2. /\ r \in 0..(RecSize - 1) /\ len \in Int /\ len <= n * RecSize
        /\ lo = a * RecSize /\ off = k * RecSize + r /\ lo <= off /\ off < lo + len
    BY <1>2, <1>3, <1>6, <1>7, <1>8, <2>1
  <2>3. /\ a <= k /\ k < a + n
        /\ (off - lo) \div RecSize = k - a /\ (off - lo) % RecSize = r
    BY <1>2, <2>2, InSegment
  <2> QED
    BY <2>1, <2>3
<1>10. Entry(data, RecSize, k)[b] = RecByte(a + (k - a), (b - 1) + 1)
  BY <1>1, <1>3, <1>6, <1>7, <1>9 DEF Entry
<1>11. a + (k - a) = k /\ (b - 1) + 1 = b
  BY <1>2
<1> QED
  BY <1>5, <1>9, <1>10, <1>11 DEF Has

(* A flag byte that can be read is the recorder's, or 0 where it left the  *)
(* block out.  Only flags outside the gaps can be read.                    *)
LEMMA FlagRead ==
    ASSUME chain \in Seq(AnyList), iv \in Seq(SegSet), FlagInv, InvalSize > 0,
           NEW k \in Nat, NEW b \in 1..InvalSize, k * InvalSize + b - 1 \in Nat,
           Holds(iv, k * InvalSize + b - 1)
    PROVE  \E p \in Places(chain) :
              /\ Has(p, k) /\ Tracked(p) /\ (Flagged(p) \/ ~EmptyAt(p))
              /\ Entry(iv, InvalSize, k)[b] = IF Flagged(p) THEN InvByte(k, b) ELSE 0
<1>1. PICK off \in Nat : off = k * InvalSize + b - 1
  OBVIOUS
<1>2. InvalSize \in Nat \ {0} /\ b - 1 \in 0..(InvalSize - 1) /\ off = k * InvalSize + (b - 1)
  BY <1>1, SizeAssumption
<1>3. PICK s \in DOMAIN iv :
        /\ s = OwnerOf(iv, off)
        /\ iv[s].logical <= off /\ off < iv[s].logical + iv[s].length
  BY <1>1, OwnerThere
<1>4. PICK p \in Places(chain) : FlagOK(iv[s], p) /\ Tracked(p)
  <2>1. PICK place \in [1..Len(iv) -> {q \in Places(chain) : Tracked(q)}] :
          \A t \in 1..Len(iv) : FlagOK(iv[t], place[t])
    BY DEF FlagInv
  <2>2. s \in 1..Len(iv)
    OBVIOUS
  <2> QED
    BY <2>1, <2>2
<1>5. PICK a \in Nat, n \in Nat : a = At(chain, p).from /\ n = At(chain, p).n
  BY PlaceFacts
<1>6. PICK seg : seg = iv[s]
  OBVIOUS
<1>7. n * InvalSize \in Nat
  BY <1>2, ProductFacts
<1>8. /\ Flagged(p) => seg.kind = "DI" /\ seg.from = a
      /\ ~Flagged(p) => seg.kind = "zero"
      /\ seg.logical = a * InvalSize
      /\ seg.length \in Int /\ seg.length <= n * InvalSize
      /\ ~Flagged(p) /\ EmptyAt(p) => seg.length = 0
  BY <1>4, <1>5, <1>6, <1>7 DEF FlagOK, FlagSeg, Seg
<1>9. /\ a <= k /\ k < a + n
      /\ (off - seg.logical) \div InvalSize = k - a /\ (off - seg.logical) % InvalSize = b - 1
  <2>1. PICK lo, len, r : lo = seg.logical /\ len = seg.length /\ r = b - 1
    OBVIOUS
  <2>2. /\ r \in 0..(InvalSize - 1) /\ len \in Int /\ len <= n * InvalSize
        /\ lo = a * InvalSize /\ off = k * InvalSize + r /\ lo <= off /\ off < lo + len
    BY <1>2, <1>3, <1>6, <1>7, <1>8, <2>1
  <2>3. /\ a <= k /\ k < a + n
        /\ (off - lo) \div InvalSize = k - a /\ (off - lo) % InvalSize = r
    BY <1>2, <2>2, InSegment
  <2> QED
    BY <2>1, <2>3
<1>10. Entry(iv, InvalSize, k)[b] =
         IF Flagged(p) THEN InvByte(a + (k - a), (b - 1) + 1) ELSE 0
  BY <1>1, <1>3, <1>6, <1>8, <1>9 DEF Entry
<1>11. a + (k - a) = k /\ (b - 1) + 1 = b
  BY <1>2
<1>12. Flagged(p) \/ ~EmptyAt(p)
  <2>1. PICK lo \in Nat, len \in Int :
          lo = seg.logical /\ len = seg.length /\ lo <= off /\ off < lo + len
    <3>1. a * InvalSize \in Nat
      BY <1>2, ProductFacts
    <3> QED
      BY <1>3, <1>6, <1>8, <3>1
  <2>2. len # 0
    BY <2>1
  <2> QED
    BY <1>8, <2>1, <2>2
<1> QED
  BY <1>4, <1>5, <1>9, <1>10, <1>11, <1>12 DEF Has

(* A sample is in one block only.                                          *)
LEMMA OneBlock ==
    ASSUME chain \in Files, NEW k \in Nat, NEW p \in Places(chain), NEW q \in Places(chain),
           Has(p, k), Has(q, k)
    PROVE  p = q
<1>1. SUFFICES ASSUME p # q PROVE FALSE
  OBVIOUS
<1>2. chain \in Seq(AnyList)
  BY FileFacts
<1>3. /\ p = <<p[1], p[2]>> /\ q = <<q[1], q[2]>>
      /\ p[1] \in Nat /\ p[2] \in Nat /\ q[1] \in Nat /\ q[2] \in Nat
  BY <1>2, PlaceFacts
<1>4. Ahead(p, q) \/ Ahead(q, p)
  <2>1. p[1] # q[1] \/ p[2] # q[2]
    BY <1>1, <1>3
  <2> QED
    BY <1>3, <2>1 DEF Ahead
<1>5. EndsBefore(At(chain, p), At(chain, q)) \/ EndsBefore(At(chain, q), At(chain, p))
  BY <1>1, <1>4, FileFacts
<1>6. PICK a \in Nat, m \in Nat, b \in Nat, n \in Nat :
        /\ a = At(chain, p).from /\ m = At(chain, p).n
        /\ b = At(chain, q).from /\ n = At(chain, q).n
  BY <1>2, PlaceFacts
<1>7. a <= k /\ k < a + m /\ b <= k /\ k < b + n /\ (a + m <= b \/ b + n <= a)
  BY <1>5, <1>6 DEF Has, EndsBefore
<1> QED
  BY <1>6, <1>7

(* The blocks of a file, with their lists.                                 *)
LEMMA BlockPlaces ==
    ASSUME chain \in Seq(AnyList)
    PROVE  /\ \A p \in Places(chain) : <<chain[p[1]], At(chain, p)>> \in Blocks
           /\ \A lb \in Blocks : \E p \in Places(chain) :
                 lb = <<chain[p[1]], At(chain, p)>>
<1>1. ASSUME NEW p \in Places(chain) PROVE <<chain[p[1]], At(chain, p)>> \in Blocks
  <2>0. PICK l \in DOMAIN chain : p \in {<<l, b>> : b \in DOMAIN chain[l].blocks}
    BY DEF Places
  <2>1. PICK b \in DOMAIN chain[l].blocks : p = <<l, b>>
    BY <2>0
  <2>2. p[1] = l /\ At(chain, p) = chain[l].blocks[b]
    BY <2>1 DEF At
  <2>3. chain[l].blocks[b] \in Range(chain[l].blocks)
    BY DEF Range
  <2>4. <<chain[l], chain[l].blocks[b]>> \in Blocks
    BY <2>3 DEF Blocks
  <2> QED
    BY <2>2, <2>4
<1>2. ASSUME NEW lb \in Blocks
      PROVE  \E p \in Places(chain) : lb = <<chain[p[1]], At(chain, p)>>
  <2>1. PICK l \in DOMAIN chain : lb \in {<<chain[l], b>> : b \in Range(chain[l].blocks)}
    BY DEF Blocks
  <2>2. PICK x \in Range(chain[l].blocks) : lb = <<chain[l], x>>
    BY <2>1
  <2>3. PICK b \in DOMAIN chain[l].blocks : x = chain[l].blocks[b]
    BY <2>2 DEF Range
  <2>4. <<l, b>> \in Places(chain) /\ At(chain, <<l, b>>) = x
    BY <2>3, PlaceThere
  <2> QED
    BY <2>2, <2>4
<1> QED
  BY <1>1, <1>2

LEMMA BlocksOfPlaces ==
    ASSUME chain \in Seq(AnyList), NEW k \in Nat
    PROVE  /\ \A p \in Places(chain) : Has(p, k) => <<chain[p[1]], At(chain, p)>> \in BlocksOf(k)
           /\ \A lb \in BlocksOf(k) : \E p \in Places(chain) :
                 Has(p, k) /\ lb = <<chain[p[1]], At(chain, p)>>
<1>1. ASSUME NEW p \in Places(chain), NEW lb, lb = <<chain[p[1]], At(chain, p)>>
      PROVE  k \in lb[2].from .. lb[2].from + lb[2].n - 1 <=> Has(p, k)
  <2>1. At(chain, p).from \in Nat /\ At(chain, p).n \in Nat /\ lb[2] = At(chain, p)
    BY <1>1, PlaceFacts
  <2> QED
    BY <2>1 DEF Has
<1> QED
  BY <1>1, BlockPlaces DEF BlocksOf

-----------------------------------------------------------------------------
(* Why a read fails.                                                       *)

LEMMA Divide ==
    ASSUME NEW w \in Nat \ {0}, NEW x \in Nat
    PROVE  \E q \in Nat : \E r \in 0..(w - 1) : x = q * w + r /\ x \div w = q /\ x % w = r
<1>1. PICK q \in Nat : q = x \div w
  OBVIOUS
<1>2. PICK r \in 0..(w - 1) : r = x % w
  OBVIOUS
<1>3. x = q * w + r
  BY <1>1, <1>2
<1> QED
  BY <1>1, <1>2, <1>3

(* A read that fails misses a byte of some entry.                          *)
LEMMA MissedEntry ==
    ASSUME NEW segs, NEW w \in Nat \ {0}, NEW from \in Nat, NEW count \in Nat,
           ~ReadAtOK(segs, w, from, count)
    PROVE  \E k \in from .. from + count - 1 : \E b \in 1..w :
              k \in Nat /\ k * w + b - 1 \in Nat /\ ~Holds(segs, k * w + b - 1)
<1>1. PICK x \in Nat, z \in Nat : x = from * w /\ z = (from + count) * w
  BY ProductFacts
<1>2. PICK off \in x .. z - 1 : ~Holds(segs, off)
  BY <1>1 DEF ReadAtOK
<1>3. PICK k \in Nat, r \in 0..(w - 1) : off = k * w + r
  <2>1. off \in Nat
    BY <1>2
  <2> QED
    BY <2>1, Divide
<1>4. PICK y \in Nat : y = k * w
  BY ProductFacts
<1>5. x <= y + r /\ y + r < z /\ r < w /\ r >= 0
  BY <1>2, <1>3, <1>4
<1>6. from <= k
  <2>1. k < from => y + w <= x
    BY <1>1, <1>4, ProductFacts
  <2> QED
    BY <1>5, <2>1
<1>7. k < from + count
  <2>1. from + count <= k => z <= y
    BY <1>1, <1>4, ProductFacts
  <2> QED
    BY <1>5, <2>1
<1>8. k \in from .. from + count - 1
  BY <1>6, <1>7
<1>9. PICK b \in 1..w : b = r + 1
  OBVIOUS
<1>10. y + b - 1 = off /\ y + b - 1 \in Nat
  BY <1>2, <1>3, <1>4, <1>9
<1> QED
  BY <1>2, <1>4, <1>8, <1>9, <1>10

(* The byte r of entry k is in a segment for n entries from a on.          *)
LEMMA InRange ==
    ASSUME NEW w \in Nat \ {0}, NEW a \in Nat, NEW n \in Nat, NEW k \in Nat,
           a <= k, k < a + n, NEW b \in 1..w
    PROVE  /\ k * w + b - 1 \in Nat /\ a * w <= k * w + b - 1
           /\ k * w + b - 1 < a * w + n * w /\ k * w + w <= a * w + n * w
<1>1. PICK x \in Nat, y \in Nat, z \in Nat : x = a * w /\ y = k * w /\ z = n * w
  BY ProductFacts
<1>2. x <= y
  BY <1>1, ProductFacts
<1>3. y + w <= x + z
  <2>1. (a + n) * w = x + z
    BY <1>1, ProductFacts
  <2>2. k * w + w <= (a + n) * w
    BY ProductFacts
  <2> QED
    BY <1>1, <2>1, <2>2
<1>4. y + b - 1 \in Nat /\ x <= y + b - 1 /\ y + b - 1 < x + z
  BY <1>2, <1>3
<1> QED
  BY <1>1, <1>3, <1>4

(* A stream is as long as the end of its last segment.                     *)
LEMMA SizeReaches ==
    ASSUME NEW segs \in Seq(SegSet), InARow(segs), \A s \in DOMAIN segs : segs[s].length >= 0,
           NEW t \in DOMAIN segs
    PROVE  SizeOf(segs) \in Nat /\ segs[t].logical + segs[t].length <= SizeOf(segs)
<1>1. PICK n \in Nat : n = Len(segs) /\ DOMAIN segs = 1..n
  OBVIOUS
<1>2. ASSUME NEW s \in 1..n PROVE segs[s].logical \in Nat /\ segs[s].length \in Nat
  <2>1. segs[s] \in SegSet
    BY <1>1
  <2>2. segs[s].logical \in Nat /\ segs[s].length \in Int /\ segs[s].length >= 0
    BY <1>1, <2>1 DEF SegSet
  <2> QED
    BY <2>2
<1> DEFINE end(s) == segs[s].logical + segs[s].length
           S == {0} \union {end(s) : s \in DOMAIN segs}
<1>3. n \in 1..n /\ t \in 1..n
  BY <1>1
<1>4. PICK m \in Nat : m = end(n)
  BY <1>2, <1>3
<1>5. ASSUME NEW s \in 1..n PROVE end(s) \in 0..m
  <2>1. end(s) \in Nat
    BY <1>2
  <2>2. CASE s = n
    BY <1>4, <2>1, <2>2
  <2>3. CASE s # n
    <3>1. end(s) <= segs[n].logical
      BY <1>1, <1>3, <2>3 DEF InARow
    <3>2. PICK l \in Nat, g \in Nat : l = segs[n].logical /\ g = segs[n].length
      BY <1>2, <1>3
    <3>3. m = l + g /\ end(s) <= l
      BY <1>4, <3>1, <3>2
    <3> HIDE DEF end
    <3> QED
      BY <2>1, <3>3
  <2> QED
    BY <2>2, <2>3
<1>6. S \in SUBSET (0..m) /\ 0 \in S /\ end(t) \in S
  BY <1>1, <1>3, <1>5
<1>7. Max(S) \in S /\ \A y \in S : y <= Max(S)
  <2> HIDE DEF S
  <2> QED
    BY <1>6, MaxThere
<1>8. SizeOf(segs) = Max(S)
  BY DEF SizeOf
<1>9. PICK x \in Nat : x = Max(S)
  <2> HIDE DEF S
  <2>1. PICK x : x = Max(S)
    OBVIOUS
  <2>2. x \in S
    BY <1>7, <2>1
  <2>3. x \in Nat
    BY <1>4, <1>6, <2>2
  <2> QED
    BY <2>1, <2>3
<1>10. end(t) <= x
  <2> HIDE DEF S
  <2> QED
    BY <1>6, <1>7, <1>9
<1> QED
  BY <1>8, <1>9, <1>10

(* The record of every sample that a block holds can be read.              *)
LEMMA RecordThere ==
    ASSUME chain \in Seq(AnyList), data \in Seq(SegSet), DataInv, NEW k \in Nat,
           NEW p \in Places(chain), Has(p, k)
    PROVE  Total \in Nat /\ k < Total
           /\ \A b \in 1..RecSize : Holds(data, k * RecSize + b - 1)
<1>1. PICK a \in Nat, n \in Nat : a = At(chain, p).from /\ n = At(chain, p).n
  BY PlaceFacts
<1>2. a <= k /\ k < a + n /\ RecSize \in Nat \ {0}
  BY <1>1, SizeAssumption DEF Has
<1>3. PICK place \in [1..Len(data) -> Places(chain)] :
          /\ \A q \in Places(chain) : \E s \in 1..Len(data) : place[s] = q
          /\ \A s \in 1..Len(data) : data[s] = DataSeg(place[s])
  BY DEF DataInv
<1>4. PICK s \in DOMAIN data : data[s] = DataSeg(p)
  <2>1. PICK s \in 1..Len(data) : place[s] = p
    BY <1>3
  <2>2. s \in DOMAIN data
    OBVIOUS
  <2> QED
    BY <1>3, <2>1, <2>2
<1>5. data[s].logical = a * RecSize /\ data[s].length = n * RecSize
  BY <1>1, <1>4 DEF DataSeg, Seg
<1>6. InARow(data)
  BY DEF DataInv
<1>7. ASSUME NEW b \in 1..RecSize PROVE Holds(data, k * RecSize + b - 1)
  <2>1. /\ k * RecSize + b - 1 \in Nat /\ a * RecSize <= k * RecSize + b - 1
        /\ k * RecSize + b - 1 < a * RecSize + n * RecSize
    BY <1>2, InRange
  <2>2. PICK off \in Nat : off = k * RecSize + b - 1
    BY <2>1
  <2>3. data[s].logical <= off /\ off < data[s].logical + data[s].length
    BY <1>5, <2>1, <2>2
  <2>4. Holds(data, off)
    BY <1>6, <2>3, OwnerIs
  <2> QED
    BY <2>2, <2>4
<1>8. \A t \in DOMAIN data : data[t].length >= 0
  <2>1. ASSUME NEW t \in DOMAIN data PROVE data[t].length >= 0
    <3>1. place[t] \in Places(chain) /\ data[t] = DataSeg(place[t])
      BY <1>3
    <3>2. At(chain, place[t]).n \in Nat
      BY <3>1, PlaceFacts
    <3>3. At(chain, place[t]).n * RecSize \in Nat
      BY <1>2, <3>2, ProductFacts
    <3>4. data[t].length = At(chain, place[t]).n * RecSize
      BY <3>1 DEF DataSeg, Seg
    <3> QED
      BY <3>3, <3>4
  <2> QED
    BY <2>1
<1>9. SizeOf(data) \in Nat /\ a * RecSize + n * RecSize <= SizeOf(data)
  BY <1>5, <1>6, <1>8, SizeReaches
<1>10. k * RecSize + RecSize <= SizeOf(data)
  <2>1. 1 \in 1..RecSize
    BY <1>2
  <2>2. k * RecSize + RecSize <= a * RecSize + n * RecSize
    BY <1>2, <2>1, InRange
  <2>3. PICK x \in Nat, y \in Nat, z \in Nat :
          x = a * RecSize /\ y = n * RecSize /\ z = k * RecSize
    BY <1>2, ProductFacts
  <2>4. PICK m \in Nat, w \in Nat : m = SizeOf(data) /\ w = RecSize /\ x + y <= m
    BY <1>2, <1>9, <2>3
  <2>5. z + w <= x + y
    BY <2>2, <2>3, <2>4
  <2>6. z + w <= m
    BY <2>4, <2>5
  <2> QED
    BY <2>3, <2>4, <2>6
<1>11. Total \in Nat /\ k < Total
  <2>1. PICK x \in Nat, t \in Nat, r \in 0..(RecSize - 1) :
          x = SizeOf(data) /\ t = Total /\ x = t * RecSize + r
    <3>1. PICK x \in Nat : x = SizeOf(data)
      BY <1>9
    <3>2. Total = x \div RecSize
      BY <3>1 DEF Total
    <3>3. PICK q \in Nat, r \in 0..(RecSize - 1) : x = q * RecSize + r /\ x \div RecSize = q
      BY <1>2, Divide
    <3> QED
      BY <3>1, <3>2, <3>3
  <2>2. PICK y \in Nat, z \in Nat : y = k * RecSize /\ z = t * RecSize
    BY <1>2, ProductFacts
  <2>3. t <= k => z <= y
    BY <1>2, <2>2, ProductFacts
  <2>4. y + RecSize <= z + r
    BY <1>10, <2>1, <2>2
  <2>5. ~(t <= k)
    BY <1>2, <2>3, <2>4
  <2> QED
    BY <2>1, <2>5
<1> QED
  BY <1>7, <1>11

(* What a gap is, block by block.                                          *)
LEMMA GapIs ==
    ASSUME chain \in Files, chain \in Seq(AnyList), InvalSize > 0, NEW k \in Nat,
           NEW p \in Places(chain), Has(p, k)
    PROVE  FlagGap(k) <=> ~Tracked(p) \/ (~Flagged(p) /\ EmptyAt(p))
<1> DEFINE gap(l, block) ==
             \/ \A m \in 1..l : ~chain[m].inval
             \/ /\ ~(chain[l].inval /\ block.di = "DI")
                /\ \E lb \in Blocks : lb[2].n = 0 /\ lb[2].from = block.from
<1>1. ASSUME NEW q \in Places(chain)
      PROVE  gap(q[1], At(chain, q)) <=> ~Tracked(q) \/ (~Flagged(q) /\ EmptyAt(q))
  <2>1. (\E lb \in Blocks : lb[2].n = 0 /\ lb[2].from = At(chain, q).from) <=> EmptyAt(q)
    <3>1. ASSUME NEW lb \in Blocks, lb[2].n = 0, lb[2].from = At(chain, q).from
          PROVE  EmptyAt(q)
      <4>1. PICK x \in Places(chain) : lb = <<chain[x[1]], At(chain, x)>>
        BY BlockPlaces
      <4> QED
        BY <3>1, <4>1 DEF EmptyAt
    <3>2. ASSUME NEW x \in Places(chain), At(chain, x).n = 0,
                 At(chain, x).from = At(chain, q).from
          PROVE  \E lb \in Blocks : lb[2].n = 0 /\ lb[2].from = At(chain, q).from
      <4>1. PICK lb : lb = <<chain[x[1]], At(chain, x)>>
        OBVIOUS
      <4>2. lb \in Blocks /\ lb[2] = At(chain, x)
        BY <4>1, BlockPlaces
      <4> QED
        BY <3>2, <4>2
    <3> QED
      BY <3>1, <3>2 DEF EmptyAt
  <2>2. Flagged(q) <=> chain[q[1]].inval /\ At(chain, q).di = "DI"
    BY DEF Flagged
  <2>3. Tracked(q) <=> ~(\A m \in 1..q[1] : ~chain[m].inval)
    BY DEF Tracked
  <2> QED
    BY <2>1, <2>2, <2>3
<1>2. FlagGap(k) <=> \E q \in Places(chain) : Has(q, k) /\ gap(q[1], At(chain, q))
  <2>1. ASSUME NEW l \in DOMAIN chain, NEW b \in DOMAIN chain[l].blocks
        PROVE  /\ <<l, b>> \in Places(chain) /\ At(chain, <<l, b>>) = chain[l].blocks[b]
               /\ k \in chain[l].blocks[b].from ..
                         chain[l].blocks[b].from + chain[l].blocks[b].n - 1
                     <=> Has(<<l, b>>, k)
    <3>1. <<l, b>> \in Places(chain) /\ At(chain, <<l, b>>) = chain[l].blocks[b]
      BY PlaceThere DEF At
    <3>2. chain[l].blocks[b].from \in Nat /\ chain[l].blocks[b].n \in Nat
      BY <3>1, PlaceFacts
    <3> QED
      BY <3>1, <3>2 DEF Has
  <2>2. ASSUME NEW l \in DOMAIN chain, NEW b \in DOMAIN chain[l].blocks
        PROVE  (/\ k \in chain[l].blocks[b].from ..
                         chain[l].blocks[b].from + chain[l].blocks[b].n - 1
                /\ gap(l, chain[l].blocks[b]))
               <=> Has(<<l, b>>, k) /\ gap(<<l, b>>[1], At(chain, <<l, b>>))
    <3>1. <<l, b>>[1] = l
      OBVIOUS
    <3> HIDE DEF gap
    <3> QED
      BY <2>1, <3>1
  <2>3. FlagGap(k) <=>
          \E l \in DOMAIN chain : \E b \in DOMAIN chain[l].blocks :
              /\ k \in chain[l].blocks[b].from ..
                       chain[l].blocks[b].from + chain[l].blocks[b].n - 1
              /\ gap(l, chain[l].blocks[b])
    BY Zenon DEF FlagGap
  <2> HIDE DEF gap
  <2>4. ASSUME NEW q \in Places(chain)
        PROVE  \E l \in DOMAIN chain : \E b \in DOMAIN chain[l].blocks : q = <<l, b>>
    <3>1. PICK l \in DOMAIN chain : q \in {<<l, b>> : b \in DOMAIN chain[l].blocks}
      BY DEF Places
    <3> QED
      BY <3>1
  <2>5. ASSUME NEW q \in Places(chain), Has(q, k), gap(q[1], At(chain, q)) PROVE FlagGap(k)
    <3>1. PICK l \in DOMAIN chain : \E b \in DOMAIN chain[l].blocks : q = <<l, b>>
      BY <2>4
    <3>2. PICK b \in DOMAIN chain[l].blocks : q = <<l, b>>
      BY <3>1
    <3> QED
      BY <2>2, <2>3, <2>5, <3>2
  <2>6. ASSUME FlagGap(k)
        PROVE  \E q \in Places(chain) : Has(q, k) /\ gap(q[1], At(chain, q))
    <3>1. PICK l \in DOMAIN chain : \E b \in DOMAIN chain[l].blocks :
            /\ k \in chain[l].blocks[b].from ..
                     chain[l].blocks[b].from + chain[l].blocks[b].n - 1
            /\ gap(l, chain[l].blocks[b])
      BY <2>3, <2>6
    <3>2. PICK b \in DOMAIN chain[l].blocks :
            /\ k \in chain[l].blocks[b].from ..
                     chain[l].blocks[b].from + chain[l].blocks[b].n - 1
            /\ gap(l, chain[l].blocks[b])
      BY <3>1
    <3>3. PICK q : q = <<l, b>>
      OBVIOUS
    <3>4. q \in Places(chain)
      BY <2>1, <3>3
    <3>5. Has(q, k) /\ gap(q[1], At(chain, q))
      BY <2>2, <3>2, <3>3
    <3> QED
      BY <3>4, <3>5
  <2> QED
    BY <2>5, <2>6
<1> HIDE DEF gap
<1>3. \A q \in Places(chain) : Has(q, k) => q = p
  BY OneBlock
<1> QED
  BY <1>1, <1>2, <1>3

(* The flags of every sample that a block holds can be read, unless there  *)
(* is a gap.                                                               *)
LEMMA FlagThere ==
    ASSUME chain \in Files, chain \in Seq(AnyList), iv \in Seq(SegSet), FlagInv, InvalSize > 0, NEW k \in Nat,
           NEW p \in Places(chain), Has(p, k), ~FlagGap(k)
    PROVE  \A b \in 1..InvalSize : Holds(iv, k * InvalSize + b - 1)
<1>1. PICK a \in Nat, n \in Nat : a = At(chain, p).from /\ n = At(chain, p).n
  BY PlaceFacts
<1>2. a <= k /\ k < a + n /\ InvalSize \in Nat \ {0}
  BY <1>1, SizeAssumption DEF Has
<1>9. Tracked(p) /\ (Flagged(p) \/ ~EmptyAt(p))
  BY GapIs
<1>10. PICK s \in DOMAIN iv : FlagOK(iv[s], p)
  <2>1. PICK place \in [1..Len(iv) -> {q \in Places(chain) : Tracked(q)}] :
          /\ \A q \in Places(chain) : Tracked(q) => \E s \in 1..Len(iv) : place[s] = q
          /\ \A s \in 1..Len(iv) : FlagOK(iv[s], place[s])
    BY DEF FlagInv
  <2>2. PICK s \in 1..Len(iv) : place[s] = p
    BY <1>9, <2>1
  <2>3. s \in DOMAIN iv
    OBVIOUS
  <2> QED
    BY <2>1, <2>2, <2>3
<1>12. iv[s].logical = a * InvalSize /\ iv[s].length = n * InvalSize
  BY <1>1, <1>9, <1>10 DEF FlagOK, FlagSeg, Seg
<1>13. InARow(iv)
  BY DEF FlagInv
<1>14. ASSUME NEW c \in 1..InvalSize PROVE Holds(iv, k * InvalSize + c - 1)
  <2>1. /\ k * InvalSize + c - 1 \in Nat /\ a * InvalSize <= k * InvalSize + c - 1
        /\ k * InvalSize + c - 1 < a * InvalSize + n * InvalSize
    BY <1>2, InRange
  <2>2. PICK off \in Nat : off = k * InvalSize + c - 1
    BY <2>1
  <2>3. iv[s].logical <= off /\ off < iv[s].logical + iv[s].length
    BY <1>12, <2>1, <2>2
  <2>4. Holds(iv, off)
    BY <1>13, <2>3, OwnerIs
  <2> QED
    BY <2>2, <2>4
<1> QED
  BY <1>14

-----------------------------------------------------------------------------
(* Powers of two and products.                                             *)

Doubles(p, n) ==
    /\ p \in [0..n -> Nat] /\ p[0] = 1
    /\ \A k \in 1..n : p[k] = 2 * p[k - 1]

LEMMA Pow2Is ==
    ASSUME NEW n \in Nat
    PROVE  \E p : Doubles(p, n) /\ Pow2(n) = p[n]
<1> DEFINE step == [m \in 1..n |-> [v \in Nat |-> 2 * v]]
<1>1. PICK c : Goes(c, n, Nat, 1, step)
  <2>1. step \in [1..n -> [Nat -> Nat]]
    OBVIOUS
  <2> HIDE DEF step
  <2> QED
    BY <2>1, Recursion
<1>2. Doubles(c, n)
  <2>1. ASSUME NEW k \in 1..n PROVE c[k] = 2 * c[k - 1]
    <3>1. k - 1 \in 0..n
      OBVIOUS
    <3>2. c[k - 1] \in Nat
      BY <1>1, <3>1 DEF Goes
    <3>3. c[k] = step[k][c[k - 1]]
      BY <1>1 DEF Goes
    <3> QED
      BY <3>2, <3>3
  <2> QED
    BY <1>1, <2>1 DEF Goes, Doubles
<1> DEFINE Part(g, m) == IF m = 0 THEN 1 ELSE 2 * g[m - 1]
           Eq(g) == g = [m \in 0..n |-> Part(g, m)]
           F == CHOOSE g : Eq(g)
<1>3. Eq(c)
  <2>1. \A m \in 0..n : c[m] = Part(c, m)
    BY <1>2 DEF Doubles
  <2>2. c = [m \in 0..n |-> c[m]]
    BY <1>2 DEF Doubles
  <2> HIDE DEF Part
  <2> QED
    BY <2>1, <2>2, Zenon
<1>4. Eq(F)
  <2> HIDE DEF Eq
  <2> QED
    BY <1>3, Zenon
<1>5. Pow2(n) = F[n]
  BY Zenon DEF Pow2
<1> HIDE DEF F
<1>6. \A m \in 0..n : F[m] = Part(F, m)
  <2> HIDE DEF Part
  <2> QED
    BY <1>4
<1>7. Doubles(F, n)
  <2> DEFINE P == {m \in 0..n : F[m] = c[m]}
  <2>1. 0 \in P
    BY <1>2, <1>6 DEF Doubles
  <2>2. ASSUME NEW m \in 1..n, m - 1 \in P PROVE m \in P
    <3>1. F[m] = 2 * F[m - 1] /\ F[m - 1] = c[m - 1] /\ m \in 0..n
      BY <1>6, <2>2
    <3>2. c[m] = 2 * c[m - 1]
      BY <1>2 DEF Doubles
    <3> QED
      BY <3>1, <3>2
  <2> HIDE DEF P
  <2>3. \A m \in 0..n : m \in P
    BY <2>1, <2>2, Climb
  <2>4. \A m \in 0..n : F[m] = c[m]
    BY <2>3 DEF P
  <2>5. F = c
    <3>1. F = [m \in 0..n |-> F[m]] /\ c = [m \in 0..n |-> c[m]]
      BY <1>2, <1>4 DEF Doubles
    <3> QED
      BY <2>4, <3>1, Zenon
  <2> QED
    BY <1>2, <2>5
<1> QED
  BY <1>5, <1>7

LEMMA Pow2Facts ==
    ASSUME NEW n \in Nat
    PROVE  Pow2(0) = 1 /\ Pow2(n) \in Nat /\ Pow2(n) > 0 /\ Pow2(n + 1) = 2 * Pow2(n)
<1>1. PICK z : Doubles(z, 0) /\ Pow2(0) = z[0]
  BY Pow2Is
<1>2. PICK p : Doubles(p, n) /\ Pow2(n) = p[n]
  BY Pow2Is
<1>3. PICK q : Doubles(q, n + 1) /\ Pow2(n + 1) = q[n + 1]
  BY Pow2Is
<1> DEFINE P == {m \in 0..n : p[m] = q[m] /\ p[m] > 0}
<1>4. 0 \in P
  BY <1>2, <1>3 DEF Doubles
<1>5. ASSUME NEW m \in 1..n, m - 1 \in P PROVE m \in P
  <2>1. p[m - 1] = q[m - 1] /\ p[m - 1] > 0 /\ m - 1 \in 0..n /\ m \in 0..n /\ m \in 1..(n + 1)
    BY <1>5
  <2>2. p[m] = 2 * p[m - 1] /\ q[m] = 2 * q[m - 1] /\ p[m - 1] \in Nat
    BY <1>2, <1>3, <2>1 DEF Doubles
  <2> QED
    BY <2>1, <2>2
<1> HIDE DEF P
<1>6. \A m \in 0..n : m \in P
  BY <1>4, <1>5, Climb
<1>7. p[n] = q[n] /\ p[n] > 0
  BY <1>6 DEF P
<1>8. n + 1 \in 1..(n + 1) /\ (n + 1) - 1 = n
  OBVIOUS
<1>9. q[n + 1] = 2 * q[n] /\ p[n] \in Nat /\ z[0] = 1
  BY <1>1, <1>2, <1>3, <1>8 DEF Doubles
<1> QED
  BY <1>1, <1>2, <1>3, <1>7, <1>9

Products(p, s) ==
    /\ p \in [0..Len(s) -> Nat] /\ p[0] = 1
    /\ \A k \in 1..Len(s) : p[k] = p[k - 1] * s[k]

LEMMA ProductIs ==
    ASSUME NEW s \in Seq(Nat)
    PROVE  \E p : Products(p, s) /\ Product(s) = p[Len(s)]
<1>0. PICK n \in Nat : n = Len(s)
  OBVIOUS
<1>00. \A m \in 1..n : s[m] \in Nat
  BY <1>0
<1> DEFINE step == [m \in 1..n |-> [v \in Nat |-> v * s[m]]]
<1>1. PICK c : Goes(c, n, Nat, 1, step)
  <2>1. \A m \in 1..n : \A v \in Nat : v * s[m] \in Nat
    BY <1>00, ProductFacts
  <2>2. step \in [1..n -> [Nat -> Nat]]
    BY <2>1
  <2> HIDE DEF step
  <2> QED
    BY <2>2, Recursion
<1>2. Products(c, s)
  <2>1. ASSUME NEW k \in 1..n PROVE c[k] = c[k - 1] * s[k]
    <3>1. k - 1 \in 0..n
      OBVIOUS
    <3>2. c[k - 1] \in Nat
      BY <1>1, <3>1 DEF Goes
    <3>3. c[k] = step[k][c[k - 1]]
      BY <1>1 DEF Goes
    <3> QED
      BY <3>2, <3>3
  <2> QED
    BY <1>0, <1>1, <2>1 DEF Goes, Products
<1> DEFINE Part(g, m) == IF m = 0 THEN 1 ELSE g[m - 1] * s[m]
           Eq(g) == g = [m \in 0..n |-> Part(g, m)]
           F == CHOOSE g : Eq(g)
<1>3. Eq(c)
  <2>1. \A m \in 0..n : c[m] = Part(c, m)
    BY <1>0, <1>2 DEF Products
  <2>2. c = [m \in 0..n |-> c[m]]
    BY <1>0, <1>2 DEF Products
  <2> HIDE DEF Part
  <2> QED
    BY <2>1, <2>2, Zenon
<1>4. Eq(F)
  <2> HIDE DEF Eq
  <2> QED
    BY <1>3, Zenon
<1>5. Product(s) = F[n]
  <2>1. Product(s) = (CHOOSE g : g = [m \in 0..Len(s) |->
                  IF m = 0 THEN 1 ELSE g[m - 1] * s[m]])[Len(s)]
    BY Zenon DEF Product
  <2> QED
    BY <1>0, <2>1
<1> HIDE DEF F
<1>6. \A m \in 0..n : F[m] = Part(F, m)
  <2> HIDE DEF Part
  <2> QED
    BY <1>4
<1>7. \A m \in 0..n : F[m] = c[m]
  <2> DEFINE P == {m \in 0..n : F[m] = c[m]}
  <2>1. 0 \in P
    BY <1>2, <1>6 DEF Products
  <2>2. ASSUME NEW m \in 1..n, m - 1 \in P PROVE m \in P
    <3>1. F[m] = F[m - 1] * s[m] /\ F[m - 1] = c[m - 1] /\ m \in 0..n
      BY <1>6, <2>2
    <3>2. c[m] = c[m - 1] * s[m]
      BY <1>0, <1>2 DEF Products
    <3> QED
      BY <3>1, <3>2
  <2> HIDE DEF P
  <2>3. \A m \in 0..n : m \in P
    BY <2>1, <2>2, Climb
  <2> QED
    BY <2>3 DEF P
<1> QED
  BY <1>0, <1>2, <1>5, <1>7

(* The sizes of the dimensions behind one another.                         *)
LEMMA LaterFacts ==
    ASSUME NEW s \in Seq(Nat)
    PROVE  /\ \A d \in 0..Len(s) : Later(s, d) \in Nat
           /\ Later(s, Len(s)) = 1 /\ Later(s, 0) = Product(s)
           /\ \A d \in 1..Len(s) : Later(s, d - 1) = s[d] * Later(s, d)
<1>1. PICK n \in Nat : n = Len(s)
  OBVIOUS
<1>2. ASSUME NEW d \in 0..n
      PROVE  /\ SubSeq(s, d + 1, n) \in Seq(Nat) /\ Len(SubSeq(s, d + 1, n)) = n - d
             /\ \A j \in 1..(n - d) : SubSeq(s, d + 1, n)[j] = s[d + j]
  <2>1. SubSeq(s, d + 1, n) = [j \in 1..(n - d) |-> s[d + j]]
    BY <1>1
  <2>2. \A j \in 1..(n - d) : s[d + j] \in Nat
    BY <1>1
  <2>3. PICK m, g : m = n - d /\ g = SubSeq(s, d + 1, n)
    OBVIOUS
  <2>4. m \in Nat /\ g = [j \in 1..m |-> g[j]] /\ \A j \in 1..m : g[j] \in Nat
    <3>1. m \in Nat
      BY <2>3
    <3>2. g = [j \in 1..m |-> s[d + j]]
      BY <2>1, <2>3
    <3>3. \A j \in 1..m : g[j] = s[d + j] /\ g[j] \in Nat
      BY <2>2, <2>3, <3>2
    <3> QED
      BY <3>1, <3>2, <3>3
  <2>5. g \in Seq(Nat) /\ Len(g) = m
    BY <2>4, AsSeq
  <2> QED
    BY <2>1, <2>3, <2>5
<1>3. ASSUME NEW d \in 0..n PROVE Later(s, d) \in Nat
  <2>1. PICK t \in Seq(Nat) : t = SubSeq(s, d + 1, n)
    BY <1>2
  <2>2. PICK p : Products(p, t) /\ Product(t) = p[Len(t)]
    BY ProductIs
  <2>3. Product(t) \in Nat
    BY <2>2 DEF Products
  <2> QED
    BY <1>1, <2>1, <2>3 DEF Later
<1>4. Later(s, n) = 1
  <2>1. PICK t \in Seq(Nat) : t = SubSeq(s, n + 1, n) /\ Len(t) = 0
    <3>1. n \in 0..n /\ n - n = 0
      OBVIOUS
    <3> QED
      BY <1>2, <3>1
  <2>2. PICK p : Products(p, t) /\ Product(t) = p[Len(t)]
    BY ProductIs
  <2> QED
    BY <1>1, <2>1, <2>2 DEF Later, Products
<1>5. Later(s, 0) = Product(s)
  <2>1. SubSeq(s, 0 + 1, n) = s
    BY <1>1
  <2> QED
    BY <1>1, <2>1 DEF Later
<1>6. ASSUME NEW d \in 1..n PROVE Later(s, d - 1) = s[d] * Later(s, d)
  <2>1. PICK x \in Nat : x = d - 1 /\ x + 1 = d /\ x \in 0..n /\ d \in 0..n
    OBVIOUS
  <2>2. PICK A \in Seq(Nat), B \in Seq(Nat) :
          /\ A = SubSeq(s, x + 1, n) /\ B = SubSeq(s, d + 1, n)
          /\ Len(A) = n - x /\ Len(B) = n - d
          /\ (\A j \in 1..(n - x) : A[j] = s[x + j]) /\ (\A j \in 1..(n - d) : B[j] = s[d + j])
    BY <1>2, <2>1
  <2>3. PICK p : Products(p, A) /\ Product(A) = p[Len(A)]
    BY ProductIs
  <2>4. PICK q : Products(q, B) /\ Product(B) = q[Len(B)]
    BY ProductIs
  <2>5. PICK m \in Nat : m = n - d /\ Len(A) = m + 1 /\ Len(B) = m
    BY <2>1, <2>2
  <2>6. s[d] \in Nat
    BY <1>1
  <2>7. p \in [0..(m + 1) -> Nat] /\ p[0] = 1 /\ \A k \in 1..(m + 1) : p[k] = p[k - 1] * A[k]
    BY <2>3, <2>5 DEF Products
  <2>8. q \in [0..m -> Nat] /\ q[0] = 1 /\ \A k \in 1..m : q[k] = q[k - 1] * B[k]
    BY <2>4, <2>5 DEF Products
  <2> DEFINE P == {j \in 0..m : p[j + 1] = s[d] * q[j]}
  <2>9. 0 \in P
    <3>1. A[1] = s[d] /\ 1 \in 1..(m + 1)
      BY <2>1, <2>2, <2>5
    <3>2. p[1] = p[0] * A[1]
      BY <2>7, <3>1
    <3>3. p[1] = s[d] * q[0]
      BY <2>6, <2>7, <2>8, <3>1, <3>2
    <3> QED
      BY <3>3
  <2>10. ASSUME NEW j \in 1..m, j - 1 \in P PROVE j \in P
    <3>1. p[(j - 1) + 1] = s[d] * q[j - 1] /\ (j - 1) + 1 = j /\ j + 1 \in 1..(m + 1)
      BY <2>10
    <3>2. A[j + 1] = s[d + j] /\ B[j] = s[d + j] /\ s[d + j] \in Nat
      <4>1. j + 1 \in 1..(n - x) /\ j \in 1..(n - d) /\ x + (j + 1) = d + j /\ d + j \in 1..n
        BY <2>1, <2>5
      <4>2. s[d + j] \in Nat /\ B[j] = s[d + j]
        BY <1>1, <2>2, <4>1
      <4>3. A[j + 1] = s[x + (j + 1)]
        BY <2>2, <4>1
      <4> QED
        BY <4>1, <4>2, <4>3
    <3>3. p[j + 1] = p[j] * s[d + j] /\ q[j] = q[j - 1] * s[d + j]
      <4>1. (j + 1) - 1 = j
        OBVIOUS
      <4>2. p[j + 1] = p[j] * A[j + 1]
        BY <2>7, <3>1, <4>1
      <4> QED
        BY <2>8, <3>2, <4>2
    <3>4. PICK a \in Nat, b \in Nat, c \in Nat : a = s[d] /\ b = q[j - 1] /\ c = s[d + j]
      <4>1. j - 1 \in 0..m
        OBVIOUS
      <4> QED
        BY <2>6, <2>8, <3>2, <4>1
    <3>5. p[j + 1] = (a * b) * c /\ s[d] * q[j] = a * (b * c)
      BY <3>1, <3>3, <3>4
    <3>6. (a * b) * c = a * (b * c)
      OBVIOUS
    <3> QED
      BY <3>5, <3>6
  <2> HIDE DEF P
  <2>11. \A j \in 0..m : j \in P
    BY <2>9, <2>10, Climb
  <2>12. p[m + 1] = s[d] * q[m]
    BY <2>11 DEF P
  <2>13. Later(s, x) = p[m + 1] /\ Later(s, d) = q[m]
    BY <1>1, <2>2, <2>3, <2>4, <2>5 DEF Later
  <2> QED
    BY <2>1, <2>12, <2>13
<1> QED
  BY <1>1, <1>3, <1>4, <1>5, <1>6

-----------------------------------------------------------------------------
(* Arrays: an element lies as far from the first one as its number says.   *)

(* Dividing by a product, one factor after the other.                      *)
Splits(k, s, w) ==
    \E q, p \in Nat : \E r \in 0..(w - 1) : \E t \in 0..(s - 1) :
       /\ k \div w = q /\ k % w = r /\ q \div s = p /\ q % s = t
       /\ k \div (s * w) = p /\ k % (s * w) = t * w + r
       /\ q * w = p * (s * w) + t * w

LEMMA DivDiv ==
    ASSUME NEW w \in Nat \ {0}, NEW s \in Nat \ {0}, NEW k \in Nat
    PROVE  Splits(k, s, w)
<1>1. PICK q \in Nat, r \in 0..(w - 1) : k = q * w + r /\ k \div w = q /\ k % w = r
  BY Divide
<1>2. PICK p \in Nat, t \in 0..(s - 1) : q = p * s + t /\ q \div s = p /\ q % s = t
  BY Divide
<1>3. PICK v \in Nat : v = s * w /\ v > 0
  <2>1. s * w \in Nat
    BY ProductFacts
  <2>2. 0 * w + w <= s * w
    BY ProductFacts
  <2> QED
    BY <2>1, <2>2
<1>4. q * w = p * v + t * w
  <2>1. q * w = (p * s) * w + t * w
    BY <1>2, ProductFacts
  <2>2. (p * s) * w = p * (s * w)
    OBVIOUS
  <2> QED
    BY <1>3, <2>1, <2>2
<1>5. PICK u \in 0..(v - 1) : u = t * w + r
  <2>1. t * w + w <= s * w /\ t * w \in Nat
    BY ProductFacts
  <2>2. PICK x \in Nat : x = t * w
    BY <2>1
  <2>3. x + w <= v
    BY <1>3, <2>1, <2>2
  <2>4. x + r \in 0..(v - 1)
    BY <1>3, <2>3
  <2> QED
    BY <2>2, <2>4
<1>6. k = p * v + u
  <2>1. PICK x \in Nat, y \in Nat, z \in Nat : x = q * w /\ y = p * v /\ z = t * w
    BY ProductFacts
  <2> QED
    BY <1>1, <1>4, <1>5, <2>1
<1>7. k \div v = p /\ k % v = u
  BY <1>3, <1>6, DivMod
<1>8. k \div (s * w) = p /\ k % (s * w) = t * w + r
  BY <1>3, <1>5, <1>7
<1>9. q * w = p * (s * w) + t * w
  BY <1>3, <1>4
<1> QED
  BY <1>1, <1>2, <1>8, <1>9 DEF Splits

Dim == [size : Nat, stride : Nat, inv : Nat]

SizesAre(sizes, ds) == sizes = [d \in DOMAIN ds |-> ds[d].size]
Strides(ds, sizes, field, base) ==
    \A d \in DOMAIN ds : ds[d][field] = base * Later(sizes, d)

LEMMA AlongIs ==
    ASSUME NEW ds \in Seq(Dim), NEW sizes \in Seq(Nat), SizesAre(sizes, ds),
           NEW field, NEW base \in Nat, Strides(ds, sizes, field, base),
           NEW k \in Nat, k < Product(sizes)
    PROVE  Along(ds, k, field) = k * base
<1>0. sizes = [d \in DOMAIN ds |-> ds[d].size]
  BY DEF SizesAre
<1>1. PICK n \in Nat : n = Len(ds) /\ n = Len(sizes) /\ DOMAIN ds = 1..n
  BY <1>0
<1>2. PICK L \in [0..n -> Nat] : \A d \in 0..n : L[d] = Later(sizes, d)
  <2>1. \A d \in 0..n : Later(sizes, d) \in Nat
    BY <1>1, LaterFacts
  <2>2. [d \in 0..n |-> Later(sizes, d)] \in [0..n -> Nat]
    BY <2>1
  <2> QED
    BY <2>2
<1>3. PICK z \in [1..n -> Nat] : \A d \in 1..n : z[d] = sizes[d]
  <2>1. \A d \in 1..n : sizes[d] \in Nat
    BY <1>1
  <2>2. [d \in 1..n |-> sizes[d]] \in [1..n -> Nat]
    BY <2>1
  <2> QED
    BY <2>2
<1>4. L[n] = 1 /\ k < L[0] /\ \A d \in 1..n : L[d - 1] = z[d] * L[d]
  <2>1. 0 \in 0..n /\ n \in 0..n
    OBVIOUS
  <2>2. ASSUME NEW d \in 1..n PROVE L[d - 1] = z[d] * L[d]
    <3>1. d - 1 \in 0..n /\ d \in 0..n
      OBVIOUS
    <3>2. Later(sizes, d - 1) = sizes[d] * Later(sizes, d)
      BY <1>1, LaterFacts
    <3> QED
      BY <1>2, <1>3, <3>1, <3>2
  <2> QED
    BY <1>1, <1>2, <2>1, <2>2, LaterFacts
<1>5. \A d \in 0..n : L[d] > 0
  <2> DEFINE P == {d \in 0..n : L[d] > 0}
  <2>1. 0 \in P
    <3>1. 0 \in 0..n
      OBVIOUS
    <3>2. L[0] \in Nat /\ k < L[0]
      BY <1>4, <3>1
    <3>3. L[0] > 0
      BY <3>2
    <3> QED
      BY <3>1, <3>3
  <2>2. ASSUME NEW m \in 1..n, m - 1 \in P PROVE m \in P
    <3>1. L[m - 1] > 0 /\ L[m] \in Nat /\ z[m] \in Nat /\ m \in 0..n
      BY <2>2
    <3>2. L[m] = 0 => z[m] * L[m] = 0
      BY <3>1
    <3> QED
      BY <1>4, <3>1, <3>2
  <2> HIDE DEF P
  <2>3. \A d \in 0..n : d \in P
    BY <2>1, <2>2, Climb
  <2> QED
    BY <2>3 DEF P
<1> DEFINE c == [m \in 0..n |-> ((k \div L[m]) * L[m]) * base]
<1>6. c[0] = 0
  <2>1. 0 * L[0] + k = k /\ k \in 0..(L[0] - 1) /\ L[0] \in Nat \ {0} /\ 0 \in 0..n
    BY <1>2, <1>4, <1>5
  <2>2. PICK l \in Nat \ {0} : l = L[0]
    BY <2>1
  <2>3. (0 * l + k) \div l = 0
    BY <2>1, <2>2, DivMod
  <2>4. k \div l = 0 /\ (0 * l) * base = 0
    BY <2>1, <2>2, <2>3
  <2> QED
    BY <2>1, <2>2, <2>4
<1>7. ASSUME NEW m \in 1..n
      PROVE  c[m] = c[m - 1] + IndexOf(sizes, k, m) * ds[m][field]
  <2>1. m \in 0..n /\ m - 1 \in 0..n
    OBVIOUS
  <2>2. PICK w \in Nat \ {0}, s \in Nat : w = L[m] /\ s = z[m] /\ L[m - 1] = s * w
    <3>1. L[m] \in Nat /\ L[m] > 0 /\ z[m] \in Nat
      BY <1>5, <2>1
    <3>2. L[m - 1] = z[m] * L[m]
      BY <1>4
    <3> QED
      BY <3>1, <3>2
  <2>3. s # 0
    <3>1. s = 0 => s * w = 0
      BY <2>2
    <3> QED
      BY <1>5, <2>1, <2>2, <3>1
  <2>4. Splits(k, s, w)
    BY <2>2, <2>3, DivDiv
  <2>10. PICK q \in Nat, p \in Nat, r \in 0..(w - 1), t \in 0..(s - 1) :
          /\ k \div w = q /\ k % w = r /\ q \div s = p /\ q % s = t
          /\ k \div (s * w) = p /\ k % (s * w) = t * w + r
          /\ q * w = p * (s * w) + t * w
    BY <2>4, Zenon DEF Splits
  <2>11. t \in Nat
    OBVIOUS
  <2>5. PICK x \in Nat, y \in Nat, u \in Nat :
          x = q * w /\ y = p * (s * w) /\ u = t * w /\ x = y + u
    <3>1. s * w \in Nat
      BY <2>2, ProductFacts
    <3>2. q * w \in Nat /\ p * (s * w) \in Nat /\ t * w \in Nat
      BY <2>2, <2>11, <3>1, ProductFacts
    <3>3. q * w = p * (s * w) + t * w
      BY <2>10
    <3> QED
      BY <3>2, <3>3
  <2>6. c[m] = x * base /\ c[m - 1] = y * base
    BY <2>1, <2>2, <2>5, <2>10
  <2>7. IndexOf(sizes, k, m) = t
    <3>1. Later(sizes, m) = w /\ sizes[m] = s
      BY <1>2, <1>3, <2>1, <2>2
    <3>2. IndexOf(sizes, k, m) = (k \div w) % s
      BY <3>1 DEF IndexOf
    <3> QED
      BY <2>10, <3>2
  <2>8. ds[m][field] = base * w
    BY <1>1, <1>2, <2>1, <2>2 DEF Strides
  <2>9. x * base = y * base + t * (base * w)
    <3>1. x * base = y * base + u * base
      <4>1. (y + u) * base = y * base + u * base
        BY ProductFacts
      <4> QED
        BY <2>5, <4>1
    <3>2. u * base = t * (base * w)
      <4>1. (t * w) * base = t * (base * w)
        BY <2>2, <2>11
      <4> QED
        BY <2>5, <4>1
    <3> QED
      BY <3>1, <3>2
  <2> HIDE DEF c
  <2> QED
    BY <2>6, <2>7, <2>8, <2>9
<1>8. c[n] = k * base
  <2>1. n \in 0..n /\ k \div 1 = k /\ k * 1 = k
    OBVIOUS
  <2> QED
    BY <1>4, <2>1
<1>9. c = [m \in 0..n |-> c[m]]
  OBVIOUS
<1> HIDE DEF c
<1> DEFINE Part(g, m) == IF m = 0 THEN 0 ELSE g[m - 1] + IndexOf(sizes, k, m) * ds[m][field]
           Eq(g) == g = [m \in 0..n |-> Part(g, m)]
           F == CHOOSE g : Eq(g)
<1>10. Eq(c)
  <2>1. ASSUME NEW m \in 0..n PROVE c[m] = Part(c, m)
    <3>1. CASE m = 0
      BY <1>6, <3>1, Zenon
    <3>2. CASE m # 0
      <4>1. m \in 1..n
        BY <3>2
      <4>2. c[m] = c[m - 1] + IndexOf(sizes, k, m) * ds[m][field]
        BY <1>7, <4>1
      <4> QED
        BY <3>2, <4>2, Zenon
    <3> QED
      BY <3>1, <3>2
  <2> HIDE DEF Part
  <2> QED
    BY <1>9, <2>1, Zenon
<1>11. Eq(F)
  <2> HIDE DEF Eq
  <2> QED
    BY <1>10, Zenon
<1>12. Along(ds, k, field) = F[n]
  <2>1. Along(ds, k, field) = (CHOOSE g : g = [m \in 0..Len(ds) |->
            IF m = 0 THEN 0
            ELSE g[m - 1] + IndexOf([d \in DOMAIN ds |-> ds[d].size], k, m) * ds[m][field]])[Len(ds)]
    BY Zenon DEF Along
  <2> QED
    BY <1>0, <1>1, <2>1
<1> HIDE DEF F
<1>13. \A m \in 0..n : F[m] = Part(F, m)
  <2> HIDE DEF Part
  <2> QED
    BY <1>11
<1>130. F[0] = 0
  <2>1. 0 \in 0..n
    OBVIOUS
  <2> QED
    BY <1>13, <2>1, Zenon
<1>131. ASSUME NEW m \in 1..n
        PROVE  F[m] = F[m - 1] + IndexOf(sizes, k, m) * ds[m][field]
  <2>1. m \in 0..n /\ m # 0
    OBVIOUS
  <2> QED
    BY <1>13, <2>1, Zenon
<1> HIDE DEF Part
<1>14. \A m \in 0..n : F[m] = c[m]
  <2> DEFINE P == {m \in 0..n : F[m] = c[m]}
  <2>1. 0 \in P
    BY <1>6, <1>130
  <2>2. ASSUME NEW m \in 1..n, m - 1 \in P PROVE m \in P
    <3>1. F[m - 1] = c[m - 1] /\ m \in 0..n
      BY <2>2
    <3>2. F[m] = F[m - 1] + IndexOf(sizes, k, m) * ds[m][field]
      BY <1>131
    <3>3. c[m] = c[m - 1] + IndexOf(sizes, k, m) * ds[m][field]
      BY <1>7
    <3> QED
      BY <3>1, <3>2, <3>3
  <2> HIDE DEF P
  <2>3. \A m \in 0..n : m \in P
    BY <2>1, <2>2, Climb
  <2> QED
    BY <2>3 DEF P
<1> QED
  BY <1>8, <1>12, <1>14

(* The dimensions of nested arrays.                                        *)
AnyLevel == [dims : Seq(Nat), base : Nat, inv : Nat]

LEMMA FlattenTyped ==
    ASSUME NEW T, NEW n \in Nat, NEW p \in [1..n -> Seq(T)]
    PROVE  FlattenSeq(p) \in Seq(T)
<1>1. Len(p) = n
  OBVIOUS
<1>2. CASE n = 0
  <2>1. p = <<>>
    BY <1>2
  <2> QED
    BY <1>1, <1>2, <2>1 DEF FlattenSeq
<1>3. CASE n # 0
  <2> DEFINE step == [m \in 1..n |-> [v \in Seq(T) |-> v \o p[m]]]
  <2>1. PICK c : Goes(c, n, Seq(T), <<>>, step)
    <3>1. \A m \in 1..n : \A v \in Seq(T) : v \o p[m] \in Seq(T)
      BY ConcatProperties
    <3>2. step \in [1..n -> [Seq(T) -> Seq(T)]] /\ <<>> \in Seq(T)
      BY <3>1
    <3> HIDE DEF step
    <3> QED
      BY <3>2, Recursion
  <2>2. ASSUME NEW m \in 1..n
        PROVE  c[m] = c[m - 1] \o p[m] /\ c[m] \in Seq(T) /\ c[m - 1] \in Seq(T)
    <3>1. m - 1 \in 0..n /\ m \in 0..n
      OBVIOUS
    <3>2. c[m - 1] \in Seq(T) /\ c[m] \in Seq(T)
      BY <2>1, <3>1 DEF Goes
    <3>3. c[m] = step[m][c[m - 1]]
      BY <2>1 DEF Goes
    <3> QED
      BY <3>2, <3>3
  <2> DEFINE Part(f, j) == IF j = 1 THEN p[j] ELSE f[j - 1] \o p[j]
             Eq(f) == f = [j \in 1..n |-> Part(f, j)]
             F == CHOOSE f : Eq(f)
             g == [j \in 1..n |-> c[j]]
  <2>3. ASSUME NEW j \in 1..n PROVE g[j] = Part(g, j)
    <3>1. p[j] \in Seq(T) /\ c[0] = <<>>
      BY <2>1 DEF Goes
    <3>2. CASE j = 1
      <4>0. j - 1 = 0
        BY <3>2
      <4>1. c[1] = <<>> \o p[1]
        BY <2>2, <3>1, <3>2, <4>0
      <4>2. c[1] = p[1]
        BY <3>1, <3>2, <4>1, ConcatEmptySeq
      <4> QED
        BY <3>2, <4>2
    <3>3. CASE j # 1
      <4>1. j - 1 \in 1..n
        BY <3>3
      <4>2. g[j - 1] = c[j - 1] /\ g[j] = c[j]
        BY <4>1
      <4> HIDE DEF g
      <4> QED
        BY <2>2, <3>3, <4>2
    <3> QED
      BY <3>2, <3>3
  <2>4. Eq(g)
    <3>1. g = [j \in 1..n |-> g[j]]
      OBVIOUS
    <3> HIDE DEF g, Part
    <3> QED
      BY <2>3, <3>1, Zenon
  <2>5. Eq(F)
    <3> HIDE DEF Eq, g
    <3> QED
      BY <2>4, Zenon
  <2>6. FlattenSeq(p) = F[n]
    <3>1. Len(p) # 0
      BY <1>1, <1>3
    <3>2. FlattenSeq(p) = (CHOOSE f : f = [j \in 1..Len(p) |-> Part(f, j)])[Len(p)]
      BY <3>1, Zenon DEF FlattenSeq
    <3> QED
      BY <1>1, <3>2
  <2> HIDE DEF F
  <2>7. \A j \in 1..n : F[j] = IF j = 1 THEN p[j] ELSE F[j - 1] \o p[j]
    <3>1. \A j \in 1..n : F[j] = Part(F, j)
      <4> HIDE DEF Part
      <4> QED
        BY <2>5
    <3> QED
      BY <3>1
  <2> DEFINE P == {m \in 0..n : m # 0 => F[m] \in Seq(T)}
  <2>8. 0 \in P
    OBVIOUS
  <2>9. ASSUME NEW m \in 1..n, m - 1 \in P PROVE m \in P
    <3>1. p[m] \in Seq(T) /\ m \in 0..n
      OBVIOUS
    <3>2. CASE m = 1
      BY <2>7, <3>1, <3>2
    <3>3. CASE m # 1
      <4>1. F[m - 1] \in Seq(T)
        BY <2>9, <3>3
      <4>2. F[m] = F[m - 1] \o p[m]
        BY <2>7, <3>3
      <4>3. PICK x \in Seq(T), y \in Seq(T) : x = F[m - 1] /\ y = p[m]
        BY <3>1, <4>1
      <4>4. x \o y \in Seq(T)
        BY ConcatProperties
      <4>5. F[m] \in Seq(T)
        BY <4>2, <4>3, <4>4
      <4> QED
        BY <3>1, <4>5
    <3> QED
      BY <3>2, <3>3
  <2> HIDE DEF P
  <2>10. \A m \in 0..n : m \in P
    BY <2>8, <2>9, Climb
  <2>11. F[n] \in Seq(T)
    BY <1>3, <2>10 DEF P
  <2> QED
    BY <2>6, <2>11
<1> QED
  BY <1>2, <1>3

LEMMA DimsTyped ==
    ASSUME NEW levels \in Seq(AnyLevel)
    PROVE  /\ Dims(levels) \in Seq(Dim)
           /\ Sizes(levels) \in Seq(Nat)
           /\ SizesAre(Sizes(levels), Dims(levels))
<1>1. PICK n \in Nat : n = Len(levels) /\ DOMAIN levels = 1..n
  OBVIOUS
<1> DEFINE p == [m \in DOMAIN levels |-> LevelDims(levels[m])]
<1>2. ASSUME NEW m \in 1..n PROVE LevelDims(levels[m]) \in Seq(Dim)
  <2>1. PICK l \in AnyLevel : l = levels[m]
    BY <1>1
  <2>2. l.dims \in Seq(Nat) /\ l.base \in Nat /\ l.inv \in Nat
    BY DEF AnyLevel
  <2>3. PICK k \in Nat : k = Len(l.dims) /\ DOMAIN l.dims = 1..k
    BY <2>2
  <2>4. ASSUME NEW d \in 1..k
        PROVE  [size |-> l.dims[d], stride |-> l.base * Later(l.dims, d),
                inv |-> l.inv * Later(l.dims, d)] \in Dim
    <3>1. d \in 0..k
      OBVIOUS
    <3>2. Later(l.dims, d) \in Nat
      BY <2>2, <2>3, <3>1, LaterFacts
    <3>3. l.base * Later(l.dims, d) \in Nat /\ l.inv * Later(l.dims, d) \in Nat
      BY <2>2, <3>2, ProductFacts
    <3>4. l.dims[d] \in Nat
      BY <2>2, <2>3
    <3> QED
      BY <3>3, <3>4 DEF Dim
  <2>5. PICK g : g = LevelDims(l)
    OBVIOUS
  <2>6. g = [d \in 1..k |-> [size |-> l.dims[d], stride |-> l.base * Later(l.dims, d),
                             inv |-> l.inv * Later(l.dims, d)]]
    BY <2>3, <2>5 DEF LevelDims
  <2>7. g = [d \in 1..k |-> g[d]] /\ \A d \in 1..k : g[d] \in Dim
    BY <2>4, <2>6
  <2> QED
    BY <2>1, <2>5, <2>7, AsSeq
<1>3. p \in [1..n -> Seq(Dim)]
  BY <1>1, <1>2
<1>4. Dims(levels) = FlattenSeq(p)
  BY DEF Dims
<1>5. Dims(levels) \in Seq(Dim)
  <2> HIDE DEF p
  <2> QED
    BY <1>3, <1>4, FlattenTyped
<1>6. PICK ds \in Seq(Dim) : ds = Dims(levels)
  BY <1>5
<1>7. Sizes(levels) = [d \in DOMAIN ds |-> ds[d].size]
  BY <1>6 DEF Sizes
<1>8. Sizes(levels) \in Seq(Nat)
  <2>1. PICK g : g = Sizes(levels)
    OBVIOUS
  <2>2. PICK k \in Nat : k = Len(ds) /\ DOMAIN ds = 1..k
    OBVIOUS
  <2>3. \A d \in 1..k : ds[d].size \in Nat
    <3>1. \A d \in 1..k : ds[d] \in Dim
      BY <2>2
    <3> QED
      BY <3>1 DEF Dim
  <2>4. g = [d \in 1..k |-> ds[d].size]
    BY <1>7, <2>1, <2>2
  <2>5. g = [d \in 1..k |-> g[d]] /\ \A d \in 1..k : g[d] \in Nat
    BY <2>3, <2>4
  <2> QED
    BY <2>1, <2>5, AsSeq
<1> QED
  BY <1>5, <1>6, <1>7, <1>8 DEF SizesAre

(* The channels that are read: one, or one per element of an array.        *)
LEMMA ElementIs ==
    ASSUME NEW c \in Channels, NEW e \in DOMAIN Elements(c)
    PROVE  /\ e \in Nat /\ e >= 1
           /\ Cell(c, "byte") \in Nat /\ Cell(c, "inv") \in Nat
           /\ c.spec \in [byte : Nat, bit : Nat, count : Nat, bigE : BOOLEAN,
                          signed : BOOLEAN, inval : Int]
           /\ Elements(c)[e] = [c.spec EXCEPT
                 !.byte = c.spec.byte + (e - 1) * Cell(c, "byte"),
                 !.inval = IF c.spec.inval < 0 THEN c.spec.inval
                           ELSE c.spec.inval + (e - 1) * Cell(c, "inv")]
<1>1. /\ c.spec \in [byte : Nat, bit : Nat, count : Nat, bigE : BOOLEAN,
                     signed : BOOLEAN, inval : Int]
      /\ c.arr.levels \in Seq(AnyLevel)
      /\ c.arr.levels = <<>> \/ Packed(c.arr.levels)
  BY ChannelsAssumption DEF AnyLevel
<1>2. PICK sp \in [byte : Nat, bit : Nat, count : Nat, bigE : BOOLEAN,
                   signed : BOOLEAN, inval : Int] : sp = c.spec
  BY <1>1
<1>3. CASE c.arr.levels = <<>>
  <2>1. Elements(c) = <<sp>>
    BY <1>2, <1>3 DEF Elements
  <2>2. e = 1 /\ Elements(c)[e] = sp
    BY <2>1
  <2>3. Cell(c, "byte") = 0 /\ Cell(c, "inv") = 0
    BY <1>3 DEF Cell
  <2>4. sp.byte \in Nat /\ sp.inval \in Int
    BY <1>2
  <2>5. PICK x, y :
          /\ x = c.spec.byte + (e - 1) * Cell(c, "byte")
          /\ y = IF c.spec.inval < 0 THEN c.spec.inval
                ELSE c.spec.inval + (e - 1) * Cell(c, "inv")
    OBVIOUS
  <2>6. x = sp.byte /\ y = sp.inval
    BY <1>2, <2>2, <2>3, <2>4, <2>5
  <2>7. sp = [sp EXCEPT !.byte = x, !.inval = y]
    BY <1>2, <2>6
  <2>8. Elements(c)[e] = [c.spec EXCEPT !.byte = x, !.inval = y]
    BY <1>2, <2>2, <2>7
  <2> QED
    BY <1>1, <2>2, <2>3, <2>5, <2>8
<1>4. CASE c.arr.levels # <<>>
  <2>1. PICK levels \in Seq(AnyLevel) : levels = c.arr.levels /\ levels # <<>>
    BY <1>1, <1>4
  <2>2. PICK ds \in Seq(Dim), sizes \in Seq(Nat) :
          ds = Dims(levels) /\ sizes = Sizes(levels) /\ SizesAre(sizes, ds)
    BY DimsTyped
  <2>3. Last(levels) \in AnyLevel
    BY <2>1 DEF Last
  <2>4. PICK base \in Nat, inv \in Nat : base = Last(levels).base /\ inv = Last(levels).inv
    BY <2>3 DEF AnyLevel
  <2>5. Cell(c, "byte") = base /\ Cell(c, "inv") = inv
    BY <1>4, <2>1, <2>4 DEF Cell
  <2>6. \A d \in DOMAIN ds : /\ ds[d]["stride"] = base * Later(sizes, d)
                             /\ ds[d]["inv"] = inv * Later(sizes, d)
    BY <1>1, <1>4, <2>1, <2>2, <2>4 DEF Packed
  <2>7. Elements(c) = ExpandArray(sp, c.arr)
    BY <1>2, <1>4 DEF Elements
  <2>8. Elements(c) = [x \in 1..Product(sizes) |-> Element(sp, ds, x - 1)]
    <3>1. Expandable(c.arr)
      <4>1. ~Expandable(c.arr) => Elements(c) = <<>>
        BY <2>7 DEF ExpandArray
      <4> QED
        BY <4>1
    <3> QED
      BY <2>1, <2>2, <2>7, <3>1, Zenon DEF ExpandArray
  <2>9. Product(sizes) \in Nat
    <3>1. 0 \in 0..Len(sizes)
      OBVIOUS
    <3> QED
      BY <3>1, LaterFacts
  <2>10. PICK k \in Nat : k = e - 1 /\ k < Product(sizes) /\ e \in Nat /\ e >= 1
    <3>1. PICK m \in Nat : m = Product(sizes)
      BY <2>9
    <3>2. e \in 1..m
      BY <2>8, <3>1
    <3>3. e - 1 \in Nat /\ e - 1 < m /\ e \in Nat /\ e >= 1
      BY <3>2
    <3> QED
      BY <3>1, <3>3
  <2>11. Along(ds, k, "stride") = k * base
    <3>1. Strides(ds, sizes, "stride", base)
      BY <2>6, Zenon DEF Strides
    <3> QED
      BY <2>2, <2>10, <3>1, AlongIs
  <2>12. Along(ds, k, "inv") = k * inv
    <3>1. Strides(ds, sizes, "inv", inv)
      BY <2>6, Zenon DEF Strides
    <3> QED
      BY <2>2, <2>10, <3>1, AlongIs
  <2>13. Elements(c)[e] = Element(sp, ds, k)
    BY <2>8, <2>10
  <2>14. Elements(c)[e] = [sp EXCEPT !.byte = sp.byte + k * base,
                                     !.inval = IF sp.inval < 0 THEN sp.inval
                                               ELSE sp.inval + k * inv]
    BY <2>11, <2>12, <2>13 DEF Element
  <2> QED
    BY <1>1, <1>2, <2>5, <2>10, <2>14
<1> QED
  BY <1>3, <1>4

-----------------------------------------------------------------------------
(* What a column holds.                                                    *)

LEMMA ColumnIs ==
    ASSUME ColumnInv, col.done
    PROVE  /\ chain \in Files /\ chain \in Seq(AnyList)
           /\ data \in Seq(SegSet) /\ iv \in Seq(SegSet)
           /\ hasIv <=> InvalSize > 0 /\ \E l \in 1..Len(chain) : chain[l].inval
           /\ DataInv /\ FlagInv
           /\ \E c \in Channels : \E e \in DOMAIN Elements(c) :
              \E from, count \in 0..MaxSamples : col = Column(c, e, from, count)
<1>1. status = "ready"
  BY DEF ColumnInv, ColInv
<1> QED
  BY <1>1 DEF ColumnInv, ColInv, ReadyInv, ShapeInv

LEMMA LenOf ==
    ASSUME NEW n \in Nat, NEW g, g = [s \in 1..n |-> g[s]]
    PROVE  Len(g) = n
<1>1. PICK T : T = {g[s] : s \in 1..n}
  OBVIOUS
<1>2. \A s \in 1..n : g[s] \in T
  BY <1>1
<1> QED
  BY <1>2, AsSeq

LEMMA EntryLength ==
    ASSUME NEW segs, NEW n \in Nat, NEW k
    PROVE  Len(Entry(segs, n, k)) = n
<1> DEFINE byte(b) ==
             LET off  == k * n + b - 1
                 seg  == segs[OwnerOf(segs, off)]
                 at   == off - seg.logical
                 from == seg.from + at \div n
             IN CASE seg.kind = "zero" -> 0
                  [] seg.kind = "DV"   -> RecByte(from, (at % n) + 1)
                  [] seg.kind = "DI"   -> InvByte(from, (at % n) + 1)
<1>1. PICK g : g = Entry(segs, n, k)
  OBVIOUS
<1>2. g = [b \in 1..n |-> byte(b)]
  BY <1>1, Zenon DEF Entry
<1> HIDE DEF byte
<1>3. g = [b \in 1..n |-> g[b]]
  BY <1>2
<1> QED
  BY <1>1, <1>3, LenOf

(* The recorder stored the flag q of sample k.                             *)
FlagSet(k, q) ==
    /\ q < 8 * InvalSize
    /\ \E lb \in BlocksOf(k) : lb[1].inval /\ lb[2].di = "DI"
    /\ (InvByte(k, q \div 8 + 1) \div Pow2(q % 8)) % 2 = 1

(* One flag of a sample whose invalidation bytes were read.                *)
LEMMA FlagBit ==
    ASSUME chain \in Files, chain \in Seq(AnyList), iv \in Seq(SegSet), FlagInv, InvalSize > 0,
           NEW from \in Nat, NEW count \in Nat, ReadAtOK(iv, InvalSize, from, count),
           NEW s \in 1..count, NEW k \in Nat, k = from + s - 1, NEW q \in Nat
    PROVE  InvalidBit(Entry(iv, InvalSize, k), q) <=> FlagSet(k, q)
<1>1. PICK j \in Nat, r \in 0..7 : j = q \div 8 + 1 /\ r = q % 8 /\ j >= 1
  OBVIOUS
<1>2. InvalSize \in Nat \ {0}
  BY SizeAssumption
<1>3. j <= InvalSize <=> q < 8 * InvalSize
  BY <1>1, <1>2
<1>4. PICK bytes : bytes = Entry(iv, InvalSize, k) /\ Len(bytes) = InvalSize
  BY <1>2, EntryLength
<1>5. InvalidBit(bytes, q) <=> j <= InvalSize /\ (bytes[j] \div Pow2(r)) % 2 = 1
  BY <1>1, <1>4 DEF InvalidBit
<1>6. CASE ~(j <= InvalSize)
  BY <1>3, <1>4, <1>5, <1>6 DEF FlagSet
<1>7. CASE j <= InvalSize
  <2>1. j \in 1..InvalSize
    BY <1>1, <1>2, <1>7
  <2>2. k * InvalSize + j - 1 \in Nat /\ Holds(iv, k * InvalSize + j - 1)
    BY <1>2, <2>1, ReadsEntry
  <2>3. PICK p \in Places(chain) :
          Has(p, k) /\ bytes[j] = IF Flagged(p) THEN InvByte(k, j) ELSE 0
    BY <1>4, <2>1, <2>2, FlagRead
  <2>4. (\E lb \in BlocksOf(k) : lb[1].inval /\ lb[2].di = "DI") <=> Flagged(p)
    <3>1. ASSUME Flagged(p) PROVE \E lb \in BlocksOf(k) : lb[1].inval /\ lb[2].di = "DI"
      <4>1. PICK lb : lb = <<chain[p[1]], At(chain, p)>>
        OBVIOUS
      <4>2. lb \in BlocksOf(k)
        BY <2>3, <4>1, BlocksOfPlaces
      <4>3. lb[1].inval /\ lb[2].di = "DI"
        BY <3>1, <4>1 DEF Flagged
      <4> QED
        BY <4>2, <4>3
    <3>2. ASSUME NEW lb \in BlocksOf(k), lb[1].inval /\ lb[2].di = "DI" PROVE Flagged(p)
      <4>1. PICK x \in Places(chain) : Has(x, k) /\ lb = <<chain[x[1]], At(chain, x)>>
        BY BlocksOfPlaces
      <4>2. Flagged(x)
        BY <3>2, <4>1 DEF Flagged
      <4>3. x = p
        BY <2>3, <4>1, OneBlock
      <4> QED
        BY <4>2, <4>3
    <3> QED
      BY <3>1, <3>2
  <2>5. CASE Flagged(p)
    BY <1>1, <1>3, <1>4, <1>5, <1>7, <2>3, <2>4, <2>5 DEF FlagSet
  <2>6. CASE ~Flagged(p)
    <3>1. bytes[j] = 0
      BY <2>3, <2>6
    <3>2. PICK w \in Nat : w = Pow2(r) /\ w > 0
      <4>1. r \in Nat
        OBVIOUS
      <4> QED
        BY <4>1, Pow2Facts
    <3>3. 0 \div w = 0 /\ 0 % 2 = 0
      <4>1. 0 * w + 0 = 0 /\ 0 \in 0..(w - 1)
        BY <3>2
      <4>2. (0 * w + 0) \div w = 0
        BY <3>2, <4>1, DivMod
      <4> QED
        BY <4>1, <4>2
    <3>4. ~InvalidBit(bytes, q)
      BY <1>5, <3>1, <3>2, <3>3
    <3> QED
      BY <1>4, <2>4, <2>6, <3>4 DEF FlagSet
  <2> QED
    BY <2>5, <2>6
<1> QED
  BY <1>6, <1>7

LEMMA FlagsRight == ColumnInv => InvalidReadBack
<1> SUFFICES ASSUME ColumnInv, col.done, col.ok, NEW s \in 1..col.count,
                    NEW k, k = col.from + s - 1,
                    NEW bit, bit = col.c.spec.inval + (col.e - 1) * Cell(col.c, "inv")
             PROVE  s \in col.invalid <=> col.c.spec.inval >= 0 /\ FlagSet(k, bit)
  BY DEF InvalidReadBack, FlagSet
<1>1. /\ chain \in Files /\ chain \in Seq(AnyList)
      /\ data \in Seq(SegSet) /\ iv \in Seq(SegSet)
      /\ hasIv <=> InvalSize > 0 /\ \E l \in 1..Len(chain) : chain[l].inval
      /\ DataInv /\ FlagInv
  BY ColumnIs
<1>2. PICK c \in Channels : \E e \in DOMAIN Elements(c) :
        \E from, count \in 0..MaxSamples : col = Column(c, e, from, count)
  BY ColumnIs
<1>3. PICK e \in DOMAIN Elements(c), from \in 0..MaxSamples, count \in 0..MaxSamples :
        col = Column(c, e, from, count)
  BY <1>2
<1>4. PICK sp : sp = Elements(c)[e]
  OBVIOUS
<1>5. /\ col.c = c /\ col.e = e /\ col.from = from /\ col.count = count
      /\ ~ReadFails(sp, from, count)
      /\ col.invalid = IF ~NeedsInval(sp) THEN {} ELSE FlagsOf(sp, from, count)
  <2>1. /\ col.c = c /\ col.e = e /\ col.from = from /\ col.count = count
        /\ ~ReadFails(sp, from, count)
    BY <1>3, <1>4 DEF Column
  <2>2. col.invalid = IF ~NeedsInval(sp) THEN {} ELSE FlagsOf(sp, from, count)
    BY <1>3, <1>4, <2>1 DEF Column
  <2> QED
    BY <2>1, <2>2
<1>6. from \in Nat /\ count \in Nat
  BY SizeAssumption
<1>7. PICK m \in Nat : m = (e - 1) * Cell(c, "inv")
  <2>1. e \in Nat /\ e >= 1 /\ Cell(c, "inv") \in Nat
    BY ElementIs
  <2>2. e - 1 \in Nat
    BY <2>1
  <2> QED
    BY <2>1, <2>2, ProductFacts
<1>8. PICK f \in Int : f = c.spec.inval /\ sp.inval = IF f < 0 THEN f ELSE f + m
  <2>1. c.spec.inval \in Int
    BY ElementIs
  <2>2. sp = [c.spec EXCEPT
                 !.byte = c.spec.byte + (e - 1) * Cell(c, "byte"),
                 !.inval = IF c.spec.inval < 0 THEN c.spec.inval
                           ELSE c.spec.inval + (e - 1) * Cell(c, "inv")]
    BY <1>4, ElementIs
  <2>3. PICK x, y : /\ y = IF c.spec.inval < 0 THEN c.spec.inval ELSE c.spec.inval + (e - 1) * Cell(c, "inv")
                    /\ sp = [c.spec EXCEPT !.byte = x, !.inval = y]
    BY <2>2
  <2>4. sp.inval = y
    <3>1. c.spec \in [byte : Nat, bit : Nat, count : Nat, bigE : BOOLEAN,
                      signed : BOOLEAN, inval : Int]
      BY ElementIs
    <3> QED
      BY <2>3, <3>1
  <2> QED
    BY <1>7, <2>1, <2>3, <2>4
<1>9. s \in 1..count /\ k = from + s - 1 /\ bit = f + m
  BY <1>5, <1>7, <1>8
<1>10. k \in Nat /\ count > 0
  BY <1>6, <1>9
<1>11. CASE f < 0
  <2>1. ~NeedsInval(sp)
    BY <1>8, <1>11 DEF NeedsInval
  <2> QED
    BY <1>5, <1>8, <1>11, <2>1
<1>12. CASE f >= 0 /\ ~hasIv
  <2>1. s \notin col.invalid
    BY <1>5, <1>12 DEF NeedsInval
  <2>2. ASSUME bit < 8 * InvalSize, NEW lb \in BlocksOf(k), lb[1].inval PROVE FALSE
    <3>1. InvalSize > 0
      BY <1>8, <1>9, <1>12, <2>2, SizeAssumption
    <3>2. PICK p \in Places(chain) : lb = <<chain[p[1]], At(chain, p)>>
      BY <1>1, <1>10, BlocksOfPlaces
    <3>3. chain[p[1]].inval /\ p[1] \in 1..Len(chain)
      BY <1>1, <2>2, <3>2, PlaceFacts
    <3> QED
      BY <1>1, <1>12, <3>1, <3>3
  <2> QED
    BY <2>1, <2>2 DEF FlagSet
<1>13. CASE f >= 0 /\ hasIv
  <2>1. sp.inval = bit /\ bit \in Nat
    BY <1>8, <1>9, <1>13
  <2>2. NeedsInval(sp)
    BY <1>13, <2>1 DEF NeedsInval
  <2>3. ReadAtOK(iv, InvalSize, from, count) /\ InvalSize > 0
    BY <1>1, <1>5, <1>10, <1>13, <2>2 DEF ReadFails
  <2>4. s \in col.invalid <=> InvalidBit(Entry(iv, InvalSize, k), bit)
    <3>1. col.invalid = {t \in 1..count : InvalidBit(Entry(iv, InvalSize, from + t - 1), bit)}
      BY <1>5, <2>1, <2>2 DEF FlagsOf
    <3> QED
      BY <1>9, <3>1
  <2>5. InvalidBit(Entry(iv, InvalSize, k), bit) <=> FlagSet(k, bit)
    BY <1>1, <1>6, <1>9, <1>10, <2>1, <2>3, FlagBit
  <2> QED
    BY <1>5, <1>8, <1>13, <2>4, <2>5
<1> QED
  BY <1>8, <1>11, <1>12, <1>13

(* A sample whose entries were read is in a block and in no gap.           *)
LEMMA SampleRead ==
    ASSUME chain \in Files, chain \in Seq(AnyList), data \in Seq(SegSet), DataInv,
           iv \in Seq(SegSet), FlagInv, NEW from \in Nat, NEW count \in Nat,
           NEW k \in from .. from + count - 1
    PROVE  /\ ReadAtOK(data, RecSize, from, count) => BlocksOf(k) # {}
           /\ (InvalSize > 0 /\ ReadAtOK(iv, InvalSize, from, count)) => ~FlagGap(k)
<1>1. PICK s \in 1..count : k = from + s - 1
  <2>1. k - from + 1 \in 1..count /\ k = from + (k - from + 1) - 1
    OBVIOUS
  <2> QED
    BY <2>1
<1>2. k \in Nat
  OBVIOUS
<1>3. ASSUME ReadAtOK(data, RecSize, from, count) PROVE BlocksOf(k) # {}
  <2>1. RecSize \in Nat \ {0} /\ 1 \in 1..RecSize
    BY SizeAssumption
  <2>2. k * RecSize + 1 - 1 \in Nat /\ Holds(data, k * RecSize + 1 - 1)
    BY <1>1, <1>3, <2>1, ReadsEntry
  <2>3. PICK p \in Places(chain) : Has(p, k)
    BY <1>2, <2>1, <2>2, RecordRead
  <2>4. PICK lb : lb = <<chain[p[1]], At(chain, p)>>
    OBVIOUS
  <2>5. lb \in BlocksOf(k)
    BY <1>2, <2>3, <2>4, BlocksOfPlaces
  <2> QED
    BY <2>5
<1>4. ASSUME InvalSize > 0, ReadAtOK(iv, InvalSize, from, count) PROVE ~FlagGap(k)
  <2>1. InvalSize \in Nat \ {0} /\ 1 \in 1..InvalSize
    BY <1>4, SizeAssumption
  <2>2. k * InvalSize + 1 - 1 \in Nat /\ Holds(iv, k * InvalSize + 1 - 1)
    BY <1>1, <1>4, <2>1, ReadsEntry
  <2>3. PICK p \in Places(chain) : Has(p, k) /\ Tracked(p) /\ (Flagged(p) \/ ~EmptyAt(p))
    BY <1>2, <1>4, <2>1, <2>2, FlagRead
  <2> QED
    BY <1>2, <1>4, <2>3, GapIs
<1> QED
  BY <1>3, <1>4

(* Samples that are all in a block, and in no gap, can be read.            *)
LEMMA RangeThere ==
    ASSUME chain \in Files, chain \in Seq(AnyList), data \in Seq(SegSet), DataInv,
           iv \in Seq(SegSet), FlagInv, NEW from \in Nat, NEW count \in Nat, count > 0,
           \A k \in from .. from + count - 1 : BlocksOf(k) # {}
    PROVE  /\ Total \in Nat /\ from + count <= Total
           /\ ReadAtOK(data, RecSize, from, count)
           /\ (InvalSize > 0 /\ \A k \in from .. from + count - 1 : ~FlagGap(k))
                => ReadAtOK(iv, InvalSize, from, count)
<1>1. ASSUME NEW k \in from .. from + count - 1
      PROVE  k \in Nat /\ \E p \in Places(chain) : Has(p, k)
  <2>1. k \in Nat
    OBVIOUS
  <2>2. PICK lb : lb \in BlocksOf(k)
    OBVIOUS
  <2> QED
    BY <2>1, <2>2, BlocksOfPlaces
<1>2. Total \in Nat /\ from + count <= Total
  <2>1. PICK k \in from .. from + count - 1 : k = from + count - 1
    OBVIOUS
  <2>2. PICK p \in Places(chain) : Has(p, k)
    BY <1>1
  <2>3. Total \in Nat /\ k < Total
    BY <1>1, <2>2, RecordThere
  <2> QED
    BY <2>1, <2>3
<1>3. ReadAtOK(data, RecSize, from, count)
  <2>1. SUFFICES ASSUME ~ReadAtOK(data, RecSize, from, count) PROVE FALSE
    OBVIOUS
  <2>2. PICK k \in from .. from + count - 1 : \E b \in 1..RecSize :
          ~Holds(data, k * RecSize + b - 1)
    BY <2>1, MissedEntry, SizeAssumption
  <2>3. PICK p \in Places(chain) : Has(p, k)
    BY <1>1
  <2> QED
    BY <1>1, <2>2, <2>3, RecordThere
<1>4. ASSUME InvalSize > 0, \A k \in from .. from + count - 1 : ~FlagGap(k),
             ~ReadAtOK(iv, InvalSize, from, count)
      PROVE  FALSE
  <2>1. InvalSize \in Nat \ {0}
    BY <1>4, SizeAssumption
  <2>2. PICK k \in from .. from + count - 1 : \E b \in 1..InvalSize :
          ~Holds(iv, k * InvalSize + b - 1)
    BY <1>4, <2>1, MissedEntry
  <2>3. PICK p \in Places(chain) : Has(p, k)
    BY <1>1
  <2> QED
    BY <1>1, <1>4, <2>2, <2>3, FlagThere
<1> QED
  BY <1>2, <1>3, <1>4

LEMMA SuccessIs == ColumnInv => ReadsSucceed
<1> SUFFICES ASSUME ColumnInv, col.done
             PROVE  col.ok <=>
                      /\ col.count = 0 \/ AsksInside
                      /\ \A k \in col.from .. col.from + col.count - 1 :
                            BlocksOf(k) # {} /\ (NeedsInval(col.c.spec) => ~FlagGap(k))
  BY DEF ReadsSucceed
<1>1. /\ chain \in Files /\ chain \in Seq(AnyList)
      /\ data \in Seq(SegSet) /\ iv \in Seq(SegSet)
      /\ hasIv <=> InvalSize > 0 /\ \E l \in 1..Len(chain) : chain[l].inval
      /\ DataInv /\ FlagInv
  BY ColumnIs
<1>2. PICK c \in Channels : \E e \in DOMAIN Elements(c) :
        \E from, count \in 0..MaxSamples : col = Column(c, e, from, count)
  BY ColumnIs
<1>3. PICK e \in DOMAIN Elements(c), from \in 0..MaxSamples, count \in 0..MaxSamples :
        col = Column(c, e, from, count)
  BY <1>2
<1>4. PICK sp : sp = Elements(c)[e]
  OBVIOUS
<1>5. /\ col.c = c /\ col.e = e /\ col.from = from /\ col.count = count
      /\ col.ok <=> ~ReadFails(sp, from, count)
  BY <1>3, <1>4 DEF Column
<1>6. from \in Nat /\ count \in Nat
  BY SizeAssumption
<1>7. sp = [c.spec EXCEPT
                 !.byte = c.spec.byte + (e - 1) * Cell(c, "byte"),
                 !.inval = IF c.spec.inval < 0 THEN c.spec.inval
                           ELSE c.spec.inval + (e - 1) * Cell(c, "inv")]
  BY <1>4, ElementIs
<1>8. c.spec \in [byte : Nat, bit : Nat, count : Nat, bigE : BOOLEAN,
                  signed : BOOLEAN, inval : Int]
  BY ElementIs
<1>9. AsksInside <=> FieldFits(sp, RecSize)
  <2>1. PICK fit : fit = [c.spec EXCEPT !.byte = @ + (e - 1) * Cell(c, "byte")]
    OBVIOUS
  <2>2. fit.byte = sp.byte /\ fit.bit = sp.bit /\ fit.count = sp.count
    BY <1>7, <1>8, <2>1
  <2>3. AsksInside <=> FieldFits(fit, RecSize)
    BY <1>5, <2>1 DEF AsksInside
  <2> QED
    BY <2>2, <2>3 DEF FieldFits, FieldBytes
<1>10. NeedsInval(sp) <=> NeedsInval(c.spec)
  <2>1. PICK m \in Nat : m = (e - 1) * Cell(c, "inv")
    <3>1. e \in Nat /\ e >= 1 /\ Cell(c, "inv") \in Nat
      BY ElementIs
    <3>2. e - 1 \in Nat
      BY <3>1
    <3> QED
      BY <3>1, <3>2, ProductFacts
  <2>2. PICK x, y : /\ y = IF c.spec.inval < 0 THEN c.spec.inval ELSE c.spec.inval + m
                    /\ sp = [c.spec EXCEPT !.byte = x, !.inval = y]
    BY <1>7, <2>1
  <2>3. sp.inval = y /\ c.spec.inval \in Int
    BY <1>8, <2>2
  <2>4. sp.inval >= 0 <=> c.spec.inval >= 0
    BY <2>1, <2>2, <2>3
  <2> QED
    BY <2>4 DEF NeedsInval
<1>11. hasIv => InvalSize > 0
  BY <1>1
<1>12. CASE count = 0
  <2>1. ~ReadFails(sp, from, count)
    BY <1>12 DEF ReadFails
  <2>2. \A k \in from .. from + count - 1 : FALSE
    BY <1>6, <1>12
  <2> QED
    BY <1>5, <1>12, <2>1, <2>2
<1>13. CASE count # 0
  <2>1. count > 0
    BY <1>6, <1>13
  <2>2. ASSUME ~ReadFails(sp, from, count)
        PROVE  /\ AsksInside
               /\ \A k \in from .. from + count - 1 :
                     BlocksOf(k) # {} /\ (NeedsInval(c.spec) => ~FlagGap(k))
    <3>1. /\ ReadAtOK(data, RecSize, from, count) /\ FieldFits(sp, RecSize)
          /\ NeedsInval(sp) => ReadAtOK(iv, InvalSize, from, count)
      BY <2>1, <2>2 DEF ReadFails
    <3>2. NeedsInval(c.spec) => InvalSize > 0
      BY <1>11 DEF NeedsInval
    <3>3. \A k \in from .. from + count - 1 :
             BlocksOf(k) # {} /\ (NeedsInval(c.spec) => ~FlagGap(k))
      BY <1>1, <1>6, <1>10, <3>1, <3>2, SampleRead
    <3> QED
      BY <1>9, <3>1, <3>3
  <2>3. ASSUME AsksInside,
               \A k \in from .. from + count - 1 :
                  BlocksOf(k) # {} /\ (NeedsInval(c.spec) => ~FlagGap(k))
        PROVE  ~ReadFails(sp, from, count)
    <3>1. /\ Total \in Nat /\ from + count <= Total
          /\ ReadAtOK(data, RecSize, from, count)
          /\ (InvalSize > 0 /\ \A k \in from .. from + count - 1 : ~FlagGap(k))
               => ReadAtOK(iv, InvalSize, from, count)
      BY <1>1, <1>6, <2>1, <2>3, RangeThere
    <3>2. NeedsInval(sp) => ReadAtOK(iv, InvalSize, from, count)
      BY <1>10, <1>11, <2>3, <3>1 DEF NeedsInval
    <3>3. ~(from + count > Total)
      BY <1>6, <3>1
    <3> QED
      BY <1>9, <2>3, <3>1, <3>2, <3>3 DEF ReadFails
  <2> QED
    BY <1>5, <1>13, <2>2, <2>3
<1> QED
  BY <1>12, <1>13

-----------------------------------------------------------------------------
(* Words and their bits.                                                   *)

LEMMA Pow2Sum ==
    ASSUME NEW a \in Nat, NEW b \in Nat
    PROVE  Pow2(a + b) = Pow2(a) * Pow2(b)
<1> DEFINE P == {m \in 0..b : Pow2(a + m) = Pow2(a) * Pow2(m)}
<1>1. PICK x \in Nat : x = Pow2(a)
  BY Pow2Facts
<1>2. 0 \in P
  <2>1. Pow2(0) = 1 /\ a + 0 = a /\ x * 1 = x
    BY Pow2Facts
  <2> QED
    BY <1>1, <2>1
<1>3. ASSUME NEW m \in 1..b, m - 1 \in P PROVE m \in P
  <2>1. PICK c \in Nat : c = m - 1 /\ c + 1 = m /\ a + m = (a + c) + 1 /\ m \in 0..b
    OBVIOUS
  <2>2. Pow2(a + c) = Pow2(a) * Pow2(c)
    BY <1>3, <2>1
  <2>3. Pow2(c + 1) = 2 * Pow2(c) /\ Pow2((a + c) + 1) = 2 * Pow2(a + c) /\ Pow2(c) \in Nat
    <3>1. a + c \in Nat
      OBVIOUS
    <3> QED
      BY <3>1, Pow2Facts
  <2>4. PICK y \in Nat : y = Pow2(c)
    BY <2>3
  <2>5. 2 * (x * y) = x * (2 * y)
    OBVIOUS
  <2>6. Pow2(a + m) = Pow2(a) * Pow2(m)
    BY <1>1, <2>1, <2>2, <2>3, <2>4, <2>5
  <2> QED
    BY <2>1, <2>6
<1> HIDE DEF P
<1>4. \A m \in 0..b : m \in P
  BY <1>2, <1>3, Climb
<1> QED
  BY <1>4 DEF P

LEMMA SmallPowers ==
    /\ Pow2(0) = 1 /\ Pow2(1) = 2 /\ Pow2(2) = 4 /\ Pow2(3) = 8 /\ Pow2(4) = 16
    /\ Pow2(5) = 32 /\ Pow2(6) = 64 /\ Pow2(7) = 128 /\ Pow2(8) = 256
<1>1. Pow2(0) = 1
  BY Pow2Facts
<1>2. \A n \in Nat : Pow2(n + 1) = 2 * Pow2(n)
  BY Pow2Facts
<1>3. Pow2(1) = 2 /\ Pow2(2) = 4 /\ Pow2(3) = 8 /\ Pow2(4) = 16
  <2>1. Pow2(0 + 1) = 2 /\ Pow2(1 + 1) = 2 * Pow2(1) /\ Pow2(2 + 1) = 2 * Pow2(2)
        /\ Pow2(3 + 1) = 2 * Pow2(3)
    BY <1>1, <1>2
  <2> QED
    BY <2>1
<1>4. Pow2(5) = 32 /\ Pow2(6) = 64 /\ Pow2(7) = 128 /\ Pow2(8) = 256
  <2>1. Pow2(4 + 1) = 2 * Pow2(4) /\ Pow2(5 + 1) = 2 * Pow2(5) /\ Pow2(6 + 1) = 2 * Pow2(6)
        /\ Pow2(7 + 1) = 2 * Pow2(7)
    BY <1>2
  <2> QED
    BY <1>3, <2>1
<1> QED
  BY <1>1, <1>3, <1>4

LEMMA Pow2Grows ==
    ASSUME NEW a \in Nat, NEW b \in Nat, a <= b
    PROVE  Pow2(a) <= Pow2(b)
<1>1. PICK d \in Nat : b = a + d
  <2>1. b - a \in Nat /\ b = a + (b - a)
    OBVIOUS
  <2> QED
    BY <2>1
<1>2. PICK x \in Nat, y \in Nat : x = Pow2(a) /\ y = Pow2(d) /\ y > 0
  BY Pow2Facts
<1>3. Pow2(b) = x * y
  BY <1>1, <1>2, Pow2Sum
<1>4. 1 * x <= y * x
  BY <1>2, ProductFacts
<1>5. y * x = x * y /\ 1 * x = x
  OBVIOUS
<1> QED
  BY <1>2, <1>3, <1>4, <1>5

(* The numbers a word of bytes goes through, when it is wide enough.       *)
Shifts(v, bytes, n) ==
    /\ v \in [0..n -> Nat] /\ v[0] = 0
    /\ \A k \in 1..n : v[k] = v[k - 1] * 256 + bytes[k]
    /\ \A k \in 0..n : v[k] < Pow2(8 * k)

LEMMA WordIs ==
    ASSUME NEW n \in Nat, 8 * n <= WordBits, NEW bytes, Len(bytes) = n,
           \A k \in 1..n : bytes[k] \in 0..255
    PROVE  \E v : Shifts(v, bytes, n) /\ Word(bytes) = v[n]
<1>1. WordBits \in Nat /\ \A k \in 1..n : bytes[k] \in 0..255
  BY WordAssumption
<1>2. PICK top \in Nat : top = Pow2(WordBits) /\ top > 0
  BY <1>1, Pow2Facts
<1> DEFINE step == [m \in 1..n |-> [v \in Nat |-> v * 256 + bytes[m]]]
<1>3. PICK c : Goes(c, n, Nat, 0, step)
  <2>1. ASSUME NEW m \in 1..n, NEW v \in Nat PROVE v * 256 + bytes[m] \in Nat
    <3>1. PICK b \in Nat : b = bytes[m]
      BY <1>1
    <3>2. v * 256 + b \in Nat
      OBVIOUS
    <3> QED
      BY <3>1, <3>2
  <2>2. step \in [1..n -> [Nat -> Nat]]
    BY <2>1
  <2> HIDE DEF step
  <2> QED
    BY <2>2, Recursion
<1>4. ASSUME NEW k \in 1..n PROVE c[k] = c[k - 1] * 256 + bytes[k] /\ c[k] \in Nat /\ c[k - 1] \in Nat
  <2>1. k - 1 \in 0..n /\ k \in 0..n
    OBVIOUS
  <2>2. c[k - 1] \in Nat /\ c[k] \in Nat
    BY <1>3, <2>1 DEF Goes
  <2>3. c[k] = step[k][c[k - 1]]
    BY <1>3 DEF Goes
  <2> QED
    BY <2>2, <2>3
<1>5. \A k \in 0..n : c[k] < Pow2(8 * k)
  <2> DEFINE P == {k \in 0..n : c[k] < Pow2(8 * k)}
  <2>1. 0 \in P
    <3>1. c[0] = 0 /\ 8 * 0 = 0
      BY <1>3 DEF Goes
    <3>2. c[0] < Pow2(8 * 0)
      BY <3>1, SmallPowers
    <3> QED
      BY <3>2
  <2>2. ASSUME NEW k \in 1..n, k - 1 \in P PROVE k \in P
    <3>1. PICK j \in Nat : j = 8 * (k - 1) /\ 8 * k = j + 8
      OBVIOUS
    <3>2. PICK x \in Nat : x = Pow2(j) /\ Pow2(8 * k) = x * 256
      <4>1. Pow2(j + 8) = Pow2(j) * Pow2(8) /\ Pow2(j) \in Nat
        BY Pow2Facts, Pow2Sum
      <4> QED
        BY <3>1, <4>1, SmallPowers
    <3>3. PICK a \in Nat, b \in 0..255 : a = c[k - 1] /\ b = bytes[k] /\ a < x
      BY <1>1, <1>4, <2>2, <3>1, <3>2
    <3>4. a * 256 + b < x * 256
      <4>1. a * 256 + 256 <= x * 256 /\ a * 256 \in Nat /\ x * 256 \in Nat
        BY <3>3, ProductFacts
      <4>2. PICK y \in Nat, z \in Nat : y = a * 256 /\ z = x * 256
        BY <4>1
      <4>3. y + b < z
        BY <4>1, <4>2
      <4> QED
        BY <4>2, <4>3
    <3>5. c[k] < x * 256
      BY <1>4, <3>3, <3>4
    <3> QED
      BY <3>2, <3>5
  <2> HIDE DEF P
  <2>3. \A k \in 0..n : k \in P
    BY <2>1, <2>2, Climb
  <2> QED
    BY <2>3 DEF P
<1>6. \A k \in 0..n : c[k] \in Nat /\ c[k] < top /\ c[k] % top = c[k]
  <2>1. ASSUME NEW k \in 0..n PROVE c[k] \in Nat /\ c[k] < top /\ c[k] % top = c[k]
    <3>1. 8 * k \in Nat /\ 8 * k <= WordBits
      BY <1>1
    <3>2. Pow2(8 * k) <= top /\ Pow2(8 * k) \in Nat
      BY <1>1, <1>2, <3>1, Pow2Grows, Pow2Facts
    <3>3. PICK x \in Nat : x = c[k] /\ x < top
      BY <1>3, <1>5, <3>2 DEF Goes
    <3>4. x = 0 * top + x /\ x \in 0..(top - 1) /\ top \in Nat \ {0}
      BY <1>2, <3>3
    <3>5. (0 * top + x) % top = x
      BY <3>4, DivMod
    <3> QED
      BY <3>3, <3>4, <3>5
  <2> QED
    BY <2>1
<1> HIDE DEF step
<1> DEFINE Part(g, m) == IF m = 0 THEN 0 ELSE (g[m - 1] * 256 + bytes[m]) % Pow2(WordBits)
           Eq(g) == g = [m \in 0..n |-> Part(g, m)]
           F == CHOOSE g : Eq(g)
<1>7. Eq(c)
  <2>1. ASSUME NEW m \in 0..n PROVE c[m] = Part(c, m)
    <3>1. CASE m = 0
      BY <1>3, <3>1 DEF Goes
    <3>2. CASE m # 0
      <4>1. m \in 1..n
        BY <3>2
      <4>2. c[m] = c[m - 1] * 256 + bytes[m]
        BY <1>4, <4>1
      <4>3. c[m] % top = c[m]
        BY <1>6
      <4>4. c[m] = (c[m - 1] * 256 + bytes[m]) % top
        BY <4>2, <4>3
      <4> QED
        BY <1>2, <3>2, <4>4
    <3> QED
      BY <3>1, <3>2
  <2>2. c = [m \in 0..n |-> c[m]]
    BY <1>3 DEF Goes
  <2> HIDE DEF Part
  <2> QED
    BY <2>1, <2>2, Zenon
<1>8. Eq(F)
  <2> HIDE DEF Eq
  <2> QED
    BY <1>7, Zenon
<1>9. Word(bytes) = F[n]
  <2>1. Word(bytes) = (CHOOSE g : g = [m \in 0..Len(bytes) |->
            IF m = 0 THEN 0 ELSE (g[m - 1] * 256 + bytes[m]) % Pow2(WordBits)])[Len(bytes)]
    BY Zenon DEF Word
  <2> QED
    BY <2>1
<1> HIDE DEF F
<1>10. \A m \in 0..n : F[m] = Part(F, m)
  <2> HIDE DEF Part
  <2> QED
    BY <1>8
<1>11. \A m \in 0..n : F[m] = c[m]
  <2> DEFINE P == {m \in 0..n : F[m] = c[m]}
  <2>1. 0 \in P
    BY <1>3, <1>10 DEF Goes
  <2>2. ASSUME NEW m \in 1..n, m - 1 \in P PROVE m \in P
    <3>1. m \in 0..n /\ m # 0
      OBVIOUS
    <3>2. F[m] = (F[m - 1] * 256 + bytes[m]) % top
      BY <1>2, <1>10, <3>1
    <3>3. F[m - 1] = c[m - 1]
      BY <2>2
    <3>4. c[m] = c[m - 1] * 256 + bytes[m]
      BY <1>4
    <3>5. F[m] = c[m] % top
      BY <3>2, <3>3, <3>4
    <3> QED
      BY <1>6, <3>1, <3>5
  <2> HIDE DEF P
  <2>3. \A m \in 0..n : m \in P
    BY <2>1, <2>2, Climb
  <2> QED
    BY <2>3 DEF P
<1>12. Shifts(c, bytes, n)
  BY <1>3, <1>4, <1>5 DEF Shifts, Goes
<1>13. Word(bytes) = c[n]
  BY <1>9, <1>11
<1> QED
  BY <1>12, <1>13

(* A byte at the end moves the other bits up and keeps its own.            *)
Appended(a, b, m) ==
    /\ m < 8 => ((a * 256 + b) \div Pow2(m)) % 2 = (b \div Pow2(m)) % 2
    /\ m >= 8 => (a * 256 + b) \div Pow2(m) = a \div Pow2(m - 8)

LEMMA ByteBits ==
    ASSUME NEW a \in Nat, NEW b \in 0..255, NEW m \in Nat
    PROVE  Appended(a, b, m)
<1>1. CASE m < 8
  <2>1. PICK l \in Nat : l = 7 - m /\ (m + l) + 1 = 8
    BY <1>1
  <2>2. PICK w \in Nat \ {0}, z \in Nat : w = Pow2(m) /\ z = Pow2(l) /\ 2 * (w * z) = 256
    <3>1. m + l \in Nat /\ Pow2((m + l) + 1) = 2 * Pow2(m + l) /\ Pow2(m + l) = Pow2(m) * Pow2(l)
      BY Pow2Facts, Pow2Sum
    <3>2. Pow2((m + l) + 1) = 256
      BY <2>1, SmallPowers
    <3>3. Pow2(m) \in Nat \ {0} /\ Pow2(l) \in Nat
      BY Pow2Facts
    <3> QED
      BY <3>1, <3>2, <3>3
  <2>3. PICK q \in Nat, r \in 0..(w - 1) : b = q * w + r /\ b \div w = q
    <3>1. b \in Nat
      OBVIOUS
    <3> QED
      BY <3>1, Divide
  <2>4. PICK y \in Nat : y = a * z
    BY ProductFacts
  <2>5. a * 256 = (2 * y) * w
    <3>1. a * 256 = a * (2 * (w * z))
      BY <2>2
    <3>2. a * (2 * (w * z)) = (2 * (a * z)) * w
      OBVIOUS
    <3> QED
      BY <2>4, <3>1, <3>2
  <2>6. a * 256 + b = (2 * y + q) * w + r
    <3>1. (2 * y + q) * w = (2 * y) * w + q * w
      BY ProductFacts
    <3>2. PICK s \in Nat, t \in Nat : s = (2 * y) * w /\ t = q * w
      BY ProductFacts
    <3> QED
      BY <2>3, <2>5, <3>1, <3>2
  <2>7. (a * 256 + b) \div w = 2 * y + q
    BY <2>6, DivMod
  <2>8. (2 * y + q) % 2 = q % 2
    OBVIOUS
  <2> QED
    BY <1>1, <2>2, <2>3, <2>7, <2>8 DEF Appended
<1>2. CASE m >= 8
  <2>1. PICK l \in Nat : l = m - 8 /\ m = l + 8
    BY <1>2
  <2>2. PICK w \in Nat \ {0}, e \in Nat \ {0} : w = Pow2(l) /\ e = 256 /\ Pow2(m) = w * e
    <3>1. Pow2(l + 8) = Pow2(l) * Pow2(8) /\ Pow2(l) \in Nat \ {0}
      BY Pow2Facts, Pow2Sum
    <3> QED
      BY <2>1, <3>1, SmallPowers
  <2>3. PICK k \in Nat : k = a * 256 + b
    OBVIOUS
  <2>4. k \div e = a
    <3>1. k = a * e + b /\ b \in 0..(e - 1)
      BY <2>2, <2>3
    <3> QED
      BY <3>1, DivMod
  <2>5. Splits(k, w, e)
    BY DivDiv
  <2>6. k \div (w * e) = a \div w
    <3>1. PICK q, p : k \div e = q /\ q \div w = p /\ k \div (w * e) = p
      BY <2>5 DEF Splits
    <3> QED
      BY <2>4, <3>1
  <2> QED
    BY <1>2, <2>1, <2>2, <2>3, <2>6 DEF Appended
<1> QED
  BY <1>1, <1>2

(* Bit m of a word is a bit of one of its bytes.                           *)
(* Bit m of x is in the byte that is m div 8 from the last.                *)
BitOfByte(x, bytes, n, m) ==
    /\ n - m \div 8 \in 1..n
    /\ (x \div Pow2(m)) % 2 = (bytes[n - m \div 8] \div Pow2(m % 8)) % 2

LEMMA WordBit ==
    ASSUME NEW n \in Nat, NEW bytes, \A k \in 1..n : bytes[k] \in 0..255, NEW v,
           Shifts(v, bytes, n), NEW m \in 0..(8 * n - 1)
    PROVE  BitOfByte(v[n], bytes, n, m)
<1> DEFINE Right(k, q) ==
             (v[k] \div Pow2(q)) % 2 = (bytes[k - q \div 8] \div Pow2(q % 8)) % 2
           P == {k \in 0..n : \A q \in 0..(8 * k - 1) : Right(k, q)}
<1>1. 0 \in P
  OBVIOUS
<1>2. ASSUME NEW k \in 1..n, k - 1 \in P PROVE k \in P
  <2>1. PICK a \in Nat, b \in 0..255 : a = v[k - 1] /\ b = bytes[k] /\ v[k] = a * 256 + b
    <3>1. k - 1 \in 0..n /\ bytes[k] \in 0..255
      OBVIOUS
    <3>2. v[k - 1] \in Nat /\ v[k] = v[k - 1] * 256 + bytes[k]
      BY <3>1 DEF Shifts
    <3> QED
      BY <3>1, <3>2
  <2>2. ASSUME NEW q \in 0..(8 * k - 1) PROVE Right(k, q)
    <3>1. CASE q < 8
      <4>1. q \div 8 = 0 /\ q % 8 = q /\ k - 0 = k /\ q \in Nat
        BY <3>1
      <4>2. ((a * 256 + b) \div Pow2(q)) % 2 = (b \div Pow2(q)) % 2
        <5>1. Appended(a, b, q)
          BY <4>1, ByteBits
        <5> QED
          BY <3>1, <5>1 DEF Appended
      <4> QED
        BY <2>1, <4>1, <4>2
    <3>2. CASE q >= 8
      <4>1. PICK x \in Nat : /\ x = q - 8 /\ x \in 0..(8 * (k - 1) - 1)
                             /\ (k - 1) - x \div 8 = k - q \div 8 /\ x % 8 = q % 8
        BY <3>2
      <4>2. (a * 256 + b) \div Pow2(q) = a \div Pow2(x)
        <5>1. Appended(a, b, q)
          <6>1. q \in Nat
            BY <3>2
          <6> QED
            BY <6>1, ByteBits
        <5> QED
          BY <3>2, <4>1, <5>1 DEF Appended
      <4>3. Right(k - 1, x)
        BY <1>2, <4>1
      <4>4. (a \div Pow2(x)) % 2 = (bytes[k - q \div 8] \div Pow2(q % 8)) % 2
        BY <2>1, <4>1, <4>3
      <4> QED
        BY <2>1, <4>2, <4>4
    <3> QED
      BY <3>1, <3>2
  <2> HIDE DEF Right
  <2> QED
    BY <2>2
<1> HIDE DEF P
<1>3. \A k \in 0..n : k \in P
  BY <1>1, <1>2, Climb
<1>4. \A q \in 0..(8 * n - 1) : Right(n, q)
  BY <1>3 DEF P
<1>5. n - m \div 8 \in 1..n
  OBVIOUS
<1> HIDE DEF P
<1>6. Right(n, m)
  BY <1>4
<1> QED
  BY <1>5, <1>6 DEF BitOfByte

(* A number below a power of two, by its bits.                             *)
LEMMA LowBits ==
    ASSUME NEW x \in Nat, NEW n \in Nat
    PROVE  /\ x % Pow2(0) = 0
           /\ x % Pow2(n + 1) = (x % Pow2(n)) + ((x \div Pow2(n)) % 2) * Pow2(n)
           /\ x % Pow2(n) \in Nat /\ x % Pow2(n) < Pow2(n)
           /\ (x \div Pow2(n)) % 2 \in {0, 1} /\ x \div Pow2(n) \in Nat
<1>1. PICK w \in Nat \ {0}, e \in Nat \ {0} :
        w = Pow2(n) /\ e = 2 /\ Pow2(n + 1) = e * w /\ Pow2(0) = 1
  BY Pow2Facts
<1>2. Splits(x, e, w)
  BY DivDiv
<1>3. PICK q \in Nat, r \in 0..(w - 1), t \in 0..(e - 1) :
        x \div w = q /\ x % w = r /\ q % e = t /\ x % (e * w) = t * w + r
  BY <1>2 DEF Splits
<1>4. x % 1 = 0
  OBVIOUS
<1>5. q % 2 = t /\ t \in {0, 1}
  BY <1>1, <1>3
<1>6. PICK y \in Nat : y = t * w
  BY <1>1, <1>3, ProductFacts
<1>7. x % (e * w) = r + y
  BY <1>3, <1>6
<1>8. x % Pow2(0) = 0
  BY <1>1, <1>4
<1>9. x % Pow2(n) = r /\ (x \div Pow2(n)) % 2 = t /\ x \div Pow2(n) = q
  BY <1>1, <1>3, <1>5
<1>10. x % Pow2(n + 1) = r + y
  BY <1>1, <1>7
<1>11. ((x \div Pow2(n)) % 2) * Pow2(n) = y
  BY <1>1, <1>6, <1>9
<1>12. r \in Nat /\ r < Pow2(n) /\ r + y = (x % Pow2(n)) + ((x \div Pow2(n)) % 2) * Pow2(n)
  BY <1>1, <1>9, <1>11
<1> QED
  BY <1>5, <1>8, <1>9, <1>10, <1>12

-----------------------------------------------------------------------------
(* The number of a field and its bits.                                     *)

(* Where the byte with bit q of a field is.                                *)
ByteAt(sp, q) ==
    IF sp.bigE THEN sp.byte + FieldBytes(sp) - q \div 8 ELSE sp.byte + q \div 8 + 1

AnySpec == [byte : Nat, bit : Nat, count : Nat, bigE : BOOLEAN,
            signed : BOOLEAN, inval : Int]

(* x is the number a field is cut out of.                                  *)
CutFrom(x, rec, sp) ==
    /\ Get(SubSeq(rec, sp.byte + 1, Len(rec)), sp)
          = (x \div Pow2(sp.bit)) % Pow2(sp.count)
    /\ \A q \in 0..(sp.bit + sp.count - 1) :
          (x \div Pow2(q)) % 2 = (rec[ByteAt(sp, q)] \div Pow2(q % 8)) % 2

(* The bytes of a field, the most significant one first.                   *)
Ordered(bytes, rec, sp, n, B) ==
    /\ Len(bytes) = n /\ \A j \in 1..n : bytes[j] \in B
    /\ \A j \in 1..n : bytes[j] = rec[sp.byte + (IF sp.bigE THEN j ELSE n + 1 - j)]

SliceOf(g, s, f, m, B) ==
    g \in Seq(B) /\ Len(g) = m /\ \A j \in 1..m : g[j] = s[f + j]

LEMMA Slice ==
    ASSUME NEW B, NEW s \in Seq(B), NEW f \in Nat, NEW first, first = f + 1,
           NEW m \in Nat, NEW t, t = f + m, t <= Len(s), NEW g, g = SubSeq(s, first, t)
    PROVE  SliceOf(g, s, f, m, B)
<1>1. SubSeq(s, f + 1, f + m) = [j \in 1..m |-> s[f + j]]
  OBVIOUS
<1>2. \A j \in 1..m : f + j \in 1..Len(s)
  OBVIOUS
<1>3. \A j \in 1..m : s[f + j] \in B
  BY <1>2
<1>4. g = [j \in 1..m |-> s[f + j]]
  BY <1>1
<1>5. g = [j \in 1..m |-> g[j]] /\ \A j \in 1..m : g[j] \in B
  BY <1>3, <1>4
<1>6. g \in Seq(B) /\ Len(g) = m
  BY <1>5, AsSeq
<1> QED
  BY <1>4, <1>6 DEF SliceOf

LEMMA FieldOrdered ==
    ASSUME NEW B, NEW R \in Nat, NEW rec \in Seq(B), Len(rec) = R, NEW sp \in AnySpec,
           NEW n \in Nat, sp.byte + n <= R, NEW bytes,
           bytes = InOrder(SubSeq(SubSeq(rec, sp.byte + 1, Len(rec)), 1, n), sp.bigE)
    PROVE  Ordered(bytes, rec, sp, n, B)
<1>1. PICK f \in Nat : f = sp.byte /\ f + n <= R /\ f <= R /\ R <= Len(rec)
  BY DEF AnySpec
<1>2. PICK p : p = SubSeq(rec, f + 1, Len(rec)) /\ SliceOf(p, rec, f, R - f, B)
  <2>1. PICK m \in Nat : m = R - f /\ R = f + m
    <3>1. R - f \in Nat /\ R = f + (R - f)
      BY <1>1
    <3> QED
      BY <3>1
  <2>2. PICK first, p : first = f + 1 /\ p = SubSeq(rec, first, R)
    OBVIOUS
  <2>3. SliceOf(p, rec, f, m, B)
    BY <1>1, <2>1, <2>2, Slice
  <2> QED
    BY <2>1, <2>2, <2>3
<1>3. PICK s : /\ s = SubSeq(p, 1, n) /\ s \in Seq(B) /\ Len(s) = n
               /\ \A j \in 1..n : s[j] = rec[f + j]
  <2>1. p \in Seq(B) /\ Len(p) = R - f /\ \A j \in 1..(R - f) : p[j] = rec[f + j]
    BY <1>2 DEF SliceOf
  <2>2. PICK z \in Nat, first \in Nat : z = 0 /\ first = 1 /\ first = z + 1 /\ n = z + n /\ n <= Len(p)
    BY <1>1, <2>1
  <2>3. PICK s : s = SubSeq(p, first, n)
    OBVIOUS
  <2>4. SliceOf(s, p, z, n, B)
    BY <2>1, <2>2, <2>3, Slice
  <2>5. s \in Seq(B) /\ Len(s) = n /\ \A j \in 1..n : s[j] = p[z + j]
    BY <2>4 DEF SliceOf
  <2>6. ASSUME NEW j \in 1..n PROVE s[j] = rec[f + j]
    <3>1. z + j = j /\ j \in 1..(R - f)
      BY <1>1, <2>2
    <3> QED
      BY <2>1, <2>5, <3>1
  <2> QED
    BY <2>2, <2>3, <2>5, <2>6
<1>4. bytes = IF sp.bigE THEN s ELSE Reverse(s)
  BY <1>1, <1>2, <1>3 DEF InOrder
<1>5. CASE sp.bigE
  <2>1. bytes = s
    BY <1>4, <1>5
  <2>2. \A j \in 1..n : s[j] \in B
    BY <1>3
  <2> QED
    BY <1>1, <1>3, <1>5, <2>1, <2>2 DEF Ordered
<1>6. CASE ~sp.bigE
  <2>1. bytes = [j \in 1..n |-> s[(n - j) + 1]]
    BY <1>3, <1>4, <1>6 DEF Reverse
  <2>2. ASSUME NEW j \in 1..n PROVE bytes[j] = rec[f + (n + 1 - j)] /\ bytes[j] \in B
    <3>1. PICK l \in 1..n : l = (n - j) + 1 /\ l = n + 1 - j
      OBVIOUS
    <3>2. bytes[j] = s[l]
      BY <2>1, <3>1
    <3>3. s[l] \in B
      BY <1>3
    <3> QED
      BY <1>3, <3>1, <3>2, <3>3
  <2>3. bytes = [j \in 1..n |-> bytes[j]]
    BY <2>1
  <2>4. Len(bytes) = n
    BY <2>3, LenOf
  <2> QED
    BY <1>1, <1>6, <2>2, <2>4 DEF Ordered
<1> QED
  BY <1>5, <1>6

LEMMA FieldIs ==
    ASSUME NEW R \in Nat, NEW rec \in Seq(0..255), Len(rec) = R, NEW sp \in AnySpec,
           FieldFits(sp, R), sp.bit + sp.count <= WordBits
    PROVE  \E x \in Nat : CutFrom(x, rec, sp)
<1>1. PICK n \in Nat, f \in Nat, h \in Nat, c \in Nat :
        /\ f = sp.byte /\ h = sp.bit /\ c = sp.count
        /\ n = FieldBytes(sp) /\ n = (h + c + 7) \div 8 /\ f + n <= R
  BY DEF FieldFits, FieldBytes, AnySpec
<1>2. 8 * n <= WordBits /\ h + c <= 8 * n
  <2>1. PICK W \in Nat : W = WordBits /\ W % 8 = 0 /\ h + c <= W
    BY <1>1, WordAssumption
  <2>2. PICK u \in Nat : W = 8 * u /\ h + c <= 8 * u
    BY <2>1
  <2>3. PICK y \in Nat : y = h + c + 7 /\ n = y \div 8 /\ y <= 8 * u + 7 /\ h + c = y - 7
    BY <1>1, <2>2
  <2>4. n <= u /\ y - 7 <= 8 * n
    BY <2>3
  <2> QED
    BY <2>1, <2>2, <2>3, <2>4
<1>3. PICK bytes : bytes = InOrder(SubSeq(SubSeq(rec, sp.byte + 1, Len(rec)), 1, n), sp.bigE)
  OBVIOUS
<1>4. Len(bytes) = n /\ (\A j \in 1..n : bytes[j] \in 0..255)
      /\ \A j \in 1..n : bytes[j] = rec[f + (IF sp.bigE THEN j ELSE n + 1 - j)]
  <2>1. sp.byte + n <= R
    BY <1>1
  <2>2. PICK B : B = 0..255 /\ rec \in Seq(B)
    OBVIOUS
  <2>3. Ordered(bytes, rec, sp, n, B)
    BY <1>3, <2>1, <2>2, FieldOrdered
  <2> QED
    BY <1>1, <2>2, <2>3 DEF Ordered
<1>5. PICK v : Shifts(v, bytes, n) /\ Word(bytes) = v[n]
  BY <1>2, <1>4, WordIs
<1>6. PICK x \in Nat : x = v[n] /\ x < Pow2(8 * n)
  BY <1>5 DEF Shifts
<1>7. ASSUME NEW q \in 0..(h + c - 1)
      PROVE  (x \div Pow2(q)) % 2 = (rec[ByteAt(sp, q)] \div Pow2(q % 8)) % 2
  <2>1. q \in 0..(8 * n - 1)
    <3>1. q <= h + c - 1 /\ h + c - 1 <= 8 * n - 1
      BY <1>2
    <3> QED
      BY <3>1
  <2>2. BitOfByte(v[n], bytes, n, q)
    <3>1. \A k \in 1..n : bytes[k] \in 0..255
      BY <1>4
    <3> QED
      BY <1>5, <2>1, <3>1, WordBit
  <2>3. PICK j \in 1..n : /\ j = n - q \div 8
                          /\ (x \div Pow2(q)) % 2 = (bytes[j] \div Pow2(q % 8)) % 2
    BY <1>6, <2>2, Zenon DEF BitOfByte
  <2>4. bytes[j] = rec[ByteAt(sp, q)]
    <3>1. CASE sp.bigE
      <4>1. ByteAt(sp, q) = f + n - q \div 8 /\ f + n - q \div 8 = f + j
        BY <1>1, <2>3, <3>1 DEF ByteAt
      <4>2. bytes[j] = rec[f + j]
        BY <1>4, <3>1
      <4> QED
        BY <4>1, <4>2
    <3>2. CASE ~sp.bigE
      <4>0. q \div 8 \in Nat
        BY <2>1
      <4>9. ByteAt(sp, q) = f + q \div 8 + 1
        BY <1>1, <3>2 DEF ByteAt
      <4>8. PICK d \in Nat : d = q \div 8 /\ j = n - d
        BY <2>3, <4>0
      <4>7. f + d + 1 = f + (n + 1 - j)
        BY <4>8
      <4>1. ByteAt(sp, q) = f + (n + 1 - j)
        BY <4>7, <4>8, <4>9
      <4>2. bytes[j] = rec[f + (n + 1 - j)]
        BY <1>4, <3>2
      <4> QED
        BY <4>1, <4>2
    <3> QED
      BY <3>1, <3>2
  <2> QED
    BY <2>3, <2>4
<1>8. PICK p : p = SubSeq(rec, sp.byte + 1, Len(rec))
  OBVIOUS
<1>9. Get(p, sp) = (x \div Pow2(h)) % Pow2(c)
  <2>1. CASE ~Direct(sp)
    <3>1. Get(p, sp) = BitField(p, sp)
      BY <2>1 DEF Get
    <3>2. Word(InOrder(SubSeq(p, 1, FieldBytes(sp)), sp.bigE)) = x
      BY <1>1, <1>3, <1>5, <1>6, <1>8
    <3>3. BitField(p, sp) = (x \div Pow2(sp.bit)) % Pow2(sp.count)
      BY <3>2, Zenon DEF BitField
    <3> QED
      BY <1>1, <3>1, <3>3
  <2>2. CASE Direct(sp)
    <3>1. h = 0 /\ c \div 8 = n /\ 8 * n = c
      BY <1>1, <2>2 DEF Direct
    <3>2. Get(p, sp) = Word(InOrder(SubSeq(p, 1, sp.count \div 8), sp.bigE))
      BY <2>2, Zenon DEF Get
    <3>3. Get(p, sp) = x
      BY <1>1, <1>3, <1>5, <1>6, <1>8, <3>1, <3>2
    <3>4. PICK w \in Nat \ {0} : w = Pow2(c) /\ x < w
      <4>1. Pow2(c) \in Nat /\ Pow2(c) > 0
        BY Pow2Facts
      <4>2. x < Pow2(c)
        BY <1>6, <3>1
      <4> QED
        BY <4>1, <4>2
    <3>5. x % w = x
      <4>1. x \in 0..(w - 1) /\ 0 * w + x = x
        BY <3>4
      <4>2. (0 * w + x) % w = x
        BY <4>1, DivMod
      <4> QED
        BY <4>1, <4>2
    <3>6. Pow2(h) = 1 /\ x \div 1 = x
      BY <3>1, Pow2Facts
    <3> QED
      BY <3>3, <3>4, <3>5, <3>6
  <2> QED
    BY <2>1, <2>2
<1>10. CutFrom(x, rec, sp)
  BY <1>1, <1>7, <1>8, <1>9 DEF CutFrom
<1> QED
  BY <1>10

(* The number whose lowest n bits are those of x, the top one negative if  *)
(* it is signed.                                                           *)
NumberOf(x, n, signed) ==
    IF signed /\ n > 0
    THEN (x % Pow2(n - 1)) - ((x \div Pow2(n - 1)) % 2) * Pow2(n - 1)
    ELSE x % Pow2(n)

(* x has, from bit 0 on, the bits the recorder stored.                     *)
StoredBits(x, sp, byte, k) ==
    \A q \in 0..(sp.count - 1) : TrueBit(sp, byte, k, sp.bit + q) = (x \div Pow2(q)) % 2

LEMMA SumIs ==
    ASSUME NEW sp \in AnySpec, NEW byte, NEW k, NEW x \in Nat, StoredBits(x, sp, byte, k)
    PROVE  TrueValue(sp, byte, k) = NumberOf(x, sp.count, sp.signed)
<1>1. PICK n \in Nat, h \in Nat, sgn \in BOOLEAN : n = sp.count /\ h = sp.bit /\ sgn = sp.signed
  BY DEF AnySpec
<1> DEFINE weight(q) == IF sp.signed /\ q = sp.count - 1 THEN -Pow2(q) ELSE Pow2(q)
           c == [m \in 0..n |-> NumberOf(x, m, sgn /\ m = n)]
<1>2. c[0] = 0
  <2>1. ~(0 > 0) /\ 0 \in 0..n
    OBVIOUS
  <2>2. NumberOf(x, 0, sgn /\ 0 = n) = x % Pow2(0)
    BY <2>1 DEF NumberOf
  <2> QED
    BY <2>1, <2>2, LowBits
<1>3. ASSUME NEW m \in 1..n
      PROVE  c[m] = c[m - 1] + TrueBit(sp, byte, k, sp.bit + m - 1) * weight(m - 1)
  <2>1. PICK l \in Nat : l = m - 1 /\ m = l + 1 /\ l \in 0..(n - 1) /\ m \in 0..n /\ l \in 0..n
    OBVIOUS
  <2>2. PICK r \in Nat, w \in Nat, b \in {0, 1} :
          /\ r = x % Pow2(l) /\ w = Pow2(l) /\ b = (x \div Pow2(l)) % 2
          /\ x % Pow2(l + 1) = r + b * w
    <3>1. /\ x % Pow2(l) \in Nat /\ (x \div Pow2(l)) % 2 \in {0, 1} /\ Pow2(l) \in Nat
          /\ x % Pow2(l + 1) = (x % Pow2(l)) + ((x \div Pow2(l)) % 2) * Pow2(l)
      BY LowBits, Pow2Facts
    <3> QED
      BY <3>1
  <2>3. TrueBit(sp, byte, k, sp.bit + m - 1) = b
    <3>1. sp.bit + m - 1 = sp.bit + l
      BY <1>1, <2>1
    <3>2. TrueBit(sp, byte, k, sp.bit + l) = (x \div Pow2(l)) % 2
      BY <1>1, <2>1 DEF StoredBits
    <3> QED
      BY <2>2, <3>1, <3>2
  <2>4. c[l] = r
    <3>1. l # n
      BY <2>1
    <3>2. c[l] = NumberOf(x, l, sgn /\ l = n)
      BY <2>1
    <3> QED
      BY <2>2, <3>1, <3>2 DEF NumberOf
  <2>5. CASE sgn /\ m = n
    <3>1. c[m] = (x % Pow2(m - 1)) - ((x \div Pow2(m - 1)) % 2) * Pow2(m - 1)
      <4>1. c[m] = NumberOf(x, m, sgn /\ m = n)
        BY <2>1
      <4>2. m > 0
        BY <2>1
      <4> QED
        BY <2>5, <4>1, <4>2, Zenon DEF NumberOf
    <3>2. c[m] = r - b * w
      BY <2>1, <2>2, <3>1
    <3>3. weight(m - 1) = -w
      BY <1>1, <2>1, <2>2, <2>5
    <3>4. r - b * w = r + b * (-w)
      <4>1. CASE b = 0
        BY <4>1
      <4>2. CASE b = 1
        BY <4>2
      <4> QED
        BY <4>1, <4>2
    <3> HIDE DEF c, weight
    <3> QED
      BY <2>1, <2>3, <2>4, <3>2, <3>3, <3>4
  <2>6. CASE ~(sgn /\ m = n)
    <3>1. c[m] = r + b * w
      <4>1. c[m] = NumberOf(x, m, sgn /\ m = n)
        BY <2>1
      <4>2. c[m] = x % Pow2(m)
        BY <2>6, <4>1, Zenon DEF NumberOf
      <4> QED
        BY <2>1, <2>2, <4>2
    <3>2. weight(m - 1) = w
      BY <1>1, <2>1, <2>2, <2>6
    <3> HIDE DEF c, weight
    <3> QED
      BY <2>1, <2>3, <2>4, <3>1, <3>2
  <2> QED
    BY <2>5, <2>6
<1>4. c[n] = NumberOf(x, n, sgn)
  <2>1. c[n] = NumberOf(x, n, sgn /\ n = n)
    OBVIOUS
  <2> QED
    BY <2>1, Zenon DEF NumberOf
<1>9. c = [m \in 0..n |-> c[m]]
  OBVIOUS
<1> HIDE DEF c
<1> DEFINE Part(g, m) == IF m = 0 THEN 0
                         ELSE g[m - 1] + TrueBit(sp, byte, k, sp.bit + m - 1) * weight(m - 1)
           Eq(g) == g = [m \in 0..n |-> Part(g, m)]
           F == CHOOSE g : Eq(g)
<1>10. Eq(c)
  <2>1. ASSUME NEW m \in 0..n PROVE c[m] = Part(c, m)
    <3> HIDE DEF weight
    <3>1. CASE m = 0
      BY <1>2, <3>1, Zenon
    <3>2. CASE m # 0
      <4>1. m \in 1..n
        BY <3>2
      <4>2. c[m] = c[m - 1] + TrueBit(sp, byte, k, sp.bit + m - 1) * weight(m - 1)
        BY <1>3, <4>1 DEF weight
      <4> QED
        BY <3>2, <4>2, Zenon
    <3> QED
      BY <3>1, <3>2
  <2> HIDE DEF Part
  <2> QED
    BY <1>9, <2>1, Zenon
<1>11. Eq(F)
  <2> HIDE DEF Eq
  <2> QED
    BY <1>10, Zenon
<1>12. TrueValue(sp, byte, k) = F[n]
  <2>1. TrueValue(sp, byte, k) = (CHOOSE g : g = [m \in 0..sp.count |->
            IF m = 0 THEN 0
            ELSE g[m - 1] + TrueBit(sp, byte, k, sp.bit + m - 1) *
                 (IF sp.signed /\ m - 1 = sp.count - 1 THEN -Pow2(m - 1) ELSE Pow2(m - 1))])[sp.count]
    BY Zenon DEF TrueValue
  <2> QED
    BY <1>1, <2>1
<1> HIDE DEF F, weight
<1>13. \A m \in 0..n : F[m] = Part(F, m)
  <2> HIDE DEF Part
  <2> QED
    BY <1>11
<1>14. F[0] = 0
  <2>1. 0 \in 0..n
    OBVIOUS
  <2> QED
    BY <1>13, <2>1, Zenon
<1>15. ASSUME NEW m \in 1..n
       PROVE  F[m] = F[m - 1] + TrueBit(sp, byte, k, sp.bit + m - 1) * weight(m - 1)
  <2>1. m \in 0..n /\ m # 0
    OBVIOUS
  <2> QED
    BY <1>13, <2>1, Zenon
<1> HIDE DEF Part
<1>16. \A m \in 0..n : F[m] = c[m]
  <2> DEFINE P == {m \in 0..n : F[m] = c[m]}
  <2>1. 0 \in P
    BY <1>2, <1>14
  <2>2. ASSUME NEW m \in 1..n, m - 1 \in P PROVE m \in P
    <3>1. F[m - 1] = c[m - 1] /\ m \in 0..n
      BY <2>2
    <3>2. F[m] = F[m - 1] + TrueBit(sp, byte, k, sp.bit + m - 1) * weight(m - 1)
      BY <1>15
    <3>3. c[m] = c[m - 1] + TrueBit(sp, byte, k, sp.bit + m - 1) * weight(m - 1)
      BY <1>3 DEF weight
    <3> QED
      BY <3>1, <3>2, <3>3
  <2> HIDE DEF P
  <2>3. \A m \in 0..n : m \in P
    BY <2>1, <2>2, Climb
  <2> QED
    BY <2>3 DEF P
<1>17. n \in 0..n
  OBVIOUS
<1> QED
  BY <1>1, <1>4, <1>12, <1>16, <1>17

(* What Extract makes of the bits it cut out.                              *)
LEMMA SignedIs ==
    ASSUME NEW y \in Nat, NEW n \in Nat, n <= WordBits, NEW v, v = y % Pow2(n)
    PROVE  /\ v = NumberOf(y, n, FALSE)
           /\ SignExtend(v, n) = NumberOf(y, n, TRUE)
<1>1. v = NumberOf(y, n, FALSE)
  BY DEF NumberOf
<1>2. CASE n = 0
  <2>1. v = 0 /\ NumberOf(y, n, TRUE) = y % Pow2(0)
    BY <1>2, LowBits DEF NumberOf
  <2> QED
    BY <1>1, <1>2, <2>1 DEF SignExtend
<1>3. CASE n # 0
  <2>1. PICK l \in Nat : n = l + 1 /\ l = n - 1 /\ n > 0
    BY <1>3
  <2>2. PICK r \in Nat, w \in Nat, b \in {0, 1} :
          /\ r = y % Pow2(l) /\ w = Pow2(l) /\ b = (y \div Pow2(l)) % 2
          /\ v = r + b * w /\ r < w /\ w > 0
    <3>1. /\ y % Pow2(l) \in Nat /\ (y \div Pow2(l)) % 2 \in {0, 1} /\ Pow2(l) \in Nat
          /\ y % Pow2(l + 1) = (y % Pow2(l)) + ((y \div Pow2(l)) % 2) * Pow2(l)
          /\ y % Pow2(l) < Pow2(l) /\ Pow2(l) > 0
      BY LowBits, Pow2Facts
    <3> QED
      BY <2>1, <3>1
  <2>3. PICK u \in Nat \ {0} : u = Pow2(n) /\ u = 2 * w
    BY <2>1, <2>2, Pow2Facts
  <2>40. (b = 1 => b * w = w) /\ (b = 0 => b * w = 0)
    <3>1. 1 * w = w /\ 0 * w = 0
      OBVIOUS
    <3> QED
      BY <3>1
  <2>4. v \in 0..(u - 1) /\ (v >= w <=> b = 1) /\ (b = 1 => v = r + w) /\ (b = 0 => v = r)
    <3>1. CASE b = 1
      <4>1. v = r + w
        BY <2>2, <2>40, <3>1
      <4> QED
        BY <2>2, <2>3, <3>1, <4>1
    <3>2. CASE b = 0
      <4>1. v = r
        BY <2>2, <2>40, <3>2
      <4>2. v < w /\ w < u /\ v >= 0 /\ v \in Int
        BY <2>2, <2>3, <4>1
      <4>3. v \in 0..(u - 1) /\ ~(v >= w)
        BY <4>2
      <4>4. ~(b = 1)
        BY <3>2
      <4> QED
        BY <4>1, <4>3, <4>4
    <3> QED
      BY <2>2, <3>1, <3>2
  <2>5. v % u = v
    <3>1. 0 * u + v = v
      BY <2>4
    <3>2. (0 * u + v) % u = v
      BY <2>4, DivMod
    <3> QED
      BY <3>1, <3>2
  <2>6. SignExtend(v, n) = IF v >= w THEN v - u ELSE v
    <3>1. ~(n = 0 \/ n > WordBits)
      BY <1>3, WordAssumption
    <3>2. SignExtend(v, n) = IF v % Pow2(n) >= Pow2(n - 1) THEN (v % Pow2(n)) - Pow2(n) ELSE v % Pow2(n)
      BY <3>1, Zenon DEF SignExtend
    <3> QED
      BY <2>1, <2>2, <2>3, <2>5, <3>2
  <2>7. NumberOf(y, n, TRUE) = r - b * w
    <3>1. NumberOf(y, n, TRUE) = (y % Pow2(n - 1)) - ((y \div Pow2(n - 1)) % 2) * Pow2(n - 1)
      BY <2>1, Zenon DEF NumberOf
    <3> QED
      BY <2>1, <2>2, <3>1
  <2>8. CASE b = 1
    <3>1. SignExtend(v, n) = v - u /\ v = r + w
      BY <2>4, <2>6, <2>8
    <3>2. NumberOf(y, n, TRUE) = r - w
      BY <2>7, <2>8, <2>40
    <3>3. v - u = r - w
      BY <2>3, <3>1
    <3> QED
      BY <1>1, <3>1, <3>2, <3>3
  <2>9. CASE b = 0
    <3>1. SignExtend(v, n) = r
      BY <2>4, <2>6, <2>9
    <3>2. NumberOf(y, n, TRUE) = r
      <4>1. b * w = 0 /\ r - 0 = r
        BY <2>9, <2>40
      <4> QED
        BY <2>7, <4>1
    <3> QED
      BY <1>1, <3>1, <3>2
  <2> QED
    BY <1>1, <2>8, <2>9
<1> QED
  BY <1>2, <1>3

(* A record that was read whole is the one the recorder stored.            *)
RecordOf(rec, k) ==
    /\ rec \in Seq(0..255) /\ Len(rec) = RecSize
    /\ \A b \in 1..RecSize : rec[b] = RecByte(k, b)

LEMMA WholeRecord ==
    ASSUME chain \in Seq(AnyList), data \in Seq(SegSet), DataInv,
           NEW from \in Nat, NEW count \in Nat, ReadAtOK(data, RecSize, from, count),
           NEW s \in 1..count, NEW k \in 0..2 * MaxSamples, k = from + s - 1,
           NEW rec, rec = Entry(data, RecSize, k)
    PROVE  RecordOf(rec, k)
<1>1. RecSize \in Nat \ {0} /\ k \in Nat /\ MaxSamples \in Nat
  BY SizeAssumption
<1>2. ASSUME NEW b \in 1..RecSize PROVE rec[b] = RecByte(k, b) /\ rec[b] \in 0..255
  <2>1. k * RecSize + b - 1 \in Nat /\ Holds(data, k * RecSize + b - 1)
    BY <1>1, ReadsEntry
  <2>2. Entry(data, RecSize, k)[b] = RecByte(k, b)
    BY <1>1, <2>1, RecordRead
  <2>3. RecByte(k, b) \in 0..255
    BY ByteAssumption
  <2> QED
    BY <2>2, <2>3
<1>3. PICK n \in Nat : n = RecSize
  BY <1>1
<1> DEFINE byte(b) ==
             LET off  == k * RecSize + b - 1
                 seg  == data[OwnerOf(data, off)]
                 at   == off - seg.logical
                 from0 == seg.from + at \div RecSize
             IN CASE seg.kind = "zero" -> 0
                  [] seg.kind = "DV"   -> RecByte(from0, (at % RecSize) + 1)
                  [] seg.kind = "DI"   -> InvByte(from0, (at % RecSize) + 1)
<1>4. rec = [b \in 1..RecSize |-> byte(b)]
  BY Zenon DEF Entry
<1> HIDE DEF byte
<1>5. rec = [b \in 1..n |-> rec[b]]
  BY <1>3, <1>4
<1>6. PICK B : B = 0..255
  OBVIOUS
<1>7. \A b \in 1..n : rec[b] \in B
  BY <1>2, <1>3, <1>6
<1>8. rec \in Seq(B) /\ Len(rec) = n
  BY <1>5, <1>7, AsSeq
<1> QED
  BY <1>2, <1>3, <1>6, <1>8 DEF RecordOf

(* Only the place of the field is another one.                             *)
SameField(sp, as) ==
    /\ sp.bit = as.bit /\ sp.count = as.count
    /\ sp.bigE = as.bigE /\ sp.signed = as.signed

(* One value of a column.                                                  *)
LEMMA ValueIs ==
    ASSUME NEW k, NEW rec, RecordOf(rec, k), NEW sp \in AnySpec,
           FieldFits(sp, RecSize), sp.bit + sp.count <= WordBits,
           NEW as \in AnySpec, SameField(sp, as)
    PROVE  ValueOf(rec, sp) = TrueValue(as, sp.byte, k)
<1>1. PICK R \in Nat : R = RecSize
  BY SizeAssumption
<1>2. PICK n \in Nat, h \in Nat, f \in Nat : n = sp.count /\ h = sp.bit /\ f = sp.byte
  BY DEF AnySpec
<1>3. rec \in Seq(0..255) /\ Len(rec) = R
  BY <1>1 DEF RecordOf
<1>4. FieldFits(sp, R)
  BY <1>1
<1>5. PICK x \in Nat : CutFrom(x, rec, sp)
  BY <1>3, <1>4, FieldIs
<1>6. PICK y \in Nat : y = x \div Pow2(h)
  <2>1. x \div Pow2(h) \in Nat
    BY LowBits
  <2> QED
    BY <2>1
<1>7. StoredBits(y, sp, f, k)
  <2>1. SUFFICES ASSUME NEW q \in 0..(n - 1)
                 PROVE  TrueBit(sp, f, k, h + q) = (y \div Pow2(q)) % 2
    BY <1>2 DEF StoredBits
  <2>2. PICK z \in Nat : z = h + q /\ z \in 0..(h + n - 1)
    OBVIOUS
  <2>3. PICK b : b = ByteAt(sp, z) /\ b \in 1..R
    <3>1. PICK d \in Nat : d = z \div 8 /\ 8 * d <= z
      BY <2>2
    <3>2. PICK m \in Nat : m = FieldBytes(sp) /\ f + m <= R /\ 8 * m >= h + n
      BY <1>2, <1>4 DEF FieldFits, FieldBytes
    <3>3. d < m
      BY <2>2, <3>1, <3>2
    <3>4. ByteAt(sp, z) = IF sp.bigE THEN f + m - d ELSE f + d + 1
      BY <1>2, <3>1, <3>2 DEF ByteAt
    <3>5. f + m - d \in 1..R /\ f + d + 1 \in 1..R
      BY <3>2, <3>3
    <3> QED
      BY <3>4, <3>5
  <2>4. rec[b] = RecByte(k, b)
    BY <1>1, <2>3 DEF RecordOf
  <2>5. (x \div Pow2(z)) % 2 = (rec[b] \div Pow2(z % 8)) % 2
    BY <1>2, <1>5, <2>2, <2>3 DEF CutFrom
  <2>6. TrueBit(sp, f, k, z) = (RecByte(k, b) \div Pow2(z % 8)) % 2
    BY <1>2, <2>3 DEF TrueBit, ByteAt
  <2>7. y \div Pow2(q) = x \div Pow2(z)
    <3>1. PICK w \in Nat \ {0}, e \in Nat \ {0} : w = Pow2(h) /\ e = Pow2(q)
      <4>1. q \in Nat
        OBVIOUS
      <4> QED
        BY <4>1, Pow2Facts
    <3>2. Pow2(z) = e * w
      <4>1. q \in Nat /\ z = q + h
        BY <2>2
      <4> QED
        BY <3>1, <4>1, Pow2Sum
    <3>3. Splits(x, e, w)
      BY <3>1, DivDiv
    <3>4. x \div (e * w) = (x \div w) \div e
      BY <3>3, Zenon DEF Splits
    <3> QED
      BY <1>6, <3>1, <3>2, <3>4
  <2> QED
    BY <2>2, <2>4, <2>5, <2>6, <2>7
<1>70. StoredBits(y, as, f, k)
  <2>1. FieldBytes(sp) = FieldBytes(as) /\ sp.bigE = as.bigE /\ sp.count = as.count /\ sp.bit = as.bit
    BY Zenon DEF FieldBytes, SameField
  <2>2. ASSUME NEW q PROVE TrueBit(sp, f, k, q) = TrueBit(as, f, k, q)
    BY <2>1, Zenon DEF TrueBit
  <2>3. \A q \in 0..(as.count - 1) : TrueBit(as, f, k, as.bit + q) = (y \div Pow2(q)) % 2
    <3>1. SUFFICES ASSUME NEW q \in 0..(as.count - 1)
                   PROVE  TrueBit(as, f, k, as.bit + q) = (y \div Pow2(q)) % 2
      OBVIOUS
    <3>2. TrueBit(sp, f, k, sp.bit + q) = (y \div Pow2(q)) % 2
      BY <1>7, <2>1 DEF StoredBits
    <3> QED
      BY <2>1, <2>2, <3>2, Zenon
  <2> QED
    BY <2>3 DEF StoredBits
<1>8. TrueValue(as, f, k) = NumberOf(y, n, sp.signed)
  <2>1. TrueValue(as, f, k) = NumberOf(y, as.count, as.signed)
    BY <1>70, SumIs
  <2> QED
    BY <1>2, <2>1 DEF SameField
<1>9. PICK v : v = Get(SubSeq(rec, sp.byte + 1, Len(rec)), sp) /\ v = y % Pow2(n)
  BY <1>2, <1>5, <1>6 DEF CutFrom
<1>10. ValueOf(rec, sp) = IF sp.signed THEN SignExtend(v, n) ELSE v
  BY <1>2, <1>9, Zenon DEF ValueOf
<1>11. n <= WordBits
  BY <1>2, WordAssumption
<1>12. v = NumberOf(y, n, FALSE) /\ SignExtend(v, n) = NumberOf(y, n, TRUE)
  BY <1>9, <1>11, SignedIs
<1>13. sp.signed \in BOOLEAN
  BY DEF AnySpec
<1> QED
  BY <1>2, <1>8, <1>10, <1>12, <1>13

LEMMA ValuesRight == ColumnInv => SamplesReadBack
<1> SUFFICES ASSUME ColumnInv, col.done, col.ok, col.c.spec.bit + col.c.spec.count <= WordBits,
                    NEW s \in 1..col.count
             PROVE  col.vals[s] = TrueValue(col.c.spec,
                                    col.c.spec.byte + (col.e - 1) * Cell(col.c, "byte"),
                                    col.from + s - 1)
  BY DEF SamplesReadBack
<1>1. /\ chain \in Files /\ chain \in Seq(AnyList)
      /\ data \in Seq(SegSet) /\ DataInv
  BY ColumnIs
<1>2. PICK c \in Channels : \E e \in DOMAIN Elements(c) :
        \E from, count \in 0..MaxSamples : col = Column(c, e, from, count)
  BY ColumnIs
<1>3. PICK e \in DOMAIN Elements(c), from \in 0..MaxSamples, count \in 0..MaxSamples :
        col = Column(c, e, from, count)
  BY <1>2
<1>4. PICK sp : sp = Elements(c)[e]
  OBVIOUS
<1>5. /\ col.c = c /\ col.e = e /\ col.from = from /\ col.count = count
      /\ ~ReadFails(sp, from, count)
  BY <1>3, <1>4 DEF Column
<1>6. col.vals = [t \in 1..count |-> ValueOf(Entry(data, RecSize, from + t - 1), sp)]
  BY <1>3, <1>4, <1>5 DEF Column
<1>7. PICK k \in 0..2 * MaxSamples : k = from + s - 1
  BY <1>5, SizeAssumption
<1>8. PICK rec : rec = Entry(data, RecSize, k) /\ col.vals[s] = ValueOf(rec, sp)
  BY <1>5, <1>6, <1>7
<1>9. PICK m \in Nat : m = (e - 1) * Cell(c, "byte")
  <2>1. e \in Nat /\ e >= 1 /\ Cell(c, "byte") \in Nat
    BY ElementIs
  <2>2. e - 1 \in Nat
    BY <2>1
  <2> QED
    BY <2>1, <2>2, ProductFacts
<1>10. c.spec \in AnySpec
  BY ElementIs DEF AnySpec
<1>11. PICK inv \in Int : sp = [c.spec EXCEPT !.byte = c.spec.byte + m, !.inval = inv]
  <2>1. PICK inv : inv = IF c.spec.inval < 0 THEN c.spec.inval
                         ELSE c.spec.inval + (e - 1) * Cell(c, "inv")
    OBVIOUS
  <2>2. inv \in Int
    <3>1. PICK j \in Nat : j = (e - 1) * Cell(c, "inv")
      <4>1. e \in Nat /\ e >= 1 /\ Cell(c, "inv") \in Nat
        BY ElementIs
      <4>2. e - 1 \in Nat
        BY <4>1
      <4> QED
        BY <4>1, <4>2, ProductFacts
    <3>2. c.spec.inval \in Int
      BY <1>10 DEF AnySpec
    <3> QED
      BY <2>1, <3>1, <3>2
  <2>3. sp = [c.spec EXCEPT !.byte = c.spec.byte + (e - 1) * Cell(c, "byte"), !.inval = inv]
    BY <1>4, <2>1, ElementIs
  <2> QED
    BY <1>9, <2>2, <2>3
<1>12. sp \in AnySpec /\ sp.byte = c.spec.byte + m /\ SameField(sp, c.spec)
  <2>1. PICK f \in Nat : f = c.spec.byte + m
    <3>1. c.spec.byte \in Nat
      BY <1>10 DEF AnySpec
    <3> QED
      BY <3>1
  <2>2. PICK o \in AnySpec : o = c.spec /\ sp = [o EXCEPT !.byte = f, !.inval = inv]
    BY <1>10, <1>11, <2>1
  <2>3. sp \in AnySpec /\ sp.byte = f
    BY <2>2 DEF AnySpec
  <2>4. sp.bit = o.bit /\ sp.count = o.count /\ sp.bigE = o.bigE /\ sp.signed = o.signed
    BY <2>2 DEF AnySpec
  <2> QED
    BY <2>1, <2>2, <2>3, <2>4 DEF SameField
<1>13. FieldFits(sp, RecSize) /\ ReadAtOK(data, RecSize, from, count)
  <2>1. from \in Nat /\ count \in Nat /\ count > 0
    BY <1>5, SizeAssumption
  <2> QED
    BY <1>5, <2>1 DEF ReadFails
<1>14. RecordOf(rec, k)
  <2>1. from \in Nat /\ count \in Nat /\ s \in 1..count
    BY <1>5, SizeAssumption
  <2> QED
    BY <1>1, <1>7, <1>8, <1>13, <2>1, WholeRecord
<1>15. ValueOf(rec, sp) = TrueValue(c.spec, sp.byte, k)
  <2>1. sp.bit + sp.count <= WordBits
    BY <1>5, <1>12 DEF SameField
  <2> QED
    BY <1>10, <1>12, <1>13, <1>14, <2>1, ValueIs
<1> QED
  BY <1>5, <1>7, <1>8, <1>9, <1>12, <1>15

-----------------------------------------------------------------------------

(* Column storage (NewColumnStorage, extractColumn): the values of a column*)
(* that was read are the numbers the recorder stored, sample by sample, for*)
(* every file, channel and range.                                          *)
THEOREM SamplesAreRight == Spec => []SamplesReadBack
BY ColumnStorageInv, ValuesRight, PTL

(* readSeparateInvalid: a sample is flagged exactly if the recorder flagged*)
(* it, although omitted blocks and uneven lists separate the two streams.  *)
THEOREM FlagsReadBack == Spec => []InvalidReadBack
BY ColumnStorageInv, FlagsRight, PTL

(* NewColumnStorage and ReadAt, whatever lists, blocks, omitted blocks and *)
(* strides the file has: a range can be read exactly if the field lies in  *)
(* the record, every sample is in some block, and no flag that is asked for*)
(* is in a gap of the reader (FlagGap), where the code fails although      *)
(* ld.go:16-18 has these samples valid.                                    *)
THEOREM ReadableExactly == Spec => []ReadsSucceed
BY ColumnStorageInv, SuccessIs, PTL
=============================================================================
