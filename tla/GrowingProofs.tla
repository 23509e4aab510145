--------------------------- MODULE GrowingProofs ---------------------------
(***************************************************************************)
(* Proofs about the growing layout: one group of records without strings,  *)
(* not compressed, of any record size, behind a buffer and an alignment of *)
(* any size, with any number of records and of failures.  First the state  *)
(* of the writer, its file and its disk; then, from that, which records    *)
(* this library's reader finds in the file at every moment, and that the   *)
(* layout implements the abstract log.                                     *)
(***************************************************************************)
EXTENDS WriterProofs

-----------------------------------------------------------------------------
(* One group of records without strings, not compressed.                   *)
Plain == Growing /\ NStr[1] = 0

R == RecSize[1]

(* Where begin puts the header of the growing block: the identification,   *)
(* the header and the group block, the padding, then the block.            *)
GA == 4 + ((-3) % Align)

(* The cells a file of this layout may hold at address i ...               *)
CellOK(c, i) ==
    /\ i = 1 => DOMAIN c = {"t", "unfin"} /\ c.t = "ID" /\ c.unfin \in {{0, 2}, {}}
    /\ i = 2 => DOMAIN c = {"t", "first"} /\ c.t = "HD" /\ c.first \in {0, 3}
    /\ i = 3 => /\ DOMAIN c = {"t", "next", "data", "cycles", "rec", "cns"}
                /\ c.t = "DG" /\ c.next = 0 /\ c.data \in {0, GA}
                /\ c.cycles \in Nat /\ c.rec = R /\ c.cns = <<>>
    /\ i \in 4..(GA - 1) => c = PadCell
    /\ i = GA => DOMAIN c = {"t", "len"} /\ c.t = "DT" /\ c.len \in Nat
    /\ i > GA => c = Byte(<<1, 0>>, i - GA, 0)

(* ... and those it holds before finalize patches it.                      *)
FreshCell(c, i) ==
    /\ CellOK(c, i)
    /\ i = 1 => c.unfin = {0, 2}
    /\ i = 3 => c.cycles = 0
    /\ i = GA => c.len = 0

(* The in-place writes of begin and of finalize.                           *)
P1 == Patch(2, "first", 3)
P2 == Patch(3, "data", GA)
P3 == Patch(growAddr, "len", growBytes)
P4 == Patch(3, "cycles", count[1])
Applied(p) == Cell(Sink, p.at)[p.fld] = p.val
TreeWaits == patches = <<P1, P2>> \/ patches = <<P1, P2, P3, P4>>
AllApplied == Applied(P1) /\ Applied(P2) /\ Applied(P3) /\ Applied(P4)

Writing == started /\ ~err /\ pc # "crashed"

(* How much has been written, and how much of it was acknowledged.         *)
SizeInv ==
    /\ count \in [Groups -> Nat] /\ acked \in [Groups -> Nat] /\ flushed \in [Groups -> Nat]
    /\ growBytes = count[1] * R
    /\ flushed[1] <= count[1] /\ (~err => acked = count)
    /\ ~started => count[1] = 0 /\ patches = <<>> /\ li = 1
    /\ Off(Sink) <= GA + growBytes
    /\ Writing => Off(Sink) = GA + growBytes /\ growAddr = GA

(* What the cells are.                                                     *)
ShapeInv ==
    /\ \A i \in 1..Off(Sink) : CellOK(Cell(Sink, i), i)
    /\ li = 1 \/ pc = "patch" => \A i \in 1..Off(Sink) : FreshCell(Cell(Sink, i), i)
    /\ pc # "crashed" /\ Off(Sink) >= 3 /\ Cell(Sink, 3).data = GA => Len(file) >= GA
    /\ pc # "crashed" /\ Off(Sink) >= GA /\ Cell(Sink, GA).len # 0 =>
          Len(file) = GA + growBytes /\ Len(buf) = 0 /\ Cell(Sink, GA).len = growBytes

(* What the last fsync made stable.                                        *)
DiskInv ==
    /\ \A i \in 1..Len(disk) : CellOK(disk[i], i)
    /\ pc \notin {"done", "crashed"} => \A i \in 1..Len(disk) : FreshCell(disk[i], i)
    /\ Len(disk) <= Len(file)
    /\ flushed[1] > 0 => Len(disk) >= GA + flushed[1] * R
    /\ Len(disk) >= 2 /\ disk[2].first = 3 => Cell(Sink, 2).first = 3
    /\ Len(disk) >= 3 /\ disk[3].data = GA => Cell(Sink, 3).data = GA
    /\ pc # "crashed" /\ Len(disk) >= 3 /\ disk[3].data = GA => Len(disk) >= GA
    /\ ~started => Len(disk) = 0

(* Which in-place writes are pending and which are done.                   *)
PatchInv ==
    /\ li \in {1, 2}
    /\ li = 1 => patches = <<>> \/ patches = <<P1, P2>>
    /\ li = 2 /\ pc \in {"patch", "apply"} =>
          patches = <<P3, P4>> \/ patches = <<P1, P2, P3, P4>>
    /\ pc = "apply" => /\ Len(buf) = 0 /\ pi <= Len(patches) + 1
                       /\ \A k \in 1..(pi - 1) : Applied(patches[k])
    /\ Writing => TreeWaits \/ (Applied(P1) /\ Applied(P2))
    /\ pc \in {"id", "sync"} => Len(buf) = 0 /\ AllApplied /\ li = 2
    /\ pc = "sync" \/ (pc = "done" /\ res = "ok") => Cell(Sink, 1).unfin = {}
    /\ pc = "done" /\ res = "ok" => disk = file
    /\ pc # "crashed" /\ Off(Sink) >= 1 /\ Cell(Sink, 1).unfin = {} =>
          pc \in {"sync", "done"} /\ Len(buf) = 0 /\ AllApplied /\ ~err

GInv == SizeInv /\ ShapeInv /\ DiskInv /\ PatchInv

-----------------------------------------------------------------------------
(* The constants of the layout.                                            *)

(* Flattening a list of one sequence.                                      *)
LEMMA FlattenOne ==
    ASSUME NEW a, NEW s, s = [i \in 1..1 |-> a]
    PROVE  FlattenSeq(s) = a
<1>1. Len(s) = 1 /\ DOMAIN s = 1..1 /\ s[1] = a
  OBVIOUS
<1> DEFINE Eq(f) == f = [i \in 1..Len(s) |-> IF i = 1 THEN s[i] ELSE f[i - 1] \o s[i]]
<1>2. Eq([i \in 1..1 |-> a])
  BY <1>1
<1>3. Eq(CHOOSE f : Eq(f))
  <2> HIDE DEF Eq
  <2> QED
    BY <1>2, Zenon
<1>4. (CHOOSE f : Eq(f))[1] = a
  BY <1>1, <1>3
<1>5. FlattenSeq(s) = (CHOOSE f : Eq(f))[Len(s)]
  <2>1. Len(s) # 0
    BY <1>1
  <2> HIDE <1>1
  <2> QED
    BY <2>1, Zenon DEF FlattenSeq
<1> QED
  BY <1>1, <1>4, <1>5

(* The group block is the third cell (begin).                              *)
LEMMA GroupAddress ==
    ASSUME Plain
    PROVE  DGAddr(1) = 3
<1> DEFINE Eq(f) == f = [s \in SUBSET (1..NG) |->
                            IF s = {} THEN 0
                            ELSE (NStr[CHOOSE x \in s : TRUE] + 1) + f[s \ {CHOOSE x \in s : TRUE}]]
           h == [s \in SUBSET (1..NG) |-> IF s = {} THEN 0 ELSE 1]
<1>0. 1..NG = {1} /\ NStr[1] = 0
  BY DEF Plain, Growing
<1>1. \A s \in SUBSET (1..NG) : s = {} \/ s = {1}
  BY <1>0
<1>2. (CHOOSE x \in {1} : TRUE) = 1
  OBVIOUS
<1>3. ASSUME NEW s \in SUBSET (1..NG)
      PROVE  h[s] = IF s = {} THEN 0
                    ELSE (NStr[CHOOSE x \in s : TRUE] + 1) + h[s \ {CHOOSE x \in s : TRUE}]
  <2>1. h[{}] = 0 /\ h[{1}] = 1
    BY <1>0
  <2>2. CASE s = {1}
    <3>1. s \ {CHOOSE x \in s : TRUE} = {}
      BY <1>2, <2>2
    <3>2. h[s] = 1 /\ h[s \ {CHOOSE x \in s : TRUE}] = 0
      BY <2>1, <2>2, <3>1
    <3>3. NStr[CHOOSE x \in s : TRUE] = 0
      BY <1>0, <1>2, <2>2
    <3> QED
      BY <2>2, <3>2, <3>3
  <2>3. CASE s = {}
    BY <2>1, <2>3
  <2> QED
    BY <1>1, <2>2, <2>3
<1>4. Eq(h)
  BY <1>3, Zenon
<1>5. Eq(CHOOSE f : Eq(f))
  <2> HIDE DEF Eq
  <2> QED
    BY <1>4, Zenon
<1>6. MapThenSumSet(LAMBDA x : NStr[x] + 1, 1..NG) = (CHOOSE f : Eq(f))[1..NG]
  BY Zenon DEF MapThenSumSet, MapThenFoldSet
<1> DEFINE c == CHOOSE f : Eq(f)
<1>7. c = [s \in SUBSET (1..NG) |->
              IF s = {} THEN 0
              ELSE (NStr[CHOOSE x \in s : TRUE] + 1) + c[s \ {CHOOSE x \in s : TRUE}]]
  BY <1>5
<1> HIDE DEF c
<1>8. c[{}] = 0
  BY <1>7
<1>9. c[1..NG] = (NStr[CHOOSE x \in 1..NG : TRUE] + 1) + c[(1..NG) \ {CHOOSE x \in 1..NG : TRUE}]
  BY <1>0, <1>7
<1>10. c[1..NG] = 1
  BY <1>0, <1>2, <1>8, <1>9
<1> DEFINE m == MapThenSumSet(LAMBDA x : NStr[x] + 1, 1..NG)
<1>11. m = 1
  BY <1>6, <1>10 DEF c
<1>12. DGAddr(1) = 2 + m
  BY Zenon DEF DGAddr
<1> HIDE DEF m
<1> QED
  BY <1>11, <1>12

(* The sizes and addresses of the layout.                                  *)
LEMMA PlainFacts ==
    ASSUME Plain
    PROVE  /\ NG = 1 /\ Groups = {1} /\ 1 \in Groups /\ R \in Nat /\ R >= 1
           /\ GA \in Nat /\ GA >= 4 /\ NStr[1] = 0
           /\ Len(LinkOrder) = 1 /\ LinkOrder[1] = <<1, 0>>
<1>1. NG = 1 /\ Groups = {1} /\ NStr[1] = 0 /\ 1 \in Groups
  BY DEF Plain, Growing, Groups
<1>2. R \in Nat /\ R >= 1
  BY <1>1, ConstantsAssumption DEF R
<1>3. GA \in Nat /\ GA >= 4
  <2>1. Align \in Nat \ {0}
    BY ConstantsAssumption
  <2>2. (-3) % Align \in Nat
    BY <2>1
  <2> DEFINE pad == (-3) % Align
  <2>3. GA = 4 + pad /\ pad \in Nat
    BY <2>2 DEF GA
  <2> HIDE DEF pad
  <2> QED
    BY <2>3
<1>4. LinkOrder = <<<<1, 0>>>>
  <2> DEFINE of(g) == [j \in 1..(NStr[g] + 1) |-> <<g, j - 1>>]
  <2>1. of(1) = <<<<1, 0>>>>
    BY <1>1
  <2>2. [g \in Groups |-> of(g)] = [i \in 1..1 |-> of(1)]
    BY <1>1
  <2>3. LinkOrder = FlattenSeq([g \in Groups |-> of(g)])
    BY Zenon DEF LinkOrder
  <2> HIDE DEF of
  <2> QED
    BY <2>1, <2>2, <2>3, FlattenOne
<1> QED
  BY <1>1, <1>2, <1>3, <1>4

(* The metadata is three blocks (begin).                                   *)
LEMMA PlainMetadata ==
    ASSUME Plain
    PROVE  /\ Len(Metadata) = 3 /\ Metadata[1] = IDCell({0, 2}) /\ Metadata[2] = HDCell
           /\ Metadata[3] = DGCell(0, R, <<>>)
<1> DEFINE dg == DGCell(0, R, <<>>)
           two == <<IDCell({0, 2}), HDCell>>
<1>1. NG = 1 /\ Groups = {1} /\ NStr[1] = 0
  BY PlainFacts
<1>2. GroupMeta(1) = <<dg>>
  <2>1. ChansOf(1) = {}
    BY <1>1 DEF ChansOf
  <2>2. \A f : f = [j \in {} |-> f[j]] => f = <<>>
    OBVIOUS
  <2>3. [j \in ChansOf(1) |-> CNCell] = <<>> /\ [j \in ChansOf(1) |-> CNAddr(1, j)] = <<>>
    BY <2>1
  <2>4. GroupMeta(1) = <<>> \o <<dg>>
    BY <1>1, <2>3, Zenon DEF GroupMeta, R, NIL
  <2> HIDE DEF dg
  <2>5. <<>> \o <<dg>> = <<dg>>
    <3>1. <<dg>> \in Seq({dg})
      OBVIOUS
    <3> QED
      BY <3>1, ConcatEmptySeq
  <2> QED
    BY <2>4, <2>5
<1>3. FlattenSeq([i \in Groups |-> GroupMeta(NG + 1 - i)]) = <<dg>>
  <2>1. [i \in Groups |-> GroupMeta(NG + 1 - i)] = [i \in 1..1 |-> GroupMeta(1)]
    BY <1>1
  <2> QED
    BY <1>2, <2>1, FlattenOne
<1>4. UnfinFlags = {0, 2}
  BY DEF UnfinFlags, Plain
<1> DEFINE one == <<dg>>
<1>5. Metadata = two \o one
  BY <1>3, <1>4, Zenon DEF Metadata
<1> HIDE DEF dg
<1>6. AnySeq(two) /\ Len(two) = 2 /\ two[1] = IDCell({0, 2}) /\ two[2] = HDCell
  BY PairFacts, SeqIsAnySeq
<1>7. AnySeq(one) /\ Len(one) = 1 /\ one[1] = dg
  BY OneFacts
<1> HIDE DEF two, one
<1>8. AnySeq(two) /\ AnySeq(one)
  BY <1>6, <1>7
<1>9. /\ Len(two \o one) = Len(two) + Len(one)
      /\ \A i \in 1..Len(two) : (two \o one)[i] = two[i]
      /\ \A i \in 1..Len(one) : (two \o one)[Len(two) + i] = one[i]
  BY <1>8, CatFacts
<1> QED
  BY <1>5, <1>6, <1>7, <1>9 DEF dg

-----------------------------------------------------------------------------
(* Facts the steps below share.                                            *)

(* Putting patches behind each other.                                      *)
LEMMA FourFacts ==
    ASSUME NEW a, NEW b, NEW c, NEW d
    PROVE  /\ <<>> \o <<a>> = <<a>>
           /\ <<a, b>> \o <<c>> \o <<d>> = <<a, b, c, d>>
<1> DEFINE S == {a, b, c, d}
           two == <<a, b>>
           one == <<c>>
           lst == <<d>>
           four == <<a, b, c, d>>
<1>1. /\ two \in Seq(S) /\ one \in Seq(S) /\ lst \in Seq(S) /\ four \in Seq(S)
      /\ Len(two) = 2 /\ Len(one) = 1 /\ Len(lst) = 1 /\ Len(four) = 4
      /\ two[1] = a /\ two[2] = b /\ one[1] = c /\ lst[1] = d
      /\ four[1] = a /\ four[2] = b /\ four[3] = c /\ four[4] = d
  OBVIOUS
<1>2. <<a>> \in Seq({a})
  OBVIOUS
<1>3. <<>> \o <<a>> = <<a>>
  BY <1>2, ConcatEmptySeq
<1> HIDE DEF two, one, lst, four, S
<1>4. AnySeq(two) /\ AnySeq(one) /\ AnySeq(lst)
  BY <1>1, SeqIsAnySeq
<1> DEFINE tri == two \o one
           all == tri \o lst
<1>5. /\ AnySeq(tri) /\ Len(tri) = Len(two) + Len(one)
      /\ \A i \in 1..Len(two) : tri[i] = two[i]
      /\ \A i \in 1..Len(one) : tri[Len(two) + i] = one[i]
  BY <1>4, CatFacts
<1> HIDE DEF tri
<1>6. /\ AnySeq(all) /\ Len(all) = Len(tri) + Len(lst)
      /\ \A i \in 1..Len(tri) : all[i] = tri[i]
      /\ \A i \in 1..Len(lst) : all[Len(tri) + i] = lst[i]
  <2>1. AnySeq(tri) /\ AnySeq(lst)
    BY <1>4, <1>5
  <2> QED
    BY <2>1, CatFacts
<1> HIDE DEF all
<1>7. Len(tri) = 3 /\ tri[1] = a /\ tri[2] = b /\ tri[3] = c
  BY <1>1, <1>5
<1>8. Len(all) = 4 /\ all[1] = a /\ all[2] = b /\ all[3] = c /\ all[4] = d
  BY <1>1, <1>6, <1>7
<1>9. \A i \in 1..4 : all[i] = four[i] /\ all[i] \in S
  BY <1>1, <1>8 DEF S
<1>10. all \in Seq(S)
  BY <1>6, <1>8, <1>9, AnySeqWiden
<1>11. all = four
  BY <1>1, <1>8, <1>9, <1>10, SeqEqual
<1> QED
  BY <1>3, <1>11 DEF all, tri, two, one, lst, four

(* Lengths are numbers.                                                    *)
LEMMA Lengths ==
    ASSUME NEW sk, IsSink(sk), NEW f, NEW b, FileOf(sk) = f, BufOf(sk) = b
    PROVE  /\ AnySeq(f) /\ AnySeq(b) /\ Len(f) \in Nat /\ Len(b) \in Nat
           /\ Off(sk) = Len(f) + Len(b) /\ Off(sk) \in Nat
           /\ \A i \in 1..Len(f) : Cell(sk, i) = f[i]
           /\ (Len(b) = 0 => b = <<>>)
<1>1. AnySeq(f) /\ AnySeq(b)
  BY DEF IsSink
<1>2. /\ Len(f) \in Nat /\ Len(b) \in Nat /\ Off(sk) = Len(f) + Len(b) /\ Off(sk) \in Nat
  BY SinkFacts
<1>3. \A i \in 1..Len(f) : Cell(sk, i) = f[i]
  BY <1>2 DEF Cell
<1>4. Len(b) = 0 => b = <<>>
  BY <1>1, AnySeqFacts
<1> QED
  BY <1>1, <1>2, <1>3, <1>4

(* The writer's own.                                                       *)
LEMMA NowFacts ==
    ASSUME WInv
    PROVE  /\ AnySeq(file) /\ AnySeq(buf) /\ AnySeq(disk) /\ AnySeq(patches)
           /\ Len(file) \in Nat /\ Len(buf) \in Nat /\ Len(disk) \in Nat /\ Len(patches) \in Nat
           /\ Off(Sink) = Len(file) + Len(buf) /\ Off(Sink) \in Nat
           /\ \A i \in 1..Len(file) : Cell(Sink, i) = file[i]
           /\ IsSink(Sink) /\ (Len(buf) = 0 => buf = <<>>)
<1>1. IsSink(Sink) /\ AnySeq(disk) /\ AnySeq(patches)
  BY DEF WInv, TypeInv
<1> QED
  BY <1>1, SinkNow, Lengths, AnySeqFacts

(* The same of the next state.                                             *)
LEMMA NextFacts ==
    ASSUME WInv'
    PROVE  /\ AnySeq(file') /\ AnySeq(buf') /\ AnySeq(disk') /\ AnySeq(patches')
           /\ Len(file') \in Nat /\ Len(buf') \in Nat /\ Len(disk') \in Nat /\ Len(patches') \in Nat
           /\ Off(Sink)' = Len(file') + Len(buf') /\ Off(Sink)' \in Nat
           /\ \A i \in 1..Len(file') : Cell(Sink, i)' = file'[i]
           /\ IsSink(Sink)' /\ (Len(buf') = 0 => buf' = <<>>)
<1>1. IsSink(Sink)' /\ AnySeq(disk') /\ AnySeq(patches')
  BY DEF WInv, TypeInv
<1>2. FileOf(Sink') = file' /\ BufOf(Sink') = buf' /\ IsSink(Sink')
  BY <1>1, SinkNow
<1> DEFINE sk == Sink'
<1>3. FileOf(sk) = file' /\ BufOf(sk) = buf' /\ IsSink(sk)
  BY <1>2
<1> HIDE DEF sk
<1>4. /\ AnySeq(file') /\ AnySeq(buf') /\ Len(file') \in Nat /\ Len(buf') \in Nat
      /\ Off(sk) = Len(file') + Len(buf') /\ Off(sk) \in Nat
      /\ \A i \in 1..Len(file') : Cell(sk, i) = file'[i]
      /\ (Len(buf') = 0 => buf' = <<>>)
  BY <1>3, Lengths
<1>5. Len(disk') \in Nat /\ Len(patches') \in Nat
  BY <1>1, AnySeqFacts
<1> QED
  BY <1>1, <1>4, <1>5 DEF sk

(* What it means for one of the four patches to be in place.               *)
LEMMA AppliedMeans ==
    /\ Applied(P1) <=> Cell(Sink, 2).first = 3
    /\ Applied(P2) <=> Cell(Sink, 3).data = GA
    /\ Applied(P3) <=> Cell(Sink, growAddr).len = growBytes
    /\ Applied(P4) <=> Cell(Sink, 3).cycles = count[1]
  BY DEF Applied, P1, P2, P3, P4, Patch

(* The lists of patches that occur, told apart by their length.            *)
LEMMA PatchLists ==
    /\ Len(<<P1, P2>>) = 2 /\ <<P1, P2>>[1] = P1 /\ <<P1, P2>>[2] = P2
    /\ Len(<<P3, P4>>) = 2 /\ <<P3, P4>>[1] = P3 /\ <<P3, P4>>[2] = P4
    /\ Len(<<P1, P2, P3, P4>>) = 4 /\ <<P1, P2, P3, P4>>[1] = P1
    /\ <<P1, P2, P3, P4>>[2] = P2 /\ <<P1, P2, P3, P4>>[3] = P3
    /\ <<P1, P2, P3, P4>>[4] = P4 /\ Len(<<>>) = 0
    /\ P1.fld = "first" /\ P3.fld = "len" /\ P1.fld # P3.fld
<1>1. P1.fld = "first" /\ P3.fld = "len" /\ P1.fld # P3.fld
  BY DEF P1, P3, Patch
<1>2. \A a, b, c, d : /\ Len(<<a, b>>) = 2 /\ <<a, b>>[1] = a /\ <<a, b>>[2] = b
                      /\ Len(<<a, b, c, d>>) = 4 /\ <<a, b, c, d>>[1] = a /\ <<a, b, c, d>>[2] = b
                      /\ <<a, b, c, d>>[3] = c /\ <<a, b, c, d>>[4] = d
  OBVIOUS
<1>3. Len(<<>>) = 0
  OBVIOUS
<1> QED
  BY <1>1, <1>2, <1>3, Zenon

(* Nothing but these four is ever patched.                                 *)
LEMMA PatchesAre ==
    ASSUME GInv, pc = "apply"
    PROVE  \A k \in 1..Len(patches) : patches[k] = P1 \/ patches[k] = P2 \/ patches[k] = P3 \/ patches[k] = P4
<1>1. patches = <<>> \/ patches = <<P1, P2>> \/ patches = <<P3, P4>> \/ patches = <<P1, P2, P3, P4>>
  BY DEF GInv, PatchInv
<1>2. \A k \in 1..2 : k = 1 \/ k = 2
  OBVIOUS
<1>3. \A k \in 1..4 : k = 1 \/ k = 2 \/ k = 3 \/ k = 4
  OBVIOUS
<1>4. \A k \in 1..0 : FALSE
  OBVIOUS
<1>5. CASE patches = <<>>
  BY <1>4, <1>5, PatchLists
<1>6. CASE patches = <<P1, P2>>
  BY <1>2, <1>6, PatchLists, Zenon
<1>7. CASE patches = <<P3, P4>>
  BY <1>2, <1>7, PatchLists, Zenon
<1>8. CASE patches = <<P1, P2, P3, P4>>
  BY <1>3, <1>8, PatchLists, Zenon
<1> QED
  BY <1>1, <1>5, <1>6, <1>7, <1>8

(* Counts are numbers.                                                     *)
LEMMA CountFacts ==
    ASSUME Plain, SizeInv
    PROVE  count[1] \in Nat /\ growBytes \in Nat /\ flushed[1] \in Nat /\ GA \in Nat /\ GA >= 4
<1>1. count[1] \in Nat /\ R \in Nat /\ flushed[1] \in Nat /\ GA \in Nat /\ GA >= 4
  BY PlainFacts DEF SizeInv
<1>2. growBytes = count[1] * R
  BY DEF SizeInv
<1>3. \A a, b \in Nat : a * b \in Nat
  OBVIOUS
<1> QED
  BY <1>1, <1>2, <1>3

(* A fresh file says that it is not finalized.                             *)
LEMMA FreshHead ==
    ASSUME NEW c, FreshCell(c, 1)
    PROVE  c.unfin # {}
<1>1. c.unfin = {0, 2} /\ 0 \in {0, 2}
  BY DEF FreshCell
<1> QED
  BY <1>1

-----------------------------------------------------------------------------
(* Every step keeps the invariant.                                         *)

(* Nothing is written at first.                                            *)
LEMMA GInvInit ==
    ASSUME Plain, Init
    PROVE  GInv
<1>1. WInv
  BY WInvInit
<1>2. Off(Sink) = 0 /\ Len(disk) = 0 /\ Len(file) = 0
  <2>1. Len(file) = 0 /\ Len(buf) = 0 /\ Len(disk) = 0
    BY OneFacts DEF Init
  <2> QED
    BY <1>1, <2>1, NowFacts
<1>3. SizeInv
  <2>1. /\ count \in [Groups -> Nat] /\ acked \in [Groups -> Nat] /\ flushed \in [Groups -> Nat]
        /\ count[1] = 0 /\ flushed[1] = 0 /\ acked = count /\ growBytes = 0 /\ patches = <<>>
        /\ started = FALSE /\ li = 1
    BY PlainFacts DEF Init
  <2>2. R \in Nat /\ GA \in Nat /\ 0 * R = 0
    BY PlainFacts
  <2> QED
    BY <1>2, <2>1, <2>2, PlainFacts DEF SizeInv, Writing
<1>4. pc = "idle" /\ li = 1 /\ started = FALSE /\ patches = <<>> /\ flushed[1] = 0
  BY PlainFacts DEF Init
<1>5. ShapeInv
  BY <1>2, <1>4, PlainFacts DEF ShapeInv
<1>6. DiskInv
  BY <1>2, <1>4 DEF DiskInv
<1>7. PatchInv
  BY <1>2, <1>4 DEF PatchInv, Writing
<1> QED
  BY <1>3, <1>5, <1>6, <1>7 DEF GInv

(* A step between two calls, or a step that only moves on to the next one. *)
LEMMA NothingWritten ==
    ASSUME Plain, WInv, GInv,
           UNCHANGED <<file, disk, buf, err, growAddr, growBytes, patches, pi, count, li, acked, flushed, started>>,
           (pc' = pc /\ res' = res) \/ (pc = "idle" /\ li = 1 /\ pc' \in {"record", "begin", "link", "idle"})
    PROVE  GInv'
<1>1. Sink' = Sink
  BY DEF Sink
<1>2. P1' = P1 /\ P2' = P2 /\ P3' = P3 /\ P4' = P4
  BY DEF P1, P2, P3, P4, Patch
<1>3. SizeInv'
  BY <1>1 DEF GInv, SizeInv, Writing
<1>4. ShapeInv'
  BY <1>1 DEF GInv, ShapeInv
<1>5. DiskInv'
  BY <1>1 DEF GInv, DiskInv
<1>6. PatchInv'
  BY <1>1, <1>2 DEF GInv, PatchInv, Writing, TreeWaits, AllApplied, Applied
<1> QED
  BY <1>3, <1>4, <1>5, <1>6 DEF GInv

(* The calls of Append and Close.                                          *)
LEMMA CallsG ==
    ASSUME Plain, WInv, GInv,
           (\E g \in Groups : \E strs \in StrArgs(g) : AppendCall(g, strs)) \/ Close
    PROVE  GInv'
<1>1. pc = "idle" /\ li = 1
  BY DEF AppendCall, Close, WInv, StageInv
<1>2. /\ UNCHANGED <<file, disk, buf, err, growAddr, growBytes, patches, pi, count, li, acked, flushed, started>>
      /\ pc' \in {"record", "begin", "link"}
  BY PlainFacts DEF AppendCall, Close, FirstStep, wvars, hist
<1> QED
  BY <1>1, <1>2, NothingWritten

(* Flushing the buffer changes no cell.                                    *)
LEMMA FlushCells ==
    ASSUME Plain, WInv, WInv', GInv, pc \in {"idle", "patch"}, BufFlush \/ BufFlushFails,
           UNCHANGED <<growAddr, growBytes, li, started>>, pc' \in {"apply", "idle", "done"}
    PROVE  /\ \A i \in 1..Off(Sink)' : FreshCell(Cell(Sink, i)', i)
           /\ Off(Sink)' <= GA + growBytes
           /\ (Writing' => Writing /\ Off(Sink)' = GA + growBytes /\ growAddr = GA)
           /\ Len(file) <= Len(file')
           /\ \A i \in 1..Off(Sink)' : i \in 1..Off(Sink) /\ Cell(Sink, i)' = Cell(Sink, i)
           /\ \A i \in 1..Len(file) : Cell(Sink, i)' = Cell(Sink, i)
           /\ BufFlush => ~err /\ ~err' /\ Len(buf') = 0 /\ Len(file') = Off(Sink) /\ Off(Sink)' = Off(Sink)
           /\ BufFlushFails => err'
           /\ ShapeInv'
<1>1. /\ Len(file) <= Len(file') /\ Off(Sink)' \in Nat /\ Off(Sink) \in Nat /\ Off(Sink)' <= Off(Sink)
      /\ \A i \in 1..Off(Sink)' : Cell(Sink, i)' = Cell(Sink, i)
      /\ BufFlush => ~err /\ ~err' /\ Off(Sink)' = Off(Sink) /\ buf' = <<>>
      /\ BufFlushFails => err'
  BY FlushOutcome DEF WInv
<1>2. /\ Len(file) \in Nat /\ Len(buf) \in Nat /\ Off(Sink) = Len(file) + Len(buf)
  BY NowFacts
<1>3. /\ Len(file') \in Nat /\ Len(buf') \in Nat /\ Off(Sink)' = Len(file') + Len(buf')
  BY NextFacts
<1>4. \A i \in 1..Off(Sink) : FreshCell(Cell(Sink, i), i)
  BY DEF GInv, ShapeInv, WInv, StageInv
<1>5. \A i \in 1..Off(Sink)' : i \in 1..Off(Sink) /\ Cell(Sink, i)' = Cell(Sink, i)
  BY <1>1
<1>6. \A i \in 1..Off(Sink)' : FreshCell(Cell(Sink, i)', i)
  BY <1>4, <1>5
<1>7. \A i \in 1..Len(file) : Cell(Sink, i)' = Cell(Sink, i)
  BY <1>1, <1>2, <1>3
<1>8. BufFlush => Len(buf') = 0 /\ Len(file') = Off(Sink)
  <2>1. Len(<<>>) = 0
    BY OneFacts
  <2> QED
    BY <1>1, <1>3, <2>1
<1>9. Off(Sink)' <= GA + growBytes /\ (Writing' => Writing /\ Off(Sink)' = GA + growBytes /\ growAddr = GA)
  <2>1. Off(Sink) <= GA + growBytes /\ (Writing => Off(Sink) = GA + growBytes /\ growAddr = GA)
    BY DEF GInv, SizeInv
  <2>2. growBytes \in Nat /\ GA \in Nat
    BY PlainFacts DEF GInv, SizeInv
  <2>3. Writing' => Writing /\ Off(Sink)' = Off(Sink)
    BY <1>1 DEF Writing
  <2> QED
    BY <1>1, <2>1, <2>2, <2>3
<1>10. ShapeInv'
  <2>1. \A i \in 1..Off(Sink)' : CellOK(Cell(Sink, i)', i)
    BY <1>6 DEF FreshCell
  <2>2. GA \in Nat /\ GA >= 4
    BY PlainFacts
  <2>3. ASSUME Off(Sink)' >= 3, Cell(Sink, 3)'.data = GA PROVE Len(file') >= GA
    <3>1. Off(Sink) >= 3 /\ Cell(Sink, 3).data = GA
      BY <1>1, <2>3
    <3>2. Len(file) >= GA
      BY <3>1 DEF GInv, ShapeInv
    <3> QED
      BY <1>1, <1>2, <1>3, <2>2, <3>2
  <2>4. Off(Sink)' >= GA => Cell(Sink, GA)'.len = 0
    BY <1>1, <1>6, <2>2 DEF FreshCell
  <2> QED
    BY <1>6, <2>1, <2>3, <2>4 DEF ShapeInv
<1> QED
  BY <1>1, <1>5, <1>6, <1>7, <1>8, <1>9, <1>10

(* applyPatches flushes.                                                   *)
LEMMA FlushForPatchesG ==
    ASSUME Plain, WInv, WInv', GInv, FlushForPatches
    PROVE  GInv'
<1>1. /\ pc = "patch"
      /\ \/ BufFlush /\ pc' = "apply" /\ pi' = 1
         \/ BufFlushFails /\ Return /\ UNCHANGED pi
      /\ UNCHANGED <<disk, started, closed, growAddr, growBytes, patches, count, li, acked, flushed>>
  BY DEF FlushForPatches, Succeed, hist
<1>2. pc' \in {"apply", "idle", "done"} /\ (pc' = "done" => res' = "error") /\ (pc' = "apply" => BufFlush /\ pi' = 1)
  BY <1>1 DEF Return
<1>3. /\ \A i \in 1..Off(Sink)' : FreshCell(Cell(Sink, i)', i)
      /\ Off(Sink)' <= GA + growBytes
      /\ (Writing' => Writing /\ Off(Sink)' = GA + growBytes /\ growAddr = GA)
      /\ Len(file) <= Len(file')
      /\ \A i \in 1..Off(Sink)' : i \in 1..Off(Sink) /\ Cell(Sink, i)' = Cell(Sink, i)
      /\ \A i \in 1..Len(file) : Cell(Sink, i)' = Cell(Sink, i)
      /\ BufFlush => ~err /\ ~err' /\ Len(buf') = 0 /\ Len(file') = Off(Sink) /\ Off(Sink)' = Off(Sink)
      /\ BufFlushFails => err'
      /\ ShapeInv'
  BY <1>1, <1>2, FlushCells
<1>4. P1' = P1 /\ P2' = P2 /\ P3' = P3 /\ P4' = P4
  BY <1>1 DEF P1, P2, P3, P4, Patch
<1>5. /\ Len(disk) \in Nat /\ Len(file) \in Nat /\ Len(file') \in Nat /\ GA \in Nat /\ GA >= 4
      /\ Len(patches) \in Nat /\ growBytes \in Nat /\ Off(Sink)' \in Nat
  BY NowFacts, NextFacts, CountFacts DEF GInv
<1>6. SizeInv'
  <2>1. started
    BY <1>1 DEF WInv, StageInv, Busy
  <2>2. ~err' => ~err
    BY <1>1, <1>3
  <2> QED
    BY <1>1, <1>3, <2>1, <2>2 DEF GInv, SizeInv
<1>7. DiskInv'
  <2>1. Len(disk) <= Len(file)
    BY DEF GInv, DiskInv
  <2>2. Len(disk) <= Len(file')
    BY <1>3, <1>5, <2>1
  <2>3. Len(disk) >= 2 /\ disk[2].first = 3 => Cell(Sink, 2)'.first = 3
    BY <1>3, <1>5, <2>1 DEF GInv, DiskInv
  <2>4. Len(disk) >= 3 /\ disk[3].data = GA => Cell(Sink, 3)'.data = GA
    BY <1>3, <1>5, <2>1 DEF GInv, DiskInv
  <2> QED
    BY <1>1, <1>2, <2>2, <2>3, <2>4 DEF GInv, DiskInv
<1>8. PatchInv'
  <2>1. Off(Sink)' >= 1 => Cell(Sink, 1)'.unfin # {}
    BY <1>3, <1>5, FreshHead
  <2>2. Writing' => (TreeWaits \/ (Applied(P1) /\ Applied(P2)))'
    <3> SUFFICES ASSUME Writing' PROVE (TreeWaits \/ (Applied(P1) /\ Applied(P2)))'
      OBVIOUS
    <3>1. TreeWaits \/ (Applied(P1) /\ Applied(P2))
      BY <1>3 DEF GInv, PatchInv
    <3>2. CASE TreeWaits
      BY <1>1, <1>4, <3>2 DEF TreeWaits
    <3>3. CASE Applied(P1) /\ Applied(P2)
      <4>1. P1.at = 2 /\ P2.at = 3
        BY DEF P1, P2, Patch
      <4>2. Cell(Sink, 2)' = Cell(Sink, 2) /\ Cell(Sink, 3)' = Cell(Sink, 3)
        BY <1>3, <1>5
      <4> QED
        BY <1>4, <3>3, <4>1, <4>2 DEF Applied
    <3> QED
      BY <3>1, <3>2, <3>3
  <2>3. pc' = "apply" => /\ Len(buf') = 0 /\ pi' <= Len(patches) + 1
                         /\ \A k \in 1..(pi' - 1) : FALSE
    BY <1>2, <1>3, <1>5
  <2>4. li \in {1, 2} /\ (li = 1 => patches = <<>> \/ patches = <<P1, P2>>)
        /\ (li = 2 => patches = <<P3, P4>> \/ patches = <<P1, P2, P3, P4>>)
    BY <1>1 DEF GInv, PatchInv
  <2> QED
    BY <1>1, <1>2, <1>4, <2>1, <2>2, <2>3, <2>4 DEF PatchInv
<1> QED
  BY <1>3, <1>6, <1>7, <1>8 DEF GInv

(* Flush, also when its fsync fails.                                       *)
LEMMA FlushG ==
    ASSUME Plain, WInv, WInv', GInv, Flush
    PROVE  GInv'
<1>1. /\ pc = "idle" /\ pc' = "idle" /\ ~closed
      /\ \/ BufFlush /\ disk' = file' /\ flushed' = acked
         \/ (BufFlush \/ BufFlushFails) /\ UNCHANGED <<disk, flushed>>
      /\ UNCHANGED <<started, closed, growAddr, growBytes, patches, count, li, acked>>
  BY DEF Flush, Succeed, Return, wvars
<1>2. li = 1
  BY <1>1 DEF WInv, StageInv
<1>3. /\ \A i \in 1..Off(Sink)' : FreshCell(Cell(Sink, i)', i)
      /\ Off(Sink)' <= GA + growBytes
      /\ (Writing' => Writing /\ Off(Sink)' = GA + growBytes /\ growAddr = GA)
      /\ Len(file) <= Len(file')
      /\ \A i \in 1..Off(Sink)' : i \in 1..Off(Sink) /\ Cell(Sink, i)' = Cell(Sink, i)
      /\ \A i \in 1..Len(file) : Cell(Sink, i)' = Cell(Sink, i)
      /\ BufFlush => ~err /\ ~err' /\ Len(buf') = 0 /\ Len(file') = Off(Sink) /\ Off(Sink)' = Off(Sink)
      /\ BufFlushFails => err'
      /\ ShapeInv'
  BY <1>1, FlushCells
<1>4. P1' = P1 /\ P2' = P2 /\ P3' = P3 /\ P4' = P4
  BY <1>1 DEF P1, P2, P3, P4, Patch
<1>5. /\ Len(disk) \in Nat /\ Len(file) \in Nat /\ Len(file') \in Nat /\ GA \in Nat /\ GA >= 4
      /\ Len(patches) \in Nat /\ growBytes \in Nat /\ Off(Sink)' \in Nat /\ Off(Sink) \in Nat
  BY NowFacts, NextFacts, CountFacts DEF GInv
<1>6. ~started => Off(Sink)' = 0
  <2>1. ~started' => Off(Sink)' = 0
    BY DEF WInv, HeadInv
  <2> QED
    BY <1>1, <2>1
<1>7. SizeInv'
  <2>1. ~err' => ~err
    BY <1>1, <1>3
  <2>2. flushed' = flushed \/ (flushed' = count /\ ~err)
    BY <1>1, <1>3 DEF GInv, SizeInv
  <2>3. flushed' \in [Groups -> Nat] /\ flushed'[1] <= count[1]
    <3>1. count[1] \in Nat
      BY PlainFacts DEF GInv, SizeInv
    <3> QED
      BY <2>2, <3>1 DEF GInv, SizeInv
  <2> QED
    BY <1>1, <1>3, <2>1, <2>3 DEF GInv, SizeInv
<1>8. DiskInv'
  <2>1. CASE UNCHANGED <<disk, flushed>>
    <3>1. Len(disk) <= Len(file)
      BY DEF GInv, DiskInv
    <3>2. Len(disk) <= Len(file')
      BY <1>3, <1>5, <3>1
    <3>3. Len(disk) >= 2 /\ disk[2].first = 3 => Cell(Sink, 2)'.first = 3
      BY <1>3, <1>5, <3>1 DEF GInv, DiskInv
    <3>4. Len(disk) >= 3 /\ disk[3].data = GA => Cell(Sink, 3)'.data = GA
      BY <1>3, <1>5, <3>1 DEF GInv, DiskInv
    <3> QED
      BY <1>1, <2>1, <3>2, <3>3, <3>4 DEF GInv, DiskInv
  <2>2. CASE BufFlush /\ disk' = file' /\ flushed' = acked
    <3>1. \A i \in 1..Len(file') : i \in 1..Off(Sink)' /\ Cell(Sink, i)' = file'[i]
      BY <1>3, <1>5, <2>2, NextFacts
    <3>2. \A i \in 1..Len(file') : FreshCell(file'[i], i) /\ CellOK(file'[i], i)
      BY <1>3, <3>1 DEF FreshCell
    <3>3. flushed'[1] > 0 => Len(file') >= GA + flushed'[1] * R
      <4> SUFFICES ASSUME flushed'[1] > 0 PROVE Len(file') >= GA + flushed'[1] * R
        OBVIOUS
      <4>1. flushed' = count /\ count[1] \in Nat
        BY <1>3, <2>2, PlainFacts DEF GInv, SizeInv
      <4>2. started
        BY <4>1 DEF GInv, SizeInv, WInv, TypeInv
      <4>3. Writing
        BY <1>1, <1>3, <2>2, <4>2 DEF Writing
      <4>4. Off(Sink) = GA + growBytes /\ growBytes = count[1] * R
        BY <4>3 DEF GInv, SizeInv
      <4> QED
        BY <1>3, <1>5, <2>2, <4>1, <4>4
    <3>4. Len(file') >= 3 /\ file'[3].data = GA => Len(file') >= GA
      <4>1. Off(Sink)' >= 3 /\ Cell(Sink, 3)'.data = GA => Len(file') >= GA
        BY <1>1, <1>3 DEF ShapeInv
      <4> QED
        BY <1>3, <1>5, <2>2, <3>1, <4>1
    <3>5. ~started => Len(file') = 0
      BY <1>3, <1>6, <2>2
    <3>6. /\ Len(file') >= 2 /\ file'[2].first = 3 => Cell(Sink, 2)'.first = 3
          /\ Len(file') >= 3 /\ file'[3].data = GA => Cell(Sink, 3)'.data = GA
      BY <1>5, <3>1
    <3> QED
      BY <1>1, <1>5, <2>2, <3>2, <3>3, <3>4, <3>5, <3>6 DEF DiskInv
  <2> QED
    BY <1>1, <2>1, <2>2
<1>9. PatchInv'
  <2>1. Off(Sink)' >= 1 => Cell(Sink, 1)'.unfin # {}
    BY <1>3, <1>5, FreshHead
  <2>2. Writing' => (TreeWaits \/ (Applied(P1) /\ Applied(P2)))'
    <3> SUFFICES ASSUME Writing' PROVE (TreeWaits \/ (Applied(P1) /\ Applied(P2)))'
      OBVIOUS
    <3>1. TreeWaits \/ (Applied(P1) /\ Applied(P2))
      BY <1>3 DEF GInv, PatchInv
    <3>2. CASE TreeWaits
      BY <1>1, <1>4, <3>2 DEF TreeWaits
    <3>3. CASE Applied(P1) /\ Applied(P2)
      <4>1. P1.at = 2 /\ P2.at = 3
        BY DEF P1, P2, Patch
      <4>2. Cell(Sink, 2)' = Cell(Sink, 2) /\ Cell(Sink, 3)' = Cell(Sink, 3)
        BY <1>3, <1>5
      <4> QED
        BY <1>4, <3>3, <4>1, <4>2 DEF Applied
    <3> QED
      BY <3>1, <3>2, <3>3
  <2>3. patches = <<>> \/ patches = <<P1, P2>>
    BY <1>2 DEF GInv, PatchInv
  <2> QED
    BY <1>1, <1>2, <1>4, <2>1, <2>2, <2>3 DEF PatchInv
<1> QED
  BY <1>3, <1>7, <1>8, <1>9 DEF GInv

(* A cell with one of the four patches applied.                            *)
LEMMA PatchedCell ==
    ASSUME Plain, NEW c, NEW d, NEW at, NEW fld, NEW val, CellOK(c, at),
           d = [x \in DOMAIN c |-> IF x = fld THEN val ELSE c[x]],
           \/ at = 2 /\ fld = "first" /\ val = 3
           \/ at = 3 /\ fld = "data" /\ val = GA
           \/ at = 3 /\ fld = "cycles" /\ val \in Nat
           \/ at = GA /\ fld = "len" /\ val \in Nat
    PROVE  /\ CellOK(d, at) /\ d[fld] = val
           /\ fld \in {"first", "data"} /\ FreshCell(c, at) => FreshCell(d, at)
           /\ at = 3 /\ fld = "data" => d.cycles = c.cycles
           /\ at = 3 /\ fld = "cycles" => d.data = c.data
<1>1. GA \in Nat /\ GA >= 4
  BY PlainFacts
<1>2. CASE at = 2 /\ fld = "first" /\ val = 3
  <2>1. DOMAIN c = {"t", "first"} /\ c.t = "HD"
    BY <1>2 DEF CellOK
  <2>2. DOMAIN d = {"t", "first"} /\ d.t = "HD" /\ d.first = 3
    BY <1>2, <2>1
  <2> QED
    BY <1>1, <1>2, <2>2 DEF CellOK, FreshCell
<1>3. CASE at = 3 /\ fld = "data" /\ val = GA
  <2>1. /\ DOMAIN c = {"t", "next", "data", "cycles", "rec", "cns"}
        /\ c.t = "DG" /\ c.next = 0 /\ c.cycles \in Nat /\ c.rec = R /\ c.cns = <<>>
    BY <1>3 DEF CellOK
  <2>2. /\ DOMAIN d = {"t", "next", "data", "cycles", "rec", "cns"}
        /\ d.t = "DG" /\ d.next = 0 /\ d.cycles = c.cycles /\ d.rec = R /\ d.cns = <<>> /\ d.data = GA
    BY <1>3, <2>1
  <2> QED
    BY <1>1, <1>3, <2>1, <2>2 DEF CellOK, FreshCell
<1>4. CASE at = 3 /\ fld = "cycles" /\ val \in Nat
  <2>1. /\ DOMAIN c = {"t", "next", "data", "cycles", "rec", "cns"}
        /\ c.t = "DG" /\ c.next = 0 /\ c.data \in {0, GA} /\ c.rec = R /\ c.cns = <<>>
    BY <1>4 DEF CellOK
  <2>2. /\ DOMAIN d = {"t", "next", "data", "cycles", "rec", "cns"}
        /\ d.t = "DG" /\ d.next = 0 /\ d.cycles = val /\ d.rec = R /\ d.cns = <<>> /\ d.data = c.data
    BY <1>4, <2>1
  <2> QED
    BY <1>1, <1>4, <2>1, <2>2 DEF CellOK
<1>5. CASE at = GA /\ fld = "len" /\ val \in Nat
  <2>1. DOMAIN c = {"t", "len"} /\ c.t = "DT"
    BY <1>5 DEF CellOK
  <2>2. DOMAIN d = {"t", "len"} /\ d.t = "DT" /\ d.len = val
    BY <1>5, <2>1
  <2>3. at # 1 /\ at # 2 /\ at # 3 /\ ~(at \in 4..(GA - 1)) /\ ~(at > GA)
    BY <1>1, <1>5
  <2>4. CellOK(d, at)
    BY <1>5, <2>2, <2>3 DEF CellOK
  <2> QED
    BY <1>5, <2>2, <2>3, <2>4
<1> QED
  BY <1>2, <1>3, <1>4, <1>5

(* applyPatches writes one patch in place.                                 *)
LEMMA ApplyPatchG ==
    ASSUME Plain, WInv, WInv', GInv, ApplyPatch
    PROVE  GInv'
<1>1. /\ pc = "apply" /\ pi <= Len(patches)
      /\ \/ file' = Patched(file, patches[pi]) /\ pi' = pi + 1 /\ UNCHANGED <<pc, res>>
         \/ Return /\ pi' = 0 /\ UNCHANGED file
      /\ UNCHANGED <<disk, buf, err, started, closed, growAddr, growBytes, patches, count, li, acked, flushed>>
  BY DEF ApplyPatch, hist
<1>2. started /\ ~err /\ Writing /\ pi \in Nat /\ pi >= 1
  BY <1>1 DEF WInv, StageInv, TypeInv, Busy, Writing
<1>3. /\ Off(Sink) = GA + growBytes /\ growAddr = GA /\ Len(buf) = 0
      /\ \A k \in 1..(pi - 1) : Applied(patches[k])
      /\ TreeWaits \/ (Applied(P1) /\ Applied(P2))
  BY <1>1, <1>2 DEF GInv, SizeInv, PatchInv
<1>4. /\ Len(disk) \in Nat /\ Len(file) \in Nat /\ Len(file') \in Nat /\ GA \in Nat /\ GA >= 4
      /\ Len(patches) \in Nat /\ growBytes \in Nat /\ Off(Sink) \in Nat /\ count[1] \in Nat
      /\ Off(Sink) = Len(file) + Len(buf)
      /\ \A i \in 1..Len(file) : Cell(Sink, i) = file[i]
      /\ \A i \in 1..Len(file') : Cell(Sink, i)' = file'[i]
      /\ AnySeq(file)
  BY NowFacts, NextFacts, CountFacts DEF GInv
<1>5. Len(file) = GA + growBytes
  BY <1>3, <1>4
<1>6. P1' = P1 /\ P2' = P2 /\ P3' = P3 /\ P4' = P4
  BY <1>1 DEF P1, P2, P3, P4, Patch
<1>7. /\ P1.at = 2 /\ P1.fld = "first" /\ P1.val = 3 /\ P2.at = 3 /\ P2.fld = "data" /\ P2.val = GA
      /\ P3.at = GA /\ P3.fld = "len" /\ P3.val = growBytes
      /\ P4.at = 3 /\ P4.fld = "cycles" /\ P4.val = count[1]
  BY <1>3 DEF P1, P2, P3, P4, Patch
<1>8. /\ li \in {1, 2} /\ (li = 1 => patches = <<>> \/ patches = <<P1, P2>>)
      /\ (li = 2 => patches = <<P3, P4>> \/ patches = <<P1, P2, P3, P4>>)
  BY <1>1 DEF GInv, PatchInv
<1>9. Off(Sink) >= 1 => Cell(Sink, 1).unfin # {}
  BY <1>1 DEF GInv, PatchInv
<1>10. CASE Return /\ pi' = 0 /\ UNCHANGED file
  <2>1. Sink' = Sink
    BY <1>1, <1>10 DEF Sink
  <2>2. (pc' = "idle" /\ ~closed) \/ (pc' = "done" /\ res' = "error")
    BY <1>10 DEF Return
  <2>3. SizeInv'
    BY <1>1, <1>2, <2>1 DEF GInv, SizeInv, Writing
  <2>4. ShapeInv'
    BY <1>1, <2>1, <2>2 DEF GInv, ShapeInv
  <2>5. DiskInv'
    BY <1>1, <1>10, <2>1, <2>2 DEF GInv, DiskInv
  <2>6. PatchInv'
    <3>1. (TreeWaits \/ (Applied(P1) /\ Applied(P2)))'
      BY <1>1, <1>3, <1>6, <2>1 DEF TreeWaits, Applied
    <3> QED
      BY <1>1, <1>6, <1>8, <1>9, <2>1, <2>2, <3>1 DEF PatchInv
  <2> QED
    BY <2>3, <2>4, <2>5, <2>6 DEF GInv
<1>11. CASE file' = Patched(file, patches[pi]) /\ pi' = pi + 1 /\ UNCHANGED <<pc, res>>
  <2>0. PICK p, c, d : /\ p = patches[pi] /\ c = file[p.at]
                       /\ d = [x \in DOMAIN c |-> IF x = p.fld THEN p.val ELSE c[x]]
    OBVIOUS
  <2>1. (p = P1 \/ p = P2 \/ p = P3 \/ p = P4) /\ (li = 1 => p = P1 \/ p = P2)
    <3>1. pi \in 1..Len(patches)
      BY <1>1, <1>2, <1>4
    <3>2. CASE patches = <<P1, P2>>
      <4>1. pi \in 1..2
        BY <3>1, <3>2, PatchLists
      <4>2. pi = 1 \/ pi = 2
        BY <4>1
      <4> QED
        BY <2>0, <3>2, <4>2, PatchLists
    <3>3. CASE patches = <<P3, P4>> /\ li = 2
      <4>1. pi \in 1..2
        BY <3>1, <3>3, PatchLists
      <4>2. pi = 1 \/ pi = 2
        BY <4>1
      <4> QED
        BY <2>0, <3>3, <4>2, PatchLists
    <3>4. CASE patches = <<P1, P2, P3, P4>> /\ li = 2
      <4>1. pi \in 1..4
        BY <3>1, <3>4, PatchLists
      <4>2. pi = 1 \/ pi = 2 \/ pi = 3 \/ pi = 4
        BY <4>1
      <4> QED
        BY <2>0, <3>4, <4>2, PatchLists
    <3>5. patches # <<>>
      <4>1. Len(<<>>) = 0
        BY PatchLists
      <4> QED
        BY <1>1, <1>2, <1>4, <4>1
    <3> QED
      BY <1>8, <3>2, <3>3, <3>4, <3>5
  <2>2. file' = [file EXCEPT ![p.at] = d]
    BY <1>11, <2>0 DEF Patched
  <2>3. /\ \/ p.at = 2 /\ p.fld = "first" /\ p.val = 3
           \/ p.at = 3 /\ p.fld = "data" /\ p.val = GA
           \/ p.at = 3 /\ p.fld = "cycles" /\ p.val \in Nat /\ li = 2
           \/ p.at = GA /\ p.fld = "len" /\ p.val \in Nat /\ li = 2 /\ p.val = growBytes
        /\ p.at \in 1..Len(file) /\ p.at # 1 /\ (p.fld \in {"first", "data"} \/ li = 2)
    <3>1. /\ \/ p.at = 2 /\ p.fld = "first" /\ p.val = 3
             \/ p.at = 3 /\ p.fld = "data" /\ p.val = GA
             \/ p.at = 3 /\ p.fld = "cycles" /\ p.val \in Nat /\ li = 2
             \/ p.at = GA /\ p.fld = "len" /\ p.val \in Nat /\ li = 2 /\ p.val = growBytes
      <4>1. p = P1 \/ p = P2 \/ (p = P3 /\ li = 2) \/ (p = P4 /\ li = 2)
        BY <1>8, <2>1
      <4> QED
        BY <1>4, <1>7, <4>1
    <3>2. 2 \in 1..Len(file) /\ 3 \in 1..Len(file) /\ GA \in 1..Len(file) /\ GA # 1
      BY <1>4, <1>5
    <3> QED
      BY <3>1, <3>2
  <2>4. /\ DOMAIN file = 1..Len(file) /\ Len(file') = Len(file)
        /\ \A i \in 1..Len(file) : i # p.at => file'[i] = file[i]
        /\ file'[p.at] = d
    <3>1. DOMAIN file = 1..Len(file)
      BY <1>4, AnySeqFacts
    <3>2. DOMAIN file' = DOMAIN file
      BY <2>2
    <3>3. DOMAIN file' = 1..Len(file')
      BY NextFacts, AnySeqFacts
    <3>4. Len(file') = Len(file)
      BY <1>4, <3>1, <3>2, <3>3
    <3> QED
      BY <2>2, <2>3, <3>1, <3>4
  <2>5. CellOK(c, p.at) /\ (li = 1 => FreshCell(c, p.at))
    <3>1. p.at \in 1..Off(Sink) /\ Cell(Sink, p.at) = c
      BY <1>3, <1>4, <1>5, <2>0, <2>3
    <3> QED
      BY <3>1 DEF GInv, ShapeInv
  <2>6. /\ CellOK(d, p.at) /\ d[p.fld] = p.val
        /\ p.fld \in {"first", "data"} /\ FreshCell(c, p.at) => FreshCell(d, p.at)
        /\ p.at = 3 /\ p.fld = "data" => d.cycles = c.cycles
        /\ p.at = 3 /\ p.fld = "cycles" => d.data = c.data
    <3>1. \/ p.at = 2 /\ p.fld = "first" /\ p.val = 3
          \/ p.at = 3 /\ p.fld = "data" /\ p.val = GA
          \/ p.at = 3 /\ p.fld = "cycles" /\ p.val \in Nat
          \/ p.at = GA /\ p.fld = "len" /\ p.val \in Nat
      BY <2>3
    <3> QED
      BY <2>0, <2>5, <3>1, PatchedCell
  <2>7. c = Cell(Sink, p.at) /\ d = Cell(Sink, p.at)'
    BY <1>4, <2>0, <2>3, <2>4
  <2>8. /\ Off(Sink)' = Off(Sink)
        /\ \A i \in 1..Off(Sink) : i # p.at => Cell(Sink, i)' = Cell(Sink, i)
    <3>1. Off(Sink)' = Len(file') + Len(buf')
      BY NextFacts
    <3>2. Off(Sink)' = Off(Sink)
      BY <1>1, <1>4, <2>4, <3>1
    <3> QED
      BY <1>3, <1>4, <1>5, <2>4, <3>2
  <2>9. \A i \in 1..Off(Sink) : CellOK(Cell(Sink, i)', i)
    <3> SUFFICES ASSUME NEW i \in 1..Off(Sink) PROVE CellOK(Cell(Sink, i)', i)
      OBVIOUS
    <3>1. CellOK(Cell(Sink, i), i)
      BY DEF GInv, ShapeInv
    <3> QED
      BY <2>6, <2>7, <2>8, <3>1
  <2>10. li = 1 => \A i \in 1..Off(Sink) : FreshCell(Cell(Sink, i)', i)
    <3> SUFFICES ASSUME li = 1, NEW i \in 1..Off(Sink) PROVE FreshCell(Cell(Sink, i)', i)
      OBVIOUS
    <3>1. FreshCell(Cell(Sink, i), i)
      BY DEF GInv, ShapeInv
    <3>2. p.fld \in {"first", "data"}
      BY <2>3
    <3> QED
      BY <2>5, <2>6, <2>7, <2>8, <3>1, <3>2
  <2>11. 1 \in 1..Off(Sink) /\ 2 \in 1..Off(Sink) /\ 3 \in 1..Off(Sink) /\ GA \in 1..Off(Sink) /\ GA # 2 /\ GA # 3
    BY <1>3, <1>4
  (* Nothing that was in place is undone.                                   *)
  <2>12. /\ Cell(Sink, 2).first = 3 => Cell(Sink, 2)'.first = 3
         /\ Cell(Sink, 3).data = GA => Cell(Sink, 3)'.data = GA
         /\ Cell(Sink, 3).cycles = count[1] /\ (p.fld = "cycles" => p.val = count[1]) => Cell(Sink, 3)'.cycles = count[1]
         /\ Cell(Sink, GA).len = growBytes => Cell(Sink, GA)'.len = growBytes
         /\ Cell(Sink, GA)'.len # 0 => Cell(Sink, GA)'.len = growBytes
    <3>1. Cell(Sink, 2).first = 3 => Cell(Sink, 2)'.first = 3
      BY <2>3, <2>6, <2>7, <2>8, <2>11
    <3>2. Cell(Sink, 3).data = GA => Cell(Sink, 3)'.data = GA
      BY <2>3, <2>6, <2>7, <2>8, <2>11
    <3>3. Cell(Sink, 3).cycles = count[1] /\ (p.fld = "cycles" => p.val = count[1]) => Cell(Sink, 3)'.cycles = count[1]
      BY <2>3, <2>6, <2>7, <2>8, <2>11
    <3>4. Cell(Sink, GA).len = growBytes => Cell(Sink, GA)'.len = growBytes
      BY <2>3, <2>6, <2>7, <2>8, <2>11
    <3>5. Cell(Sink, GA)'.len # 0 => Cell(Sink, GA)'.len = growBytes
      <4>1. Cell(Sink, GA).len # 0 => Cell(Sink, GA).len = growBytes
        BY <1>1, <1>4, <2>11 DEF GInv, ShapeInv
      <4> QED
        BY <2>3, <2>6, <2>7, <2>8, <2>11, <4>1
    <3> QED
      BY <3>1, <3>2, <3>3, <3>4, <3>5
  <2>13. SizeInv'
    BY <1>1, <1>2, <1>3, <1>11, <2>8 DEF GInv, SizeInv
  <2>14. ShapeInv'
    BY <1>1, <1>3, <1>4, <1>5, <1>11, <2>4, <2>8, <2>9, <2>10, <2>12 DEF ShapeInv
  <2>15. DiskInv'
    BY <1>1, <1>11, <2>4, <2>12 DEF GInv, DiskInv
  <2>16. PatchInv'
    <3>1. Applied(p)'
      BY <2>6, <2>7 DEF Applied
    <3>2. ASSUME NEW q, q = P1 \/ q = P2 \/ q = P3 \/ q = P4, Applied(q) PROVE Applied(q)'
      <4>1. p.fld = "cycles" => p.val = count[1]
        BY <1>7, <2>1
      <4>2. /\ Applied(q) <=> Cell(Sink, q.at)[q.fld] = q.val
            /\ Applied(q)' <=> Cell(Sink, q.at)'[q.fld] = q.val
        BY DEF Applied
      <4> QED
        BY <1>7, <2>12, <3>2, <4>1, <4>2
    <3>3. \A k \in 1..Len(patches) : patches[k] = P1 \/ patches[k] = P2 \/ patches[k] = P3 \/ patches[k] = P4
      BY <1>1, PatchesAre
    <3>4. \A k \in 1..(pi' - 1) : Applied(patches[k])'
      <4> SUFFICES ASSUME NEW k \in 1..(pi' - 1) PROVE Applied(patches[k])'
        OBVIOUS
      <4>1. k \in 1..Len(patches) /\ (k = pi \/ k \in 1..(pi - 1))
        BY <1>1, <1>2, <1>4, <1>11
      <4>2. CASE k = pi
        BY <1>1, <2>0, <3>1, <4>2 DEF Applied
      <4>3. CASE k \in 1..(pi - 1)
        <5>0. PICK q : q = patches[k]
          OBVIOUS
        <5>1. Applied(q) /\ (q = P1 \/ q = P2 \/ q = P3 \/ q = P4)
          BY <1>3, <3>3, <4>1, <4>3, <5>0
        <5>2. Applied(q)'
          BY <3>2, <5>1
        <5> QED
          BY <1>1, <5>0, <5>2 DEF Applied
      <4> QED
        BY <4>1, <4>2, <4>3
    <3>5. (TreeWaits \/ (Applied(P1) /\ Applied(P2)))'
      <4>1. CASE TreeWaits
        BY <1>1, <1>6, <4>1 DEF TreeWaits
      <4>2. CASE Applied(P1) /\ Applied(P2)
        <5>1. P1.at = 2 /\ P1.fld = "first" /\ P1.val = 3 /\ P2.at = 3 /\ P2.fld = "data" /\ P2.val = GA
          BY <1>7
        <5> QED
          BY <1>6, <2>12, <4>2, <5>1 DEF Applied
      <4> QED
        BY <1>3, <4>1, <4>2
    <3>6. Off(Sink)' >= 1 => Cell(Sink, 1)'.unfin # {}
      BY <1>4, <1>9, <2>3, <2>8
    <3>7. pi' <= Len(patches) + 1
      BY <1>1, <1>2, <1>4, <1>11
    <3> QED
      BY <1>1, <1>3, <1>6, <1>8, <1>11, <3>4, <3>5, <3>6, <3>7 DEF PatchInv
  <2> QED
    BY <2>13, <2>14, <2>15, <2>16 DEF GInv
<1> QED
  BY <1>1, <1>10, <1>11

(* applyPatches is done.                                                   *)
LEMMA PatchesAppliedG ==
    ASSUME Plain, WInv, WInv', GInv, PatchesApplied
    PROVE  GInv'
<1>1. /\ pc = "apply" /\ pi > Len(patches) /\ patches' = <<>>
      /\ Succeed(IF call.op = "append" THEN FirstStep(call.g)
                 ELSE IF li <= Len(LinkOrder) THEN "link" ELSE "id")
      /\ UNCHANGED <<file, disk, buf, err, started, closed, growAddr, growBytes, count, li, acked, flushed>>
  BY DEF PatchesApplied, hist
<1>2. Sink' = Sink
  BY <1>1 DEF Sink
<1>3. /\ started /\ ~err /\ Writing /\ call.g = 1 /\ pi \in Nat
      /\ (call.op = "append" => li = 1)
  BY <1>1, PlainFacts DEF WInv, StageInv, TypeInv, CallInv, Busy, Writing
<1>4. /\ li \in {1, 2} /\ (li = 1 => patches = <<>> \/ patches = <<P1, P2>>)
      /\ (li = 2 => patches = <<P3, P4>> \/ patches = <<P1, P2, P3, P4>>)
      /\ Len(buf) = 0 /\ pi <= Len(patches) + 1
      /\ \A k \in 1..(pi - 1) : Applied(patches[k])
      /\ TreeWaits \/ (Applied(P1) /\ Applied(P2))
      /\ (Off(Sink) >= 1 => Cell(Sink, 1).unfin # {})
  BY <1>1, <1>3 DEF GInv, PatchInv
<1>5. Len(patches) \in Nat /\ \A k \in 1..Len(patches) : Applied(patches[k])
  <2>1. Len(patches) \in Nat
    BY NowFacts
  <2> QED
    BY <1>1, <1>3, <1>4, <2>1
<1>6. Applied(P1) /\ Applied(P2)
  <2>1. CASE patches = <<P1, P2>>
    <3>1. 1 \in 1..Len(patches) /\ 2 \in 1..Len(patches)
      BY <2>1, PatchLists
    <3> QED
      BY <1>5, <2>1, <3>1, PatchLists
  <2>2. CASE patches = <<P1, P2, P3, P4>>
    <3>1. 1 \in 1..Len(patches) /\ 2 \in 1..Len(patches)
      BY <2>2, PatchLists
    <3> QED
      BY <1>5, <2>2, <3>1, PatchLists
  <2> QED
    BY <1>4, <2>1, <2>2 DEF TreeWaits
<1>7. li = 2 => Applied(P3) /\ Applied(P4)
  <2>1. CASE patches = <<P3, P4>>
    <3>1. 1 \in 1..Len(patches) /\ 2 \in 1..Len(patches)
      BY <2>1, PatchLists
    <3> QED
      BY <1>5, <2>1, <3>1, PatchLists
  <2>2. CASE patches = <<P1, P2, P3, P4>>
    <3>1. 3 \in 1..Len(patches) /\ 4 \in 1..Len(patches)
      BY <2>2, PatchLists
    <3> QED
      BY <1>5, <2>2, <3>1, PatchLists
  <2> QED
    BY <1>4, <2>1, <2>2
<1>8. P1' = P1 /\ P2' = P2 /\ P3' = P3 /\ P4' = P4
  BY <1>1 DEF P1, P2, P3, P4, Patch
<1>9. (pc' \in {"record", "link"} /\ li = 1) \/ (pc' = "id" /\ li = 2)
  <2>1. Len(LinkOrder) = 1 /\ NStr[1] = 0
    BY PlainFacts
  <2>2. pc' = IF call.op = "append" THEN FirstStep(call.g)
              ELSE IF li <= Len(LinkOrder) THEN "link" ELSE "id"
    BY <1>1 DEF Succeed
  <2>3. FirstStep(call.g) = "record"
    BY <1>3, <2>1 DEF FirstStep
  <2>4. (li = 1 => li <= Len(LinkOrder)) /\ (li = 2 => ~(li <= Len(LinkOrder)))
    BY <2>1
  <2> QED
    BY <1>3, <1>4, <2>2, <2>3, <2>4
<1>10. SizeInv'
  BY <1>1, <1>2, <1>3, <1>9 DEF GInv, SizeInv
<1>11. ShapeInv'
  BY <1>1, <1>2, <1>9 DEF GInv, ShapeInv
<1>12. DiskInv'
  BY <1>1, <1>2, <1>3, <1>9 DEF GInv, DiskInv
<1>13. PatchInv'
  BY <1>1, <1>2, <1>4, <1>6, <1>7, <1>8, <1>9 DEF PatchInv, AllApplied, Applied
<1> QED
  BY <1>10, <1>11, <1>12, <1>13 DEF GInv

(* finalize adds the patches of the growing block's length and of the      *)
(* cycle counter.                                                          *)
LEMMA LinkStreamG ==
    ASSUME Plain, WInv, WInv', GInv, LinkStream
    PROVE  GInv'
<1>1. pc = "link" /\ li = 1
  <2>1. pc = "link"
    BY DEF LinkStream
  <2>2. li \in Nat \ {0} /\ li <= Len(LinkOrder)
    BY <2>1 DEF WInv, StageInv
  <2>3. Len(LinkOrder) = 1
    BY PlainFacts
  <2> QED
    BY <2>1, <2>2, <2>3
<1>2. LinkOrder[li][1] = 1 /\ LinkOrder[li][2] = 0 /\ Growing /\ NStr[1] = 0 /\ li = Len(LinkOrder)
  BY <1>1, PlainFacts DEF Plain
<1>3. /\ patches' = patches \o LengthPatch \o CyclePatch(1)
      /\ li' = li + 1 /\ Reach(Sink) /\ pc' = "patch"
      /\ UNCHANGED <<disk, started, closed, growAddr, growBytes, count>>
      /\ UNCHANGED <<acked, flushed, res>>
  BY <1>2, Zenon DEF LinkStream, Succeed, hist
<1>4. UNCHANGED <<file, buf, err>> /\ Sink' = Sink
  BY <1>3 DEF Reach, Sink
<1>5. LengthPatch = <<P3>> /\ CyclePatch(1) = <<P4>>
  BY GroupAddress DEF LengthPatch, CyclePatch, P3, P4
<1>6. patches = <<>> \/ patches = <<P1, P2>>
  BY <1>1 DEF GInv, PatchInv
<1>7. patches' = <<P3, P4>> \/ patches' = <<P1, P2, P3, P4>>
  <2>1. CASE patches = <<>>
    <3>1. <<>> \o <<P3>> = <<P3>> /\ <<P3>> \o <<P4>> = <<P3, P4>>
      BY FourFacts, PairFacts, Zenon
    <3> QED
      BY <1>3, <1>5, <2>1, <3>1, Zenon
  <2>2. CASE patches = <<P1, P2>>
    <3>1. <<P1, P2>> \o <<P3>> \o <<P4>> = <<P1, P2, P3, P4>>
      BY FourFacts, Zenon
    <3> QED
      BY <1>3, <1>5, <2>2, <3>1, Zenon
  <2> QED
    BY <1>6, <2>1, <2>2
<1>8. P1' = P1 /\ P2' = P2 /\ P3' = P3 /\ P4' = P4
  BY <1>3 DEF P1, P2, P3, P4, Patch
<1>9. Writing' => Writing
  BY <1>1, <1>4, <1>3 DEF Writing
<1>10. SizeInv'
  <2>1. started
    BY <1>1 DEF WInv, StageInv, Finishing
  <2> QED
    BY <1>3, <1>4, <1>9, <2>1 DEF GInv, SizeInv
<1>11. ShapeInv'
  BY <1>1, <1>3, <1>4 DEF GInv, ShapeInv
<1>12. DiskInv'
  BY <1>1, <1>3, <1>4 DEF GInv, DiskInv
<1>13. PatchInv'
  <2>1. Off(Sink) >= 1 => Cell(Sink, 1).unfin # {}
    BY <1>1 DEF GInv, PatchInv
  <2>2. ASSUME Writing' PROVE (TreeWaits \/ (Applied(P1) /\ Applied(P2)))'
    <3>1. TreeWaits \/ (Applied(P1) /\ Applied(P2))
      BY <1>9, <2>2 DEF GInv, PatchInv
    <3>2. CASE patches = <<P1, P2>>
      <4>1. patches' = <<P1, P2, P3, P4>>
        <5>1. <<P1, P2>> \o <<P3>> \o <<P4>> = <<P1, P2, P3, P4>>
          BY FourFacts, Zenon
        <5> QED
          BY <1>3, <1>5, <3>2, <5>1, Zenon
      <4> QED
        BY <1>8, <4>1 DEF TreeWaits
    <3>3. CASE Applied(P1) /\ Applied(P2)
      BY <1>4, <1>8, <3>3 DEF Applied
    <3>4. TreeWaits => patches = <<P1, P2>>
      <4>1. patches = <<>> => Len(patches) = 0
        BY PatchLists
      <4> QED
        BY <1>6, <4>1, PatchLists DEF TreeWaits
    <3> QED
      BY <3>1, <3>2, <3>3, <3>4
  <2> QED
    BY <1>1, <1>3, <1>4, <1>7, <1>8, <2>1, <2>2 DEF PatchInv
<1> QED
  BY <1>10, <1>11, <1>12, <1>13 DEF GInv

(* finalize writes the identification block.                               *)
LEMMA WriteFinalIDG ==
    ASSUME Plain, WInv, WInv', GInv, WriteFinalID
    PROVE  GInv'
<1>1. /\ pc = "id"
      /\ \/ file' = Patched(file, Patch(1, "unfin", {})) /\ pc' = "sync"
         \/ pc' = "done" /\ res' = "error" /\ UNCHANGED file
      /\ UNCHANGED <<disk, buf, err, started, closed, growAddr, growBytes, patches, pi, count, li, acked, flushed>>
  BY DEF WriteFinalID, Succeed, Return, WInv, StageInv, Finishing, wvars, hist
<1>2. started /\ ~err /\ Writing /\ closed
  BY <1>1 DEF WInv, StageInv, Finishing, Writing
<1>3. /\ Off(Sink) = GA + growBytes /\ Len(buf) = 0 /\ AllApplied /\ li = 2
      /\ (li = 1 => patches = <<>> \/ patches = <<P1, P2>>)
      /\ (Off(Sink) >= 1 => Cell(Sink, 1).unfin # {}) /\ growAddr = GA
      /\ TreeWaits \/ (Applied(P1) /\ Applied(P2))
  BY <1>1, <1>2 DEF GInv, SizeInv, PatchInv
<1>4. /\ Len(disk) \in Nat /\ Len(file) \in Nat /\ Len(file') \in Nat /\ GA \in Nat /\ GA >= 4
      /\ growBytes \in Nat /\ Off(Sink) \in Nat /\ Off(Sink) = Len(file) + Len(buf)
      /\ Off(Sink)' = Len(file') + Len(buf')
      /\ \A i \in 1..Len(file) : Cell(Sink, i) = file[i]
      /\ \A i \in 1..Len(file') : Cell(Sink, i)' = file'[i]
      /\ AnySeq(file) /\ AnySeq(file')
  BY NowFacts, NextFacts, CountFacts DEF GInv
<1>5. Len(file) = GA + growBytes
  BY <1>3, <1>4
<1>6. P1' = P1 /\ P2' = P2 /\ P3' = P3 /\ P4' = P4
  BY <1>1 DEF P1, P2, P3, P4, Patch
<1>7. CASE pc' = "done" /\ res' = "error" /\ UNCHANGED file
  <2>1. Sink' = Sink
    BY <1>1, <1>7 DEF Sink
  <2>2. SizeInv'
    BY <1>1, <1>2, <2>1 DEF GInv, SizeInv, Writing
  <2>3. ShapeInv'
    BY <1>1, <1>7, <2>1 DEF GInv, ShapeInv
  <2>4. DiskInv'
    BY <1>1, <1>7, <2>1 DEF GInv, DiskInv
  <2>5. PatchInv'
    BY <1>1, <1>3, <1>6, <1>7, <2>1 DEF PatchInv, TreeWaits, Applied
  <2> QED
    BY <2>2, <2>3, <2>4, <2>5 DEF GInv
<1>8. CASE file' = Patched(file, Patch(1, "unfin", {})) /\ pc' = "sync"
  <2>1. PICK c, d : c = file[1] /\ d = [x \in DOMAIN c |-> IF x = "unfin" THEN {} ELSE c[x]]
    OBVIOUS
  <2>2. file' = [file EXCEPT ![1] = d]
    <3>1. Patch(1, "unfin", {}).at = 1 /\ Patch(1, "unfin", {}).fld = "unfin" /\ Patch(1, "unfin", {}).val = {}
      BY DEF Patch
    <3> QED
      BY <1>8, <2>1, <3>1, Zenon DEF Patched
  <2>3. DOMAIN file = 1..Len(file) /\ DOMAIN file' = 1..Len(file')
    BY <1>4, AnySeqFacts
  <2>4. Len(file') = Len(file)
    BY <1>4, <2>2, <2>3
  <2>5. 1 \in 1..Len(file) /\ 2 \in 1..Len(file) /\ 3 \in 1..Len(file) /\ GA \in 1..Len(file) /\ GA # 1
    BY <1>4, <1>5
  <2>6. file'[1] = d /\ \A i \in 1..Len(file) : i # 1 => file'[i] = file[i]
    BY <2>2, <2>3, <2>5
  <2>7. Off(Sink)' = Off(Sink) /\ Off(Sink) = Len(file)
    BY <1>1, <1>3, <1>4, <2>4
  <2>8. \A i \in 1..Off(Sink) : i # 1 => Cell(Sink, i)' = Cell(Sink, i)
    BY <1>4, <2>4, <2>6, <2>7
  <2>9. Cell(Sink, 1)' = d /\ Cell(Sink, 1) = c
    BY <1>4, <2>1, <2>4, <2>5, <2>6
  <2>10. CellOK(c, 1)
    BY <2>5, <2>7, <2>9 DEF GInv, ShapeInv
  <2>11. CellOK(d, 1) /\ d.unfin = {}
    <3>1. DOMAIN c = {"t", "unfin"} /\ c.t = "ID"
      BY <2>10 DEF CellOK
    <3>2. DOMAIN d = {"t", "unfin"} /\ d.t = "ID" /\ d.unfin = {}
      BY <2>1, <3>1
    <3> QED
      BY <1>4, <3>2 DEF CellOK
  <2>12. \A i \in 1..Off(Sink) : CellOK(Cell(Sink, i)', i)
    <3> SUFFICES ASSUME NEW i \in 1..Off(Sink) PROVE CellOK(Cell(Sink, i)', i)
      OBVIOUS
    <3>1. CellOK(Cell(Sink, i), i)
      BY DEF GInv, ShapeInv
    <3> QED
      BY <2>8, <2>9, <2>11, <3>1
  <2>13. Cell(Sink, 2)' = Cell(Sink, 2) /\ Cell(Sink, 3)' = Cell(Sink, 3) /\ Cell(Sink, GA)' = Cell(Sink, GA)
    BY <1>4, <2>5, <2>7, <2>8
  <2>14. AllApplied'
    <3>1. P1.at = 2 /\ P2.at = 3 /\ P3.at = GA /\ P4.at = 3
      BY <1>3 DEF P1, P2, P3, P4, Patch
    <3> QED
      BY <1>3, <1>6, <2>13, <3>1 DEF AllApplied, Applied
  <2>15. SizeInv'
    BY <1>1, <1>2, <1>3, <2>7 DEF GInv, SizeInv, Writing
  <2>16. ShapeInv'
    <3>1. li = 2
      BY <1>1 DEF GInv, PatchInv
    <3>2. Cell(Sink, GA).len # 0 => Len(file) = GA + growBytes /\ Len(buf) = 0 /\ Cell(Sink, GA).len = growBytes
      BY <1>1, <1>3, <1>4 DEF GInv, ShapeInv
    <3> QED
      BY <1>1, <1>3, <1>4, <1>5, <1>8, <2>4, <2>7, <2>12, <2>13, <3>1, <3>2 DEF ShapeInv
  <2>17. DiskInv'
    BY <1>1, <1>8, <2>4, <2>13 DEF GInv, DiskInv
  <2>18. PatchInv'
    <3>1. (Applied(P1) /\ Applied(P2))'
      BY <2>14 DEF AllApplied
    <3> QED
      BY <1>1, <1>2, <1>3, <1>6, <1>8, <2>9, <2>11, <2>14, <3>1 DEF PatchInv
  <2> QED
    BY <2>15, <2>16, <2>17, <2>18 DEF GInv
<1> QED
  BY <1>1, <1>7, <1>8

(* Fewer records take fewer bytes.                                         *)
LEMMA Monotone ==
    ASSUME NEW a \in Nat, NEW b \in Nat, a <= b, NEW c \in Nat
    PROVE  a * c <= b * c /\ a * c \in Nat /\ b * c \in Nat /\ (a + 1) * c = a * c + c
<1>1. PICK d \in Nat : b = a + d
  <2>1. b - a \in Nat /\ b = a + (b - a)
    OBVIOUS
  <2> QED
    BY <2>1
<1>2. b * c = a * c + d * c /\ a * c \in Nat /\ d * c \in Nat
  BY <1>1
<1> QED
  BY <1>2

(* The fsync that ends Close.                                              *)
LEMMA SyncCloseG ==
    ASSUME Plain, WInv, WInv', GInv, SyncClose
    PROVE  GInv'
<1>1. /\ pc = "sync" /\ pc' = "done"
      /\ \/ disk' = file /\ res' = "ok"
         \/ disk' = disk /\ res' = "error"
      /\ UNCHANGED <<file, buf, err, started, closed, growAddr, growBytes, patches, pi, count, li, acked, flushed>>
  BY DEF SyncClose, Succeed, Return, WInv, StageInv, Finishing, wvars, hist
<1>2. started /\ ~err /\ Writing
  BY <1>1 DEF WInv, StageInv, Finishing, Writing
<1>3. Sink' = Sink
  BY <1>1 DEF Sink
<1>4. P1' = P1 /\ P2' = P2 /\ P3' = P3 /\ P4' = P4
  BY <1>1 DEF P1, P2, P3, P4, Patch
<1>5. /\ Off(Sink) = GA + growBytes /\ Len(buf) = 0 /\ AllApplied /\ li = 2
      /\ Cell(Sink, 1).unfin = {} /\ (TreeWaits \/ (Applied(P1) /\ Applied(P2)))
  BY <1>1, <1>2 DEF GInv, SizeInv, PatchInv
<1>6. /\ Len(file) \in Nat /\ Off(Sink) = Len(file) + Len(buf) /\ GA \in Nat /\ GA >= 4
      /\ \A i \in 1..Len(file) : Cell(Sink, i) = file[i]
      /\ count[1] \in Nat /\ flushed[1] \in Nat /\ growBytes \in Nat /\ R \in Nat
  BY NowFacts, CountFacts, PlainFacts DEF GInv
<1>7. Len(file) = GA + growBytes /\ Off(Sink) = Len(file)
  BY <1>5, <1>6
<1>8. SizeInv'
  BY <1>1, <1>2, <1>3 DEF GInv, SizeInv, Writing
<1>9. ShapeInv'
  BY <1>1, <1>3, <1>5 DEF GInv, ShapeInv
<1>10. DiskInv'
  <2>1. CASE disk' = disk
    BY <1>1, <1>3, <2>1 DEF GInv, DiskInv
  <2>2. CASE disk' = file
    <3>1. \A i \in 1..Len(file) : CellOK(file[i], i)
      BY <1>6, <1>7 DEF GInv, ShapeInv
    <3>2. Len(file) >= GA + flushed[1] * R /\ Len(file) >= GA
      <4>1. flushed[1] <= count[1] /\ growBytes = count[1] * R
        BY DEF GInv, SizeInv
      <4>2. PICK a \in Nat : a = flushed[1] * R /\ a <= growBytes
        BY <1>6, <4>1, Monotone
      <4> QED
        BY <1>6, <1>7, <4>2
    <3>3. /\ Len(file) >= 2 /\ file[2].first = 3 => Cell(Sink, 2).first = 3
          /\ Len(file) >= 3 /\ file[3].data = GA => Cell(Sink, 3).data = GA
      BY <1>6
    <3> QED
      BY <1>1, <1>2, <1>3, <1>6, <2>2, <3>1, <3>2, <3>3 DEF DiskInv
  <2> QED
    BY <1>1, <2>1, <2>2
<1>11. PatchInv'
  BY <1>1, <1>2, <1>3, <1>4, <1>5 DEF PatchInv, AllApplied, Applied, TreeWaits
<1> QED
  BY <1>8, <1>9, <1>10, <1>11 DEF GInv

(* begin: the metadata and the header of the growing block.                *)
LEMMA BeginCells ==
    ASSUME Plain, IsSink(Sink), Off(Sink) = 0, NEW meta, meta = Put(Sink, Metadata),
           NEW sk, sk = PutBlock(meta, GrowHeader)
    PROVE  /\ Extended(Sink, sk) /\ Off(sk) = GA /\ BlockAddr(meta, GrowHeader) = GA
           /\ \A i \in 1..GA : FreshCell(Cell(sk, i), i) /\ (i = 3 => Cell(sk, i).data = 0)
<1>1. /\ AnySeq(Metadata) /\ Len(Metadata) = 3 /\ Metadata[1] = IDCell({0, 2}) /\ Metadata[2] = HDCell
      /\ Metadata[3] = DGCell(0, R, <<>>) /\ GA \in Nat /\ GA >= 4
  BY MetadataFacts, PlainMetadata, PlainFacts
<1>2. /\ Extended(Sink, meta) /\ Off(meta) = Off(Sink) + Len(Metadata)
      /\ \A i \in 1..Len(Metadata) : Cell(meta, Off(Sink) + i) = Metadata[i]
  BY <1>1, PutExtends
<1>3. Off(meta) = 3 /\ \A i \in 1..3 : Cell(meta, i) = Metadata[i]
  BY <1>1, <1>2
<1>4. IsSink(meta)
  BY <1>2 DEF Extended
<1>5. AnySeq(GrowHeader) /\ Len(GrowHeader) = 1 /\ GrowHeader[1] = Header("DT", 0)
  BY OneFacts DEF GrowHeader
<1>6. PICK pad : pad = (-3) % Align
  OBVIOUS
<1>7. /\ Extended(meta, sk) /\ pad \in Nat
      /\ Off(sk) = Off(meta) + pad + Len(GrowHeader)
      /\ \A i \in 1..pad : Cell(sk, Off(meta) + i) = PadCell
      /\ \A i \in 1..Len(GrowHeader) : Cell(sk, Off(meta) + pad + i) = GrowHeader[i]
  <2>1. pad = (-Off(meta)) % Align
    BY <1>3, <1>6
  <2> QED
    BY <1>4, <1>5, <2>1, PutBlockExtends
<1>8. GA = 4 + pad
  BY <1>6 DEF GA
<1>9. Off(sk) = GA
  BY <1>3, <1>5, <1>7, <1>8
<1>10. BlockAddr(meta, GrowHeader) = GA
  <2>1. BlockAddr(meta, GrowHeader) = Off(sk) - Len(GrowHeader) + 1
    BY DEF BlockAddr
  <2> QED
    BY <1>1, <1>5, <1>9, <2>1
<1>11. Extended(Sink, sk)
  BY <1>2, <1>7, ExtendTwice
<1>12. Cell(sk, 1) = IDCell({0, 2}) /\ Cell(sk, 2) = HDCell /\ Cell(sk, 3) = DGCell(0, R, <<>>)
  BY <1>1, <1>3, <1>7 DEF Extended
<1>13. \A i \in 4..(GA - 1) : Cell(sk, i) = PadCell
  <2> SUFFICES ASSUME NEW i \in 4..(GA - 1) PROVE Cell(sk, i) = PadCell
    OBVIOUS
  <2>1. i - 3 \in 1..pad /\ 3 + (i - 3) = i
    BY <1>1, <1>7, <1>8
  <2> QED
    BY <1>3, <1>7, <2>1
<1>14. Cell(sk, GA) = Header("DT", 0)
  <2>1. 3 + pad + 1 = GA /\ 1 \in 1..1
    BY <1>7, <1>8
  <2> QED
    BY <1>3, <1>5, <1>7, <2>1
<1>15. ASSUME NEW i \in 1..GA PROVE FreshCell(Cell(sk, i), i) /\ (i = 3 => Cell(sk, i).data = 0)
  <2>1. i = 1 \/ i = 2 \/ i = 3 \/ i \in 4..(GA - 1) \/ i = GA
    BY <1>1
  <2>2. CASE i = 1
    <3>1. \A u : DOMAIN IDCell(u) = {"t", "unfin"} /\ IDCell(u).t = "ID" /\ IDCell(u).unfin = u
      BY DEF IDCell
    <3> QED
      BY <1>1, <1>12, <2>2, <3>1 DEF FreshCell, CellOK
  <2>3. CASE i = 2
    <3>1. DOMAIN HDCell = {"t", "first"} /\ HDCell.t = "HD" /\ HDCell.first = 0
      BY DEF HDCell, NIL
    <3> QED
      BY <1>1, <1>12, <2>3, <3>1 DEF FreshCell, CellOK
  <2>4. CASE i = 3
    <3> DEFINE c == DGCell(0, R, <<>>)
    <3>1. /\ DOMAIN c = {"t", "next", "data", "cycles", "rec", "cns"} /\ c.t = "DG" /\ c.next = 0
          /\ c.data = 0 /\ c.cycles = 0 /\ c.rec = R /\ c.cns = <<>>
      BY DEF DGCell, NIL
    <3> HIDE DEF c
    <3> QED
      BY <1>1, <1>12, <2>4, <3>1 DEF FreshCell, CellOK, c
  <2>5. CASE i \in 4..(GA - 1)
    BY <1>1, <1>13, <2>5 DEF FreshCell, CellOK
  <2>6. CASE i = GA
    <3>1. DOMAIN Header("DT", 0) = {"t", "len"} /\ Header("DT", 0).t = "DT" /\ Header("DT", 0).len = 0
      BY DEF Header
    <3> QED
      BY <1>1, <1>14, <2>6, <3>1 DEF FreshCell, CellOK
  <2> QED
    BY <2>1, <2>2, <2>3, <2>4, <2>5, <2>6
<1> QED
  BY <1>9, <1>10, <1>11, <1>15

(* begin writes the metadata and the header of the growing block, or fails *)
(* before it is done.                                                      *)
LEMMA BeginG ==
    ASSUME Plain, WInv, WInv', GInv, Begin
    PROVE  GInv'
<1>0. PICK meta, sk : meta = Put(Sink, Metadata) /\ sk = PutBlock(meta, GrowHeader)
  OBVIOUS
<1>1. /\ pc = "begin" /\ started' = TRUE
      /\ \/ /\ Reach(sk) /\ pc' = "patch" /\ growAddr' = BlockAddr(meta, GrowHeader)
            /\ patches' = patches \o BeginPatches(growAddr')
         \/ Fails(sk) /\ Return /\ UNCHANGED <<growAddr, patches>>
      /\ UNCHANGED <<disk, closed, growBytes, pi, count, li, acked, flushed>>
  BY <1>0, Zenon DEF Begin, Succeed, hist, Plain
<1>2. IsSink(Sink) /\ err \in BOOLEAN /\ Off(Sink) = 0 /\ ~err /\ ~started
  BY <1>1 DEF WInv, TypeInv, StageInv, HeadInv
<1>3. /\ Extended(Sink, sk) /\ Off(sk) = GA /\ BlockAddr(meta, GrowHeader) = GA
      /\ \A i \in 1..GA : FreshCell(Cell(sk, i), i) /\ (i = 3 => Cell(sk, i).data = 0)
  BY <1>0, <1>2, BeginCells
<1>4. /\ Len(file) <= Len(file') /\ Off(Sink)' <= Off(sk)
      /\ \A i \in 1..Off(Sink)' : Cell(Sink, i)' = Cell(sk, i)
      /\ Reach(sk) => err' = err /\ Off(Sink)' = Off(sk)
      /\ Fails(sk) => err' = TRUE
  BY <1>1, <1>2, <1>3, WriteOutcome
<1>5. /\ GA \in Nat /\ GA >= 4 /\ growBytes = 0 /\ count[1] = 0 /\ patches = <<>> /\ Len(disk) = 0 /\ li = 1
      /\ flushed[1] = 0 /\ Off(Sink)' \in Nat /\ Len(file') \in Nat
  <2>1. count[1] = 0 /\ patches = <<>> /\ Len(disk) = 0 /\ li = 1 /\ flushed[1] <= count[1]
    BY <1>2 DEF GInv, SizeInv, DiskInv
  <2>2. GA \in Nat /\ GA >= 4 /\ R \in Nat /\ flushed[1] \in Nat
    BY PlainFacts, CountFacts DEF GInv
  <2>3. growBytes = 0
    BY <2>1, <2>2 DEF GInv, SizeInv
  <2> QED
    BY <2>1, <2>2, <2>3, NextFacts
<1>6. \A i \in 1..Off(Sink)' : FreshCell(Cell(Sink, i)', i) /\ (i = 3 => Cell(Sink, i)'.data = 0)
  BY <1>3, <1>4, <1>5
<1>7. \/ pc' = "patch" /\ ~err' /\ Off(Sink)' = GA /\ growAddr' = GA /\ patches' = <<P1, P2>>
      \/ pc' = "idle" /\ err' /\ patches' = patches
      \/ pc' = "done" /\ res' = "error" /\ err' /\ patches' = patches
  <2>1. BeginPatches(GA) = <<P1, P2>>
    <3>1. BeginPatches(GA) = <<P1>> \o <<P2>>
      BY GroupAddress, Zenon DEF BeginPatches, P1, P2, Plain
    <3> QED
      BY <3>1, PairFacts, Zenon
  <2>2. <<>> \o <<P1, P2>> = <<P1, P2>>
    <3>1. <<P1, P2>> \in Seq({P1, P2})
      BY PairFacts
    <3> QED
      BY <3>1, ConcatEmptySeq
  <2>3. CASE Reach(sk) /\ pc' = "patch" /\ growAddr' = BlockAddr(meta, GrowHeader) /\ patches' = patches \o BeginPatches(growAddr')
    <3>1. growAddr' = GA /\ patches = <<>>
      BY <1>3, <1>5, <2>3
    <3>2. patches' = <<P1, P2>>
      BY <2>1, <2>2, <2>3, <3>1, Zenon
    <3> QED
      BY <1>2, <1>3, <1>4, <2>3, <3>1, <3>2
  <2>4. CASE Fails(sk) /\ Return /\ UNCHANGED <<growAddr, patches>>
    <3>1. pc' = "idle" \/ (pc' = "done" /\ res' = "error")
      BY <2>4 DEF Return
    <3> QED
      BY <1>4, <2>4, <3>1
  <2> QED
    BY <1>1, <2>3, <2>4
<1>8. SizeInv'
  BY <1>1, <1>2, <1>3, <1>4, <1>5, <1>7 DEF GInv, SizeInv, Writing
<1>9. ShapeInv'
  <2>1. \A i \in 1..Off(Sink)' : CellOK(Cell(Sink, i)', i)
    BY <1>6 DEF FreshCell
  <2>2. Off(Sink)' >= 3 => Cell(Sink, 3)'.data # GA
    BY <1>5, <1>6
  <2>3. Off(Sink)' >= GA => Cell(Sink, GA)'.len = 0
    BY <1>5, <1>6 DEF FreshCell
  <2> QED
    BY <1>6, <2>1, <2>2, <2>3 DEF ShapeInv
<1>10. DiskInv'
  BY <1>1, <1>5 DEF DiskInv
<1>11. PatchInv'
  <2>1. Off(Sink)' >= 1 => Cell(Sink, 1)'.unfin # {}
    BY <1>5, <1>6, FreshHead
  <2>2. P1' = P1 /\ P2' = P2
    BY DEF P1, P2, Patch
  <2>3. patches' = <<>> \/ patches' = <<P1, P2>>
    BY <1>5, <1>7
  <2>4. Writing' => TreeWaits'
    BY <1>7, <2>2 DEF Writing, TreeWaits
  <2> QED
    BY <1>1, <1>5, <1>7, <2>1, <2>2, <2>3, <2>4 DEF PatchInv
<1> QED
  BY <1>8, <1>9, <1>10, <1>11 DEF GInv

(* Append writes a record behind the others, whole or in part.             *)
LEMMA StoreRecordG ==
    ASSUME Plain, WInv, WInv', GInv, StoreRecord
    PROVE  GInv'
<1>0. PICK bytes, sk : bytes = RecordBytes(1) /\ sk = Put(Sink, bytes)
  OBVIOUS
<1>1. /\ pc = "record" /\ call.g = 1 /\ ~closed /\ started /\ li = 1
      /\ count \in [Groups -> Nat] /\ acked \in [Groups -> Nat]
      /\ IsSink(Sink) /\ err \in BOOLEAN
  <2>1. pc = "record"
    BY DEF StoreRecord
  <2> QED
    BY <2>1, PlainFacts DEF WInv, TypeInv, CallInv, StageInv, Busy, GInv, SizeInv
<1>2. /\ count' = [count EXCEPT ![1] = @ + 1]
      /\ growBytes' = growBytes + R
      /\ (Reach(sk) /\ Succeed("idle")) \/ (Fails(sk) /\ Return)
      /\ acked' = (IF res' = "ok" THEN [acked EXCEPT ![1] = @ + 1] ELSE acked)
      /\ UNCHANGED <<disk, started, closed, growAddr, patches, pi, li, flushed>>
  BY <1>0, <1>1, Zenon DEF StoreRecord, Plain, R
<1>3. pc' = "idle" /\ (Reach(sk) => res' = "ok" \/ Fails(sk)) /\ (Reach(sk) \/ Fails(sk))
  BY <1>1, <1>2 DEF Succeed, Return
<1>4. /\ R \in Nat /\ R >= 1 /\ GA \in Nat /\ GA >= 4 /\ growBytes \in Nat /\ count[1] \in Nat
      /\ NStr[1] = 0 /\ flushed[1] \in Nat /\ 1 \in Groups
  BY PlainFacts, CountFacts DEF GInv, SizeInv
<1>4a. growBytes = count[1] * R
  BY DEF GInv, SizeInv
<1>5. AnySeq(bytes) /\ Len(bytes) = R /\ \A i \in 1..R : bytes[i] = Byte(<<1, 0>>, growBytes + i, 0)
  <2>1. bytes = [i \in 1..R |-> Byte(<<1, 0>>, growBytes + i, IF i <= 0 THEN call.offs[i] ELSE 0)]
    BY <1>0, <1>4, <1>4a, Zenon DEF RecordBytes, R
  <2>2. DOMAIN bytes = 1..R /\ bytes = [i \in 1..R |-> bytes[i]]
    BY <2>1
  <2>3. AnySeq(bytes) /\ Len(bytes) = R
    BY <1>4, <2>2, FunIsSeq
  <2>4. \A i \in 1..R : bytes[i] = Byte(<<1, 0>>, growBytes + i, 0)
    <3> SUFFICES ASSUME NEW i \in 1..R PROVE bytes[i] = Byte(<<1, 0>>, growBytes + i, 0)
      OBVIOUS
    <3>1. ~(i <= 0)
      BY <1>4
    <3> QED
      BY <2>1, <3>1
  <2> QED
    BY <2>3, <2>4
<1>6. /\ Extended(Sink, sk) /\ Off(sk) = Off(Sink) + R
      /\ \A i \in 1..R : Cell(sk, Off(Sink) + i) = bytes[i]
  BY <1>0, <1>1, <1>5, PutExtends
<1>7. /\ Len(file) <= Len(file') /\ Off(Sink)' <= Off(sk)
      /\ \A i \in 1..Off(Sink)' : Cell(Sink, i)' = Cell(sk, i)
      /\ Reach(sk) => err' = err /\ Off(Sink)' = Off(sk)
      /\ Fails(sk) => err' = TRUE
      /\ err' \in BOOLEAN /\ (err => err' /\ file' = file /\ buf' = buf)
  BY <1>1, <1>3, <1>6, WriteOutcome
<1>8. /\ Len(disk) \in Nat /\ Len(file) \in Nat /\ Len(file') \in Nat /\ Off(Sink) \in Nat /\ Off(Sink)' \in Nat
      /\ Len(buf) \in Nat /\ Len(buf') \in Nat /\ Off(Sink) = Len(file) + Len(buf)
      /\ Off(Sink)' = Len(file') + Len(buf')
  BY NowFacts, NextFacts
<1>9. Off(Sink) <= GA + growBytes /\ (~err => Off(Sink) = GA + growBytes /\ growAddr = GA)
  BY <1>1 DEF GInv, SizeInv, Writing
<1>9a. Off(Sink)' <= Off(Sink) + R /\ (Reach(sk) => Off(Sink)' = Off(Sink) + R)
  BY <1>6, <1>7
<1>10. \A i \in 1..Off(Sink) : FreshCell(Cell(Sink, i), i)
  BY <1>1 DEF GInv, ShapeInv
<1>11. \A i \in 1..Off(Sink) : i <= Off(Sink)' => Cell(Sink, i)' = Cell(Sink, i)
  BY <1>6, <1>7, <1>8 DEF Extended
<1>12. \A i \in 1..Off(Sink)' : FreshCell(Cell(Sink, i)', i)
  <2> SUFFICES ASSUME NEW i \in 1..Off(Sink)' PROVE FreshCell(Cell(Sink, i)', i)
    OBVIOUS
  <2>1. CASE i <= Off(Sink)
    BY <1>8, <1>10, <1>11, <2>1
  <2>2. CASE ~(i <= Off(Sink))
    <3>1. ~err
      <4>1. err => Off(Sink)' = Off(Sink)
        BY <1>7, <1>8
      <4> QED
        BY <1>8, <2>2, <4>1
    <3>2. i - Off(Sink) \in 1..R /\ Off(Sink) + (i - Off(Sink)) = i /\ growBytes + (i - Off(Sink)) = i - GA /\ i > GA
      BY <1>4, <1>8, <1>9, <1>9a, <2>2, <3>1
    <3>3. Cell(Sink, i)' = Byte(<<1, 0>>, i - GA, 0)
      BY <1>5, <1>6, <1>7, <3>2
    <3>4. i # 1 /\ i # 2 /\ i # 3 /\ ~(i \in 4..(GA - 1)) /\ i # GA
      BY <1>4, <3>2
    <3> QED
      BY <3>3, <3>4 DEF FreshCell, CellOK
  <2> QED
    BY <2>1, <2>2
<1>13. Off(Sink)' <= GA + growBytes' /\ (~err' => ~err /\ Off(Sink)' = GA + growBytes')
  <2>1. err => Off(Sink)' = Off(Sink)
    BY <1>7, <1>8
  <2>2. ~err' => ~err /\ Off(Sink)' = Off(Sink) + R
    BY <1>3, <1>7, <1>9a
  <2>3. growBytes' = growBytes + R /\ err \in BOOLEAN
    BY <1>1, <1>2
  <2> QED
    BY <1>4, <1>8, <1>9, <1>9a, <2>1, <2>2, <2>3
<1>14. SizeInv'
  <2>1. count' \in [Groups -> Nat] /\ acked' \in [Groups -> Nat] /\ count'[1] = count[1] + 1
    BY <1>1, <1>2, <1>4
  <2>2. growBytes' = count'[1] * R
    <3>1. (count[1] + 1) * R = count[1] * R + R
      BY <1>4, Monotone
    <3> QED
      BY <1>2, <1>4a, <2>1, <3>1
  <2>3. flushed[1] <= count'[1]
    BY <1>4, <2>1 DEF GInv, SizeInv
  <2>4. ~err' => acked' = count'
    <3>1. ~err' => res' = "ok" /\ acked = count
      BY <1>3, <1>7, <1>13 DEF GInv, SizeInv
    <3> QED
      BY <1>2, <3>1
  <2> QED
    BY <1>1, <1>2, <1>9, <1>13, <2>1, <2>2, <2>3, <2>4 DEF GInv, SizeInv, Writing
<1>15. ShapeInv'
  <2>1. \A i \in 1..Off(Sink)' : CellOK(Cell(Sink, i)', i)
    BY <1>12 DEF FreshCell
  <2>2. ASSUME Off(Sink)' >= 3, Cell(Sink, 3)'.data = GA PROVE Len(file') >= GA
    <3>1. Off(Sink) >= 3
      <4>1. err => Off(Sink)' = Off(Sink)
        BY <1>7, <1>8
      <4> QED
        BY <1>1, <1>4, <1>8, <1>9, <2>2, <4>1
    <3>2. Cell(Sink, 3).data = GA
      BY <1>8, <1>11, <2>2, <3>1
    <3>3. Len(file) >= GA
      BY <1>1, <3>1, <3>2 DEF GInv, ShapeInv
    <3> QED
      BY <1>4, <1>7, <1>8, <3>3
  <2>3. Off(Sink)' >= GA => Cell(Sink, GA)'.len = 0
    BY <1>4, <1>8, <1>12 DEF FreshCell
  <2> QED
    BY <1>12, <2>1, <2>2, <2>3 DEF ShapeInv
<1>16. DiskInv'
  <2>1. Len(disk) <= Len(file)
    BY DEF GInv, DiskInv
  <2>2. Len(disk) <= Len(file')
    BY <1>7, <1>8, <2>1
  <2>3. \A i \in 1..Len(disk) : Cell(Sink, i)' = Cell(Sink, i)
    BY <1>8, <1>11, <2>1, <2>2
  <2>4. /\ Len(disk) >= 2 /\ disk[2].first = 3 => Cell(Sink, 2)'.first = 3
        /\ Len(disk) >= 3 /\ disk[3].data = GA => Cell(Sink, 3)'.data = GA
    BY <1>8, <2>3 DEF GInv, DiskInv
  <2> QED
    BY <1>1, <1>2, <1>3, <2>2, <2>4 DEF GInv, DiskInv
<1>17. PatchInv'
  <2>1. Off(Sink)' >= 1 => Cell(Sink, 1)'.unfin # {}
    BY <1>8, <1>12, FreshHead
  <2>2. P1' = P1 /\ P2' = P2
    BY DEF P1, P2, Patch
  <2>3. patches = <<>> \/ patches = <<P1, P2>>
    BY <1>1 DEF GInv, PatchInv
  <2>4. ASSUME Writing' PROVE (TreeWaits \/ (Applied(P1) /\ Applied(P2)))'
    <3>0. ~err' /\ ~err
      BY <1>13, <2>4 DEF Writing
    <3>1. TreeWaits \/ (Applied(P1) /\ Applied(P2))
      BY <1>1, <3>0 DEF GInv, PatchInv, Writing
    <3>2. CASE patches = <<P1, P2>>
      BY <1>2, <2>2, <3>2 DEF TreeWaits
    <3>3. CASE Applied(P1) /\ Applied(P2)
      <4>1. P1.at = 2 /\ P2.at = 3
        BY DEF P1, P2, Patch
      <4>2. Cell(Sink, 2)' = Cell(Sink, 2) /\ Cell(Sink, 3)' = Cell(Sink, 3)
        <5>1. growBytes' = growBytes + R
          BY <1>2
        <5>2. Off(Sink) >= 3 /\ Off(Sink)' >= 3
          BY <1>4, <1>8, <1>9, <1>13, <3>0, <5>1
        <5>3. 2 \in 1..Off(Sink) /\ 3 \in 1..Off(Sink) /\ 2 <= Off(Sink)' /\ 3 <= Off(Sink)'
          BY <1>8, <5>2
        <5> QED
          BY <1>11, <5>3
      <4> QED
        BY <2>2, <3>3, <4>1, <4>2 DEF Applied
    <3>4. TreeWaits => patches = <<P1, P2>>
      <4>1. patches = <<>> => Len(patches) = 0
        BY PatchLists
      <4> QED
        BY <2>3, <4>1, PatchLists DEF TreeWaits
    <3> QED
      BY <3>1, <3>2, <3>3, <3>4
  <2> QED
    BY <1>1, <1>2, <1>3, <2>1, <2>2, <2>3, <2>4 DEF PatchInv
<1> QED
  BY <1>14, <1>15, <1>16, <1>17 DEF GInv

(* The power is lost: every cell left is one of the file or of the disk.   *)
LEMMA PowerLossCells ==
    ASSUME WInv, PowerLoss
    PROVE  /\ Len(disk) <= Len(file') /\ Len(file') <= Len(file) /\ Len(file') \in Nat
           /\ \A i \in 1..Len(file') : \/ i <= Len(file) /\ file'[i] = file[i]
                                       \/ i <= Len(disk) /\ file'[i] = disk[i]
           /\ \A i \in 1..Len(file') : i > Len(disk) => file'[i] = file[i]
           /\ disk' = file' /\ Off(Sink)' = Len(file')
           /\ \A i \in 1..Len(file') : Cell(Sink, i)' = file'[i]
<1>1. disk' = file' /\ buf' = <<>> /\ WInv'
  BY PowerLossInv DEF PowerLoss
<1>2. Len(file) \in Nat /\ Len(disk) \in Nat
  BY NowFacts
<1>3. PICK n \in Len(disk)..Len(file), S \in SUBSET {i \in 1..Len(disk) : disk[i] # file[i]} :
         file' = [i \in 1..n |-> IF i <= Len(disk) /\ i \notin S THEN disk[i] ELSE file[i]]
  BY DEF PowerLoss
<1>4. n \in Nat /\ n <= Len(file) /\ Len(disk) <= n
  BY <1>2, <1>3
<1>5. Len(file') = n
  <2>1. DOMAIN file' = 1..n /\ file' = [i \in 1..n |-> file'[i]]
    BY <1>3
  <2> QED
    BY <1>4, <2>1, FunIsSeq
<1>6. ASSUME NEW i \in 1..n
      PROVE  /\ (i <= Len(file) /\ file'[i] = file[i]) \/ (i <= Len(disk) /\ file'[i] = disk[i])
             /\ i > Len(disk) => file'[i] = file[i]
  BY <1>2, <1>3, <1>4
<1>7. Off(Sink)' = Len(file') /\ \A i \in 1..Len(file') : Cell(Sink, i)' = file'[i]
  <2>1. /\ Len(file') \in Nat /\ Off(Sink)' = Len(file') + Len(buf')
        /\ \A i \in 1..Len(file') : Cell(Sink, i)' = file'[i]
    BY <1>1, NextFacts
  <2>2. Len(buf') = 0
    BY <1>1, OneFacts
  <2> QED
    BY <2>1, <2>2
<1> QED
  BY <1>1, <1>4, <1>5, <1>6, <1>7

(* A power loss leaves a prefix of the appended cells, and of the cells that*)
(* were patched since the last fsync any choice.                           *)
LEMMA PowerLossG ==
    ASSUME Plain, WInv, WInv', GInv, PowerLoss
    PROVE  GInv'
<1>1. /\ pc \notin {"crashed", "done"} /\ pc' = "crashed"
      /\ UNCHANGED <<res, err, started, closed, growAddr, growBytes, patches, pi, count, li, acked, flushed>>
  BY DEF PowerLoss, wvars, hist
<1>2. /\ Len(disk) <= Len(file') /\ Len(file') <= Len(file) /\ Len(file') \in Nat
      /\ \A i \in 1..Len(file') : \/ i <= Len(file) /\ file'[i] = file[i]
                                  \/ i <= Len(disk) /\ file'[i] = disk[i]
      /\ disk' = file' /\ Off(Sink)' = Len(file')
      /\ \A i \in 1..Len(file') : Cell(Sink, i)' = file'[i]
  BY PowerLossCells
<1>3. /\ Len(disk) \in Nat /\ Len(file) \in Nat /\ Len(buf) \in Nat /\ Off(Sink) = Len(file) + Len(buf)
      /\ \A i \in 1..Len(file) : Cell(Sink, i) = file[i]
      /\ growBytes \in Nat /\ GA \in Nat /\ flushed[1] \in Nat /\ R \in Nat
  BY NowFacts, CountFacts, PlainFacts DEF GInv
<1>4. \A i \in 1..Len(file) : CellOK(file[i], i) /\ (li = 1 => FreshCell(file[i], i))
  BY <1>3 DEF GInv, ShapeInv
<1>5. \A i \in 1..Len(disk) : CellOK(disk[i], i) /\ FreshCell(disk[i], i)
  BY <1>1 DEF GInv, DiskInv
<1>6. \A i \in 1..Len(file') : CellOK(file'[i], i) /\ (li = 1 => FreshCell(file'[i], i))
  BY <1>2, <1>3, <1>4, <1>5
<1>7. SizeInv'
  <2>1. Off(Sink)' <= GA + growBytes
    <3>1. Off(Sink) <= GA + growBytes
      BY DEF GInv, SizeInv
    <3> QED
      BY <1>2, <1>3, <3>1
  <2> QED
    BY <1>1, <2>1 DEF GInv, SizeInv, Writing
<1>8. ShapeInv'
  BY <1>1, <1>2, <1>6 DEF ShapeInv
<1>9. DiskInv'
  <2>1. flushed[1] > 0 => Len(file') >= GA + flushed[1] * R
    <3>1. flushed[1] > 0 => Len(disk) >= GA + flushed[1] * R
      BY DEF GInv, DiskInv
    <3>2. PICK a \in Nat : a = flushed[1] * R
      BY <1>3, Monotone
    <3> QED
      BY <1>2, <1>3, <3>1, <3>2
  <2>2. ~started => Len(file') = 0
    <3>1. ~started => Off(Sink) = 0
      BY DEF WInv, HeadInv
    <3> QED
      BY <1>2, <1>3, <3>1
  <2>3. /\ Len(file') >= 2 /\ file'[2].first = 3 => Cell(Sink, 2)'.first = 3
        /\ Len(file') >= 3 /\ file'[3].data = GA => Cell(Sink, 3)'.data = GA
    BY <1>2
  <2> QED
    BY <1>1, <1>2, <1>6, <2>1, <2>2, <2>3 DEF DiskInv
<1>10. PatchInv'
  <2>1. P1' = P1 /\ P2' = P2
    BY DEF P1, P2, Patch
  <2> QED
    BY <1>1, <2>1 DEF GInv, PatchInv, Writing
<1> QED
  BY <1>7, <1>8, <1>9, <1>10 DEF GInv

(* Every step of the writer keeps the invariant of the growing layout.     *)
LEMMA GInvNext == Plain /\ WInv /\ GInv /\ [Next]_vars => GInv'
<1> SUFFICES ASSUME Plain, WInv, GInv, [Next]_vars PROVE GInv'
  OBVIOUS
<1>1. WInv'
  BY WInvNext
<1>2. CASE (\E g \in Groups : \E strs \in StrArgs(g) : AppendCall(g, strs)) \/ Close
  BY <1>2, CallsG
<1>3. CASE Flush
  BY <1>1, <1>3, FlushG
<1>4. CASE Begin
  BY <1>1, <1>4, BeginG
<1>5. CASE FlushForPatches
  BY <1>1, <1>5, FlushForPatchesG
<1>6. CASE ApplyPatch
  BY <1>1, <1>6, ApplyPatchG
<1>7. CASE PatchesApplied
  BY <1>1, <1>7, PatchesAppliedG
<1>8. CASE StoreLength \/ StoreValue
  <2>1. pc = "length" \/ pc = "value"
    BY <1>8 DEF StoreLength, StoreValue
  <2>2. call.g = 1 /\ NStr[1] = 0 /\ Len(OffsOf(call)) \in Nat
    BY PlainFacts, AnySeqFacts DEF WInv, CallInv
  <2> QED
    BY <2>1, <2>2 DEF WInv, CallInv
<1>9. CASE StoreRecord
  BY <1>1, <1>9, StoreRecordG
<1>10. CASE LinkStream
  BY <1>1, <1>10, LinkStreamG
<1>11. CASE WriteFinalID
  BY <1>1, <1>11, WriteFinalIDG
<1>12. CASE SyncClose
  BY <1>1, <1>12, SyncCloseG
<1>13. CASE PowerLoss
  BY <1>1, <1>13, PowerLossG
<1>14. CASE UNCHANGED vars
  <2>1. /\ UNCHANGED <<file, disk, buf, err, growAddr, growBytes, patches, pi, count, li, acked, flushed, started>>
        /\ pc' = pc /\ res' = res
    BY <1>14 DEF vars, wvars, hist
  <2> QED
    BY <2>1, NothingWritten
<1> QED
  BY <1>2, <1>3, <1>4, <1>5, <1>6, <1>7, <1>8, <1>9, <1>10, <1>11, <1>12, <1>13, <1>14 DEF Next, Step

(* The growing layout keeps its invariant: what the file, the buffer and   *)
(* the disk hold, cell by cell, and which in-place writes are still to be  *)
(* done, for every record size, buffer, alignment and number of records.   *)
THEOREM GrowingInv ==
    ASSUME Plain
    PROVE  Spec => [](WInv /\ GInv)
<1>1. Init => WInv /\ GInv
  BY GInvInit, WInvInit
<1>2. (WInv /\ GInv) /\ [Next]_vars => (WInv /\ GInv)'
  BY GInvNext, WInvNext
<1> QED
  BY <1>1, <1>2, PTL DEF Spec

-----------------------------------------------------------------------------
(* What the reader makes of a file of this layout.                         *)

(* Dividing by a record size.                                              *)
LEMMA DivFacts ==
    ASSUME NEW a \in Nat, NEW c \in Nat, c >= 1
    PROVE  a \div c \in Nat /\ (a \div c) * c <= a /\ a < (a \div c) * c + c
  OBVIOUS

(* Bounds on a quotient from bounds on the dividend.                       *)
LEMMA DivBounds ==
    ASSUME NEW a \in Nat, NEW c \in Nat, c >= 1, NEW b \in Nat
    PROVE  /\ a <= b * c => a \div c <= b
           /\ b * c <= a => b <= a \div c
           /\ a = b * c => a \div c = b
  BY DivFacts

(* The length of the file only counts in whole records.                    *)
LEMMA DivMonotone ==
    ASSUME NEW a \in Nat, NEW b \in Nat, a <= b, NEW c \in Nat, c >= 1
    PROVE  a \div c <= b \div c
<1>1. a \div c \in Nat /\ (a \div c) * c <= a
  BY DivFacts
<1>2. (a \div c) * c \in Nat
  BY <1>1, Monotone
<1>3. (a \div c) * c <= b
  BY <1>1, <1>2
<1> QED
  BY <1>1, <1>3, DivBounds

Shaped(f) == AnySeq(f) /\ \A i \in 1..Len(f) : CellOK(f[i], i)

(* The header names the group and the group names the growing block.       *)
Tree(f) == Len(f) >= 3 /\ f[2].first = 3 /\ f[3].data = GA

(* The length of the growing block and the cycle counter fit the flags of  *)
(* the identification block.                                               *)
Sound(f) ==
    /\ Shaped(f) /\ Tree(f) /\ Len(f) >= GA
    /\ \/ f[1].unfin = {0, 2} /\ f[GA].len \in {0, Len(f) - GA}
       \/ f[1].unfin = {} /\ f[GA].len = Len(f) - GA /\ f[3].cycles * R = Len(f) - GA

(* What there is at an address.                                            *)
LEMMA Peeked ==
    ASSUME Plain, NEW f, Shaped(f)
    PROVE  /\ Len(f) \in Nat /\ DOMAIN f = 1..Len(f)
           /\ \A a \in 1..Len(f) : PeekID(f, a) = f[a].t
           /\ \A a : a \notin 1..Len(f) => PeekID(f, a) = "none"
           /\ \A a \in Nat : PeekID(f, a) = "DG" <=> a = 3 /\ Len(f) >= 3
           /\ \A a \in Nat : PeekID(f, a) # "DL"
           /\ Len(f) >= 1 => f[1].t = "ID" /\ f[1].unfin \in {{0, 2}, {}}
           /\ Len(f) >= 2 => f[2].t = "HD" /\ f[2].first \in {0, 3}
           /\ Len(f) >= 3 => /\ f[3].t = "DG" /\ f[3].next = 0 /\ f[3].data \in {0, GA}
                             /\ f[3].rec = R /\ f[3].cns = <<>> /\ f[3].cycles \in Nat
           /\ Len(f) >= GA => f[GA].t = "DT" /\ f[GA].len \in Nat
           /\ \A a \in (GA + 1)..Len(f) : f[a] = Byte(<<1, 0>>, a - GA, 0)
<1>1. Len(f) \in Nat /\ DOMAIN f = 1..Len(f) /\ GA \in Nat /\ GA >= 4
  BY AnySeqFacts, PlainFacts DEF Shaped
<1>2. /\ \A a \in 1..Len(f) : PeekID(f, a) = f[a].t
      /\ \A a : a \notin 1..Len(f) => PeekID(f, a) = "none"
  BY <1>1 DEF PeekID
<1>3. \A a \in 1..Len(f) : CellOK(f[a], a)
  BY DEF Shaped
<1>4. /\ Len(f) >= 1 => f[1].t = "ID" /\ f[1].unfin \in {{0, 2}, {}}
      /\ Len(f) >= 2 => f[2].t = "HD" /\ f[2].first \in {0, 3}
      /\ Len(f) >= 3 => /\ f[3].t = "DG" /\ f[3].next = 0 /\ f[3].data \in {0, GA}
                        /\ f[3].rec = R /\ f[3].cns = <<>> /\ f[3].cycles \in Nat
  <2>1. (Len(f) >= 1 => CellOK(f[1], 1)) /\ (Len(f) >= 2 => CellOK(f[2], 2)) /\ (Len(f) >= 3 => CellOK(f[3], 3))
    BY <1>1, <1>3
  <2> QED
    BY <2>1 DEF CellOK
<1>5. Len(f) >= GA => f[GA].t = "DT" /\ f[GA].len \in Nat
  <2>1. Len(f) >= GA => CellOK(f[GA], GA)
    BY <1>1, <1>3
  <2> QED
    BY <2>1 DEF CellOK
<1>6. \A a \in (GA + 1)..Len(f) : f[a] = Byte(<<1, 0>>, a - GA, 0)
  <2> SUFFICES ASSUME NEW a \in (GA + 1)..Len(f) PROVE f[a] = Byte(<<1, 0>>, a - GA, 0)
    OBVIOUS
  <2>1. a \in 1..Len(f) /\ a > GA
    BY <1>1
  <2> QED
    BY <1>3, <2>1 DEF CellOK
<1>7. \A a \in 4..(GA - 1) : a \in 1..Len(f) => f[a].t = "PAD"
  <2> SUFFICES ASSUME NEW a \in 4..(GA - 1), a \in 1..Len(f) PROVE f[a].t = "PAD"
    OBVIOUS
  <2>1. f[a] = PadCell
    BY <1>3 DEF CellOK
  <2> QED
    BY <2>1 DEF PadCell
<1>8. ASSUME NEW a \in 1..Len(f) PROVE f[a].t # "DL" /\ (a # 3 => f[a].t # "DG")
  <2>1. a = 1 \/ a = 2 \/ a = 3 \/ a \in 4..(GA - 1) \/ a = GA \/ a \in (GA + 1)..Len(f)
    BY <1>1
  <2>2. CASE a \in (GA + 1)..Len(f)
    <3>1. f[a].t = "B"
      <4>1. f[a] = Byte(<<1, 0>>, a - GA, 0)
        BY <1>6, <2>2
      <4> QED
        BY <4>1 DEF Byte
    <3> QED
      BY <3>1
  <2>3. CASE a = 1 \/ a = 2 \/ a = 3
    BY <1>1, <1>4, <2>3
  <2>4. CASE a \in 4..(GA - 1)
    BY <1>7, <2>4
  <2>5. CASE a = GA
    BY <1>1, <1>5, <2>5
  <2> QED
    BY <2>1, <2>2, <2>3, <2>4, <2>5
<1>9. \A a \in Nat : PeekID(f, a) # "DL" /\ (PeekID(f, a) = "DG" <=> a = 3 /\ Len(f) >= 3)
  <2> SUFFICES ASSUME NEW a \in Nat
               PROVE  PeekID(f, a) # "DL" /\ (PeekID(f, a) = "DG" <=> a = 3 /\ Len(f) >= 3)
    OBVIOUS
  <2>1. CASE a \in 1..Len(f)
    BY <1>1, <1>2, <1>4, <1>8, <2>1
  <2>2. CASE a \notin 1..Len(f)
    <3>1. PeekID(f, a) = "none" /\ ~(a = 3 /\ Len(f) >= 3)
      BY <1>1, <1>2, <2>2
    <3> QED
      BY <3>1
  <2> QED
    BY <2>1, <2>2
<1> QED
  BY <1>1, <1>2, <1>4, <1>5, <1>6, <1>9

(* buildTree finds the one group (the chain of group blocks ends at it).   *)
LEMMA OneGroup ==
    ASSUME Plain, NEW f, Shaped(f), Tree(f)
    PROVE  DGChain(f) = <<3>>
<1> DEFINE Eq(c) == c = [a \in Nat |-> IF PeekID(f, a) = "DG" THEN <<a>> \o c[f[a].next] ELSE <<>>]
           h == [a \in Nat |-> IF a = 3 THEN <<3>> ELSE <<>>]
<1>1. /\ \A a \in Nat : PeekID(f, a) = "DG" <=> a = 3
      /\ f[3].next = 0 /\ f[2].first = 3
  BY Peeked DEF Tree
<1>2. Eq(h)
  <2>1. h[0] = <<>> /\ <<3>> \o <<>> = <<3>>
    BY PairFacts
  <2>2. ASSUME NEW a \in Nat
        PROVE  h[a] = IF PeekID(f, a) = "DG" THEN <<a>> \o h[f[a].next] ELSE <<>>
    <3>1. CASE a = 3
      <4>1. <<a>> \o h[f[a].next] = <<3>>
        BY <1>1, <2>1, <3>1
      <4> QED
        BY <1>1, <3>1, <4>1
    <3>2. CASE a # 3
      BY <1>1, <3>2
    <3> QED
      BY <3>1, <3>2
  <2> QED
    BY <2>2, Zenon
<1>3. Eq(CHOOSE c : Eq(c))
  <2> HIDE DEF Eq
  <2> QED
    BY <1>2, Zenon
<1> DEFINE ch == CHOOSE c : Eq(c)
<1>4. DGChain(f) = ch[f[2].first]
  BY Zenon DEF DGChain
<1>5. ch = [a \in Nat |-> IF PeekID(f, a) = "DG" THEN <<a>> \o ch[f[a].next] ELSE <<>>]
  BY <1>3
<1> HIDE DEF ch
<1>6. ch[0] = <<>> /\ ch[3] = <<3>> \o ch[0]
  BY <1>1, <1>5
<1> QED
  BY <1>1, <1>4, <1>6, PairFacts

(* newFile opens the file when the growing block has been reached, and     *)
(* refuses it when it has not.                                             *)
LEMMA OpensFile ==
    ASSUME Plain, NEW f, Shaped(f), Tree(f)
    PROVE  /\ Sound(f) => OpenOK(f) /\ LayoutOK(f, 3)
           /\ f[1].unfin = {0, 2} /\ Len(f) < GA => ~OpenOK(f)
<1>1. /\ Len(f) \in Nat /\ Len(f) >= 3 /\ f[3].next = 0 /\ f[3].cns = <<>> /\ f[3].data = GA
      /\ GA \in Nat /\ GA >= 4 /\ f[1].unfin \in {{0, 2}, {}} /\ DOMAIN f = 1..Len(f)
      /\ PeekID(f, 1) = "ID" /\ PeekID(f, 2) = "HD" /\ PeekID(f, GA) # "DL"
      /\ Len(f) >= GA => PeekID(f, GA) = "DT"
      /\ Len(f) < GA => PeekID(f, GA) = "none"
  BY Peeked, PlainFacts DEF Tree
<1>2. DGChain(f) = <<3>> /\ Len(<<3>>) = 1 /\ <<3>>[1] = 3 /\ DOMAIN <<3>> = {1} /\ <<3>> # <<>>
  <2>1. Len(<<3>>) = 1 /\ <<3>>[1] = 3 /\ DOMAIN <<3>> = {1} /\ <<3>> # <<>>
    OBVIOUS
  <2> QED
    BY <2>1, OneGroup
<1>3. TreeOK(f)
  <2>1. Last(<<3>>) = 3
    BY <1>2 DEF Last
  <2>2. DOMAIN <<>> = {}
    OBVIOUS
  <2>3. \A i \in {1} : \A j \in DOMAIN f[<<3>>[i]].cns : PeekID(f, f[<<3>>[i]].cns[j]) = "CN"
    BY <1>1, <1>2, <2>2
  <2> DEFINE ch == <<3>>
  <2>4. /\ ch # <<>> /\ f[Last(ch)].next = NIL /\ DGChain(f) = ch
        /\ \A i \in DOMAIN ch : \A j \in DOMAIN f[ch[i]].cns : PeekID(f, f[ch[i]].cns[j]) = "CN"
    BY <1>1, <1>2, <2>1, <2>3 DEF NIL
  <2> HIDE DEF ch
  <2> QED
    BY <2>4, Zenon DEF TreeOK
<1>4. f[1].unfin \subseteq Fixable
  BY <1>1 DEF Fixable
<1>5. \A i \in DOMAIN DGChain(f) : DGChain(f)[i] = 3
  BY <1>2
<1>6. ASSUME Sound(f) PROVE LayoutOK(f, 3)
  <2>1. PeekID(f, GA) = "DT" /\ (Finalizing(f) \/ f[GA].len <= Len(f) - GA)
    <3>1. f[1].unfin = {0, 2} => Finalizing(f)
      <4>1. 0 \in {0, 2}
        OBVIOUS
      <4> QED
        BY <4>1 DEF Finalizing
    <3>2. f[GA].len = Len(f) - GA => f[GA].len <= Len(f) - GA
      BY <1>1
    <3> QED
      BY <1>1, <1>6, <3>1, <3>2 DEF Sound
  <2>2. ValidLeaf(f, GA, Finalizing(f))
    BY <2>1 DEF ValidLeaf, ValidStored, StoredIDs
  <2> QED
    BY <1>1, <2>2 DEF LayoutOK, SectionOK
<1>7. Sound(f) => OpenOK(f)
  BY <1>1, <1>3, <1>4, <1>5, <1>6, Zenon DEF OpenOK
<1>8. ASSUME f[1].unfin = {0, 2}, Len(f) < GA PROVE ~OpenOK(f)
  <2>1. ~ValidLeaf(f, GA, Finalizing(f))
    BY <1>1, <1>8 DEF ValidLeaf, ValidStored, StoredIDs
  <2>2. DLChain(f, GA) = <<>>
    <3> DEFINE Eq(c) == c = [x \in Nat |-> IF PeekID(f, x) = "DL" THEN <<x>> \o c[f[x].next] ELSE <<>>]
               h == [x \in Nat |-> <<>>]
    <3>1. \A x \in Nat : PeekID(f, x) # "DL"
      BY Peeked
    <3>2. Eq(h)
      BY <3>1
    <3>3. Eq(CHOOSE c : Eq(c))
      <4> HIDE DEF Eq
      <4> QED
        BY <3>2, Zenon
    <3> DEFINE ch == CHOOSE c : Eq(c)
    <3>4. DLChain(f, GA) = ch[GA]
      BY Zenon DEF DLChain
    <3>5. ch = [x \in Nat |-> IF PeekID(f, x) = "DL" THEN <<x>> \o ch[f[x].next] ELSE <<>>]
      BY <3>3
    <3> HIDE DEF ch
    <3> QED
      BY <1>1, <3>1, <3>4, <3>5
  <2>3. ~ChainOK(f, GA)
    BY <2>2, Zenon DEF ChainOK
  <2>4. ~LayoutOK(f, 3)
    BY <1>1, <2>1, <2>3 DEF LayoutOK, SectionOK, NIL
  <2>5. 0 \in f[1].unfin /\ 1 \in DOMAIN DGChain(f)
    BY <1>2, <1>8
  <2> QED
    BY <1>5, <2>4, <2>5, Zenon DEF OpenOK
<1> QED
  BY <1>6, <1>7, <1>8

(* The section of the records is the growing block, up to the end of the   *)
(* file (addStored clamps it there in an unfinalized file).                *)
LEMMA OneSegment ==
    ASSUME Plain, NEW f, Sound(f), NEW segs, segs = RecordSegs(f, 3), NEW n, n = Len(f) - GA
    PROVE  /\ n \in Nat /\ SectionSize(segs) = n
           /\ \A i \in 0..(n - 1) : Covered(segs, i) /\ ByteAt(segs, i) = Byte(<<1, 0>>, i + 1, 0)
<1>1. /\ Shaped(f) /\ Tree(f) /\ Len(f) \in Nat /\ Len(f) >= GA /\ GA \in Nat /\ GA >= 4 /\ f[3].data = GA
      /\ PeekID(f, GA) = "DT" /\ f[GA].t = "DT" /\ f[GA].len \in Nat
      /\ \A a \in (GA + 1)..Len(f) : f[a] = Byte(<<1, 0>>, a - GA, 0)
  BY Peeked, PlainFacts DEF Sound, Tree
<1>2. n \in Nat
  BY <1>1
<1>3. StoredLen(f, GA, Finalizing(f)) = n
  <2>1. CASE f[1].unfin = {0, 2} /\ f[GA].len \in {0, Len(f) - GA}
    <3>1. Finalizing(f)
      <4>1. 0 \in {0, 2}
        OBVIOUS
      <4> QED
        BY <2>1, <4>1 DEF Finalizing
    <3> QED
      BY <1>1, <2>1, <3>1 DEF StoredLen
  <2>2. CASE f[1].unfin = {} /\ f[GA].len = Len(f) - GA
    <3>1. ~Finalizing(f)
      BY <2>2 DEF Finalizing
    <3> QED
      BY <1>1, <2>2, <3>1 DEF StoredLen
  <2> QED
    BY <2>1, <2>2 DEF Sound
<1>4. PICK b, s : b = SubSeq(f, GA + 1, GA + n) /\ s = Segment(f, GA, 0, Finalizing(f))
  OBVIOUS
<1>5. s = [logical |-> 0, bytes |-> b]
  <2>1. f[GA].t # "DZ"
    BY <1>1
  <2> QED
    BY <1>3, <1>4, <2>1, Zenon DEF Segment
<1>6. s.logical = 0 /\ s.bytes = b
  BY <1>5
<1>7. segs = {s}
  <2>1. segs = Segments(f, GA, Finalizing(f))
    BY <1>1 DEF RecordSegs
  <2>2. GA # NIL /\ PeekID(f, GA) # "DL"
    BY <1>1 DEF NIL
  <2> QED
    BY <1>4, <2>1, <2>2, Zenon DEF Segments
<1>8. Len(b) = n /\ \A i \in 1..n : b[i] = f[GA + i]
  <2>1. AnySeq(f) /\ GA + 1 \in Nat \ {0} /\ GA + n \in Nat /\ GA + n <= Len(f) /\ GA + 1 <= GA + n + 1
    <3>1. AnySeq(f)
      BY <1>1 DEF Shaped
    <3>2. GA \in Nat /\ n \in Nat /\ Len(f) \in Nat /\ n = Len(f) - GA
      BY <1>1, <1>2
    <3> QED
      BY <3>1, <3>2
  <2>2. /\ Len(b) = (GA + n) - (GA + 1) + 1
        /\ \A i \in 1..((GA + n) - (GA + 1) + 1) : b[i] = f[(GA + 1) + i - 1]
    BY <1>4, <2>1, PartFacts
  <2>3. (GA + n) - (GA + 1) + 1 = n /\ \A i \in 1..n : (GA + 1) + i - 1 = GA + i
    BY <1>1, <1>2
  <2> QED
    BY <2>2, <2>3
<1>9. SectionSize(segs) = n
  <2>1. {r.logical + Len(r.bytes) : r \in segs} = {n}
    <3>1. s.logical + Len(s.bytes) = n
      BY <1>2, <1>6, <1>8
    <3> QED
      BY <1>7, <3>1
  <2>2. SectionSize(segs) = Max({0, n})
    <3>1. {0} \union {n} = {0, n}
      OBVIOUS
    <3> QED
      BY <2>1, <3>1, Zenon DEF SectionSize
  <2>3. n \in {0, n} /\ \A y \in {0, n} : n >= y
    BY <1>2
  <2> DEFINE Q(x) == \A y \in {0, n} : x >= y
             m == CHOOSE x \in {0, n} : Q(x)
  <2>4. m \in {0, n} /\ Q(m)
    <3>1. n \in {0, n} /\ Q(n)
      BY <2>3
    <3> HIDE DEF Q
    <3> QED
      BY <3>1, Zenon
  <2>5. Max({0, n}) = m
    BY Zenon DEF Max
  <2> HIDE DEF m
  <2> QED
    BY <1>2, <2>2, <2>4, <2>5
<1>10. ASSUME NEW i \in 0..(n - 1) PROVE Covered(segs, i) /\ ByteAt(segs, i) = Byte(<<1, 0>>, i + 1, 0)
  <2>1. s.logical <= i /\ i < 0 + n /\ i - 0 + 1 = i + 1 /\ i + 1 \in 1..n
    BY <1>2, <1>6
  <2>2. Owner(segs, i) = s
    <3> DEFINE Q(x) == x.logical <= i /\ \A r \in segs : r.logical <= i => r.logical <= x.logical
    <3>1. s \in segs /\ Q(s)
      BY <1>6, <1>7, <2>1
    <3>2. Owner(segs, i) = CHOOSE x \in segs : Q(x)
      BY Zenon DEF Owner
    <3>3. (CHOOSE x \in segs : Q(x)) \in segs
      <4> HIDE DEF Q
      <4> QED
        BY <3>1, Zenon
    <3> QED
      BY <1>7, <3>2, <3>3
  <2>3. Covered(segs, i)
    <3>1. i < s.logical + Len(s.bytes)
      BY <1>2, <1>6, <1>8, <2>1
    <3>2. \E r \in segs : r.logical <= i
      BY <1>7, <2>1
    <3> QED
      BY <2>2, <3>1, <3>2, Zenon DEF Covered
  <2>4. ByteAt(segs, i) = b[i + 1]
    <3>1. ByteAt(segs, i) = s.bytes[i - s.logical + 1]
      BY <2>2, Zenon DEF ByteAt
    <3> QED
      BY <1>6, <2>1, <3>1
  <2>5. GA + (i + 1) \in (GA + 1)..Len(f) /\ (GA + (i + 1)) - GA = i + 1
    BY <1>1, <1>2, <2>1
  <2>6. b[i + 1] = f[GA + (i + 1)]
    BY <1>8, <2>1
  <2> QED
    BY <1>1, <2>3, <2>4, <2>5, <2>6
<1> QED
  BY <1>2, <1>9, <1>10

(* What Open and Read give: the group, and every whole record the file     *)
(* holds, in order, with nothing else among them.                          *)
LEMMA ReadsWholeRecords ==
    ASSUME Plain, NEW f, Sound(f)
    PROVE  /\ GroupsFound(f) /\ GenuineRecords(f, 1)
           /\ Readable(f, 1) = (Len(f) - GA) \div R
<1>1. PICK segs, n : segs = RecordSegs(f, 3) /\ n = Len(f) - GA
  OBVIOUS
<1>2. /\ n \in Nat /\ SectionSize(segs) = n
      /\ \A i \in 0..(n - 1) : Covered(segs, i) /\ ByteAt(segs, i) = Byte(<<1, 0>>, i + 1, 0)
  BY <1>1, OneSegment
<1>3. Shaped(f) /\ Tree(f) /\ f[3].rec = R /\ R \in Nat /\ R >= 1 /\ NG = 1 /\ f[3].cycles \in Nat
  BY Peeked, PlainFacts DEF Sound, Tree
<1>4. DGChain(f) = <<3>> /\ Len(<<3>>) = 1 /\ <<3>>[1] = 3
  <2>1. Len(<<3>>) = 1 /\ <<3>>[1] = 3
    OBVIOUS
  <2> QED
    BY <1>3, <2>1, OneGroup
<1>5. GroupAt(f, 1) = 3
  BY <1>4 DEF GroupAt
<1>6. GroupsFound(f)
  BY <1>3, <1>4, OpensFile DEF GroupsFound
<1>7. PICK m : m = n \div R /\ m \in Nat
  BY <1>2, <1>3, DivFacts
<1>8. RecordCount(f, 3) = m
  <2>1. CASE f[1].unfin = {0, 2}
    <3>1. 0 \in f[1].unfin
      BY <2>1
    <3>2. RecordCount(f, 3) = SectionSize(segs) \div f[3].rec
      BY <1>1, <3>1, Zenon DEF RecordCount
    <3> QED
      BY <1>2, <1>3, <1>7, <3>2
  <2>2. CASE f[1].unfin = {} /\ f[3].cycles * R = Len(f) - GA
    <3>1. RecordCount(f, 3) = f[3].cycles
      <4>1. 0 \notin f[1].unfin
        BY <2>2
      <4> QED
        BY <4>1, Zenon DEF RecordCount
    <3>2. n = f[3].cycles * R
      BY <1>1, <2>2
    <3>3. n \div R = f[3].cycles
      BY <1>2, <1>3, <3>2, DivBounds
    <3> QED
      BY <1>7, <3>1, <3>3
  <2> QED
    BY <2>1, <2>2 DEF Sound
<1>9. PICK len : len = m * R /\ len \in Nat /\ len <= n
  <2>1. (n \div R) * R <= n
    BY <1>2, <1>3, DivFacts
  <2>2. m * R \in Nat
    BY <1>3, <1>7, Monotone
  <2> QED
    BY <1>7, <2>1, <2>2
<1>10. RecordsOK(f, 3)
  <2>1. LayoutOK(f, 3)
    BY <1>3, OpensFile
  <2>2. RecordCount(f, 3) <= SectionSize(RecordSegs(f, 3)) \div f[3].rec
    <3>1. SectionSize(RecordSegs(f, 3)) \div f[3].rec = m
      BY <1>1, <1>2, <1>3, <1>7
    <3> QED
      BY <1>7, <1>8, <3>1
  <2>3. ReadOK(segs, 0, len)
    <3>1. \A i \in 0..(0 + len - 1) : i \in 0..(n - 1)
      BY <1>2, <1>9
    <3> QED
      BY <1>2, <3>1 DEF ReadOK
  <2>4. RecordCount(f, 3) * f[3].rec = len
    BY <1>3, <1>8, <1>9
  <2> QED
    BY <1>1, <2>1, <2>2, <2>3, <2>4, Zenon DEF RecordsOK
<1>11. Records(f, 3) = [i \in 1..len |-> ByteAt(segs, 0 + i - 1)]
  <2>1. RecordCount(f, 3) * f[3].rec = len
    BY <1>3, <1>8, <1>9
  <2> QED
    BY <1>1, <2>1, Zenon DEF Records, ReadAt
<1>12. ASSUME NEW p \in DOMAIN Records(f, 3)
       PROVE  /\ Records(f, 3)[p].t = "B" /\ Records(f, 3)[p].s = <<1, 0>> /\ Records(f, 3)[p].k = p
  <2>1. p \in 1..len
    BY <1>11
  <2>2. 0 + p - 1 \in 0..(n - 1) /\ (0 + p - 1) + 1 = p
    BY <1>2, <1>9, <2>1
  <2>3. Records(f, 3)[p] = ByteAt(segs, 0 + p - 1)
    BY <1>11, <2>1
  <2>4. Records(f, 3)[p] = Byte(<<1, 0>>, p, 0)
    BY <1>2, <2>2, <2>3
  <2> QED
    BY <2>4 DEF Byte
<1>13. GenuineRecords(f, 1)
  BY <1>5, <1>10, <1>12, Zenon DEF GenuineRecords
<1>14. Readable(f, 1) = m
  BY <1>5, <1>8 DEF Readable
<1> QED
  BY <1>1, <1>6, <1>7, <1>13, <1>14

-----------------------------------------------------------------------------
(* The promises, from the invariant.                                       *)

(* The tree the reader sees is linked when the two patches of begin are.   *)
LEMMA TreeIsLinked ==
    ASSUME Plain, NEW f, Shaped(f)
    PROVE  TreeLinked(f) <=> Tree(f)
<1>1. /\ Len(f) \in Nat /\ \A a \in 1..Len(f) : PeekID(f, a) = f[a].t
      /\ \A a : a \notin 1..Len(f) => PeekID(f, a) = "none"
      /\ Len(f) >= 1 => f[1].t = "ID"
      /\ Len(f) >= 2 => f[2].t = "HD" /\ f[2].first \in {0, 3}
      /\ Len(f) >= 3 => f[3].t = "DG" /\ f[3].data \in {0, GA}
      /\ GA \in Nat /\ GA >= 4
  BY Peeked, PlainFacts
<1>2. ASSUME Tree(f) PROVE TreeLinked(f)
  <2>1. 1 \in 1..Len(f) /\ 2 \in 1..Len(f) /\ 3 \in 1..Len(f) /\ f[2].first = 3 /\ f[3].data = GA
    BY <1>1, <1>2 DEF Tree
  <2> QED
    BY <1>1, <2>1 DEF TreeLinked, NIL
<1>3. ASSUME TreeLinked(f) PROVE Tree(f)
  <2>1. 2 \in 1..Len(f)
    BY <1>1, <1>3 DEF TreeLinked
  <2>2. f[2].first = 3
    BY <1>1, <1>3, <2>1 DEF TreeLinked, NIL
  <2>3. 3 \in 1..Len(f)
    BY <1>1, <1>3, <2>2 DEF TreeLinked
  <2> QED
    BY <1>1, <1>3, <2>2, <2>3 DEF TreeLinked, Tree, NIL
<1> QED
  BY <1>2, <1>3

(* The cells of the file and of the disk.                                  *)
LEMMA FilesShaped ==
    ASSUME Plain, WInv, GInv
    PROVE  /\ Shaped(file) /\ Shaped(disk) /\ Len(file) \in Nat /\ Len(disk) \in Nat
           /\ Len(disk) <= Len(file) /\ Len(file) <= GA + growBytes
           /\ Len(file) <= Off(Sink) /\ \A i \in 1..Len(file) : Cell(Sink, i) = file[i]
           /\ Off(Sink) \in Nat
<1>1. /\ AnySeq(file) /\ AnySeq(disk) /\ Len(file) \in Nat /\ Len(disk) \in Nat /\ Len(buf) \in Nat
      /\ Off(Sink) = Len(file) + Len(buf) /\ \A i \in 1..Len(file) : Cell(Sink, i) = file[i]
  BY NowFacts
<1>2. Len(file) <= Off(Sink) /\ Off(Sink) \in Nat
  BY <1>1
<1>3. \A i \in 1..Len(file) : CellOK(file[i], i)
  BY <1>1, <1>2 DEF GInv, ShapeInv
<1>4. \A i \in 1..Len(disk) : CellOK(disk[i], i)
  BY DEF GInv, DiskInv
<1>5. Len(file) <= GA + growBytes
  <2>1. Off(Sink) <= GA + growBytes /\ GA \in Nat /\ growBytes \in Nat
    BY CountFacts DEF GInv, SizeInv
  <2> QED
    BY <1>1, <1>2, <2>1
<1>6. Len(disk) <= Len(file)
  BY DEF GInv, DiskInv
<1> QED
  BY <1>1, <1>2, <1>3, <1>4, <1>5, <1>6 DEF Shaped

(* A finalized file was finalized by finalize: everything is in place.     *)
LEMMA FinalizedFile ==
    ASSUME Plain, WInv, GInv, pc # "crashed", Len(file) >= 1, file[1].unfin = {}
    PROVE  Tree(file) /\ Sound(file) /\ Len(file) = GA + growBytes /\ ~err /\ growBytes = count[1] * R
<1>1. /\ Shaped(file) /\ Len(file) \in Nat /\ Off(Sink) \in Nat /\ Len(file) <= Off(Sink)
      /\ \A i \in 1..Len(file) : Cell(Sink, i) = file[i]
  BY FilesShaped
<1>2. pc \in {"sync", "done"} /\ Len(buf) = 0 /\ AllApplied /\ ~err
  BY <1>1 DEF GInv, PatchInv
<1>3. Writing
  BY <1>2 DEF Writing, WInv, StageInv, Finishing
<1>4. Off(Sink) = GA + growBytes /\ growAddr = GA /\ growBytes = count[1] * R
  BY <1>3 DEF GInv, SizeInv
<1>5. /\ Off(Sink) = Len(file) + Len(buf) /\ GA \in Nat /\ GA >= 4 /\ growBytes \in Nat /\ count[1] \in Nat
  BY NowFacts, CountFacts DEF GInv
<1>6. Len(file) = GA + growBytes
  BY <1>1, <1>2, <1>4, <1>5
<1>7. 2 \in 1..Len(file) /\ 3 \in 1..Len(file) /\ GA \in 1..Len(file) /\ Len(file) - GA = growBytes /\ Len(file) >= 3 /\ Len(file) >= GA
  BY <1>1, <1>5, <1>6
<1>8. file[2].first = 3 /\ file[3].data = GA /\ file[GA].len = growBytes /\ file[3].cycles = count[1]
  BY <1>1, <1>2, <1>4, <1>7, AppliedMeans DEF AllApplied
<1>9. Tree(file)
  BY <1>7, <1>8 DEF Tree
<1>10. Sound(file)
  BY <1>1, <1>4, <1>7, <1>8, <1>9 DEF Sound
<1> QED
  BY <1>2, <1>4, <1>6, <1>9, <1>10

(* Until the power is lost a file with its tree linked can be read.        *)
LEMMA SoundFile ==
    ASSUME Plain, WInv, GInv, Tree(file), pc # "crashed"
    PROVE  Sound(file)
<1>1. /\ Shaped(file) /\ Len(file) \in Nat /\ Off(Sink) \in Nat /\ Len(file) <= Off(Sink)
      /\ \A i \in 1..Len(file) : Cell(Sink, i) = file[i] /\ GA \in Nat /\ GA >= 4
      /\ Len(file) >= 3 /\ file[3].data = GA
  BY FilesShaped, PlainFacts DEF Tree
<1>2. Len(file) >= GA
  <2>1. Off(Sink) >= 3 /\ Cell(Sink, 3).data = GA
    BY <1>1
  <2> QED
    BY <2>1 DEF GInv, ShapeInv
<1>3. file[1].unfin \in {{0, 2}, {}}
  BY <1>1, Peeked
<1>4. CASE file[1].unfin = {}
  BY <1>1, <1>4, FinalizedFile
<1>5. CASE file[1].unfin = {0, 2}
  <2>0. GA \in Nat
    BY PlainFacts
  <2>1. Off(Sink) >= GA /\ Cell(Sink, GA) = file[GA]
    BY <1>1, <1>2, <2>0
  <2>2. file[GA].len # 0 => Len(file) = GA + growBytes /\ file[GA].len = growBytes
    BY <2>1 DEF GInv, ShapeInv
  <2>3. file[GA].len \in {0, Len(file) - GA}
    <3>1. growBytes \in Nat
      BY CountFacts DEF GInv
    <3> QED
      BY <1>1, <2>0, <2>2, <3>1
  <2> QED
    BY <1>1, <1>2, <1>5, <2>3 DEF Sound
<1> QED
  BY <1>3, <1>4, <1>5

(* So can what a power loss outside Close leaves, when the growing block   *)
(* has been reached.                                                       *)
LEMMA SoundAfterLoss ==
    ASSUME Plain, WInv, GInv, ~closed, Len(file) >= 1
    PROVE  /\ file[1].unfin = {0, 2}
           /\ Tree(file) /\ Len(file) >= GA => Sound(file)
<1>1. li = 1
  BY DEF WInv, StageInv
<1>2. /\ Shaped(file) /\ Len(file) \in Nat /\ Len(file) <= Off(Sink) /\ Off(Sink) \in Nat
      /\ \A i \in 1..Len(file) : Cell(Sink, i) = file[i]
  BY FilesShaped
<1>3. \A i \in 1..Len(file) : FreshCell(file[i], i)
  BY <1>1, <1>2 DEF GInv, ShapeInv
<1>4. file[1].unfin = {0, 2}
  BY <1>2, <1>3 DEF FreshCell
<1>5. ASSUME Len(file) >= GA PROVE file[GA].len = 0
  <2>1. GA \in 1..Len(file)
    BY <1>2, <1>5, PlainFacts
  <2> QED
    BY <1>3, <2>1 DEF FreshCell
<1> QED
  BY <1>2, <1>4, <1>5 DEF Sound

(* How many records a sound file of the writer gives.                      *)
LEMMA HowMany ==
    ASSUME Plain, WInv, GInv, Sound(file)
    PROVE  /\ Readable(file, 1) \in Nat /\ Readable(file, 1) <= count[1]
           /\ (flushed[1] > 0 => flushed[1] <= Readable(file, 1))
           /\ (Len(file) = GA + growBytes => Readable(file, 1) = count[1])
<1>1. Readable(file, 1) = (Len(file) - GA) \div R
  BY ReadsWholeRecords
<1>2. /\ Len(file) \in Nat /\ Len(disk) \in Nat /\ Len(disk) <= Len(file) /\ Len(file) <= GA + growBytes
      /\ GA \in Nat /\ growBytes \in Nat /\ count[1] \in Nat /\ flushed[1] \in Nat /\ R \in Nat /\ R >= 1
  BY FilesShaped, CountFacts, PlainFacts DEF GInv
<1>3. PICK n \in Nat : n = Len(file) - GA
  BY <1>2 DEF Sound
<1>4. growBytes = count[1] * R
  BY DEF GInv, SizeInv
<1>5. n <= growBytes /\ (Len(file) = GA + growBytes => n = growBytes)
  BY <1>2, <1>3
<1>6. n \div R \in Nat /\ n \div R <= count[1] /\ (n = growBytes => n \div R = count[1])
  BY <1>2, <1>4, <1>5, DivFacts, DivBounds
<1>7. ASSUME flushed[1] > 0 PROVE flushed[1] <= n \div R
  <2>1. PICK a \in Nat : a = flushed[1] * R
    BY <1>2, Monotone
  <2>2. Len(disk) >= GA + a
    BY <1>7, <2>1 DEF GInv, DiskInv
  <2>3. a <= n
    BY <1>2, <1>3, <2>2
  <2> QED
    BY <1>2, <2>1, <2>3, DivBounds
<1> QED
  BY <1>1, <1>3, <1>5, <1>6, <1>7

(* Killed at any moment, a process leaves a prefix of what was appended.   *)
LEMMA PrefixNow ==
    ASSUME Plain, WInv, GInv
    PROVE  KilledFileIsPrefix
<1> SUFFICES ASSUME pc # "crashed", TreeLinked(file)
             PROVE  GroupsFound(file) /\ GenuineRecords(file, 1) /\ Readable(file, 1) <= count[1]
  BY DEF KilledFileIsPrefix
<1>1. Sound(file)
  BY FilesShaped, TreeIsLinked, SoundFile
<1> QED
  BY <1>1, ReadsWholeRecords, HowMany

(* In every state of the invariant flushed records are readable.           *)
LEMMA FlushedNow ==
    ASSUME Plain, WInv, GInv
    PROVE  FlushedIsReadable
<1> SUFFICES ASSUME TreeLinked(file), ~LostInClose, flushed[1] > 0
             PROVE  GroupsFound(file) /\ GenuineRecords(file, 1) /\ Readable(file, 1) >= flushed[1]
  BY DEF FlushedIsReadable, FlushedReadable
<1>1. Tree(file) /\ Len(file) \in Nat /\ Len(file) >= 1
  BY FilesShaped, TreeIsLinked DEF Tree
<1>2. Sound(file)
  <2>1. CASE pc # "crashed"
    BY <1>1, <2>1, SoundFile
  <2>2. CASE pc = "crashed"
    <3>1. ~closed
      BY <2>2 DEF LostInClose
    <3>2. Len(file) >= GA
      <4>1. /\ Len(disk) \in Nat /\ Len(disk) <= Len(file) /\ GA \in Nat /\ flushed[1] \in Nat /\ R \in Nat
        BY FilesShaped, CountFacts, PlainFacts DEF GInv
      <4>2. PICK a \in Nat : a = flushed[1] * R
        BY <4>1, Monotone
      <4>3. Len(disk) >= GA + a
        BY <4>2 DEF GInv, DiskInv
      <4> QED
        BY <1>1, <4>1, <4>3
    <3> QED
      BY <1>1, <3>1, <3>2, SoundAfterLoss
  <2> QED
    BY <2>1, <2>2
<1>3. GroupsFound(file) /\ GenuineRecords(file, 1)
  BY <1>2, ReadsWholeRecords
<1>4. Readable(file, 1) \in Nat /\ flushed[1] <= Readable(file, 1) /\ flushed[1] \in Nat
  BY <1>2, HowMany, CountFacts DEF GInv
<1> QED
  BY <1>3, <1>4

(* The records of the one group are all there are.                         *)
LEMMA AllRecords ==
    ASSUME Plain, WInv, GInv, pc # "crashed", Len(file) >= 1, file[1].unfin = {}
    PROVE  CompleteRecords(file, count) /\ CompleteStrings(file, count) /\ acked = count
<1>1. Sound(file) /\ Len(file) = GA + growBytes /\ ~err
  BY FinalizedFile
<1>2. GroupsFound(file) /\ GenuineRecords(file, 1) /\ Readable(file, 1) = count[1]
  BY <1>1, ReadsWholeRecords, HowMany
<1>3. Groups = {1} /\ ChansOf(1) = {}
  BY PlainFacts DEF ChansOf
<1>4. CompleteRecords(file, count)
  BY <1>2, <1>3, Zenon DEF CompleteRecords
<1>5. CompleteStrings(file, count)
  BY <1>3 DEF CompleteStrings
<1>6. acked = count
  BY <1>1 DEF GInv, SizeInv
<1> QED
  BY <1>4, <1>5, <1>6

(* After a successful Close the file holds what was appended.              *)
LEMMA ClosedNow ==
    ASSUME Plain, WInv, GInv
    PROVE  ClosedRoundTrip
<1> SUFFICES ASSUME pc = "done", res = "ok"
             PROVE  file[1].unfin = {} /\ disk = file /\ CompleteRecords(file, acked)
  BY DEF ClosedRoundTrip
<1>1. Cell(Sink, 1).unfin = {} /\ disk = file /\ ~err /\ Writing
  BY DEF GInv, PatchInv, WInv, StageInv, Finishing, Writing
<1>2. Off(Sink) = GA + growBytes
  BY <1>1 DEF GInv, SizeInv
<1>3. GA \in Nat /\ GA >= 4 /\ growBytes \in Nat /\ Off(Sink) >= 1
  <2>1. GA \in Nat /\ GA >= 4 /\ growBytes \in Nat
    BY CountFacts DEF GInv
  <2> QED
    BY <1>2, <2>1
<1>4. Len(buf) = 0
  BY <1>1, <1>3 DEF GInv, PatchInv
<1>5. Len(file) \in Nat /\ Len(file) >= 1 /\ Cell(Sink, 1) = file[1]
  <2>1. Len(file) \in Nat /\ Off(Sink) = Len(file) + Len(buf) /\ \A i \in 1..Len(file) : Cell(Sink, i) = file[i]
    BY NowFacts
  <2>2. Len(file) >= 1
    BY <1>3, <1>4, <2>1
  <2> QED
    BY <2>1, <2>2
<1> QED
  BY <1>1, <1>5, AllRecords

(* A file whose identification block says finalized is complete.           *)
LEMMA FinalizedNow ==
    ASSUME Plain, WInv, GInv
    PROVE  FinalizedIsComplete
<1> SUFFICES ASSUME ~LostInClose, PeekID(file, 1) = "ID", file[1].unfin = {}
             PROVE  CompleteRecords(file, count) /\ CompleteStrings(file, count)
  BY DEF FinalizedIsComplete
<1>1. Len(file) \in Nat /\ Len(file) >= 1
  <2>1. Shaped(file) /\ Len(file) \in Nat
    BY FilesShaped
  <2>2. 1 \in 1..Len(file)
    BY <2>1, Peeked
  <2> QED
    BY <2>1, <2>2
<1>2. pc # "crashed"
  <2> SUFFICES ASSUME pc = "crashed" PROVE FALSE
    OBVIOUS
  <2>1. ~closed
    BY DEF LostInClose
  <2>2. file[1].unfin = {0, 2} /\ 0 \in {0, 2}
    BY <1>1, <2>1, SoundAfterLoss
  <2> QED
    BY <2>2
<1> QED
  BY <1>1, <1>2, AllRecords

(* In the growing layout a process killed at any moment leaves a file that *)
(* gives a prefix of the appended records, whatever the sizes of records,  *)
(* buffer and alignment, and whichever write or patch failed before.       *)
THEOREM KilledLeavesPrefix ==
    ASSUME Plain
    PROVE  Spec => []KilledFileIsPrefix
<1>1. WInv /\ GInv => KilledFileIsPrefix
  BY PrefixNow
<1> QED
  BY <1>1, GrowingInv, PTL

(* Everything a successful Flush has covered can be read at every later    *)
(* moment, and from what a power loss outside Close leaves.                *)
THEOREM FlushIsKept ==
    ASSUME Plain
    PROVE  Spec => []FlushedIsReadable
<1>1. WInv /\ GInv => FlushedIsReadable
  BY FlushedNow
<1> QED
  BY <1>1, GrowingInv, PTL

(* A Close that returned nil leaves a finalized, synced file that gives    *)
(* every acknowledged record.                                              *)
THEOREM CloseKeepsAll ==
    ASSUME Plain
    PROVE  Spec => []ClosedRoundTrip
<1>1. WInv /\ GInv => ClosedRoundTrip
  BY ClosedNow
<1> QED
  BY <1>1, GrowingInv, PTL

(* A file that says it is finalized is complete, whatever failed before.   *)
THEOREM FinalizedMeansComplete ==
    ASSUME Plain
    PROVE  Spec => []FinalizedIsComplete
<1>1. WInv /\ GInv => FinalizedIsComplete
  BY FinalizedNow
<1> QED
  BY <1>1, GrowingInv, PTL

-----------------------------------------------------------------------------
(* The refinement: what each step does to the log.                         *)

(* What the file held before is where it was.                              *)
Grows == Len(file) <= Len(file') /\ \A i \in 1..Len(file) : file'[i] = file[i]

(* Appending does not unlink the tree.                                     *)
LEMMA GrowsTree ==
    ASSUME Plain, WInv, GInv, Grows
    PROVE  Tree(file) => Tree(file')
<1>1. Len(file) \in Nat
  BY FilesShaped
<1>2. ASSUME Tree(file) PROVE Tree(file')
  <2>1. 2 \in 1..Len(file) /\ 3 \in 1..Len(file) /\ Len(file) >= 3 /\ file[2].first = 3 /\ file[3].data = GA
    BY <1>1, <1>2 DEF Tree
  <2>2. Len(file') >= 3
    <3>1. Len(file) <= Len(file')
      BY DEF Grows
    <3> QED
      BY <1>1, <2>1, <3>1
  <2> QED
    BY <2>1, <2>2 DEF Grows, Tree
<1> QED
  BY <1>2

(* Writing through bufio appends.                                          *)
LEMMA WriteGrows ==
    ASSUME WInv, WInv', NEW sk, Extended(Sink, sk), Reach(sk) \/ Fails(sk)
    PROVE  Grows
<1>1. IsSink(Sink) /\ err \in BOOLEAN
  BY DEF WInv, TypeInv
<1>2. Len(file) <= Len(file') /\ \A i \in 1..Off(Sink)' : Cell(Sink, i)' = Cell(sk, i)
  BY <1>1, WriteOutcome
<1>3. /\ Len(file) \in Nat /\ Len(buf) \in Nat /\ Off(Sink) = Len(file) + Len(buf)
      /\ \A i \in 1..Len(file) : Cell(Sink, i) = file[i]
  BY NowFacts
<1>4. /\ Len(file') \in Nat /\ Len(buf') \in Nat /\ Off(Sink)' = Len(file') + Len(buf')
      /\ \A i \in 1..Len(file') : Cell(Sink, i)' = file'[i]
  BY NextFacts
<1>5. \A i \in 1..Len(file) : i \in 1..Off(Sink) /\ i \in 1..Off(Sink)' /\ i \in 1..Len(file')
  BY <1>2, <1>3, <1>4
<1> QED
  BY <1>2, <1>3, <1>4, <1>5 DEF Extended, Grows

(* A flush of the buffer appends, also a torn one.                         *)
LEMMA FlushGrows ==
    ASSUME WInv, WInv', BufFlush \/ BufFlushFails
    PROVE  Grows
<1>1. Len(file) <= Len(file') /\ \A i \in 1..Off(Sink)' : Cell(Sink, i)' = Cell(Sink, i)
  BY FlushOutcome DEF WInv
<1>2. /\ Len(file) \in Nat /\ \A i \in 1..Len(file) : Cell(Sink, i) = file[i]
  BY NowFacts
<1>3. /\ Len(file') \in Nat /\ Len(buf') \in Nat /\ Off(Sink)' = Len(file') + Len(buf')
      /\ \A i \in 1..Len(file') : Cell(Sink, i)' = file'[i]
  BY NextFacts
<1>4. \A i \in 1..Len(file) : i \in 1..Off(Sink)' /\ i \in 1..Len(file')
  BY <1>1, <1>2, <1>3
<1> QED
  BY <1>1, <1>2, <1>3, <1>4 DEF Grows

(* Append adds to the file what overflows the buffer.                      *)
LEMMA RecordGrows ==
    ASSUME Plain, WInv, WInv', StoreRecord
    PROVE  Grows
<1>0. PICK bytes : bytes = RecordBytes(1)
  OBVIOUS
<1>1. call.g = 1 /\ RecSize[1] \in Nat
  BY PlainFacts DEF WInv, CallInv, R
<1>2. Reach(Put(Sink, bytes)) \/ Fails(Put(Sink, bytes))
  BY <1>0, <1>1, Zenon DEF StoreRecord, Plain
<1>3. AnySeq(bytes)
  <2>1. DOMAIN bytes = 1..RecSize[1] /\ bytes = [i \in 1..RecSize[1] |-> bytes[i]]
    BY <1>0 DEF RecordBytes
  <2> QED
    BY <1>1, <2>1, FunIsSeq
<1>4. Extended(Sink, Put(Sink, bytes))
  BY <1>3, PutExtends DEF WInv, TypeInv
<1> QED
  BY <1>2, <1>4, WriteGrows

(* begin adds the metadata and the block header to an empty file.          *)
LEMMA BeginGrows ==
    ASSUME Plain, WInv, WInv', Begin
    PROVE  Grows
<1>0. PICK meta, sk : meta = Put(Sink, Metadata) /\ sk = PutBlock(meta, GrowHeader)
  OBVIOUS
<1>1. pc = "begin" /\ (Reach(sk) \/ Fails(sk))
  BY <1>0, Zenon DEF Begin, Plain
<1>2. IsSink(Sink) /\ Off(Sink) = 0
  BY <1>1 DEF WInv, TypeInv, StageInv, HeadInv
<1>3. Extended(Sink, sk)
  BY <1>0, <1>2, BeginCells
<1> QED
  BY <1>1, <1>3, WriteGrows

(* A patch never takes a link back.                                        *)
LEMMA PatchKeepsTree ==
    ASSUME Plain, WInv, WInv', GInv, ApplyPatch
    PROVE  Len(file') = Len(file) /\ (Tree(file) => Tree(file'))
<1>1. pc = "apply" /\ pi <= Len(patches) /\ (file' = Patched(file, patches[pi]) \/ file' = file) /\ buf' = buf
  BY DEF ApplyPatch
<1>2. CASE file' = file
  BY <1>2
<1>3. CASE file' = Patched(file, patches[pi])
  <2>0. PICK p : p = patches[pi]
    OBVIOUS
  <2>1. /\ Len(file') = Len(file)
        /\ \A i \in 1..Len(file) : i # p.at => file'[i] = file[i]
    BY <1>1, <1>3, <2>0, PatchKeeps DEF WInv
  <2>2. ASSUME Tree(file) PROVE Tree(file')
    <3>1. /\ Len(file) \in Nat /\ Shaped(file) /\ 2 \in 1..Len(file) /\ 3 \in 1..Len(file)
          /\ file[2].first = 3 /\ file[3].data = GA /\ DOMAIN file = 1..Len(file)
      <4>1. Len(file) \in Nat /\ Shaped(file) /\ DOMAIN file = 1..Len(file)
        BY FilesShaped, Peeked
      <4> QED
        BY <2>2, <4>1 DEF Tree
    <3>2. growAddr = GA /\ GA \in Nat /\ GA >= 4 /\ pi \in 1..Len(patches)
      <4>1. Writing /\ pi \in Nat /\ pi >= 1
        BY <1>1 DEF WInv, TypeInv, StageInv, Busy, Writing
      <4>2. Len(patches) \in Nat
        BY NowFacts
      <4> QED
        BY <1>1, <4>1, <4>2, PlainFacts DEF GInv, SizeInv
    <3>3. p = P1 \/ p = P2 \/ p = P3 \/ p = P4
      BY <1>1, <2>0, <3>2, PatchesAre
    <3>4. /\ P1.at = 2 /\ P1.fld = "first" /\ P1.val = 3 /\ P2.at = 3 /\ P2.fld = "data" /\ P2.val = GA
          /\ P3.at = GA /\ P4.at = 3 /\ P4.fld = "cycles"
      BY <3>2 DEF P1, P2, P3, P4, Patch
    <3>5. ASSUME p.at \in 1..Len(file)
          PROVE  file'[p.at] = [x \in DOMAIN file[p.at] |-> IF x = p.fld THEN p.val ELSE file[p.at][x]]
      BY <1>3, <2>0, <3>1, <3>5 DEF Patched
    <3>6. "first" \in DOMAIN file[2] /\ "data" \in DOMAIN file[3]
      BY <3>1 DEF Shaped, CellOK
    <3>7. file'[2].first = 3
      <4>1. CASE p.at = 2
        <5>1. p = P1
          BY <3>2, <3>3, <3>4, <4>1
        <5> QED
          BY <3>1, <3>4, <3>5, <3>6, <4>1, <5>1
      <4>2. CASE p.at # 2
        BY <2>1, <3>1, <4>2
      <4> QED
        BY <4>1, <4>2
    <3>8. file'[3].data = GA
      <4>1. CASE p.at = 3
        <5>1. p = P2 \/ p = P4
          BY <3>2, <3>3, <3>4, <4>1
        <5>2. p.fld = "data" => p.val = GA
          BY <3>4, <5>1
        <5> QED
          BY <3>1, <3>5, <3>6, <4>1, <5>2
      <4>2. CASE p.at # 3
        BY <2>1, <3>1, <4>2
      <4> QED
        BY <4>1, <4>2
    <3> QED
      BY <2>1, <2>2, <3>7, <3>8 DEF Tree
  <2> QED
    BY <2>1, <2>2
<1> QED
  BY <1>1, <1>2, <1>3

(* The tree is linked before the first record is flushed, or not before    *)
(* Close.                                                                  *)
LinkInv ==
    /\ pc \in {"patch", "apply"} /\ ~closed => flushed[1] = 0
    /\ pc # "crashed" /\ ~closed /\ flushed[1] > 0 /\ Tree(file) => Tree(disk)

(* A step that only appends keeps the link invariant.                      *)
LEMMA LinkGrows ==
    ASSUME Plain, WInv, GInv, LinkInv, Grows, UNCHANGED <<disk, flushed, closed>>,
           pc # "crashed", pc' \notin {"patch", "apply"}
    PROVE  LinkInv'
<1> SUFFICES ASSUME ~closed, flushed[1] > 0, Tree(file') PROVE Tree(disk)
  BY DEF LinkInv
<1>1. Len(file) \in Nat /\ Len(file) >= 3
  <2>1. /\ Len(file) \in Nat /\ Len(disk) \in Nat /\ Len(disk) <= Len(file)
        /\ GA \in Nat /\ GA >= 4 /\ flushed[1] \in Nat /\ R \in Nat
    BY FilesShaped, CountFacts, PlainFacts DEF GInv
  <2>2. PICK a \in Nat : a = flushed[1] * R
    BY <2>1, Monotone
  <2>3. Len(disk) >= GA + a
    BY <2>2 DEF GInv, DiskInv
  <2> QED
    BY <2>1, <2>3
<1>2. 2 \in 1..Len(file) /\ 3 \in 1..Len(file)
  BY <1>1
<1>3. Tree(file)
  BY <1>1, <1>2 DEF Grows, Tree
<1> QED
  BY <1>3 DEF LinkInv

(* Every step keeps the link invariant.                                    *)
LEMMA LinkInvNext ==
    ASSUME Plain, WInv, WInv', GInv, LinkInv, [Next]_vars
    PROVE  LinkInv'
<1>1. CASE (\E g \in Groups : \E strs \in StrArgs(g) : AppendCall(g, strs)) \/ Close
  <2>1. /\ pc = "idle" /\ pc' \in {"record", "begin", "link"}
        /\ UNCHANGED <<file, disk, flushed>> /\ (~closed' => ~closed)
    BY <1>1, PlainFacts DEF AppendCall, Close, FirstStep, wvars, hist
  <2> QED
    BY <2>1 DEF LinkInv
<1>2. CASE Flush
  <2>1. /\ pc = "idle" /\ pc' = "idle" /\ ~closed /\ (BufFlush \/ BufFlushFails) /\ UNCHANGED closed
        /\ UNCHANGED <<disk, flushed>> \/ disk' = file'
    BY <1>2 DEF Flush, Succeed, Return, wvars
  <2>2. CASE disk' = file'
    BY <2>1, <2>2 DEF LinkInv
  <2>3. CASE UNCHANGED <<disk, flushed>>
    BY <2>1, <2>3, FlushGrows, LinkGrows
  <2> QED
    BY <2>1, <2>2, <2>3
<1>3. CASE Begin
  <2>1. ~started /\ UNCHANGED <<disk, flushed, closed>>
    BY <1>3 DEF Begin, WInv, StageInv, hist
  <2>2. flushed[1] <= count[1] /\ count[1] = 0 /\ flushed[1] \in Nat
    BY <2>1, CountFacts DEF GInv, SizeInv
  <2> QED
    BY <2>1, <2>2 DEF LinkInv
<1>4. CASE FlushForPatches \/ ApplyPatch
  <2>1. pc \in {"patch", "apply"} /\ UNCHANGED <<flushed, closed>>
    BY <1>4 DEF FlushForPatches, ApplyPatch, hist
  <2> QED
    BY <2>1 DEF LinkInv
<1>5. CASE PatchesApplied
  <2>1. pc = "apply" /\ UNCHANGED <<flushed, closed>>
    BY <1>5 DEF PatchesApplied, hist
  <2> QED
    BY <2>1 DEF LinkInv
<1>6. CASE StoreLength \/ StoreValue
  <2>1. pc = "length" \/ pc = "value"
    BY <1>6 DEF StoreLength, StoreValue
  <2>2. call.g = 1 /\ NStr[1] = 0 /\ Len(OffsOf(call)) \in Nat
    BY PlainFacts, AnySeqFacts DEF WInv, CallInv
  <2> QED
    BY <2>1, <2>2 DEF WInv, CallInv
<1>7. CASE StoreRecord
  <2>1. pc = "record" /\ UNCHANGED <<disk, flushed, closed>>
    BY <1>7 DEF StoreRecord
  <2>2. Grows
    BY <1>7, RecordGrows
  <2>3. pc' \notin {"patch", "apply"}
    BY <1>7, Zenon DEF StoreRecord, Plain, Succeed, Return
  <2> QED
    BY <2>1, <2>2, <2>3, LinkGrows
<1>8. CASE LinkStream \/ WriteFinalID \/ SyncClose
  <2>1. closed /\ closed' = closed
    <3>1. pc \in Finishing
      BY <1>8 DEF LinkStream, WriteFinalID, SyncClose, Finishing
    <3>2. closed' = closed
      BY <1>8 DEF LinkStream, WriteFinalID, SyncClose, wvars
    <3> QED
      BY <3>1, <3>2 DEF WInv, StageInv
  <2> QED
    BY <2>1 DEF LinkInv
<1>9. CASE PowerLoss
  BY <1>9 DEF PowerLoss, LinkInv
<1>10. CASE UNCHANGED vars
  BY <1>10 DEF vars, wvars, hist, LinkInv, Tree
<1> QED
  BY <1>1, <1>2, <1>3, <1>4, <1>5, <1>6, <1>7, <1>8, <1>9, <1>10 DEF Next, Step

(* The link invariant holds of every reachable state.                      *)
LEMMA LinkInvAlways ==
    ASSUME Plain
    PROVE  Spec => []LinkInv
<1>1. Init => LinkInv
  BY PlainFacts DEF Init, LinkInv
<1>2. WInv /\ WInv' /\ GInv /\ LinkInv /\ [Next]_vars => LinkInv'
  BY LinkInvNext
<1> QED
  BY <1>1, <1>2, GrowingInv, PTL DEF Spec

(* The state of the log.                                                   *)
Whole(f) == IF Tree(f) /\ Len(f) >= GA THEN (Len(f) - GA) \div R ELSE 0

LogOK ==
    /\ count[1] \in Nat /\ LogReadable \in Nat /\ LogDurable \in Nat /\ flushed[1] \in Nat
    /\ Len(file) \in Nat /\ Len(disk) \in Nat /\ Len(disk) <= Len(file)
    /\ LogReadable <= count[1] /\ LogDurable <= LogReadable
    /\ ~LostInClose => /\ LogReadable = Whole(file)
                       /\ LogDurable = IF Tree(disk) THEN flushed[1] ELSE 0
    /\ LostInClose => LogReadable = 0 /\ LogDurable = 0
    /\ Tree(disk) => Tree(file)
    /\ pc # "crashed" /\ Tree(file) => Len(file) >= GA
    /\ pc = "done" /\ res = "ok" => LogReadable = count[1]

(* The abstract variables in terms of the files, in every state of the     *)
(* invariant, ...                                                          *)
LEMMA LogState ==
    ASSUME Plain
    PROVE  WInv /\ GInv => LogOK
<1> SUFFICES ASSUME WInv, GInv PROVE LogOK
  OBVIOUS
<1>1. /\ Shaped(file) /\ Shaped(disk) /\ Len(file) \in Nat /\ Len(disk) \in Nat /\ Len(disk) <= Len(file)
      /\ \A i \in 1..Len(file) : Cell(Sink, i) = file[i]
      /\ GA \in Nat /\ GA >= 4 /\ count[1] \in Nat /\ flushed[1] \in Nat /\ R \in Nat /\ R >= 1
  BY FilesShaped, CountFacts, PlainFacts DEF GInv
<1>2. (TreeLinked(file) <=> Tree(file)) /\ (TreeLinked(disk) <=> Tree(disk))
  BY <1>1, TreeIsLinked
<1>3. pc # "crashed" /\ Tree(file) => Sound(file) /\ Len(file) >= GA
  BY SoundFile DEF Sound
<1>4. ASSUME Tree(disk) PROVE Tree(file)
  <2>1. Len(disk) >= 3 /\ disk[2].first = 3 /\ disk[3].data = GA
    BY <1>4 DEF Tree
  <2>2. Cell(Sink, 2).first = 3 /\ Cell(Sink, 3).data = GA
    BY <1>1, <2>1 DEF GInv, DiskInv
  <2>3. 2 \in 1..Len(file) /\ 3 \in 1..Len(file) /\ Len(file) >= 3
    BY <1>1, <2>1
  <2> QED
    BY <1>1, <2>2, <2>3 DEF Tree
<1>5. ASSUME ~LostInClose, Tree(file), Len(file) >= GA PROVE Sound(file)
  <2>1. CASE pc # "crashed"
    BY <1>3, <1>5, <2>1
  <2>2. CASE pc = "crashed"
    <3>1. ~closed /\ Len(file) >= 1
      BY <1>1, <1>5, <2>2 DEF LostInClose
    <3> QED
      BY <1>5, <3>1, SoundAfterLoss
  <2> QED
    BY <2>1, <2>2
<1>6. ASSUME ~LostInClose
      PROVE  /\ LogReadable = Whole(file) /\ LogReadable \in Nat /\ LogReadable <= count[1]
             /\ (flushed[1] > 0 /\ Tree(file) => flushed[1] <= LogReadable)
  <2>1. CASE Tree(file) /\ Len(file) >= GA
    <3>1. Sound(file)
      BY <1>5, <1>6, <2>1
    <3>2. LogReadable = Readable(file, 1)
      BY <1>1, <1>2, <1>6, <2>1, <3>1, OpensFile DEF LogReadable
    <3>3. Readable(file, 1) = Whole(file)
      BY <2>1, <3>1, ReadsWholeRecords DEF Whole
    <3> QED
      BY <3>1, <3>2, <3>3, HowMany
  <2>2. CASE ~Tree(file)
    <3>1. LogReadable = 0 /\ Whole(file) = 0
      BY <1>2, <2>2 DEF LogReadable, Whole
    <3> QED
      BY <1>1, <2>2, <3>1
  <2>3. CASE Tree(file) /\ ~(Len(file) >= GA)
    <3>1. pc = "crashed" /\ ~closed /\ Len(file) >= 1 /\ Len(file) < GA
      BY <1>1, <1>3, <1>6, <2>3 DEF LostInClose, Tree
    <3>2. file[1].unfin = {0, 2}
      BY <3>1, SoundAfterLoss
    <3>3. ~OpenOK(file)
      BY <1>1, <2>3, <3>1, <3>2, OpensFile
    <3>4. LogReadable = 0 /\ Whole(file) = 0
      BY <2>3, <3>3 DEF LogReadable, Whole
    <3>5. flushed[1] > 0 => Len(file) >= GA
      <4>1. PICK a \in Nat : a = flushed[1] * R
        BY <1>1, Monotone
      <4>2. flushed[1] > 0 => Len(disk) >= GA + a
        BY <4>1 DEF GInv, DiskInv
      <4> QED
        BY <1>1, <4>1, <4>2
    <3> QED
      BY <1>1, <2>3, <3>4, <3>5
  <2> QED
    BY <2>1, <2>2, <2>3
<1>7. ~LostInClose => LogDurable = IF Tree(disk) THEN flushed[1] ELSE 0
  BY <1>2 DEF LogDurable
<1>8. LostInClose => LogReadable = 0 /\ LogDurable = 0
  BY DEF LogReadable, LogDurable
<1>9. LogReadable \in Nat /\ LogDurable \in Nat /\ LogReadable <= count[1] /\ LogDurable <= LogReadable
  <2>1. CASE LostInClose
    BY <1>1, <1>8, <2>1
  <2>2. CASE ~LostInClose
    <3>1. LogReadable \in Nat /\ LogReadable <= count[1] /\ (flushed[1] > 0 /\ Tree(file) => flushed[1] <= LogReadable)
      BY <1>6, <2>2
    <3> QED
      BY <1>1, <1>4, <1>7, <2>2, <3>1
  <2> QED
    BY <2>1, <2>2
<1>10. ASSUME pc = "done", res = "ok" PROVE LogReadable = count[1]
  <2>1. ~LostInClose /\ ClosedRoundTrip
    BY <1>10, ClosedNow DEF LostInClose
  <2>2. file[1].unfin = {}
    BY <1>10, <2>1 DEF ClosedRoundTrip
  <2>3. Off(Sink) >= 1 /\ Cell(Sink, 1).unfin = {} /\ Len(buf) = 0
    <3>1. Writing
      BY <1>10 DEF Writing, WInv, StageInv, Finishing
    <3>2. Off(Sink) = GA + growBytes /\ growBytes \in Nat
      BY <3>1, CountFacts DEF GInv, SizeInv
    <3>3. Cell(Sink, 1).unfin = {} /\ Off(Sink) >= 1
      BY <1>1, <1>10, <3>2 DEF GInv, PatchInv
    <3> QED
      BY <1>10, <3>3 DEF GInv, PatchInv
  <2>4. Len(file) >= 1
    <3>1. Off(Sink) = Len(file) + Len(buf)
      BY NowFacts
    <3> QED
      BY <1>1, <2>3, <3>1
  <2>5. Sound(file) /\ Tree(file) /\ Len(file) = GA + growBytes
    BY <1>10, <2>2, <2>4, FinalizedFile
  <2>6. Readable(file, 1) = count[1]
    BY <2>5, HowMany
  <2> QED
    BY <1>1, <1>2, <2>1, <2>5, <2>6, OpensFile DEF LogReadable
<1> QED
  BY <1>1, <1>3, <1>4, <1>6, <1>7, <1>8, <1>9, <1>10 DEF LogOK

(* ... and in the next one.                                                *)
LEMMA LogStateNext ==
    ASSUME Plain
    PROVE  WInv' /\ GInv' => LogOK'
  BY LogState, PTL

(* How far the writer is.                                                  *)
StatusOK ==
    /\ pc = "crashed" /\ closed => LogStatus = "torn"
    /\ pc = "crashed" /\ ~closed => LogStatus = "lost"
    /\ pc = "done" /\ res = "ok" => LogStatus = "closed"
    /\ pc = "done" /\ res # "ok" => LogStatus = "failed"
    /\ pc \notin {"crashed", "done"} /\ closed => LogStatus = "closing"
    /\ pc \notin {"crashed", "done"} /\ ~closed => LogStatus = "open"

(* The abstract status, case by case, ...                                  *)
LEMMA Status == StatusOK
<1>1. ASSUME pc = "crashed", closed PROVE LogStatus = "torn"
  <2>1. /\ LostInClose /\ ~(pc = "crashed" /\ ~closed) /\ ~(pc = "done" /\ res = "ok")
        /\ ~(pc = "done" /\ res # "ok") /\ ~(pc \notin {"crashed", "done"} /\ closed)
        /\ ~(pc \notin {"crashed", "done"} /\ ~closed)
    BY <1>1 DEF LostInClose
  <2> QED
    BY <2>1, Zenon DEF LogStatus
<1>2. ASSUME pc = "crashed", ~closed PROVE LogStatus = "lost"
  <2>1. /\ ~LostInClose /\ (pc = "crashed" /\ ~closed) /\ ~(pc = "done" /\ res = "ok")
        /\ ~(pc = "done" /\ res # "ok") /\ ~(pc \notin {"crashed", "done"} /\ closed)
        /\ ~(pc \notin {"crashed", "done"} /\ ~closed)
    BY <1>2 DEF LostInClose
  <2> QED
    BY <2>1, Zenon DEF LogStatus
<1>3. ASSUME pc = "done", res = "ok" PROVE LogStatus = "closed"
  <2>1. /\ ~LostInClose /\ ~(pc = "crashed" /\ ~closed) /\ (pc = "done" /\ res = "ok")
        /\ ~(pc = "done" /\ res # "ok") /\ ~(pc \notin {"crashed", "done"} /\ closed)
        /\ ~(pc \notin {"crashed", "done"} /\ ~closed)
    BY <1>3 DEF LostInClose
  <2> QED
    BY <2>1, Zenon DEF LogStatus
<1>4. ASSUME pc = "done", res # "ok" PROVE LogStatus = "failed"
  <2>1. /\ ~LostInClose /\ ~(pc = "crashed" /\ ~closed) /\ ~(pc = "done" /\ res = "ok")
        /\ (pc = "done" /\ res # "ok") /\ ~(pc \notin {"crashed", "done"} /\ closed)
        /\ ~(pc \notin {"crashed", "done"} /\ ~closed)
    BY <1>4 DEF LostInClose
  <2> QED
    BY <2>1, Zenon DEF LogStatus
<1>5. ASSUME pc \notin {"crashed", "done"}, closed PROVE LogStatus = "closing"
  <2>1. /\ ~LostInClose /\ ~(pc = "crashed" /\ ~closed) /\ ~(pc = "done" /\ res = "ok")
        /\ ~(pc = "done" /\ res # "ok") /\ (pc \notin {"crashed", "done"} /\ closed)
        /\ ~(pc \notin {"crashed", "done"} /\ ~closed)
    BY <1>5 DEF LostInClose
  <2> QED
    BY <2>1, Zenon DEF LogStatus
<1>6. ASSUME pc \notin {"crashed", "done"}, ~closed PROVE LogStatus = "open"
  <2>1. /\ ~LostInClose /\ ~(pc = "crashed" /\ ~closed) /\ ~(pc = "done" /\ res = "ok")
        /\ ~(pc = "done" /\ res # "ok") /\ ~(pc \notin {"crashed", "done"} /\ closed)
        /\ (pc \notin {"crashed", "done"} /\ ~closed)
    BY <1>6 DEF LostInClose
  <2> QED
    BY <2>1, Zenon DEF LogStatus
<1> QED
  BY <1>1, <1>2, <1>3, <1>4, <1>5, <1>6 DEF StatusOK

(* ... and in the next state.                                              *)
LEMMA StatusNext == StatusOK'
  BY Status, PTL

(* More whole records, or as many.                                         *)
LEMMA WholeGrows ==
    ASSUME Plain, NEW f, NEW h, Len(f) \in Nat, Len(h) \in Nat, Len(f) <= Len(h), Tree(f) => Tree(h)
    PROVE  Whole(f) \in Nat /\ Whole(h) \in Nat /\ Whole(f) <= Whole(h)
<1>1. GA \in Nat /\ R \in Nat /\ R >= 1
  BY PlainFacts
<1>2. \A g : Len(g) \in Nat => Whole(g) \in Nat
  <2> SUFFICES ASSUME NEW g, Len(g) \in Nat PROVE Whole(g) \in Nat
    OBVIOUS
  <2>1. CASE Tree(g) /\ Len(g) >= GA
    <3>1. PICK n \in Nat : n = Len(g) - GA
      BY <1>1, <2>1
    <3>2. n \div R \in Nat
      BY <1>1, DivFacts
    <3> QED
      BY <2>1, <3>1, <3>2 DEF Whole
  <2>2. CASE ~(Tree(g) /\ Len(g) >= GA)
    BY <2>2 DEF Whole
  <2> QED
    BY <2>1, <2>2
<1>3. CASE Tree(f) /\ Len(f) >= GA
  <2>1. PICK n \in Nat : n = Len(f) - GA
    BY <1>1, <1>3
  <2>2. PICK m \in Nat : m = Len(h) - GA /\ n <= m /\ Len(h) >= GA
    <3>1. Len(h) - GA \in Nat /\ n <= Len(h) - GA /\ Len(h) >= GA
      BY <1>1, <1>3, <2>1
    <3> QED
      BY <3>1
  <2>3. n \div R <= m \div R
    BY <1>1, <2>2, DivMonotone
  <2>4. Whole(f) = n \div R
    BY <1>3, <2>1 DEF Whole
  <2>5. Whole(h) = m \div R
    BY <1>3, <2>2 DEF Whole
  <2> QED
    BY <1>2, <2>3, <2>4, <2>5
<1>4. CASE ~(Tree(f) /\ Len(f) >= GA)
  <2>1. Whole(f) = 0
    BY <1>4 DEF Whole
  <2> QED
    BY <1>2, <2>1
<1> QED
  BY <1>3, <1>4

(* A step of a running call that takes no record: more becomes readable,   *)
(* or the call that fails was Close.                                       *)
LEMMA RunningStep ==
    ASSUME Plain, LogOK, LogOK', StatusOK, StatusOK', closed \in BOOLEAN,
           pc \notin {"crashed", "done"}, pc' # "crashed", pc' = "done" => closed /\ res' = "error",
           Len(file) <= Len(file'), Tree(file) => Tree(file'),
           UNCHANGED <<disk, flushed, count, closed>>
    PROVE  [Log!Next]_(Log!logvars)
<1>1. ~LostInClose /\ ~LostInClose'
  BY DEF LostInClose
<1>2. LogReadable = Whole(file) /\ LogReadable' = Whole(file') /\ Len(file) \in Nat /\ Len(file') \in Nat
  BY <1>1 DEF LogOK, Whole, Tree
<1>3. Whole(file) <= Whole(file')
  BY <1>2, WholeGrows
<1>4. /\ LogReadable \in Nat /\ LogReadable' \in Nat /\ LogReadable <= LogReadable' /\ LogReadable' <= count[1]
      /\ count'[1] = count[1] /\ count[1] \in Nat
  BY <1>2, <1>3 DEF LogOK
<1>5. LogDurable' = LogDurable /\ LogDurable \in Nat /\ LogDurable <= LogReadable'
  BY <1>1 DEF LogOK, Tree
<1>6. LogReadable' \in LogReadable..count[1] /\ LogDurable' \in LogDurable..LogReadable'
  BY <1>4, <1>5
<1>7. CASE pc' = "done"
  <2>1. LogStatus = "closing" /\ LogStatus' = "failed"
    BY <1>7 DEF StatusOK
  <2>2. Log!Close
    BY <1>4, <1>6, <2>1 DEF Log!Close
  <2> QED
    BY <2>2 DEF Log!Next
<1>8. CASE pc' # "done"
  <2>1. LogStatus' = LogStatus /\ LogStatus \in {"open", "closing"}
    BY <1>8 DEF StatusOK
  <2>2. Log!Spill
    BY <1>4, <1>5, <1>6, <2>1 DEF Log!Spill, Log!Running
  <2> QED
    BY <2>2 DEF Log!Next
<1> QED
  BY <1>7, <1>8

(* Append hands over a record.                                             *)
LEMMA RecordStep ==
    ASSUME Plain, WInv, WInv', GInv, LogOK, LogOK', StatusOK, StatusOK', StoreRecord
    PROVE  Log!Append
<1>1. /\ pc = "record" /\ ~closed /\ count' = [count EXCEPT ![call.g] = @ + 1]
      /\ UNCHANGED <<disk, flushed, closed>> /\ call.g = 1
  BY PlainFacts DEF StoreRecord, WInv, StageInv, CallInv
<1>2. pc' = "idle"
  BY <1>1, Zenon DEF StoreRecord, Plain, Succeed, Return
<1>3. ~LostInClose /\ ~LostInClose'
  BY <1>1, <1>2 DEF LostInClose
<1>4. Len(file) <= Len(file') /\ (Tree(file) => Tree(file'))
  BY RecordGrows, GrowsTree DEF Grows
<1>5. LogReadable = Whole(file) /\ LogReadable' = Whole(file') /\ Len(file) \in Nat /\ Len(file') \in Nat
  BY <1>3 DEF LogOK, Whole, Tree
<1>6. Whole(file) <= Whole(file')
  BY <1>4, <1>5, WholeGrows
<1>7. count'[1] = count[1] + 1 /\ count[1] \in Nat
  BY <1>1, PlainFacts DEF GInv, SizeInv
<1>8. /\ LogReadable \in Nat /\ LogReadable' \in Nat /\ LogReadable <= LogReadable' /\ LogReadable' <= count'[1]
  BY <1>5, <1>6 DEF LogOK
<1>9. LogDurable' = LogDurable
  BY <1>1, <1>3 DEF LogOK, Tree
<1>10. LogStatus = "open" /\ LogStatus' = "open"
  BY <1>1, <1>2 DEF StatusOK
<1>11. LogReadable' \in LogReadable..count'[1]
  BY <1>7, <1>8
<1> QED
  BY <1>7, <1>9, <1>10, <1>11 DEF Log!Append

(* Flush.                                                                  *)
LEMMA FlushStep ==
    ASSUME Plain, WInv, WInv', GInv, LogOK, LogOK', StatusOK, StatusOK', Flush
    PROVE  Log!Flush
<1>1. /\ pc = "idle" /\ pc' = "idle" /\ ~closed /\ (BufFlush \/ BufFlushFails) /\ UNCHANGED <<closed, count, acked>>
      /\ UNCHANGED <<disk, flushed>> \/ (BufFlush /\ disk' = file' /\ flushed' = acked)
  BY DEF Flush, Succeed, Return, wvars
<1>2. ~LostInClose /\ ~LostInClose'
  BY <1>1 DEF LostInClose
<1>3. Len(file) <= Len(file') /\ (Tree(file) => Tree(file'))
  BY <1>1, FlushGrows, GrowsTree DEF Grows
<1>4. LogReadable = Whole(file) /\ LogReadable' = Whole(file') /\ Len(file) \in Nat /\ Len(file') \in Nat
  BY <1>2 DEF LogOK, Whole, Tree
<1>5. Whole(file) <= Whole(file')
  BY <1>3, <1>4, WholeGrows
<1>6. count[1] \in Nat /\ LogReadable \in Nat /\ LogReadable' \in Nat /\ LogReadable <= LogReadable' /\ LogReadable' <= count[1]
  BY <1>1, <1>4, <1>5 DEF LogOK
<1>7. /\ LogDurable = (IF Tree(disk) THEN flushed[1] ELSE 0) /\ LogDurable' = (IF Tree(disk') THEN flushed'[1] ELSE 0)
      /\ LogDurable \in Nat /\ LogDurable' \in Nat /\ LogDurable' <= LogReadable' /\ flushed[1] \in Nat
      /\ Tree(disk) => Tree(file)
  BY <1>2 DEF LogOK, Tree
<1>8. LogDurable <= LogDurable'
  <2>1. CASE UNCHANGED <<disk, flushed>>
    BY <1>7, <2>1
  <2>2. CASE BufFlush /\ disk' = file' /\ flushed' = acked
    <3>1. ~err
      BY <2>2 DEF BufFlush
    <3>2. flushed[1] <= flushed'[1]
      BY <2>2, <3>1 DEF GInv, SizeInv
    <3>3. Tree(disk) => Tree(disk')
      BY <1>3, <1>7, <2>2
    <3> QED
      BY <1>7, <3>2, <3>3
  <2> QED
    BY <1>1, <2>1, <2>2
<1>9. LogStatus = "open" /\ LogStatus' = "open"
  BY <1>1 DEF StatusOK
<1>10. LogReadable' \in LogReadable..count[1] /\ LogDurable' \in LogDurable..LogReadable' /\ count'[1] = count[1]
  BY <1>1, <1>6, <1>7, <1>8
<1> QED
  BY <1>9, <1>10 DEF Log!Flush

(* The fsync that ends Close.                                              *)
LEMMA SyncStep ==
    ASSUME Plain, WInv, LogOK, LogOK', StatusOK, StatusOK', SyncClose
    PROVE  Log!Close
<1>1. /\ pc = "sync" /\ pc' = "done" /\ closed /\ UNCHANGED <<file, closed, count, flushed>>
      /\ (disk' = file /\ res' = "ok") \/ (disk' = disk /\ res' = "error")
  BY DEF SyncClose, Succeed, Return, WInv, StageInv, Finishing, wvars, hist
<1>2. ~LostInClose /\ ~LostInClose'
  BY <1>1 DEF LostInClose
<1>3. LogReadable' = LogReadable /\ LogReadable \in Nat /\ LogReadable <= count[1] /\ count[1] \in Nat
  BY <1>1, <1>2 DEF LogOK, Whole, Tree
<1>4. /\ LogDurable = (IF Tree(disk) THEN flushed[1] ELSE 0) /\ LogDurable' = (IF Tree(disk') THEN flushed[1] ELSE 0)
      /\ LogDurable \in Nat /\ LogDurable' \in Nat /\ LogDurable' <= LogReadable' /\ flushed[1] \in Nat
      /\ Tree(disk) => Tree(file)
  BY <1>1, <1>2 DEF LogOK, Tree
<1>5. LogDurable <= LogDurable'
  <2>1. Tree(disk) => Tree(disk')
    BY <1>1, <1>4
  <2> QED
    BY <1>4, <2>1
<1>6. LogStatus = "closing" /\ LogStatus' \in {"closed", "failed"} /\ (LogStatus' = "closed" => res' = "ok")
  BY <1>1 DEF StatusOK
<1>7. res' = "ok" => LogReadable' = count'[1]
  BY <1>1 DEF LogOK
<1>8. LogReadable' \in LogReadable..count[1] /\ LogDurable' \in LogDurable..LogReadable' /\ count'[1] = count[1]
  BY <1>1, <1>3, <1>4, <1>5
<1> QED
  BY <1>6, <1>7, <1>8 DEF Log!Close

(* The power is lost: nothing that is durable goes.                        *)
LEMMA LossStep ==
    ASSUME Plain, WInv, GInv, LinkInv, LogOK, LogOK', StatusOK, StatusOK', PowerLoss
    PROVE  Log!PowerLoss \/ Log!Tear
<1>1. pc \notin {"crashed", "done"} /\ pc' = "crashed" /\ UNCHANGED <<closed, count, flushed>> /\ closed \in BOOLEAN
  BY DEF PowerLoss, wvars, hist, WInv, TypeInv
<1>2. CASE closed
  <2>1. LogStatus = "closing" /\ LogStatus' = "torn"
    BY <1>1, <1>2 DEF StatusOK
  <2>2. LostInClose'
    BY <1>1, <1>2 DEF LostInClose
  <2>3. LogReadable' = 0 /\ LogDurable' = 0 /\ count'[1] = count[1]
    BY <1>1, <2>2 DEF LogOK
  <2>4. Log!Tear
    BY <2>1, <2>3 DEF Log!Tear
  <2> QED
    BY <2>4
<1>3. CASE ~closed
  <2>1. LogStatus = "open" /\ LogStatus' = "lost"
    BY <1>1, <1>3 DEF StatusOK
  <2>2. ~LostInClose /\ ~LostInClose'
    BY <1>1, <1>3 DEF LostInClose
  <2>3. /\ Len(disk) <= Len(file') /\ Len(file') <= Len(file) /\ Len(file') \in Nat
        /\ \A i \in 1..Len(file') : \/ i <= Len(file) /\ file'[i] = file[i]
                                    \/ i <= Len(disk) /\ file'[i] = disk[i]
        /\ disk' = file'
    BY PowerLossCells
  <2>4. /\ Len(disk) \in Nat /\ Len(file) \in Nat /\ Len(disk) <= Len(file)
        /\ \A i \in 1..Len(file) : Cell(Sink, i) = file[i]
    BY FilesShaped
  (* A link that is in what is left was in the file.                        *)
  <2>5. ASSUME Tree(file') PROVE Tree(file)
    <3>1. 2 \in 1..Len(file') /\ 3 \in 1..Len(file') /\ file'[2].first = 3 /\ file'[3].data = GA /\ Len(file) >= 3
      BY <2>3, <2>4, <2>5 DEF Tree
    <3>2. file[2].first = 3
      <4>1. CASE file'[2] = file[2]
        BY <3>1, <4>1
      <4>2. CASE 2 <= Len(disk) /\ file'[2] = disk[2]
        <5>1. Cell(Sink, 2).first = 3
          BY <2>4, <3>1, <4>2 DEF GInv, DiskInv
        <5> QED
          BY <2>4, <3>1, <5>1
      <4> QED
        BY <2>3, <3>1, <4>1, <4>2
    <3>3. file[3].data = GA
      <4>1. CASE file'[3] = file[3]
        BY <3>1, <4>1
      <4>2. CASE 3 <= Len(disk) /\ file'[3] = disk[3]
        <5>1. Cell(Sink, 3).data = GA
          BY <2>4, <3>1, <4>2 DEF GInv, DiskInv
        <5> QED
          BY <2>4, <3>1, <5>1
      <4> QED
        BY <2>3, <3>1, <4>1, <4>2
    <3> QED
      BY <3>1, <3>2, <3>3 DEF Tree
  <2>6. ASSUME Tree(disk) PROVE Tree(file')
    <3>1. Tree(file)
      BY <2>6 DEF LogOK
    <3>2. 2 \in 1..Len(file') /\ 3 \in 1..Len(file') /\ Len(file') >= 3
      BY <2>3, <2>4, <2>6 DEF Tree
    <3>3. file'[2].first = 3 /\ file'[3].data = GA
      BY <2>3, <2>6, <3>1, <3>2 DEF Tree
    <3> QED
      BY <3>2, <3>3 DEF Tree
  <2>7. LogReadable = Whole(file) /\ LogReadable' = Whole(file')
    BY <2>2 DEF LogOK, Whole, Tree
  <2>8. Whole(file') <= Whole(file)
    BY <2>3, <2>4, <2>5, WholeGrows
  <2>9. /\ LogDurable = (IF Tree(disk) THEN flushed[1] ELSE 0) /\ LogDurable' = (IF Tree(file') THEN flushed[1] ELSE 0)
        /\ LogDurable' \in Nat /\ LogDurable' <= LogReadable' /\ flushed[1] \in Nat
        /\ LogReadable \in Nat /\ LogReadable' \in Nat
    BY <1>1, <2>2, <2>3 DEF LogOK, Tree
  <2>10. LogDurable' = LogDurable
    <3>1. flushed[1] > 0 /\ Tree(file') => Tree(disk)
      BY <1>1, <1>3, <2>5 DEF LinkInv
    <3> QED
      BY <2>6, <2>9, <3>1
  <2>11. LogReadable' \in LogDurable..LogReadable /\ count'[1] = count[1]
    BY <1>1, <2>7, <2>8, <2>9, <2>10
  <2>12. Log!PowerLoss
    BY <2>1, <2>10, <2>11 DEF Log!PowerLoss
  <2> QED
    BY <2>12
<1> QED
  BY <1>1, <1>2, <1>3

(* Every step of the writer is a step of the log, or none.                 *)
LEMMA LogStep ==
    ASSUME Plain, WInv, WInv', GInv, GInv', LinkInv, [Next]_vars
    PROVE  [Log!Next]_(Log!logvars)
<1>0. LogOK /\ LogOK' /\ StatusOK /\ StatusOK' /\ closed \in BOOLEAN
  BY LogState, LogStateNext, Status, StatusNext DEF WInv, TypeInv
<1>1. CASE \E g \in Groups : \E strs \in StrArgs(g) : AppendCall(g, strs)
  <2>1. /\ pc = "idle" /\ pc' \in {"record", "begin"}
        /\ UNCHANGED <<file, disk, flushed, count, closed>>
    BY <1>1, PlainFacts DEF AppendCall, FirstStep, wvars
  <2>2. Len(file) <= Len(file') /\ (Tree(file) => Tree(file'))
    BY <1>0, <2>1 DEF LogOK
  <2> QED
    BY <1>0, <2>1, <2>2, RunningStep
<1>2. CASE Close
  <2>1. /\ pc = "idle" /\ pc' \in {"begin", "link"} /\ ~closed /\ closed'
        /\ UNCHANGED <<file, disk, flushed, count>>
    BY <1>2 DEF Close, hist
  <2>2. LogStatus = "open" /\ LogStatus' = "closing"
    BY <1>0, <2>1 DEF StatusOK
  <2>3. ~LostInClose /\ ~LostInClose'
    BY <2>1 DEF LostInClose
  <2>4. LogReadable' = LogReadable /\ LogDurable' = LogDurable /\ count'[1] = count[1]
    BY <1>0, <2>1, <2>3 DEF LogOK, Whole, Tree
  <2>5. Log!StartClose
    BY <2>2, <2>4 DEF Log!StartClose
  <2> QED
    BY <2>5 DEF Log!Next
<1>3. CASE Flush
  <2>1. Log!Flush
    BY <1>0, <1>3, FlushStep
  <2> QED
    BY <2>1 DEF Log!Next
<1>4. CASE Begin
  <2>1. /\ pc = "begin" /\ UNCHANGED <<disk, flushed, count, closed>>
    BY <1>4 DEF Begin, hist
  <2>2. pc' # "crashed" /\ (pc' = "done" => closed /\ res' = "error")
    BY <1>0, <1>4, Zenon DEF Begin, Succeed, Return
  <2>3. Len(file) <= Len(file') /\ (Tree(file) => Tree(file'))
    BY <1>4, BeginGrows, GrowsTree DEF Grows
  <2> QED
    BY <1>0, <2>1, <2>2, <2>3, RunningStep
<1>5. CASE FlushForPatches
  <2>1. /\ pc = "patch" /\ UNCHANGED <<disk, flushed, count, closed>> /\ (BufFlush \/ BufFlushFails)
        /\ pc' # "crashed" /\ (pc' = "done" => closed /\ res' = "error")
    BY <1>5 DEF FlushForPatches, Succeed, Return, hist
  <2>2. Len(file) <= Len(file') /\ (Tree(file) => Tree(file'))
    BY <2>1, FlushGrows, GrowsTree DEF Grows
  <2> QED
    BY <1>0, <2>1, <2>2, RunningStep
<1>6. CASE ApplyPatch
  <2>1. /\ pc = "apply" /\ UNCHANGED <<disk, flushed, count, closed>>
        /\ pc' # "crashed" /\ (pc' = "done" => closed /\ res' = "error")
    BY <1>6 DEF ApplyPatch, Return, hist
  <2>2. Len(file) <= Len(file') /\ (Tree(file) => Tree(file'))
    <3>1. Len(file') = Len(file) /\ (Tree(file) => Tree(file')) /\ Len(file) \in Nat
      BY <1>0, <1>6, PatchKeepsTree DEF LogOK
    <3> QED
      BY <3>1
  <2> QED
    BY <1>0, <2>1, <2>2, RunningStep
<1>7. CASE PatchesApplied
  <2>1. /\ pc = "apply" /\ UNCHANGED <<file, disk, flushed, count, closed>>
        /\ Succeed(IF call.op = "append" THEN FirstStep(call.g)
                   ELSE IF li <= Len(LinkOrder) THEN "link" ELSE "id")
    BY <1>7 DEF PatchesApplied, hist
  <2>2. pc' # "crashed" /\ pc' # "done"
    BY <2>1 DEF Succeed, FirstStep
  <2>3. Len(file) <= Len(file') /\ (Tree(file) => Tree(file'))
    BY <1>0, <2>1 DEF LogOK
  <2> QED
    BY <1>0, <2>1, <2>2, <2>3, RunningStep
<1>8. CASE StoreLength \/ StoreValue
  <2>1. pc = "length" \/ pc = "value"
    BY <1>8 DEF StoreLength, StoreValue
  <2>2. call.g = 1 /\ NStr[1] = 0 /\ Len(OffsOf(call)) \in Nat
    BY PlainFacts, AnySeqFacts DEF WInv, CallInv
  <2> QED
    BY <2>1, <2>2 DEF WInv, CallInv
<1>9. CASE StoreRecord
  <2>1. Log!Append
    BY <1>0, <1>9, RecordStep
  <2> QED
    BY <2>1 DEF Log!Next
<1>10. CASE LinkStream
  <2>1. pc = "link" /\ LinkOrder[li][2] = 0 /\ li = Len(LinkOrder) /\ Growing
    <3>1. pc = "link"
      BY <1>10 DEF LinkStream
    <3>2. li \in Nat \ {0} /\ li <= Len(LinkOrder)
      BY <3>1 DEF WInv, StageInv
    <3>3. li = 1
      <4>1. Len(LinkOrder) = 1
        BY PlainFacts
      <4> QED
        BY <3>2, <4>1
    <3> QED
      BY <3>1, <3>3, PlainFacts DEF Plain
  <2>2. Reach(Sink) /\ pc' = "patch" /\ UNCHANGED <<disk, flushed, count, closed>>
    BY <1>10, <2>1, Zenon DEF LinkStream, Succeed, hist
  <2>3. file' = file
    BY <2>2 DEF Reach, Sink
  <2>4. Len(file) <= Len(file') /\ (Tree(file) => Tree(file'))
    BY <1>0, <2>3 DEF LogOK
  <2> QED
    BY <1>0, <2>1, <2>2, <2>4, RunningStep
<1>11. CASE WriteFinalID
  <2>1. /\ pc = "id" /\ UNCHANGED <<disk, buf, flushed, count, closed>>
        /\ pc' # "crashed" /\ (pc' = "done" => closed /\ res' = "error")
        /\ file' = Patched(file, Patch(1, "unfin", {})) \/ file' = file
    BY <1>11 DEF WriteFinalID, Succeed, Return, wvars, hist
  <2>2. Len(file) \in Nat
    BY <1>0 DEF LogOK
  <2>3. Len(file) <= Len(file') /\ (Tree(file) => Tree(file'))
    <3>1. CASE file' = file
      BY <2>2, <3>1
    <3>2. CASE file' = Patched(file, Patch(1, "unfin", {}))
      <4>1. Patch(1, "unfin", {}).at = 1
        BY DEF Patch
      <4>2. Len(file') = Len(file) /\ \A i \in 1..Len(file) : i # 1 => file'[i] = file[i]
        BY <2>1, <3>2, <4>1, PatchKeeps DEF WInv
      <4>3. Tree(file) => 2 \in 1..Len(file) /\ 3 \in 1..Len(file)
        BY <2>2 DEF Tree
      <4> QED
        BY <2>2, <4>2, <4>3 DEF Tree
    <3> QED
      BY <2>1, <3>1, <3>2
  <2> QED
    BY <1>0, <2>1, <2>3, RunningStep
<1>12. CASE SyncClose
  <2>1. Log!Close
    BY <1>0, <1>12, SyncStep
  <2> QED
    BY <2>1 DEF Log!Next
<1>13. CASE PowerLoss
  <2>1. Log!PowerLoss \/ Log!Tear
    BY <1>0, <1>13, LossStep
  <2> QED
    BY <2>1 DEF Log!Next
<1>14. CASE UNCHANGED vars
  <2>1. UNCHANGED <<pc, res, file, disk, flushed, count, closed>>
    BY <1>14 DEF vars, wvars, hist
  <2>2. LostInClose' = LostInClose
    BY <2>1 DEF LostInClose
  <2>3. LogReadable' = LogReadable
    BY <2>1, <2>2 DEF LogReadable, Readable, GroupAt, TreeLinked, OpenOK
  <2>4. LogDurable' = LogDurable
    BY <2>1, <2>2 DEF LogDurable, TreeLinked
  <2>5. LogStatus' = LogStatus
    BY <2>1, <2>2, Zenon DEF LogStatus
  <2> QED
    BY <2>1, <2>3, <2>4, <2>5 DEF Log!logvars
<1> QED
  BY <1>1, <1>2, <1>3, <1>4, <1>5, <1>6, <1>7, <1>8, <1>9, <1>10, <1>11, <1>12, <1>13, <1>14 DEF Next, Step

(* The log is empty at first.                                              *)
LEMMA LogInit ==
    ASSUME Plain, Init
    PROVE  Log!Init
<1>1. WInv /\ GInv
  BY WInvInit, GInvInit
<1>2. LogOK /\ StatusOK
  BY <1>1, LogState, Status
<1>3. pc = "idle" /\ closed = FALSE /\ count[1] = 0
  BY PlainFacts DEF Init
<1>4. LogReadable = 0 /\ LogDurable = 0
  BY <1>2, <1>3 DEF LogOK
<1>5. LogStatus = "open"
  BY <1>2, <1>3 DEF StatusOK
<1> QED
  BY <1>3, <1>4, <1>5 DEF Log!Init

(* The growing layout implements the abstract log: through every cut,      *)
(* failed write, in-place patch and power loss, what a reader would get    *)
(* from the file grows by appended records only, never loses one a Flush   *)
(* has covered, and is everything after a successful Close.                *)
THEOREM GrowingImplementsLog ==
    ASSUME Plain
    PROVE  Spec => ImplementsLog
<1>1. Init => Log!Init
  BY LogInit
<1>2. (WInv /\ GInv) /\ (WInv /\ GInv)' /\ LinkInv /\ [Next]_vars => [Log!Next]_(Log!logvars)
  BY LogStep
<1> QED
  BY <1>1, <1>2, GrowingInv, LinkInvAlways, PTL DEF Spec, ImplementsLog, Log!Spec
-----------------------------------------------------------------------------
(* What the abstract log promises, and what the growing layout inherits.   *)

(* In the log flushed records are readable, nothing else than appended     *)
(* records is, and after a successful Close everything is.                 *)
THEOREM LogIsSafe == Log!Spec => []Log!LogInvariant
<1>1. Log!Init => Log!LogInvariant
  BY DEF Log!Init, Log!LogInvariant
<1>2. Log!LogInvariant /\ [Log!Next]_(Log!logvars) => Log!LogInvariant'
  <2> SUFFICES ASSUME Log!LogInvariant, [Log!Next]_(Log!logvars) PROVE Log!LogInvariant'
    OBVIOUS
  <2>1. CASE Log!Append
    BY <2>1 DEF Log!Append, Log!LogInvariant
  <2>2. CASE Log!Spill
    BY <2>2 DEF Log!Spill, Log!Running, Log!LogInvariant
  <2>3. CASE Log!Flush
    BY <2>3 DEF Log!Flush, Log!LogInvariant
  <2>4. CASE Log!StartClose
    BY <2>4 DEF Log!StartClose, Log!LogInvariant
  <2>5. CASE Log!Close
    BY <2>5 DEF Log!Close, Log!LogInvariant
  <2>6. CASE Log!PowerLoss
    BY <2>6 DEF Log!PowerLoss, Log!LogInvariant
  <2>7. CASE Log!Tear
    BY <2>7 DEF Log!Tear, Log!LogInvariant
  <2>8. CASE UNCHANGED Log!logvars
    BY <2>8 DEF Log!logvars, Log!LogInvariant
  <2> QED
    BY <2>1, <2>2, <2>3, <2>4, <2>5, <2>6, <2>7, <2>8 DEF Log!Next
<1> QED
  BY <1>1, <1>2, PTL DEF Log!Spec

(* What a step of the log may never do: take back a readable record,       *)
(* except when the power is lost, and take back a durable one, except when *)
(* it is lost inside Close.                                                *)
NothingTakenBack ==
    /\ LogStatus' \notin {"lost", "torn"} => LogReadable <= LogReadable'
    /\ LogStatus' # "torn" => LogDurable <= LogDurable' /\ LogDurable <= LogReadable'

(* No step of the abstract log takes a readable or durable record back.    *)
THEOREM LogOnlyGrows == Log!Spec => [][NothingTakenBack]_(Log!logvars)
<1>1. Log!LogInvariant /\ [Log!Next]_(Log!logvars) => [NothingTakenBack]_(Log!logvars)
  <2> SUFFICES ASSUME Log!LogInvariant, Log!Next PROVE NothingTakenBack
    OBVIOUS
  <2> QED
    BY DEF Log!LogInvariant, Log!Next, Log!Append, Log!Spill, Log!Flush, Log!StartClose,
           Log!Close, Log!PowerLoss, Log!Tear, Log!Running, NothingTakenBack
<1> QED
  BY <1>1, LogIsSafe, PTL DEF Log!Spec

(* The growing layout inherits both: in every state what a reader would    *)
(* get covers what was flushed and is all there is after Close, and no     *)
(* step of Append, Flush or Close takes a readable record back.            *)
THEOREM GrowingOnlyGrows ==
    ASSUME Plain
    PROVE  Spec => []Log!LogInvariant /\ [][NothingTakenBack]_(Log!logvars)
  BY GrowingImplementsLog, LogIsSafe, LogOnlyGrows, PTL DEF ImplementsLog
=============================================================================
