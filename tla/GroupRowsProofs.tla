--------------------------- MODULE GroupRowsProofs ---------------------------
(***************************************************************************)
(* Proofs about the row writer, for any number of channels of any types,   *)
(* any Records, calls of the setters and batches.                          *)
(*                                                                         *)
(* What a Record holds is told channel by channel (RecordOK), and so is    *)
(* what the streams hold of a row (RowHeld): channels do not overlap       *)
(* (Layout), so setting one, or writing the offset of a text, leaves the   *)
(* others alone.  A Record that is older than some channels holds the      *)
(* first Len(set) of them.  Nothing here asks that channels are defined    *)
(* in time, except LateInv.                                                *)
(***************************************************************************)
EXTENDS GroupRows, TLAPS, SequenceTheorems, WellFoundedInduction

TypeNames == {"f64", "f32", "i8", "i16", "u8", "str"}

Channels == [type : TypeNames, off : Nat]

(* Where the first k channels end.                                         *)
SizeTo(cs, k) == IF k = 0 THEN 0 ELSE cs[k].off + Width(cs[k].type)

Layout(cs) ==
    /\ cs \in Seq(Channels)
    /\ \A i, j \in 1..Len(cs) : i < j => cs[i].off + Width(cs[i].type) <= cs[j].off

Records == [buf : Seq(Nat), strs : Seq(Seq(Nat)), err : BOOLEAN, set : Seq(Seq(Nat))]

(* The Record holds what was set.                                          *)
FieldHeld(c, r, v) ==
    /\ Len(v) = 2
    /\ \A j \in 1..Width(c.type) : r.buf[c.off + j] = Field(c.type, v)[j]

RecordOK(cs, r) ==
    /\ r \in Records
    /\ Len(r.strs) = Len(r.set) /\ Len(r.set) <= Len(cs)
    /\ Len(r.buf) = SizeTo(cs, Len(r.set))
    /\ \A i \in 1..Len(r.set) :
          IF cs[i].type = "str" THEN r.strs[i] = r.set[i]
          ELSE FieldHeld(cs[i], r, r.set[i])

-----------------------------------------------------------------------------
(* Induction over the numbers up to n.                                     *)
LEMMA Climb ==
    ASSUME NEW n \in Nat, NEW P, 0 \in P,
           \A m \in 1..n : m - 1 \in P => m \in P
    PROVE  \A m \in 0..n : m \in P
<1> DEFINE C == {m \in 0..n : m \notin P}
<1>1. SUFFICES ASSUME C # {} PROVE FALSE
  OBVIOUS
<1>2. C \subseteq Nat
  OBVIOUS
<1>3. PICK m \in C : \A k \in C : ~(<<k, m>> \in OpToRel(<, Nat))
  <2> HIDE DEF C
  <2> QED
    BY <1>1, <1>2, NatLessThanWellFounded, WFMin
<1>4. \A k \in C : ~(k < m)
  BY <1>2, <1>3 DEF OpToRel
<1>5. m # 0 /\ m \in 1..n /\ m - 1 \in 0..n
  OBVIOUS
<1>6. m - 1 \in P
  BY <1>4, <1>5
<1> QED
  BY <1>5, <1>6

(* A function on 1..n is a sequence.                                       *)
LEMMA MakeSeq ==
    ASSUME NEW S, NEW n \in Nat, NEW f \in [1..n -> S]
    PROVE  f \in Seq(S) /\ Len(f) = n
  OBVIOUS

(* What a concatenation holds.                                             *)
LEMMA Joined ==
    ASSUME NEW s \in Seq(Nat), NEW t \in Seq(Nat), NEW u, u = s \o t
    PROVE  /\ u \in Seq(Nat) /\ Len(u) = Len(s) + Len(t)
           /\ \A b \in 1..Len(u) : u[b] = IF b <= Len(s) THEN s[b] ELSE t[b - Len(s)]
<1>1. /\ s \o t \in Seq(Nat) /\ Len(s \o t) = Len(s) + Len(t)
      /\ \A b \in 1..(Len(s) + Len(t)) :
            (s \o t)[b] = IF b <= Len(s) THEN s[b] ELSE t[b - Len(s)]
  BY ConcatProperties
<1> QED
  BY <1>1, Zenon

(* Widths and the bytes of numbers.                                        *)
LEMMA WidthType ==
    ASSUME NEW t \in TypeNames
    PROVE  Width(t) \in {1, 2} /\ (t = "str" => Width(t) = 2)
  BY DEF TypeNames, Width

LEMMA FieldType ==
    ASSUME NEW t \in TypeNames, t # "str", NEW v \in Seq(Nat), Len(v) = 2
    PROVE  /\ Field(t, v) \in Seq(Nat) /\ Len(Field(t, v)) = Width(t)
           /\ DOMAIN Field(t, v) = 1..Width(t)
<1>1. v[1] \in Nat /\ v[2] \in Nat
  BY SMTT(30)
<1>2. CASE t = "f32"
  <2>1. Field(t, v) = <<v[1]>> /\ Width(t) = 1
    BY <1>2 DEF Field, Width
  <2> QED
    BY <1>1, <2>1
<1>3. CASE t \in {"i8", "u8"}
  <2>1. Field(t, v) = <<v[2]>> /\ Width(t) = 1
    BY <1>3 DEF Field, Width
  <2> QED
    BY <1>1, <2>1
<1>4. CASE t \in {"f64", "i16"}
  <2>1. Field(t, v) = <<v[2], v[1]>> /\ Width(t) = 2
    BY <1>4 DEF Field, Width
  <2> QED
    BY <1>1, <2>1
<1> QED
  BY <1>2, <1>3, <1>4 DEF TypeNames

(* Channels do not overlap, and end where the next begins or before.       *)
LEMMA LayoutFacts ==
    ASSUME NEW cs, Layout(cs)
    PROVE  /\ cs \in Seq(Channels) /\ Len(cs) \in Nat /\ DOMAIN cs = 1..Len(cs)
           /\ \A i \in 1..Len(cs) :
                 /\ cs[i] \in Channels /\ cs[i].off \in Nat /\ cs[i].type \in TypeNames
                 /\ Width(cs[i].type) \in {1, 2}
                 /\ cs[i].type = "str" => Width(cs[i].type) = 2
           /\ \A k \in 0..Len(cs) : SizeTo(cs, k) \in Nat
           /\ \A k \in 0..Len(cs), i \in 1..Len(cs) :
                 /\ i <= k => cs[i].off + Width(cs[i].type) <= SizeTo(cs, k)
                 /\ i > k => SizeTo(cs, k) <= cs[i].off
           /\ \A k, l \in 0..Len(cs) : SizeTo(cs, k) = SizeTo(cs, l) => k = l
           /\ RecSize(cs) = SizeTo(cs, Len(cs))
<1>1. cs \in Seq(Channels) /\ Len(cs) \in Nat /\ DOMAIN cs = 1..Len(cs)
  BY LenProperties DEF Layout
<1>2. ASSUME NEW i \in 1..Len(cs)
      PROVE  /\ cs[i] \in Channels /\ cs[i].off \in Nat /\ cs[i].type \in TypeNames
             /\ Width(cs[i].type) \in {1, 2}
             /\ cs[i].type = "str" => Width(cs[i].type) = 2
  <2>1. cs[i] \in Channels
    BY <1>1, ElementOfSeq
  <2>2. cs[i].off \in Nat /\ cs[i].type \in TypeNames
    BY <2>1 DEF Channels
  <2> QED
    BY <2>1, <2>2, WidthType
<1>3. \A i, j \in 1..Len(cs) : i < j => cs[i].off + Width(cs[i].type) <= cs[j].off
  BY DEF Layout
<1>4. \A k \in 0..Len(cs) : SizeTo(cs, k) \in Nat
  BY <1>1, <1>2 DEF SizeTo
<1>5. ASSUME NEW k \in 0..Len(cs), NEW i \in 1..Len(cs)
      PROVE  /\ i <= k => cs[i].off + Width(cs[i].type) <= SizeTo(cs, k)
             /\ i > k => SizeTo(cs, k) <= cs[i].off
  <2>1. CASE k = 0
    BY <1>1, <1>2, <2>1 DEF SizeTo
  <2>2. CASE k # 0
    <3>1. k \in 1..Len(cs) /\ SizeTo(cs, k) = cs[k].off + Width(cs[k].type)
      BY <1>1, <2>2 DEF SizeTo
    <3> QED
      BY <1>2, <1>3, <3>1
  <2> QED
    BY <2>1, <2>2
<1>6. ASSUME NEW k \in 0..Len(cs), NEW l \in 0..Len(cs), k < l
      PROVE  SizeTo(cs, k) < SizeTo(cs, l)
  <2>1. l \in 1..Len(cs) /\ l > k
    BY <1>1, <1>6
  <2>2. SizeTo(cs, k) <= cs[l].off /\ cs[l].off + Width(cs[l].type) <= SizeTo(cs, l)
    BY <1>5, <2>1
  <2> QED
    BY <1>2, <1>4, <2>1, <2>2
<1>7. \A k, l \in 0..Len(cs) : SizeTo(cs, k) = SizeTo(cs, l) => k = l
  BY <1>1, <1>4, <1>6
<1>8. RecSize(cs) = SizeTo(cs, Len(cs))
  BY <1>1 DEF RecSize, SizeTo, Last
<1> QED
  BY <1>1, <1>2, <1>3, <1>4, <1>5, <1>7, <1>8

(* A new channel begins where the others end (writergroup.go: add).        *)
LEMMA AddKeepsLayout ==
    ASSUME NEW cs, Layout(cs), NEW t \in TypeNames, NEW ds, ds = WithChannel(cs, t)
    PROVE  /\ Layout(ds) /\ Len(ds) = Len(cs) + 1
           /\ \A i \in 1..Len(cs) : ds[i] = cs[i]
           /\ \A k \in 0..Len(cs) : SizeTo(ds, k) = SizeTo(cs, k)
<1> DEFINE n == Len(cs)
           c == [type |-> t, off |-> RecSize(cs)]
<1>1. cs \in Seq(Channels) /\ n \in Nat /\ RecSize(cs) = SizeTo(cs, n) /\ SizeTo(cs, n) \in Nat
      /\ \A i \in 1..n : cs[i].off + Width(cs[i].type) <= SizeTo(cs, n)
  BY LayoutFacts
<1>2. c \in Channels
  BY <1>1 DEF Channels
<1>3. /\ ds \in Seq(Channels) /\ Len(ds) = n + 1 /\ ds[n + 1] = c
      /\ \A i \in 1..n : ds[i] = cs[i]
  <2> HIDE DEF c
  <2>1. ds = Append(cs, c)
    BY DEF WithChannel, c
  <2> QED
    BY <1>1, <1>2, <2>1, AppendProperties
<1>4. ASSUME NEW i \in 1..Len(ds), NEW j \in 1..Len(ds), i < j
      PROVE  ds[i].off + Width(ds[i].type) <= ds[j].off
  <2>1. i \in 1..n /\ ds[i] = cs[i]
    BY <1>1, <1>3, <1>4
  <2>2. CASE j = n + 1
    BY <1>1, <1>3, <2>1, <2>2
  <2>3. CASE j # n + 1
    BY <1>1, <1>3, <1>4, <2>1, <2>3 DEF Layout
  <2> QED
    BY <2>2, <2>3
<1>5. \A k \in 0..n : SizeTo(ds, k) = SizeTo(cs, k)
  BY <1>1, <1>3 DEF SizeTo
<1> QED
  BY <1>3, <1>4, <1>5 DEF Layout

-----------------------------------------------------------------------------
(* Records.                                                                *)

(* The parts of a Record that is in order.                                 *)
LEMMA RecordFacts ==
    ASSUME NEW cs, Layout(cs), NEW r, RecordOK(cs, r)
    PROVE  /\ r.buf \in Seq(Nat) /\ r.strs \in Seq(Seq(Nat)) /\ r.set \in Seq(Seq(Nat))
           /\ r.err \in BOOLEAN
           /\ r = [buf |-> r.buf, strs |-> r.strs, err |-> r.err, set |-> r.set]
           /\ Len(r.set) \in 0..Len(cs) /\ Len(r.strs) = Len(r.set)
           /\ DOMAIN r.set = 1..Len(r.set) /\ DOMAIN r.strs = 1..Len(r.set)
           /\ DOMAIN r.buf = 1..Len(r.buf) /\ Len(r.buf) \in Nat
           /\ \A i \in 1..Len(r.set) : r.set[i] \in Seq(Nat)
<1>1. /\ r.buf \in Seq(Nat) /\ r.strs \in Seq(Seq(Nat)) /\ r.set \in Seq(Seq(Nat))
      /\ r.err \in BOOLEAN
      /\ r = [buf |-> r.buf, strs |-> r.strs, err |-> r.err, set |-> r.set]
  BY DEF RecordOK, Records
<1>2. Len(r.strs) = Len(r.set) /\ Len(r.set) <= Len(cs) /\ Len(cs) \in Nat
  BY LayoutFacts DEF RecordOK
<1>3. /\ Len(r.set) \in Nat /\ DOMAIN r.set = 1..Len(r.set)
      /\ DOMAIN r.strs = 1..Len(r.strs)
      /\ Len(r.buf) \in Nat /\ DOMAIN r.buf = 1..Len(r.buf)
  BY <1>1, LenProperties
<1>4. \A i \in 1..Len(r.set) : r.set[i] \in Seq(Nat)
  BY <1>1, <1>3, ElementOfSeq
<1> QED
  BY <1>1, <1>2, <1>3, <1>4

(* A Record stays in order when a channel is added: it does not have it.   *)
LEMMA AddKeepsRecord ==
    ASSUME NEW cs, Layout(cs), NEW t \in TypeNames, NEW r, RecordOK(cs, r)
    PROVE  RecordOK(WithChannel(cs, t), r)
<1> DEFINE ds == WithChannel(cs, t)
<1>1. /\ Len(ds) = Len(cs) + 1
      /\ \A i \in 1..Len(cs) : ds[i] = cs[i]
      /\ \A k \in 0..Len(cs) : SizeTo(ds, k) = SizeTo(cs, k)
  BY AddKeepsLayout
<1>2. Len(r.set) \in 0..Len(cs) /\ Len(cs) \in Nat
  BY RecordFacts, LayoutFacts
<1> HIDE DEF ds
<1>3. RecordOK(ds, r)
  BY <1>1, <1>2 DEF RecordOK
<1> QED
  BY <1>3 DEF ds

(* A channel has room in a Record exactly if the Record has the channel.   *)
LEMMA RoomIsThere ==
    ASSUME Layout(chans), NEW r, RecordOK(chans, r), NEW i \in 1..Len(chans)
    PROVE  HasRoom(r, chans[i]) <=> i <= Len(r.set)
<1>1. Len(r.set) \in 0..Len(chans) /\ Len(r.buf) = SizeTo(chans, Len(r.set))
  BY RecordFacts DEF RecordOK
<1>2. /\ i <= Len(r.set) => chans[i].off + Width(chans[i].type) <= Len(r.buf)
      /\ i > Len(r.set) => Len(r.buf) <= chans[i].off
      /\ chans[i].off \in Nat /\ Width(chans[i].type) \in {1, 2} /\ Len(r.buf) \in Nat
  BY <1>1, LayoutFacts
<1> QED
  BY <1>1, <1>2 DEF HasRoom

(* A new Record holds zeroes (writergroup.go: Record).                     *)
LEMMA FreshOK ==
    ASSUME Layout(chans)
    PROVE  /\ RecordOK(chans, FreshRecord) /\ Len(FreshRecord.set) = Len(chans)
           /\ \A i \in 1..Len(chans) : FreshRecord.set[i] = Zero(chans[i].type)
           /\ FreshRecord.err = FALSE
<1> DEFINE f == FreshRecord
           n == Len(chans)
           R == RecSize(chans)
<1>1. n \in Nat /\ DOMAIN chans = 1..n /\ R \in Nat /\ R = SizeTo(chans, n)
  BY LayoutFacts
<1>2. /\ f.buf = [i \in 1..R |-> 0] /\ f.strs = [i \in 1..n |-> <<>>] /\ f.err = FALSE
      /\ f.set = [i \in 1..n |-> Zero(chans[i].type)]
      /\ f = [buf |-> f.buf, strs |-> f.strs, err |-> f.err, set |-> f.set]
  BY <1>1 DEF FreshRecord
<1> HIDE DEF f, n, R
<1>3. \A i \in 1..n : Zero(chans[i].type) \in Seq(Nat)
  BY DEF Zero
<1>4. f.buf \in Seq(Nat) /\ Len(f.buf) = R
  BY <1>1, <1>2
<1>5. f.strs \in Seq(Seq(Nat)) /\ Len(f.strs) = n
  <2>1. f.strs \in [1..n -> Seq(Nat)]
    BY <1>2, EmptySeq
  <2> QED
    BY <1>1, <2>1, MakeSeq
<1>6. f.set \in Seq(Seq(Nat)) /\ Len(f.set) = n
  <2>1. f.set \in [1..n -> Seq(Nat)]
    BY <1>2, <1>3
  <2> QED
    BY <1>1, <2>1, MakeSeq
<1>7. f \in Records
  BY <1>2, <1>4, <1>5, <1>6 DEF Records
<1>8. ASSUME NEW i \in 1..n
      PROVE  IF chans[i].type = "str" THEN f.strs[i] = f.set[i]
             ELSE FieldHeld(chans[i], f, f.set[i])
  <2>1. CASE chans[i].type = "str"
    BY <1>2, <2>1 DEF Zero
  <2>2. CASE chans[i].type # "str"
    <3>1. f.set[i] = <<0, 0>>
      BY <1>2, <2>2 DEF Zero
    <3>2. /\ chans[i].type \in TypeNames /\ chans[i].off \in Nat /\ Width(chans[i].type) \in {1, 2}
          /\ chans[i].off + Width(chans[i].type) <= R
      BY <1>1, LayoutFacts DEF n
    <3>3. \A j \in 1..Width(chans[i].type) : f.buf[chans[i].off + j] = 0
      BY <1>1, <1>2, <3>2
    <3>4. \A j \in 1..Width(chans[i].type) : Field(chans[i].type, <<0, 0>>)[j] = 0
      <4>1. /\ chans[i].type = "f32" => Field(chans[i].type, <<0, 0>>) = <<0>>
            /\ chans[i].type \in {"i8", "u8"} => Field(chans[i].type, <<0, 0>>) = <<0>>
            /\ chans[i].type \in {"f64", "i16"} => Field(chans[i].type, <<0, 0>>) = <<0, 0>>
        BY <2>2 DEF Field
      <4>2. /\ chans[i].type \in {"f32", "i8", "u8"} => Width(chans[i].type) = 1
            /\ chans[i].type \in {"f64", "i16"} => Width(chans[i].type) = 2
        BY DEF Width
      <4> QED
        BY <2>2, <3>2, <4>1, <4>2 DEF TypeNames
    <3> QED
      BY <2>2, <3>1, <3>3, <3>4 DEF FieldHeld
  <2> QED
    BY <2>1, <2>2
<1>9. RecordOK(chans, f)
  BY <1>1, <1>4, <1>5, <1>6, <1>7, <1>8 DEF RecordOK, n
<1> QED
  BY <1>1, <1>2, <1>6, <1>9 DEF f, n

(* The places of two channels differ.                                      *)
LEMMA Apart ==
    ASSUME Layout(chans), NEW i \in 1..Len(chans), NEW k \in 1..Len(chans), i # k,
           NEW a \in 1..Width(chans[i].type), NEW b \in 1..Width(chans[k].type)
    PROVE  chans[i].off + a # chans[k].off + b
<1>1. /\ chans[i].off \in Nat /\ chans[k].off \in Nat
      /\ Width(chans[i].type) \in {1, 2} /\ Width(chans[k].type) \in {1, 2}
  BY LayoutFacts
<1>2. \/ chans[i].off + Width(chans[i].type) <= chans[k].off
      \/ chans[k].off + Width(chans[k].type) <= chans[i].off
  BY DEF Layout
<1> QED
  BY <1>1, <1>2, SMTT(30)

SetGives(r, i, kind, v, q) ==
    /\ RecordOK(chans, q) /\ Len(q.set) = Len(r.set)
    /\ IF chans[i].type \in Takes(kind)
       THEN /\ q.err = r.err /\ q.set[i] = v
            /\ \A k \in 1..Len(r.set) : k # i => q.set[k] = r.set[k]
       ELSE q.err = TRUE /\ q.set = r.set

(* What a setter leaves in the Record: the value in its channel, all other *)
(* channels as they were, or the error of a wrong type.                    *)
LEMMA SetKeeps ==
    ASSUME Layout(chans), NEW r, RecordOK(chans, r), NEW i \in 1..Len(chans),
           NEW kind \in Kinds, NEW v \in Value(kind),
           chans[i].type \in Takes(kind) => i <= Len(r.set)
    PROVE  SetGives(r, i, kind, v, WithValue(r, i, kind, v))
<1>0. SUFFICES ASSUME NEW q, q = WithValue(r, i, kind, v) PROVE SetGives(r, i, kind, v, q)
  OBVIOUS
<1> DEFINE n == Len(r.set)
           c == chans[i]
<1>1. /\ r.buf \in Seq(Nat) /\ r.strs \in Seq(Seq(Nat)) /\ r.set \in Seq(Seq(Nat))
      /\ r.err \in BOOLEAN
      /\ r = [buf |-> r.buf, strs |-> r.strs, err |-> r.err, set |-> r.set]
      /\ n \in 0..Len(chans) /\ Len(r.strs) = n
      /\ DOMAIN r.set = 1..n /\ DOMAIN r.strs = 1..n
      /\ DOMAIN r.buf = 1..Len(r.buf) /\ Len(r.buf) \in Nat
      /\ \A k \in 1..n : r.set[k] \in Seq(Nat)
  BY RecordFacts
<1>2. /\ c.off \in Nat /\ c.type \in TypeNames /\ Width(c.type) \in {1, 2}
      /\ Len(chans) \in Nat
  BY LayoutFacts
<1>3. /\ Len(r.buf) = SizeTo(chans, n) /\ r \in Records
      /\ \A k \in 1..n : IF chans[k].type = "str" THEN r.strs[k] = r.set[k]
                         ELSE FieldHeld(chans[k], r, r.set[k])
  BY DEF RecordOK
<1>4. v \in Seq(Nat) /\ (kind # "text" => Len(v) = 2)
  BY DEF Value
<1>5. CASE c.type \notin Takes(kind)
  <2>1. q = [r EXCEPT !.err = TRUE]
    BY <1>0, <1>5 DEF WithValue
  <2>2. q.buf = r.buf /\ q.strs = r.strs /\ q.set = r.set /\ q.err = TRUE /\ q \in Records
    BY <1>1, <1>3, <2>1 DEF Records
  <2>3. RecordOK(chans, q)
    BY <1>1, <1>3, <2>2 DEF RecordOK, FieldHeld
  <2> QED
    BY <1>5, <2>2, <2>3 DEF SetGives
<1>6. CASE c.type \in Takes(kind)
  <2>1. i \in 1..n
    BY <1>1, <1>6
  <2> DEFINE set == [r.set EXCEPT ![i] = v]
  <2>2. /\ set \in Seq(Seq(Nat)) /\ Len(set) = n /\ set[i] = v
        /\ \A k \in 1..n : k # i => set[k] = r.set[k]
    <3>1. set \in [1..n -> Seq(Nat)]
      BY <1>1, <1>4, ElementOfSeq
    <3>2. set \in Seq(Seq(Nat)) /\ Len(set) = n
      <4> HIDE DEF set
      <4>1. n \in Nat
        BY <1>1, <1>2
      <4> HIDE DEF n
      <4> QED
        BY <3>1, <4>1, MakeSeq
    <3> QED
      BY <1>1, <2>1, <3>2
  <2>3. CASE kind = "text"
    <3> DEFINE strs == [r.strs EXCEPT ![i] = v]
    <3>1. c.type = "str"
      BY <1>6, <2>3 DEF Takes
    <3>2. /\ strs \in Seq(Seq(Nat)) /\ Len(strs) = n /\ strs[i] = v
          /\ \A k \in 1..n : k # i => strs[k] = r.strs[k]
      <4>1. strs \in [1..n -> Seq(Nat)]
        BY <1>1, <1>4, ElementOfSeq
      <4>2. strs \in Seq(Seq(Nat)) /\ Len(strs) = n
        <5> HIDE DEF strs
        <5>1. n \in Nat
          BY <1>1, <1>2
        <5> HIDE DEF n
        <5> QED
          BY <4>1, <5>1, MakeSeq
      <4> QED
        BY <1>1, <2>1, <4>2
    <3>3. q = [r EXCEPT !.strs[i] = v, !.set[i] = v]
      BY <1>0, <1>6, <2>3 DEF WithValue
    <3>4. q.buf = r.buf /\ q.strs = strs /\ q.set = set /\ q.err = r.err
          /\ q = [buf |-> r.buf, strs |-> strs, err |-> r.err, set |-> set]
      BY <1>1, <3>3
    <3> HIDE DEF set, strs
    <3>5. q \in Records
      BY <1>1, <2>2, <3>2, <3>4 DEF Records
    <3>6. ASSUME NEW k \in 1..n
          PROVE  IF chans[k].type = "str" THEN q.strs[k] = q.set[k]
                 ELSE FieldHeld(chans[k], q, q.set[k])
      <4>1. CASE k = i
        BY <2>2, <3>1, <3>2, <3>4, <4>1
      <4>2. CASE k # i
        BY <1>3, <2>2, <3>2, <3>4, <4>2 DEF FieldHeld
      <4> QED
        BY <4>1, <4>2
    <3>7. RecordOK(chans, q)
      BY <1>1, <1>3, <2>2, <3>2, <3>4, <3>5, <3>6 DEF RecordOK
    <3> QED
      BY <1>6, <2>2, <3>4, <3>7 DEF SetGives
  <2>4. CASE kind # "text"
    <3> DEFINE f == Field(c.type, v)
               buf == Put(r.buf, c.off, f)
    <3>1. c.type # "str"
      BY <1>6, <2>4 DEF Takes, Kinds
    <3>2. f \in Seq(Nat) /\ DOMAIN f = 1..Width(c.type) /\ Len(f) = Width(c.type)
      BY <1>2, <1>4, <2>4, <3>1, FieldType
    <3>3. q = [r EXCEPT !.buf = buf, !.set[i] = v]
      BY <1>0, <1>6, <2>4 DEF WithValue
    <3>4. q.buf = buf /\ q.strs = r.strs /\ q.set = set /\ q.err = r.err
          /\ q = [buf |-> buf, strs |-> r.strs, err |-> r.err, set |-> set]
      <4> HIDE DEF buf
      <4> QED
        BY <1>1, <3>3
    <3> HIDE DEF set, f
    <3>5. buf = [b \in 1..Len(r.buf) |-> IF b - c.off \in 1..Width(c.type) THEN f[b - c.off] ELSE r.buf[b]]
      BY <1>1, <3>2 DEF Put
    <3> HIDE DEF buf
    <3>6. \A j \in 1..Width(c.type) : f[j] \in Nat
      BY <3>2, ElementOfSeq
    <3>7. buf \in Seq(Nat) /\ Len(buf) = Len(r.buf)
      <4>1. buf \in [1..Len(r.buf) -> Nat]
        BY <1>1, <3>5, <3>6, ElementOfSeq
      <4> QED
        BY <1>1, <4>1, MakeSeq
    <3>8. q \in Records
      BY <1>1, <2>2, <3>4, <3>7 DEF Records
    <3>9. \A k \in 1..n : /\ chans[k].off \in Nat /\ Width(chans[k].type) \in {1, 2}
                          /\ chans[k].off + Width(chans[k].type) <= Len(r.buf)
      <4> SUFFICES ASSUME NEW k \in 1..n
                   PROVE  /\ chans[k].off \in Nat /\ Width(chans[k].type) \in {1, 2}
                          /\ chans[k].off + Width(chans[k].type) <= Len(r.buf)
        OBVIOUS
      <4>1. k \in 1..Len(chans) /\ n \in 0..Len(chans) /\ k <= n
        BY <1>1, <1>2
      <4>2. chans[k].off + Width(chans[k].type) <= SizeTo(chans, n)
        BY <4>1, LayoutFacts
      <4> QED
        BY <1>3, <4>1, <4>2, LayoutFacts
    <3>10. ASSUME NEW k \in 1..n
           PROVE  IF chans[k].type = "str" THEN q.strs[k] = q.set[k]
                  ELSE FieldHeld(chans[k], q, q.set[k])
      <4>1. CASE k = i
        <5>1. \A j \in 1..Width(c.type) : buf[c.off + j] = f[j]
          <6> SUFFICES ASSUME NEW j \in 1..Width(c.type) PROVE buf[c.off + j] = f[j]
            OBVIOUS
          <6>1. c.off + j \in 1..Len(r.buf) /\ (c.off + j) - c.off = j
            BY <1>2, <3>9, <4>1
          <6> QED
            BY <3>5, <6>1
        <5> QED
          BY <1>4, <2>2, <2>4, <3>1, <3>4, <4>1, <5>1 DEF FieldHeld, f
      <4>2. CASE k # i /\ chans[k].type # "str"
        <5>1. ASSUME NEW j \in 1..Width(chans[k].type)
              PROVE  buf[chans[k].off + j] = r.buf[chans[k].off + j]
          <6>1. chans[k].off + j \in 1..Len(r.buf)
            BY <3>9, SMTT(30)
          <6>2. ~((chans[k].off + j) - c.off \in 1..Width(c.type))
            <7>1. \A a \in 1..Width(c.type) : c.off + a # chans[k].off + j
              <8>1. i # k /\ k \in 1..Len(chans)
                BY <1>1, <1>2, <4>2
              <8> QED
                BY <8>1, Apart
            <7>2. chans[k].off + j \in Nat /\ c.off \in Nat
              BY <1>2, <3>9
            <7> QED
              BY <7>1, <7>2
          <6> QED
            BY <3>5, <6>1, <6>2
        <5>2. q.set[k] = r.set[k]
          BY <2>2, <3>4, <4>2
        <5>3. FieldHeld(chans[k], r, r.set[k])
          BY <1>3, <4>2
        <5> QED
          BY <3>4, <4>2, <5>1, <5>2, <5>3 DEF FieldHeld
      <4>3. CASE k # i /\ chans[k].type = "str"
        BY <1>3, <2>2, <3>4, <4>3
      <4> QED
        BY <4>1, <4>2, <4>3
    <3>11. RecordOK(chans, q)
      BY <1>1, <1>3, <2>2, <3>4, <3>7, <3>8, <3>10 DEF RecordOK
    <3> QED
      BY <1>6, <2>2, <3>4, <3>11 DEF SetGives
  <2> QED
    BY <2>3, <2>4
<1> QED
  BY <1>5, <1>6

(* The text channel a byte of a row belongs to, if it belongs to one.      *)
Owner(b) == {i \in Texts(chans) : b - chans[i].off \in {1, 2}}

OffsetByte(b, i, o) ==
    IF b - chans[i].off = 1 THEN Low(Len(o.sd[i])) ELSE High(Len(o.sd[i]))

OffsetsGive(r, o, q) ==
    /\ RecordOK(chans, q) /\ q.set = r.set /\ q.strs = r.strs /\ q.err = r.err
    /\ Len(q.buf) = Len(r.buf) /\ q.buf \in Seq(Nat)
    /\ \A i \in 1..Len(r.set) : chans[i].type = "str" =>
          /\ q.buf[chans[i].off + 1] = Low(Len(o.sd[i]))
          /\ q.buf[chans[i].off + 2] = High(Len(o.sd[i]))

(* Append overwrites the bytes of the texts, and no others, by the lengths *)
(* of their streams (writergroup.go: Append).                              *)
LEMMA OffsetsKeep ==
    ASSUME Layout(chans), Len(chans) <= MaxChans, NEW r, RecordOK(chans, r),
           NEW o, o.sd \in [1..MaxChans -> Seq(Nat)]
    PROVE  OffsetsGive(r, o, WithOffsets(r, o))
<1>0. SUFFICES ASSUME NEW q, q = WithOffsets(r, o) PROVE OffsetsGive(r, o, q)
  OBVIOUS
<1> DEFINE n == Len(r.set)
           L == Len(r.buf)
           buf == [b \in 1..L |-> IF Owner(b) = {} THEN r.buf[b]
                                  ELSE OffsetByte(b, Min(Owner(b)), o)]
<1>1. /\ r.buf \in Seq(Nat) /\ r.strs \in Seq(Seq(Nat)) /\ r.set \in Seq(Seq(Nat))
      /\ r.err \in BOOLEAN
      /\ r = [buf |-> r.buf, strs |-> r.strs, err |-> r.err, set |-> r.set]
      /\ n \in 0..Len(chans) /\ Len(r.strs) = n
      /\ DOMAIN r.buf = 1..L /\ L \in Nat
  BY RecordFacts
<1>2. /\ L = SizeTo(chans, n) /\ r \in Records
      /\ \A k \in 1..n : IF chans[k].type = "str" THEN r.strs[k] = r.set[k]
                         ELSE FieldHeld(chans[k], r, r.set[k])
  BY DEF RecordOK
<1>3. Len(chans) \in Nat /\ DOMAIN chans = 1..Len(chans)
  BY LayoutFacts
<1>4. q.buf = buf /\ q = [buf |-> buf, strs |-> r.strs, err |-> r.err, set |-> r.set]
  <2>1. q = [r EXCEPT !.buf = buf]
    BY <1>0, <1>1 DEF WithOffsets, Owner, OffsetByte
  <2> HIDE DEF buf
  <2> QED
    BY <1>1, <2>1
<1>5. ASSUME NEW i \in Texts(chans)
      PROVE  /\ i \in 1..Len(chans) /\ chans[i].type = "str" /\ Width(chans[i].type) = 2
             /\ chans[i].off \in Nat /\ i \in 1..MaxChans
             /\ Len(o.sd[i]) \in Nat
  <2>1. i \in 1..Len(chans) /\ chans[i].type = "str"
    BY <1>3 DEF Texts
  <2>2. i \in 1..MaxChans
    BY <1>3, <2>1, GroupRowsAssumption
  <2>3. o.sd[i] \in Seq(Nat)
    BY <2>2
  <2> QED
    BY <2>1, <2>2, <2>3, LayoutFacts, LenProperties
<1>6. \A m \in Nat : Low(m) \in Nat /\ High(m) \in Nat
  BY DEF Low, High
<1>7. ASSUME NEW b \in 1..L, NEW i \in Owner(b)
      PROVE  Owner(b) = {i} /\ Min(Owner(b)) = i
  <2>1. ASSUME NEW k \in Owner(b) PROVE k = i
    <3>1. i \in Texts(chans) /\ k \in Texts(chans)
      BY DEF Owner
    <3>2. b - chans[i].off \in 1..Width(chans[i].type) /\ b - chans[k].off \in 1..Width(chans[k].type)
      BY <1>5, <3>1, SMTT(30) DEF Owner
    <3>3. chans[i].off + (b - chans[i].off) = chans[k].off + (b - chans[k].off)
      <4>1. b \in Nat /\ chans[i].off \in Nat /\ chans[k].off \in Nat
        BY <1>1, <1>5, <3>1
      <4> QED
        BY <4>1, SMTT(30)
    <3> QED
      BY <1>5, <3>1, <3>2, <3>3, Apart
  <2>2. Owner(b) = {i}
    BY <2>1
  <2>3. i \in Nat
    BY <1>3, <1>5 DEF Owner
  <2> QED
    BY <2>2, <2>3 DEF Min
<1>8. buf \in Seq(Nat) /\ Len(buf) = L
  <2>1. ASSUME NEW b \in 1..L PROVE buf[b] \in Nat
    <3>1. CASE Owner(b) = {}
      BY <1>1, <3>1, ElementOfSeq
    <3>2. CASE Owner(b) # {}
      <4>1. PICK i : i \in Owner(b)
        BY <3>2
      <4>2. i \in Texts(chans)
        BY <4>1 DEF Owner
      <4>3. buf[b] = OffsetByte(b, i, o)
        BY <1>7, <3>2, <4>1
      <4> QED
        BY <1>5, <1>6, <4>2, <4>3 DEF OffsetByte
    <3> QED
      BY <3>1, <3>2
  <2>2. buf \in [1..L -> Nat]
    BY <2>1
  <2> HIDE DEF buf, L
  <2> QED
    BY <1>1, <2>2, MakeSeq
<1>9. q \in Records /\ q.set = r.set /\ q.strs = r.strs /\ q.err = r.err
  <2> HIDE DEF buf
  <2> QED
    BY <1>1, <1>4, <1>8 DEF Records
<1>10. ASSUME NEW k \in 1..n
       PROVE  /\ k \in 1..Len(chans)
              /\ chans[k].off \in Nat /\ Width(chans[k].type) \in {1, 2}
              /\ \A j \in 1..Width(chans[k].type) : chans[k].off + j \in 1..L
  <2>1. k \in 1..Len(chans) /\ n \in 0..Len(chans) /\ k <= n
    BY <1>1, <1>3
  <2>2. /\ chans[k].off + Width(chans[k].type) <= SizeTo(chans, n)
        /\ chans[k].off \in Nat /\ Width(chans[k].type) \in {1, 2}
    BY <2>1, LayoutFacts
  <2>3. chans[k].off + Width(chans[k].type) <= L /\ L \in Nat
    BY <1>1, <1>2, <2>2
  <2> HIDE DEF L
  <2> QED
    BY <2>1, <2>2, <2>3
<1>11. ASSUME NEW k \in 1..n, chans[k].type # "str", NEW j \in 1..Width(chans[k].type)
       PROVE  q.buf[chans[k].off + j] = r.buf[chans[k].off + j]
  <2> DEFINE b == chans[k].off + j
  <2>1. Owner(b) = {}
    <3> SUFFICES ASSUME NEW i \in Owner(b) PROVE FALSE
      OBVIOUS
    <3>1. i \in Texts(chans) /\ b - chans[i].off \in {1, 2}
      BY DEF Owner
    <3>2. i # k /\ b - chans[i].off \in 1..Width(chans[i].type)
      BY <1>5, <1>11, <3>1
    <3>3. chans[i].off + (b - chans[i].off) = b
      BY <1>5, <1>10, <3>1
    <3> HIDE DEF b
    <3>4. b = chans[k].off + j
      BY DEF b
    <3> QED
      BY <1>5, <1>10, <3>1, <3>2, <3>3, <3>4, Apart
  <2>2. b \in 1..L
    BY <1>10
  <2> QED
    BY <1>4, <2>1, <2>2
<1>12. ASSUME NEW k \in 1..n, chans[k].type = "str"
       PROVE  /\ q.buf[chans[k].off + 1] = Low(Len(o.sd[k]))
              /\ q.buf[chans[k].off + 2] = High(Len(o.sd[k]))
  <2>1. k \in Texts(chans)
    BY <1>3, <1>10, <1>12 DEF Texts
  <2>2. ASSUME NEW j \in {1, 2}
        PROVE  q.buf[chans[k].off + j] = OffsetByte(chans[k].off + j, k, o)
               /\ (chans[k].off + j) - chans[k].off = j
    <3>1. chans[k].off + j \in 1..L /\ (chans[k].off + j) - chans[k].off = j
      <4>1. j \in 1..Width(chans[k].type) /\ chans[k].off \in Nat
        BY <1>5, <2>1
      <4>2. chans[k].off + j \in 1..L
        BY <1>10, <4>1
      <4> QED
        BY <4>1, <4>2
    <3>2. k \in Owner(chans[k].off + j)
      BY <2>1, <3>1 DEF Owner
    <3>3. Owner(chans[k].off + j) # {} /\ Min(Owner(chans[k].off + j)) = k
      BY <1>7, <3>1, <3>2
    <3> QED
      BY <1>4, <3>1, <3>3
  <2> QED
    BY <2>2 DEF OffsetByte
<1>13. RecordOK(chans, q)
  <2>1. ASSUME NEW k \in 1..n
        PROVE  IF chans[k].type = "str" THEN q.strs[k] = q.set[k]
               ELSE FieldHeld(chans[k], q, q.set[k])
    BY <1>2, <1>9, <1>11 DEF FieldHeld
  <2> HIDE DEF buf
  <2> QED
    BY <1>1, <1>2, <1>4, <1>8, <1>9, <2>1 DEF RecordOK
<1> HIDE DEF buf
<1> QED
  BY <1>4, <1>8, <1>9, <1>12, <1>13 DEF OffsetsGive

-----------------------------------------------------------------------------
(* The streams.                                                            *)

IsPrefixOf(m, cs) ==
    /\ m \in Seq(Channels) /\ Len(m) <= Len(cs)
    /\ \A i \in 1..Len(m) : m[i] = cs[i]

(* The first r rows have the length that the metadata m announces.         *)
AllLong(m, rs, r) == \A q \in 1..r : rs[q].len = RecSize(m)

(* The stream sd holds the text t, behind its length, at an offset.        *)
TextIn(sd, at, t) ==
    /\ at \in Nat /\ at + 1 + Len(t) <= Len(sd)
    /\ sd[at + 1] = Len(t)
    /\ \A j \in 1..Len(t) : sd[at + 1 + j] = t[j]

(* The bytes from a start on hold the values of channel c.                 *)
ValueHeld(c, i, o, start, v) ==
    IF c.type = "str"
    THEN \E at \in Nat : /\ o.data[start + c.off + 1] = Low(at)
                         /\ o.data[start + c.off + 2] = High(at)
                         /\ TextIn(o.sd[i], at, v)
    ELSE /\ Len(v) = 2
         /\ \A j \in 1..Width(c.type) : o.data[start + c.off + j] = Field(c.type, v)[j]

RowHeld(m, o, r, set) ==
    /\ Len(set) = Len(m)
    /\ \A i \in 1..Len(m) : ValueHeld(m[i], i, o, (r - 1) * RecSize(m), set[i])

Streams == [data : Seq(Nat), sd : [1..MaxChans -> Seq(Nat)], count : Nat]

Rows == [len : Nat, set : Seq(Seq(Nat))]

OutOK(cs, m, o, rs) ==
    /\ o \in Streams /\ rs \in Seq(Rows) /\ o.count = Len(rs)
    /\ \A r \in 1..Len(rs) :
          Len(rs[r].set) <= Len(cs) /\ rs[r].len = SizeTo(cs, Len(rs[r].set))
    /\ \A r \in 0..Len(rs) : AllLong(m, rs, r) => r * RecSize(m) <= Len(o.data)
    /\ AllLong(m, rs, Len(rs)) => Len(o.data) = Len(rs) * RecSize(m)
    /\ \A r \in 1..Len(rs) : AllLong(m, rs, r) => RowHeld(m, o, r, rs[r].set)

LEMMA Times ==
    ASSUME NEW r \in Nat, NEW R \in Nat
    PROVE  r * R \in Nat /\ (r + 1) * R = r * R + R
  OBVIOUS

(* What the metadata describes is laid out like the first channels.        *)
LEMMA PrefixFacts ==
    ASSUME NEW cs, Layout(cs), NEW m, IsPrefixOf(m, cs)
    PROVE  /\ Len(m) \in 0..Len(cs) /\ DOMAIN m = 1..Len(m)
           /\ \A i \in 1..Len(m) : m[i] = cs[i] /\ i \in 1..Len(cs)
           /\ RecSize(m) = SizeTo(cs, Len(m)) /\ RecSize(m) \in Nat
<1>1. Len(m) \in Nat /\ DOMAIN m = 1..Len(m) /\ Len(m) <= Len(cs) /\ Len(cs) \in Nat
  BY LenProperties, LayoutFacts DEF IsPrefixOf
<1>2. \A i \in 1..Len(m) : m[i] = cs[i] /\ i \in 1..Len(cs)
  BY <1>1 DEF IsPrefixOf
<1>3. RecSize(m) = SizeTo(cs, Len(m))
  <2>1. CASE m = <<>>
    BY <1>1, <2>1 DEF RecSize, SizeTo
  <2>2. CASE m # <<>>
    <3>1. Len(m) # 0
      BY <2>2, EmptySeq DEF IsPrefixOf
    <3> QED
      BY <1>1, <1>2, <2>2, <3>1 DEF RecSize, SizeTo, Last
  <2> QED
    BY <2>1, <2>2
<1> QED
  BY <1>1, <1>2, <1>3, LayoutFacts

(* A text is found where the stream ended before it was added.             *)
LEMMA StreamGrows ==
    ASSUME NEW s \in Seq(Nat), NEW t \in Seq(Nat), NEW u, u = s \o <<Len(t)>> \o t
    PROVE  /\ u \in Seq(Nat) /\ Len(u) = Len(s) + 1 + Len(t)
           /\ \A j \in 1..Len(s) : u[j] = s[j]
           /\ TextIn(u, Len(s), t)
<1>1. Len(s) \in Nat /\ Len(t) \in Nat /\ <<Len(t)>> \in Seq(Nat)
  BY LenProperties
<1>2. PICK a : a = s \o <<Len(t)>>
  OBVIOUS
<1>3. /\ a \in Seq(Nat) /\ Len(a) = Len(s) + 1 /\ a[Len(s) + 1] = Len(t)
      /\ \A j \in 1..Len(s) : a[j] = s[j]
  BY <1>1, <1>2
<1>4. /\ u \in Seq(Nat) /\ Len(u) = Len(a) + Len(t)
      /\ \A j \in 1..Len(u) : u[j] = IF j <= Len(a) THEN a[j] ELSE t[j - Len(a)]
  BY <1>2, <1>3, Joined
<1>5. \A j \in 1..Len(t) : u[Len(s) + 1 + j] = t[j]
  BY <1>1, <1>3, <1>4
<1> QED
  BY <1>1, <1>3, <1>4, <1>5 DEF TextIn

(* A text that a stream holds is still there when the stream grows.        *)
LEMMA TextStays ==
    ASSUME NEW s \in Seq(Nat), NEW u \in Seq(Nat), Len(s) <= Len(u),
           \A j \in 1..Len(s) : u[j] = s[j],
           NEW t \in Seq(Nat), NEW at, TextIn(s, at, t)
    PROVE  TextIn(u, at, t)
<1>1. Len(s) \in Nat /\ Len(t) \in Nat /\ Len(u) \in Nat
  BY LenProperties
<1>2. /\ at \in Nat /\ at + 1 + Len(t) <= Len(s) /\ s[at + 1] = Len(t)
      /\ \A j \in 1..Len(t) : s[at + 1 + j] = t[j]
  BY DEF TextIn
<1>3. at + 1 \in 1..Len(s) /\ \A j \in 1..Len(t) : at + 1 + j \in 1..Len(s)
  BY <1>1, <1>2, SMTT(30)
<1>4. at + 1 + Len(t) <= Len(u)
  BY <1>1, <1>2
<1> QED
  BY <1>2, <1>3, <1>4 DEF TextIn

(* The Record has every text channel, so Append does not panic.            *)
HasTexts(r) == \A i \in Texts(chans) : i <= Len(r.set)

Grown(o, p) ==
    /\ \A b \in 1..Len(o.data) : p.data[b] = o.data[b]
    /\ \A i \in 1..MaxChans :
          /\ Len(o.sd[i]) <= Len(p.sd[i])
          /\ \A j \in 1..Len(o.sd[i]) : p.sd[i][j] = o.sd[i][j]

RowBehind(o, p, r, buf) ==
    /\ \A b \in 1..Len(r.buf) : p.data[Len(o.data) + b] = buf[b]
    /\ \A i \in Texts(chans) : TextIn(p.sd[i], Len(o.sd[i]), r.set[i])

(* What the streams are after a row (writergroup.go: Append).              *)
LEMMA RowAdds ==
    ASSUME Layout(chans), Len(chans) <= MaxChans, NEW o \in Streams,
           NEW r, RecordOK(chans, r), HasTexts(r)
    PROVE  /\ WithRow(o, r) \in Streams /\ WithRow(o, r).count = o.count + 1
           /\ Len(WithRow(o, r).data) = Len(o.data) + Len(r.buf)
           /\ Grown(o, WithRow(o, r))
           /\ RowBehind(o, WithRow(o, r), r, WithOffsets(r, o).buf)
<1>0. PICK p, buf : p = WithRow(o, r) /\ buf = WithOffsets(r, o).buf
  OBVIOUS
<1>1. /\ o.data \in Seq(Nat) /\ o.sd \in [1..MaxChans -> Seq(Nat)] /\ o.count \in Nat
      /\ Len(o.data) \in Nat /\ DOMAIN o.sd = 1..MaxChans
  BY LenProperties DEF Streams
<1>2. buf \in Seq(Nat) /\ Len(buf) = Len(r.buf) /\ Len(r.buf) \in Nat
  <2>1. OffsetsGive(r, o, WithOffsets(r, o))
    BY <1>1, OffsetsKeep
  <2> QED
    BY <1>0, <2>1, RecordFacts DEF OffsetsGive
<1> DEFINE sd == [i \in 1..MaxChans |->
                     IF i \in Texts(chans) THEN o.sd[i] \o <<Len(r.strs[i])>> \o r.strs[i]
                     ELSE o.sd[i]]
<1> DEFINE data == o.data \o buf
<1>3. p = [data |-> data, sd |-> sd, count |-> o.count + 1]
  BY <1>0, <1>1 DEF WithRow
<1> HIDE DEF sd, data
<1>4. p.data = data /\ p.sd = sd /\ p.count = o.count + 1
  BY <1>3
<1>5. /\ data \in Seq(Nat) /\ Len(data) = Len(o.data) + Len(buf)
      /\ \A b \in 1..Len(data) :
            data[b] = IF b <= Len(o.data) THEN o.data[b] ELSE buf[b - Len(o.data)]
  <2>1. PICK d \in Seq(Nat) : d = o.data
    BY <1>1
  <2>2. PICK f \in Seq(Nat) : f = buf
    BY <1>2
  <2>3. PICK e : e = d \o f
    OBVIOUS
  <2>4. e \in Seq(Nat) /\ Len(e) = Len(d) + Len(f)
    BY <2>3, Joined
  <2>5. \A b \in 1..Len(e) : e[b] = IF b <= Len(d) THEN d[b] ELSE f[b - Len(d)]
    BY <2>3, Joined
  <2>6. e = data
    BY <2>1, <2>2, <2>3 DEF data
  <2> QED
    BY <2>1, <2>2, <2>4, <2>5, <2>6
<1>6. /\ \A b \in 1..Len(o.data) : data[b] = o.data[b]
      /\ \A b \in 1..Len(r.buf) : data[Len(o.data) + b] = buf[b]
  <2>1. PICK x, y : x = Len(o.data) /\ y = Len(r.buf)
    OBVIOUS
  <2>2. /\ x \in Nat /\ y \in Nat
        /\ \A b \in 1..(x + y) : data[b] = IF b <= x THEN o.data[b] ELSE buf[b - x]
    BY <1>1, <1>2, <1>5, <2>1
  <2>3. \A b \in 1..x : data[b] = o.data[b]
    BY <2>2
  <2>4. ASSUME NEW b \in 1..y PROVE data[x + b] = buf[b]
    <3>1. x + b \in 1..(x + y) /\ ~(x + b <= x) /\ (x + b) - x = b
      BY <2>2
    <3> QED
      BY <2>2, <3>1
  <2> QED
    BY <2>1, <2>3, <2>4
<1>7. ASSUME NEW i \in Texts(chans)
      PROVE  /\ i \in 1..MaxChans /\ o.sd[i] \in Seq(Nat)
             /\ r.set[i] \in Seq(Nat) /\ r.strs[i] = r.set[i]
             /\ sd[i] = o.sd[i] \o <<Len(r.set[i])>> \o r.set[i]
  <2>1. i \in 1..Len(chans) /\ chans[i].type = "str" /\ Len(chans) \in Nat
    BY LayoutFacts DEF Texts
  <2>2. i \in 1..Len(r.set) /\ i \in 1..MaxChans
    BY <2>1, RecordFacts, GroupRowsAssumption DEF HasTexts
  <2>3. r.set[i] \in Seq(Nat) /\ r.strs[i] = r.set[i]
    BY <2>1, <2>2, RecordFacts DEF RecordOK
  <2> QED
    BY <1>1, <2>2, <2>3 DEF sd
<1>8. ASSUME NEW i \in 1..MaxChans
      PROVE  /\ sd[i] \in Seq(Nat) /\ Len(o.sd[i]) <= Len(sd[i])
             /\ \A j \in 1..Len(o.sd[i]) : sd[i][j] = o.sd[i][j]
             /\ i \in Texts(chans) => TextIn(sd[i], Len(o.sd[i]), r.set[i])
  <2>1. o.sd[i] \in Seq(Nat) /\ Len(o.sd[i]) \in Nat
    BY <1>1, LenProperties
  <2>2. CASE i \in Texts(chans)
    <3>1. /\ sd[i] \in Seq(Nat) /\ Len(sd[i]) = Len(o.sd[i]) + 1 + Len(r.set[i])
          /\ \A j \in 1..Len(o.sd[i]) : sd[i][j] = o.sd[i][j]
          /\ TextIn(sd[i], Len(o.sd[i]), r.set[i])
      BY <1>7, <2>2, StreamGrows
    <3>2. Len(r.set[i]) \in Nat
      BY <1>7, <2>2, LenProperties
    <3>3. Len(o.sd[i]) <= Len(sd[i])
      <4>1. PICK x, y, z : x = Len(o.sd[i]) /\ y = Len(r.set[i]) /\ z = Len(sd[i])
        OBVIOUS
      <4>2. x \in Nat /\ y \in Nat /\ z = x + 1 + y
        BY <2>1, <3>1, <3>2, <4>1
      <4>3. x <= z
        BY <4>2
      <4> QED
        BY <4>1, <4>3
    <3> QED
      BY <3>1, <3>3
  <2>3. CASE i \notin Texts(chans)
    <3>1. sd[i] = o.sd[i]
      BY <2>3 DEF sd
    <3> QED
      BY <2>1, <2>3, <3>1
  <2> QED
    BY <2>2, <2>3
<1>9. sd \in [1..MaxChans -> Seq(Nat)]
  <2>1. sd = [i \in 1..MaxChans |-> sd[i]]
    BY DEF sd
  <2> QED
    BY <1>8, <2>1
<1>10. p \in Streams
  BY <1>1, <1>3, <1>4, <1>5, <1>9 DEF Streams
<1>11. Grown(o, p)
  BY <1>4, <1>6, <1>8 DEF Grown
<1>12. RowBehind(o, p, r, buf)
  BY <1>4, <1>6, <1>7, <1>8 DEF RowBehind
<1> QED
  BY <1>0, <1>2, <1>4, <1>5, <1>10, <1>11, <1>12

(* What the streams hold of a row stays when they grow.                    *)
LEMMA RowStays ==
    ASSUME Layout(chans), Len(chans) <= MaxChans, NEW m, IsPrefixOf(m, chans),
           NEW o \in Streams, NEW p \in Streams, Grown(o, p),
           NEW q \in Nat, q >= 1, q * RecSize(m) <= Len(o.data),
           NEW set \in Seq(Seq(Nat)), RowHeld(m, o, q, set)
    PROVE  RowHeld(m, p, q, set)
<1>1. /\ Len(m) \in 0..Len(chans) /\ RecSize(m) = SizeTo(chans, Len(m)) /\ RecSize(m) \in Nat
      /\ \A i \in 1..Len(m) : m[i] = chans[i] /\ i \in 1..Len(chans)
  BY PrefixFacts
<1>2. PICK start : start = (q - 1) * RecSize(m)
  OBVIOUS
<1>3. start \in Nat /\ start + RecSize(m) = q * RecSize(m) /\ Len(o.data) \in Nat
  <2>1. q - 1 \in Nat /\ (q - 1) + 1 = q
    OBVIOUS
  <2>2. (q - 1) * RecSize(m) \in Nat /\ ((q - 1) + 1) * RecSize(m) = (q - 1) * RecSize(m) + RecSize(m)
    BY <1>1, <2>1, Times
  <2> QED
    BY <1>2, <2>1, <2>2, LenProperties DEF Streams
<1>4. Len(set) = Len(m) /\ \A i \in 1..Len(m) : ValueHeld(m[i], i, o, start, set[i])
  BY <1>2 DEF RowHeld
<1>5. ASSUME NEW i \in 1..Len(m) PROVE ValueHeld(m[i], i, p, start, set[i])
  <2> DEFINE c == m[i]
  <2>1. i \in 1..Len(chans) /\ c = chans[i] /\ i <= Len(m)
    BY <1>1
  <2>2. /\ c.off \in Nat /\ Width(c.type) \in {1, 2} /\ (c.type = "str" => Width(c.type) = 2)
        /\ c.off + Width(c.type) <= RecSize(m)
    BY <1>1, <2>1, LayoutFacts
  <2> HIDE DEF c
  <2>3. ASSUME NEW j \in 1..Width(c.type)
        PROVE  p.data[start + c.off + j] = o.data[start + c.off + j]
    <3>1. start + c.off + j \in 1..Len(o.data)
      <4>1. PICK R, D : R = RecSize(m) /\ D = Len(o.data)
        OBVIOUS
      <4>2. R \in Nat /\ D \in Nat /\ start + R <= D /\ c.off + Width(c.type) <= R
        BY <1>1, <1>3, <2>2, <4>1
      <4>3. PICK w \in Nat : w = Width(c.type)
        BY <2>2
      <4>4. w \in Nat /\ start \in Nat /\ c.off \in Nat /\ j \in 1..w /\ c.off + w <= R
        BY <1>3, <2>2, <4>2, <4>3
      <4>5. start + c.off + j \in 1..D
        BY <4>2, <4>4, SMTT(30)
      <4> QED
        BY <4>1, <4>5
    <3> QED
      BY <3>1 DEF Grown
  <2>4. ValueHeld(c, i, o, start, set[i])
    BY <1>4 DEF c
  <2>5. set[i] \in Seq(Nat)
    <3>1. i \in 1..Len(set)
      BY <1>4
    <3> QED
      BY <3>1, ElementOfSeq
  <2>6. CASE c.type = "str"
    <3>1. PICK at \in Nat : /\ o.data[start + c.off + 1] = Low(at)
                            /\ o.data[start + c.off + 2] = High(at)
                            /\ TextIn(o.sd[i], at, set[i])
      BY <2>4, <2>6 DEF ValueHeld
    <3>2. /\ p.data[start + c.off + 1] = o.data[start + c.off + 1]
          /\ p.data[start + c.off + 2] = o.data[start + c.off + 2]
      BY <2>2, <2>3, <2>6
    <3>3. i \in 1..MaxChans
      BY <2>1, GroupRowsAssumption, LayoutFacts
    <3>4. o.sd[i] \in Seq(Nat) /\ p.sd[i] \in Seq(Nat)
      BY <3>3 DEF Streams
    <3>5. TextIn(p.sd[i], at, set[i])
      BY <2>5, <3>1, <3>3, <3>4, TextStays DEF Grown
    <3>6. ValueHeld(c, i, p, start, set[i])
      BY <2>6, <3>1, <3>2, <3>5 DEF ValueHeld
    <3> QED
      BY <3>6 DEF c
  <2>7. CASE c.type # "str"
    <3>1. ValueHeld(c, i, p, start, set[i])
      BY <2>3, <2>4, <2>7 DEF ValueHeld
    <3> QED
      BY <3>1 DEF c
  <2> QED
    BY <2>6, <2>7
<1> QED
  BY <1>2, <1>4, <1>5 DEF RowHeld

(* A row of the length of the metadata is held behind the others.          *)
LEMMA RowArrives ==
    ASSUME Layout(chans), Len(chans) <= MaxChans, NEW m, IsPrefixOf(m, chans),
           NEW o \in Streams, NEW r, RecordOK(chans, r),
           HasTexts(r),
           NEW n \in Nat, Len(o.data) = n * RecSize(m), Len(r.buf) = RecSize(m),
           NEW p, p = WithRow(o, r)
    PROVE  RowHeld(m, p, n + 1, r.set)
<1> DEFINE D == Len(o.data)
           buf == WithOffsets(r, o).buf
<1>1. /\ Len(m) \in 0..Len(chans) /\ RecSize(m) = SizeTo(chans, Len(m)) /\ RecSize(m) \in Nat
      /\ \A i \in 1..Len(m) : m[i] = chans[i] /\ i \in 1..Len(chans)
  BY PrefixFacts
<1>2. Len(r.set) = Len(m)
  <2>1. SizeTo(chans, Len(r.set)) = SizeTo(chans, Len(m)) /\ Len(r.set) \in 0..Len(chans)
    BY <1>1, RecordFacts DEF RecordOK
  <2> QED
    BY <1>1, <2>1, LayoutFacts
<1>3. /\ \A b \in 1..Len(r.buf) : p.data[D + b] = buf[b]
      /\ \A i \in Texts(chans) : TextIn(p.sd[i], Len(o.sd[i]), r.set[i])
  BY RowAdds DEF RowBehind
<1>4. o.sd \in [1..MaxChans -> Seq(Nat)] /\ D \in Nat
  BY LenProperties DEF Streams
<1>5. /\ RecordOK(chans, WithOffsets(r, o)) /\ WithOffsets(r, o).set = r.set
      /\ \A i \in 1..Len(r.set) : chans[i].type = "str" =>
            /\ buf[chans[i].off + 1] = Low(Len(o.sd[i]))
            /\ buf[chans[i].off + 2] = High(Len(o.sd[i]))
  <2>1. OffsetsGive(r, o, WithOffsets(r, o))
    BY <1>4, OffsetsKeep
  <2> QED
    BY <2>1 DEF OffsetsGive
<1>6. D = ((n + 1) - 1) * RecSize(m)
  OBVIOUS
<1> HIDE DEF D, buf
<1>7. ASSUME NEW i \in 1..Len(m) PROVE ValueHeld(m[i], i, p, D, r.set[i])
  <2> DEFINE c == m[i]
  <2>1. i \in 1..Len(chans) /\ c = chans[i] /\ i <= Len(m) /\ i \in 1..Len(r.set)
    BY <1>1, <1>2
  <2>2. /\ c.off \in Nat /\ Width(c.type) \in {1, 2} /\ (c.type = "str" => Width(c.type) = 2)
        /\ c.off + Width(c.type) <= RecSize(m)
    BY <1>1, <2>1, LayoutFacts
  <2> HIDE DEF c
  <2>3. ASSUME NEW j \in 1..Width(c.type)
        PROVE  p.data[D + c.off + j] = buf[c.off + j]
    <3>1. c.off + j \in 1..Len(r.buf) /\ D + (c.off + j) = D + c.off + j
      <4>1. PICK R : R = RecSize(m)
        OBVIOUS
      <4>2. R \in Nat /\ c.off + Width(c.type) <= R /\ Len(r.buf) = R
        BY <1>1, <2>2, <4>1
      <4>3. PICK w, L : w = Width(c.type) /\ L = Len(r.buf)
        OBVIOUS
      <4>4. /\ w \in Nat /\ L = R /\ c.off + w <= R /\ j \in 1..w /\ c.off \in Nat
        BY <2>2, <4>2, <4>3
      <4>5. c.off + j \in 1..L /\ D + (c.off + j) = D + c.off + j
        BY <1>4, <4>2, <4>4, SMTT(30)
      <4> QED
        BY <4>3, <4>5
    <3> QED
      BY <1>3, <3>1
  <2>4. CASE c.type = "str"
    <3>1. i \in Texts(chans) /\ i \in 1..MaxChans
      BY <2>1, <2>4, LayoutFacts, GroupRowsAssumption DEF Texts
    <3>2. Len(o.sd[i]) \in Nat
      BY <1>4, <3>1, LenProperties
    <3>3. /\ p.data[D + c.off + 1] = Low(Len(o.sd[i]))
          /\ p.data[D + c.off + 2] = High(Len(o.sd[i]))
      BY <1>5, <2>1, <2>2, <2>3, <2>4
    <3>4. TextIn(p.sd[i], Len(o.sd[i]), r.set[i])
      BY <1>3, <3>1
    <3>5. ValueHeld(c, i, p, D, r.set[i])
      BY <2>4, <3>2, <3>3, <3>4 DEF ValueHeld
    <3> QED
      BY <3>5 DEF c
  <2>5. CASE c.type # "str"
    <3>1. FieldHeld(c, WithOffsets(r, o), r.set[i])
      BY <1>5, <2>1, <2>5 DEF RecordOK
    <3>2. ValueHeld(c, i, p, D, r.set[i])
      BY <2>3, <2>5, <3>1 DEF ValueHeld, FieldHeld, buf
    <3> QED
      BY <3>2 DEF c
  <2> QED
    BY <2>4, <2>5
<1> QED
  BY <1>2, <1>6, <1>7 DEF RowHeld

RowGives(m, rs, r, p, ss) ==
    /\ OutOK(chans, m, p, ss) /\ Len(ss) = Len(rs) + 1
    /\ ss[Len(rs) + 1].set = r.set
    /\ \A q \in 1..Len(rs) : ss[q] = rs[q]

(* A row more keeps the streams in order (writergroup.go: Append).         *)
LEMMA RowKept ==
    ASSUME Layout(chans), Len(chans) <= MaxChans, NEW m, IsPrefixOf(m, chans),
           NEW o, NEW rs, OutOK(chans, m, o, rs), NEW r, RecordOK(chans, r),
           HasTexts(r)
    PROVE  RowGives(m, rs, r, WithRow(o, r), Append(rs, Row(r)))
<1>0. SUFFICES ASSUME NEW p, p = WithRow(o, r), NEW ss, ss = Append(rs, Row(r))
               PROVE  RowGives(m, rs, r, p, ss)
  OBVIOUS
<1> DEFINE n == Len(rs)
           R == RecSize(m)
<1>1. o \in Streams /\ rs \in Seq(Rows) /\ o.count = n /\ n \in Nat
  BY LenProperties DEF OutOK
<1>2. /\ r.set \in Seq(Seq(Nat)) /\ Len(r.buf) \in Nat /\ Len(r.set) \in 0..Len(chans)
      /\ Len(r.buf) = SizeTo(chans, Len(r.set))
  BY RecordFacts DEF RecordOK
<1>3. Row(r) \in Rows /\ Row(r).len = Len(r.buf) /\ Row(r).set = r.set
  BY <1>2 DEF Row, Rows
<1>4. /\ ss \in Seq(Rows) /\ Len(ss) = n + 1 /\ ss[n + 1] = Row(r)
      /\ \A q \in 1..n : ss[q] = rs[q]
  BY <1>0, <1>1, <1>3, AppendProperties
<1>5. R \in Nat
  BY PrefixFacts
<1>6. /\ p \in Streams /\ p.count = o.count + 1
      /\ Len(p.data) = Len(o.data) + Len(r.buf)
      /\ Grown(o, p)
  BY <1>0, <1>1, RowAdds
<1>7. Len(o.data) \in Nat
  BY <1>1, LenProperties DEF Streams
<1> HIDE DEF n, R
<1>8. \A q \in 0..n : AllLong(m, ss, q) => AllLong(m, rs, q)
  BY <1>1, <1>4 DEF AllLong
<1>9. AllLong(m, ss, n + 1) => AllLong(m, rs, n) /\ Len(r.buf) = R
  BY <1>1, <1>3, <1>4 DEF AllLong, R
<1>10. /\ \A q \in 0..n : AllLong(m, rs, q) => q * R <= Len(o.data)
       /\ AllLong(m, rs, n) => Len(o.data) = n * R
       /\ \A q \in 1..n : AllLong(m, rs, q) => RowHeld(m, o, q, rs[q].set)
       /\ \A q \in 1..n : Len(rs[q].set) <= Len(chans) /\ rs[q].len = SizeTo(chans, Len(rs[q].set))
  BY DEF OutOK, n, R
<1>11. \A q \in 1..(n + 1) :
          Len(ss[q].set) <= Len(chans) /\ ss[q].len = SizeTo(chans, Len(ss[q].set))
  <2> SUFFICES ASSUME NEW q \in 1..(n + 1)
               PROVE  Len(ss[q].set) <= Len(chans) /\ ss[q].len = SizeTo(chans, Len(ss[q].set))
    OBVIOUS
  <2>1. CASE q = n + 1
    BY <1>2, <1>3, <1>4, <2>1, LayoutFacts
  <2>2. CASE q # n + 1
    BY <1>1, <1>4, <1>10, <2>2
  <2> QED
    BY <2>1, <2>2
<1>12. AllLong(m, ss, n + 1) => Len(p.data) = (n + 1) * R
  <2> SUFFICES ASSUME AllLong(m, ss, n + 1) PROVE Len(p.data) = (n + 1) * R
    OBVIOUS
  <2>1. Len(o.data) = n * R /\ Len(r.buf) = R
    BY <1>9, <1>10
  <2>2. (n + 1) * R = n * R + R
    BY <1>1, <1>5, Times
  <2> QED
    BY <1>6, <2>1, <2>2
<1>13. ASSUME NEW q \in 0..(n + 1), AllLong(m, ss, q) PROVE q * R <= Len(p.data)
  <2>1. CASE q = n + 1
    <3>1. Len(p.data) = q * R /\ Len(p.data) \in Nat
      BY <1>2, <1>6, <1>7, <1>12, <1>13, <2>1
    <3> QED
      BY <3>1
  <2>2. CASE q # n + 1
    <3>1. q \in 0..n /\ q \in Nat
      BY <1>1, <2>2
    <3>2. q * R <= Len(o.data) /\ q * R \in Nat
      BY <1>5, <1>8, <1>10, <1>13, <3>1, Times
    <3> QED
      BY <1>2, <1>6, <1>7, <3>2
  <2> QED
    BY <2>1, <2>2
<1>14. ASSUME NEW q \in 1..(n + 1), AllLong(m, ss, q) PROVE RowHeld(m, p, q, ss[q].set)
  <2>1. CASE q = n + 1
    <3>1. Len(o.data) = n * RecSize(m) /\ Len(r.buf) = RecSize(m)
      BY <1>9, <1>10, <1>14, <2>1 DEF R
    <3>2. RowHeld(m, p, n + 1, r.set)
      BY <1>0, <1>1, <3>1, RowArrives
    <3> QED
      BY <1>3, <1>4, <2>1, <3>2
  <2>2. CASE q # n + 1
    <3>1. q \in 1..n /\ q \in 0..n /\ q \in Nat /\ q >= 1
      BY <1>1, <2>2
    <3>2. q * RecSize(m) <= Len(o.data) /\ RowHeld(m, o, q, rs[q].set)
      BY <1>8, <1>10, <1>14, <3>1 DEF R
    <3>3. rs[q].set \in Seq(Seq(Nat)) /\ ss[q] = rs[q]
      <4>1. rs[q] \in Rows
        BY <1>1, <3>1, ElementOfSeq DEF n
      <4> QED
        BY <1>4, <3>1, <4>1 DEF Rows
    <3>4. RowHeld(m, p, q, rs[q].set)
      BY <1>1, <1>6, <3>1, <3>2, <3>3, RowStays
    <3> QED
      BY <3>3, <3>4
  <2> QED
    BY <2>1, <2>2
<1>15. OutOK(chans, m, p, ss)
  <2>1. Len(ss) = n + 1 /\ p.count = n + 1
    BY <1>1, <1>4, <1>6
  <2> QED
    BY <1>4, <1>6, <1>11, <1>12, <1>13, <1>14, <2>1 DEF OutOK, R
<1> QED
  BY <1>3, <1>4, <1>15 DEF n, RowGives

-----------------------------------------------------------------------------
(* Batches.  The recursive functions of the model exist, since each value  *)
(* is computed from the one before.                                        *)

ColumnsUpTo(r, cols, row, k, g) ==
    g = [j \in 0..k |-> IF j = 0 THEN r ELSE WithColumn(g[j - 1], cols[j], row)]

LEMMA ColumnsExist ==
    ASSUME NEW r, NEW cols, NEW row, NEW n \in Nat
    PROVE  \E g : ColumnsUpTo(r, cols, row, n, g)
<1> DEFINE P == {k \in Nat : \E g : ColumnsUpTo(r, cols, row, k, g)}
<1>1. 0 \in P
  <2>1. ColumnsUpTo(r, cols, row, 0, [j \in 0..0 |-> r])
    BY DEF ColumnsUpTo
  <2> QED
    BY <2>1
<1>2. ASSUME NEW k \in 1..n, k - 1 \in P PROVE k \in P
  <2>1. PICK g : ColumnsUpTo(r, cols, row, k - 1, g)
    BY <1>2
  <2> DEFINE h == [j \in 0..k |-> IF j = k THEN WithColumn(g[k - 1], cols[k], row) ELSE g[j]]
  <2>2. \A j \in 0..(k - 1) : g[j] = IF j = 0 THEN r ELSE WithColumn(g[j - 1], cols[j], row)
    BY <2>1 DEF ColumnsUpTo
  <2>3. ASSUME NEW j \in 0..k
        PROVE  h[j] = IF j = 0 THEN r ELSE WithColumn(h[j - 1], cols[j], row)
    <3>1. CASE j = 0
      BY <2>2, <3>1
    <3>2. CASE j # 0
      <4>1. j - 1 \in 0..k /\ j - 1 # k /\ h[j - 1] = g[j - 1]
        BY <3>2
      <4>2. h[j] = WithColumn(g[j - 1], cols[j], row)
        BY <2>2, <3>2
      <4> HIDE DEF h
      <4> QED
        BY <3>2, <4>1, <4>2
    <3> QED
      BY <3>1, <3>2
  <2>4. h = [j \in 0..k |-> h[j]]
    OBVIOUS
  <2> HIDE DEF h
  <2>5. ColumnsUpTo(r, cols, row, k, h)
    BY <2>3, <2>4 DEF ColumnsUpTo
  <2> QED
    BY <2>5
<1> HIDE DEF P
<1>3. \A k \in 0..n : k \in P
  BY <1>1, <1>2, Climb
<1>4. n \in P
  BY <1>3
<1> QED
  BY <1>4 DEF P

ColumnSteps(r, cols, row, g) ==
    /\ g[0] = r
    /\ \A j \in 1..Len(cols) : g[j] = WithColumn(g[j - 1], cols[j], row)

LEMMA WithColumnsIs ==
    ASSUME NEW r, NEW cols, Len(cols) \in Nat, NEW row
    PROVE  \E g : WithColumns(r, cols, row) = g[Len(cols)] /\ ColumnSteps(r, cols, row, g)
<1>1. PICK g : g = CHOOSE h : ColumnsUpTo(r, cols, row, Len(cols), h)
  OBVIOUS
<1>2. ColumnsUpTo(r, cols, row, Len(cols), g)
  <2>1. \E h : ColumnsUpTo(r, cols, row, Len(cols), h)
    BY ColumnsExist
  <2> QED
    BY <1>1, <2>1, Zenon
<1>3. WithColumns(r, cols, row) = g[Len(cols)]
  BY <1>1, Zenon DEF WithColumns, ColumnsUpTo
<1>4. ColumnSteps(r, cols, row, g)
  BY <1>2 DEF ColumnsUpTo, ColumnSteps
<1> QED
  BY <1>3, <1>4

BatchUpTo(cols, n, g) ==
    g = [m \in 0..n |-> IF m = 0 THEN [rec |-> FreshRecord, out |-> out, rows |-> rows]
                        ELSE WithBatchRow(g[m - 1], cols, m)]

LEMMA BatchExists ==
    ASSUME NEW cols, NEW n \in Nat
    PROVE  \E g : BatchUpTo(cols, n, g)
<1> DEFINE P == {k \in Nat : \E g : BatchUpTo(cols, k, g)}
           first == [rec |-> FreshRecord, out |-> out, rows |-> rows]
<1>1. 0 \in P
  <2>1. BatchUpTo(cols, 0, [j \in 0..0 |-> first])
    BY DEF BatchUpTo
  <2> QED
    BY <2>1
<1>2. ASSUME NEW k \in 1..n, k - 1 \in P PROVE k \in P
  <2>1. PICK g : BatchUpTo(cols, k - 1, g)
    BY <1>2
  <2> DEFINE h == [j \in 0..k |-> IF j = k THEN WithBatchRow(g[k - 1], cols, k) ELSE g[j]]
  <2> HIDE DEF first
  <2>2. \A j \in 0..(k - 1) : g[j] = IF j = 0 THEN first ELSE WithBatchRow(g[j - 1], cols, j)
    BY <2>1 DEF BatchUpTo, first
  <2>3. ASSUME NEW j \in 0..k
        PROVE  h[j] = IF j = 0 THEN first ELSE WithBatchRow(h[j - 1], cols, j)
    <3>1. CASE j = 0
      BY <2>2, <3>1
    <3>2. CASE j # 0
      <4>1. j - 1 \in 0..k /\ j - 1 # k /\ h[j - 1] = g[j - 1]
        BY <3>2
      <4>2. h[j] = WithBatchRow(g[j - 1], cols, j)
        BY <2>2, <3>2
      <4> HIDE DEF h
      <4> QED
        BY <3>2, <4>1, <4>2
    <3> QED
      BY <3>1, <3>2
  <2>4. h = [j \in 0..k |-> h[j]]
    OBVIOUS
  <2> HIDE DEF h
  <2>5. BatchUpTo(cols, k, h)
    BY <2>3, <2>4 DEF BatchUpTo, first
  <2> QED
    BY <2>5
<1> HIDE DEF P
<1>3. \A k \in 0..n : k \in P
  BY <1>1, <1>2, Climb
<1>4. n \in P
  BY <1>3
<1> QED
  BY <1>4 DEF P

BatchSteps(cols, n, g) ==
    /\ g[0] = [rec |-> FreshRecord, out |-> out, rows |-> rows]
    /\ \A m \in 1..n : g[m] = WithBatchRow(g[m - 1], cols, m)

LEMMA BatchStateIs ==
    ASSUME NEW cols, NEW n \in Nat
    PROVE  \E g : BatchState(cols, n) = g[n] /\ BatchSteps(cols, n, g)
<1>1. PICK g : g = CHOOSE h : BatchUpTo(cols, n, h)
  OBVIOUS
<1>2. BatchUpTo(cols, n, g)
  <2>1. \E h : BatchUpTo(cols, n, h)
    BY BatchExists
  <2> QED
    BY <1>1, <2>1, Zenon
<1>3. BatchState(cols, n) = g[n]
  BY <1>1, Zenon DEF BatchState, BatchUpTo
<1>4. BatchSteps(cols, n, g)
  BY <1>2 DEF BatchUpTo, BatchSteps
<1> QED
  BY <1>3, <1>4

(* The greatest of some numbers up to n.                                   *)
LEMMA Greatest ==
    ASSUME NEW n \in Nat, NEW S, S \subseteq 1..n, S # {}
    PROVE  Max(S) \in S /\ \A x \in S : x <= Max(S)
<1> DEFINE P == {k \in Nat : \A T \in SUBSET (1..k) : T # {} =>
                                \E x \in T : \A y \in T : y <= x}
<1>1. 0 \in P
  <2>1. 1..0 = {}
    OBVIOUS
  <2>2. \A T \in SUBSET (1..0) : T = {}
    BY <2>1
  <2> QED
    BY <2>2
<1>2. ASSUME NEW k \in 1..n, k - 1 \in P PROVE k \in P
  <2> SUFFICES ASSUME NEW T \in SUBSET (1..k), T # {}
               PROVE  \E x \in T : \A y \in T : y <= x
    OBVIOUS
  <2>1. CASE k \in T
    BY <2>1
  <2>2. CASE k \notin T
    <3>1. T \in SUBSET (1..(k - 1))
      BY <2>2
    <3> QED
      BY <1>2, <3>1
  <2> QED
    BY <2>1, <2>2
<1> HIDE DEF P
<1>3. n \in P
  <2>1. \A k \in 0..n : k \in P
    BY <1>1, <1>2, Climb
  <2> QED
    BY <2>1
<1>4. \E x \in S : \A y \in S : y <= x
  BY <1>3 DEF P
<1>5. Max(S) = CHOOSE x \in S : \A y \in S : x >= y
  BY DEF Max
<1>6. \A x, y \in S : x >= y <=> y <= x
  OBVIOUS
<1> QED
  BY <1>4, <1>5, <1>6

Fits(c) == chans[c.ch].type \in Takes(c.kind)

(* The columns are for channels of the group and reach the row.            *)
Reach(cols, row) ==
    /\ Len(cols) \in Nat
    /\ \A k \in 1..Len(cols) :
          /\ Column(cols[k]) /\ cols[k].ch \in 1..Len(chans)
          /\ row \in 1..Len(cols[k].vals)

(* What the Record holds after the first k columns: a channel holds the    *)
(* value of the last of them, or what it held.                             *)
AfterColumns(r, cols, row, k, x) ==
    /\ RecordOK(chans, x) /\ Len(x.set) = Len(chans)
    /\ x.err = (r.err \/ \E j \in 1..k : ~Fits(cols[j]))
    /\ (\A j \in 1..k : Fits(cols[j])) =>
          /\ \A i \in 1..Len(chans) :
                (\A j \in 1..k : cols[j].ch # i) => x.set[i] = r.set[i]
          /\ \A j \in 1..k :
                (\A l \in (j + 1)..k : cols[l].ch # cols[j].ch)
                   => x.set[cols[j].ch] = cols[j].vals[row]

LEMMA ColumnsSet ==
    ASSUME Layout(chans), NEW r, RecordOK(chans, r), Len(r.set) = Len(chans),
           NEW cols, NEW row, Reach(cols, row)
    PROVE  AfterColumns(r, cols, row, Len(cols), WithColumns(r, cols, row))
<1> DEFINE n == Len(cols)
<1>1. PICK g : /\ WithColumns(r, cols, row) = g[n] /\ g[0] = r
               /\ \A j \in 1..n : g[j] = WithColumn(g[j - 1], cols[j], row)
  <2>1. Len(cols) \in Nat
    BY DEF Reach
  <2>2. PICK g : WithColumns(r, cols, row) = g[Len(cols)] /\ ColumnSteps(r, cols, row, g)
    BY <2>1, WithColumnsIs
  <2> QED
    BY <2>2 DEF ColumnSteps
<1>2. n \in Nat
  BY DEF Reach
<1> HIDE DEF n
<1> DEFINE P == {k \in 0..n : AfterColumns(r, cols, row, k, g[k])}
<1>3. 0 \in P
  <2>1. r.err \in BOOLEAN
    BY RecordFacts
  <2>2. AfterColumns(r, cols, row, 0, r)
    BY <2>1 DEF AfterColumns
  <2> QED
    BY <1>1, <1>2, <2>2
<1>4. ASSUME NEW k \in 1..n, k - 1 \in P PROVE k \in P
  <2> DEFINE x == g[k - 1]
             y == g[k]
             c == cols[k]
  <2>1. AfterColumns(r, cols, row, k - 1, x)
    BY <1>4
  <2>2. Column(c) /\ c.ch \in 1..Len(chans) /\ row \in 1..Len(c.vals)
    BY DEF Reach, n
  <2>3. y = WithValue(x, c.ch, c.kind, c.vals[row])
    BY <1>1 DEF WithColumn
  <2>4. c.kind \in Kinds /\ c.vals[row] \in Value(c.kind)
    <3>1. c.vals \in Seq(Seq(Nat)) /\ c.kind \in Kinds
          /\ \A w \in DOMAIN c.vals : c.vals[w] \in Value(c.kind)
      BY <2>2 DEF Column
    <3>2. DOMAIN c.vals = 1..Len(c.vals)
      BY <3>1, LenProperties
    <3> QED
      BY <2>2, <3>1, <3>2
  <2> HIDE DEF x, y, c
  <2>5. RecordOK(chans, x) /\ Len(x.set) = Len(chans)
    BY <2>1 DEF AfterColumns
  <2>6. PICK ch, kind, v : ch = c.ch /\ kind = c.kind /\ v = c.vals[row]
    OBVIOUS
  <2>7. ch \in 1..Len(chans) /\ kind \in Kinds /\ v \in Value(kind) /\ y = WithValue(x, ch, kind, v)
        /\ (chans[ch].type \in Takes(kind) <=> Fits(c))
    BY <2>2, <2>3, <2>4, <2>6 DEF Fits
  <2>8. chans[ch].type \in Takes(kind) => ch <= Len(x.set)
    <3>1. Len(chans) \in Nat
      BY LayoutFacts
    <3> QED
      BY <2>5, <2>7, <3>1
  <2>9. /\ RecordOK(chans, y) /\ Len(y.set) = Len(x.set)
        /\ IF chans[ch].type \in Takes(kind)
           THEN /\ y.err = x.err /\ y.set[ch] = v
                /\ \A i \in 1..Len(x.set) : i # ch => y.set[i] = x.set[i]
           ELSE y.err = TRUE /\ y.set = x.set
    <3>1. PICK p, q : p = x /\ q = y
      OBVIOUS
    <3>2. /\ RecordOK(chans, p) /\ q = WithValue(p, ch, kind, v)
          /\ chans[ch].type \in Takes(kind) => ch <= Len(p.set)
      BY <2>5, <2>7, <2>8, <3>1
    <3>3. SetGives(p, ch, kind, v, WithValue(p, ch, kind, v))
      BY <2>7, <3>2, SetKeeps
    <3>4. SetGives(x, ch, kind, v, y)
      BY <3>1, <3>2, <3>3
    <3> QED
      BY <3>4, Zenon DEF SetGives
  <2>10. 1..k = 1..(k - 1) \union {k}
    BY <1>2
  <2>11. y.err = (r.err \/ \E j \in 1..k : ~Fits(cols[j]))
    <3>1. x.err = (r.err \/ \E j \in 1..(k - 1) : ~Fits(cols[j]))
      BY <2>1 DEF AfterColumns
    <3>2. CASE Fits(c)
      BY <2>7, <2>9, <2>10, <3>1, <3>2 DEF c
    <3>3. CASE ~Fits(c)
      BY <2>7, <2>9, <2>10, <3>1, <3>3 DEF c
    <3> QED
      BY <3>2, <3>3
  <2>12. ASSUME \A j \in 1..k : Fits(cols[j])
         PROVE  /\ \A i \in 1..Len(chans) :
                      (\A j \in 1..k : cols[j].ch # i) => y.set[i] = r.set[i]
                /\ \A j \in 1..k :
                      (\A l \in (j + 1)..k : cols[l].ch # cols[j].ch)
                         => y.set[cols[j].ch] = cols[j].vals[row]
    <3>1. Fits(c) /\ \A j \in 1..(k - 1) : Fits(cols[j])
      BY <2>10, <2>12 DEF c
    <3>2. /\ \A i \in 1..Len(chans) :
                (\A j \in 1..(k - 1) : cols[j].ch # i) => x.set[i] = r.set[i]
          /\ \A j \in 1..(k - 1) :
                (\A l \in (j + 1)..(k - 1) : cols[l].ch # cols[j].ch)
                   => x.set[cols[j].ch] = cols[j].vals[row]
      BY <2>1, <3>1 DEF AfterColumns
    <3>3. y.set[c.ch] = c.vals[row] /\ \A i \in 1..Len(chans) : i # c.ch => y.set[i] = x.set[i]
      BY <2>5, <2>6, <2>7, <2>9, <3>1
    <3>4. ASSUME NEW i \in 1..Len(chans), \A j \in 1..k : cols[j].ch # i
          PROVE  y.set[i] = r.set[i]
      <4>1. i # c.ch /\ \A j \in 1..(k - 1) : cols[j].ch # i
        BY <2>10, <3>4 DEF c
      <4> QED
        BY <3>2, <3>3, <4>1
    <3>5. ASSUME NEW j \in 1..k, \A l \in (j + 1)..k : cols[l].ch # cols[j].ch
          PROVE  y.set[cols[j].ch] = cols[j].vals[row]
      <4>1. CASE j = k
        BY <3>3, <4>1 DEF c
      <4>2. CASE j # k
        <5>1. j \in 1..(k - 1) /\ k \in (j + 1)..k /\ (j + 1)..(k - 1) \subseteq (j + 1)..k
          BY <1>2, <4>2
        <5>2. c.ch # cols[j].ch /\ \A l \in (j + 1)..(k - 1) : cols[l].ch # cols[j].ch
          BY <3>5, <5>1 DEF c
        <5>3. cols[j].ch \in 1..Len(chans)
          <6>1. j \in 1..Len(cols)
            BY <1>2, <5>1 DEF n
          <6> QED
            BY <6>1 DEF Reach
        <5> QED
          BY <3>2, <3>3, <5>1, <5>2, <5>3
      <4> QED
        BY <4>1, <4>2
    <3> QED
      BY <3>4, <3>5
  <2>13. AfterColumns(r, cols, row, k, y)
    BY <2>5, <2>9, <2>11, <2>12 DEF AfterColumns
  <2> QED
    BY <1>2, <2>13 DEF y
<1> HIDE DEF P
<1>5. \A k \in 0..n : k \in P
  BY <1>2, <1>3, <1>4, Climb
<1>6. n \in P
  BY <1>2, <1>5
<1> QED
  BY <1>1, <1>6 DEF P, n

IsSeq(s) == Len(s) \in Nat /\ DOMAIN s = 1..Len(s)

AllFit(b) == \A k \in 1..Len(b.cols) : Fits(b.cols[k])

(* Channels without a column still hold zero.                              *)
OthersZero(b, r) ==
    \A i \in 1..Len(chans) :
        (\A j \in 1..Len(b.cols) : b.cols[j].ch # i) => r.set[i] = Zero(chans[i].type)

(* A batch that AppendColumns goes through.                                *)
BatchOK(b) == b.n \in Nat /\ \A row \in 1..b.n : Reach(b.cols, row)

(* The Record, the streams and the rows after the first k rows.            *)
AfterRows(b, m, k, x) ==
    /\ RecordOK(chans, x.rec) /\ Len(x.rec.set) = Len(chans)
    /\ OutOK(chans, m, x.out, x.rows)
    /\ Len(x.rows) = Len(rows) + k
    /\ \A q \in 1..Len(rows) : x.rows[q] = rows[q]
    /\ \A row \in 1..k : Len(x.rows[Len(rows) + row].set) = Len(chans)
    /\ AllFit(b) =>
          /\ \A row \in 1..k : \A i \in 1..Len(chans) :
                x.rows[Len(rows) + row].set[i] = BatchValue(b, i, row)
          /\ OthersZero(b, x.rec)

(* The value of a channel is that of its last column, or zero.             *)
LEMMA RowOfColumns ==
    ASSUME NEW b, IsSeq(b.cols), AllFit(b),
           NEW r, NEW row, NEW x, AfterColumns(r, b.cols, row, Len(b.cols), x),
           OthersZero(b, r)
    PROVE  \A i \in 1..Len(chans) : x.set[i] = BatchValue(b, i, row)
<1> SUFFICES ASSUME NEW i \in 1..Len(chans) PROVE x.set[i] = BatchValue(b, i, row)
  OBVIOUS
<1> DEFINE n == Len(b.cols)
           ks == {k \in 1..n : b.cols[k].ch = i}
<1>1. /\ (\A j \in 1..n : b.cols[j].ch # i) => x.set[i] = r.set[i]
      /\ \A j \in 1..n :
            (\A l \in (j + 1)..n : b.cols[l].ch # b.cols[j].ch)
               => x.set[b.cols[j].ch] = b.cols[j].vals[row]
  BY DEF AfterColumns, AllFit
<1>2. BatchValue(b, i, row) = IF ks = {} THEN Zero(chans[i].type) ELSE b.cols[Max(ks)].vals[row]
  BY DEF BatchValue, IsSeq
<1>3. CASE ks = {}
  <2>1. \A j \in 1..n : b.cols[j].ch # i
    BY <1>3
  <2> QED
    BY <1>1, <1>2, <1>3, <2>1 DEF OthersZero
<1>4. CASE ks # {}
  <2>1. Max(ks) \in ks /\ \A k \in ks : k <= Max(ks)
    <3>1. ks \subseteq 1..n /\ n \in Nat
      BY DEF IsSeq
    <3> HIDE DEF ks, n
    <3> QED
      BY <1>4, <3>1, Greatest
  <2>2. PICK j : j = Max(ks)
    OBVIOUS
  <2>3. j \in 1..n /\ b.cols[j].ch = i
    BY <2>1, <2>2
  <2>4. \A l \in (j + 1)..n : b.cols[l].ch # b.cols[j].ch
    <3> SUFFICES ASSUME NEW l \in (j + 1)..n, b.cols[l].ch = b.cols[j].ch PROVE FALSE
      OBVIOUS
    <3>1. l \in ks
      BY <2>3
    <3>2. l <= j
      BY <2>1, <2>2, <3>1
    <3> QED
      BY <2>3, <3>2
  <2>5. x.set[i] = b.cols[j].vals[row]
    BY <1>1, <2>3, <2>4
  <2> HIDE DEF ks
  <2> QED
    BY <1>2, <1>4, <2>2, <2>5
<1> QED
  BY <1>3, <1>4

(* The first n rows of a batch (writergroup.go: AppendColumns).            *)
LEMMA BatchKept ==
    ASSUME Layout(chans), Len(chans) <= MaxChans, NEW m, IsPrefixOf(m, chans),
           OutOK(chans, m, out, rows), NEW b, BatchOK(b),
           IsSeq(b.cols), NEW n \in 0..b.n
    PROVE  AfterRows(b, m, n, BatchState(b.cols, n))
<1>1. b.n \in Nat /\ n \in Nat
  BY DEF BatchOK
<1>2. PICK g : BatchState(b.cols, n) = g[n] /\ BatchSteps(b.cols, n, g)
  BY <1>1, BatchStateIs
<1>3. Len(rows) \in Nat /\ Len(chans) \in Nat
  BY LenProperties, LayoutFacts DEF OutOK
<1> DEFINE P == {k \in 0..n : AfterRows(b, m, k, g[k])}
           N == Len(rows)
<1>4. 0 \in P
  <2>1. g[0] = [rec |-> FreshRecord, out |-> out, rows |-> rows]
    BY <1>2 DEF BatchSteps
  <2>2. PICK x : x = g[0]
    OBVIOUS
  <2>3. x.rec = FreshRecord /\ x.out = out /\ x.rows = rows
    BY <2>1, <2>2
  <2>4. AfterRows(b, m, 0, x)
    <3>1. /\ RecordOK(chans, x.rec) /\ Len(x.rec.set) = Len(chans)
          /\ OthersZero(b, x.rec)
      BY <2>3, FreshOK DEF OthersZero
    <3>2. 1..0 = {} /\ Len(rows) = Len(rows) + 0
      BY <1>3
    <3> QED
      BY <2>3, <3>1, <3>2 DEF AfterRows
  <2> QED
    BY <1>1, <2>2, <2>4
<1>5. ASSUME NEW k \in 1..n, k - 1 \in P PROVE k \in P
  <2>1. PICK x, y, r : x = g[k - 1] /\ y = g[k] /\ r = WithColumns(x.rec, b.cols, k)
    OBVIOUS
  <2>2. AfterRows(b, m, k - 1, x)
    BY <1>5, <2>1
  <2>3. y = [rec |-> WithOffsets(r, x.out), out |-> WithRow(x.out, r),
             rows |-> Append(x.rows, Row(r))]
    BY <1>2, <2>1 DEF BatchSteps, WithBatchRow
  <2>4. /\ RecordOK(chans, x.rec) /\ Len(x.rec.set) = Len(chans)
        /\ OutOK(chans, m, x.out, x.rows) /\ Len(x.rows) = N + (k - 1)
    BY <2>2 DEF AfterRows
  <2>5. Reach(b.cols, k)
    BY <1>1 DEF BatchOK
  <2>6. AfterColumns(x.rec, b.cols, k, Len(b.cols), r)
    BY <2>1, <2>4, <2>5, ColumnsSet
  <2>7. RecordOK(chans, r) /\ Len(r.set) = Len(chans)
    BY <2>6 DEF AfterColumns
  <2>8. HasTexts(r)
    BY <1>3, <2>7, LayoutFacts DEF HasTexts, Texts
  <2>9. RowGives(m, x.rows, r, WithRow(x.out, r), Append(x.rows, Row(r)))
    BY <2>4, <2>7, <2>8, RowKept
  <2>10. OffsetsGive(r, x.out, WithOffsets(r, x.out))
    <3>1. x.out.sd \in [1..MaxChans -> Seq(Nat)]
      BY <2>4 DEF OutOK, Streams
    <3> QED
      BY <2>7, <3>1, OffsetsKeep
  <2>11. y.rec = WithOffsets(r, x.out) /\ y.out = WithRow(x.out, r) /\ y.rows = Append(x.rows, Row(r))
    BY <2>3
  <2>12. RowGives(m, x.rows, r, y.out, y.rows) /\ OffsetsGive(r, x.out, y.rec)
    BY <2>9, <2>10, <2>11
  <2>13. RecordOK(chans, y.rec) /\ y.rec.set = r.set
    BY <2>12 DEF OffsetsGive
  <2>14. /\ OutOK(chans, m, y.out, y.rows) /\ Len(y.rows) = Len(x.rows) + 1
         /\ y.rows[Len(x.rows) + 1].set = r.set
         /\ \A q \in 1..Len(x.rows) : y.rows[q] = x.rows[q]
    BY <2>12 DEF RowGives
  <2> HIDE DEF N
  <2>15. /\ Len(y.rows) = N + k /\ y.rows[N + k].set = r.set
         /\ \A q \in 1..(N + (k - 1)) : y.rows[q] = x.rows[q]
    <3>1. N \in Nat /\ k \in Nat
      BY <1>1, <1>3 DEF N
    <3> QED
      BY <2>4, <2>14, <3>1
  <2>16. \A q \in 1..N : y.rows[q] = rows[q]
    <3>1. \A q \in 1..N : x.rows[q] = rows[q]
      BY <2>2 DEF AfterRows, N
    <3>2. \A q \in 1..N : q \in 1..(N + (k - 1))
      BY <1>3 DEF N
    <3> QED
      BY <2>15, <3>1, <3>2
  <2>17. \A row \in 1..k : row = k \/ (row \in 1..(k - 1) /\ y.rows[N + row] = x.rows[N + row])
    <3> SUFFICES ASSUME NEW row \in 1..k, row # k
                 PROVE  row \in 1..(k - 1) /\ y.rows[N + row] = x.rows[N + row]
      OBVIOUS
    <3>1. row \in 1..(k - 1) /\ N + row \in 1..(N + (k - 1))
      BY <1>3 DEF N
    <3> QED
      BY <2>15, <3>1
  <2>18. \A row \in 1..k : Len(y.rows[N + row].set) = Len(chans)
    <3>1. \A row \in 1..(k - 1) : Len(x.rows[N + row].set) = Len(chans)
      BY <2>2 DEF AfterRows, N
    <3> QED
      BY <2>7, <2>15, <2>17, <3>1
  <2>19. ASSUME AllFit(b)
         PROVE  /\ \A row \in 1..k : \A i \in 1..Len(chans) :
                      y.rows[N + row].set[i] = BatchValue(b, i, row)
                /\ OthersZero(b, y.rec)
    <3>1. /\ \A row \in 1..(k - 1) : \A i \in 1..Len(chans) :
                x.rows[N + row].set[i] = BatchValue(b, i, row)
          /\ OthersZero(b, x.rec)
      BY <2>2, <2>19 DEF AfterRows, N
    <3>2. \A i \in 1..Len(chans) : r.set[i] = BatchValue(b, i, k)
      <4>1. OthersZero(b, x.rec) /\ AllFit(b)
        BY <2>19, <3>1
      <4> QED
        BY <2>6, <4>1, RowOfColumns
    <3>3. OthersZero(b, y.rec)
      BY <2>6, <2>13, <2>19, <3>1 DEF AfterColumns, AllFit, OthersZero
    <3>4. \A row \in 1..k : \A i \in 1..Len(chans) :
             y.rows[N + row].set[i] = BatchValue(b, i, row)
      BY <2>15, <2>17, <3>1, <3>2
    <3> QED
      BY <3>3, <3>4
  <2>20. AfterRows(b, m, k, y)
    BY <2>7, <2>13, <2>14, <2>15, <2>16, <2>18, <2>19 DEF AfterRows, N
  <2> QED
    BY <1>1, <2>1, <2>20
<1> HIDE DEF P, N
<1>6. \A k \in 0..n : k \in P
  BY <1>1, <1>4, <1>5, Climb
<1>7. n \in P
  BY <1>1, <1>6
<1> QED
  BY <1>2, <1>7 DEF P

-----------------------------------------------------------------------------
(* The inductive invariant.                                                *)

RecsOK ==
    /\ recs = [s \in DOMAIN recs |-> recs[s]]
    /\ \A s \in DOMAIN recs : RecordOK(chans, recs[s])

MetaOK ==
    /\ IsPrefixOf(meta, chans)
    /\ ~started => meta = <<>> /\ rows = <<>>

(* Channels that were defined in time are in every Record and every row,   *)
(* and in the metadata.                                                    *)
LateInv ==
    ~late =>
        /\ call.res # "panic" /\ ~damaged
        /\ \A s \in DOMAIN recs : Len(recs[s].set) = Len(chans)
        /\ \A r \in 1..Len(rows) : Len(rows[r].set) = Len(chans)
        /\ rows # <<>> \/ (started /\ ~closed) => meta = chans

RowsInv ==
    /\ Layout(chans) /\ Len(chans) <= MaxChans
    /\ MetaOK /\ RecsOK /\ OutOK(chans, meta, out, rows) /\ LateInv

LEMMA TypesKnown == Types \subseteq TypeNames
  BY GroupRowsAssumption DEF TypeNames

(* The empty streams.                                                      *)
LEMMA NoRows ==
    ASSUME NEW cs, NEW m, NEW o, NEW rs, OutOK(cs, m, o, rs), rs = <<>>,
           RecSize(m) \in Nat, NEW l, RecSize(l) \in Nat
    PROVE  OutOK(cs, l, o, rs)
<1>1. Len(rs) = 0 /\ AllLong(m, rs, 0)
  BY DEF AllLong
<1>2. o \in Streams /\ Len(o.data) = 0 * RecSize(m)
  BY <1>1 DEF OutOK
<1>3. 0 * RecSize(m) = 0 /\ 0 * RecSize(l) = 0
  OBVIOUS
<1>4. \A r \in 0..0 : r * RecSize(l) <= Len(o.data)
  BY <1>2, <1>3
<1>5. 1..0 = {}
  OBVIOUS
<1> QED
  BY <1>1, <1>2, <1>3, <1>4, <1>5 DEF OutOK

LEMMA InitOK == Init => RowsInv
<1> SUFFICES ASSUME Init PROVE RowsInv
  OBVIOUS
<1>1. Layout(<<>>)
  <2>1. <<>> \in Seq(Channels) /\ Len(<<>>) = 0
    BY EmptySeq
  <2> QED
    BY <2>1 DEF Layout
<1>2. Layout(chans) /\ Len(chans) <= MaxChans
  <2>1. CASE chans = <<>>
    BY <1>1, <2>1, GroupRowsAssumption
  <2>2. CASE chans = WithChannel(<<>>, "f64")
    <3>1. Layout(chans) /\ Len(chans) = Len(<<>>) + 1
      BY <1>1, <2>2, AddKeepsLayout DEF TypeNames
    <3> QED
      BY <3>1, GroupRowsAssumption
  <2> QED
    BY <2>1, <2>2 DEF Init
<1>3. Len(chans) \in Nat
  BY <1>2, LayoutFacts
<1>4. MetaOK
  <2>1. meta = <<>> /\ rows = <<>> /\ meta \in Seq(Channels) /\ Len(meta) = 0
    BY EmptySeq DEF Init
  <2> QED
    BY <1>3, <2>1 DEF MetaOK, IsPrefixOf
<1>5. RecsOK /\ LateInv
  BY DEF Init, RecsOK, LateInv, Did
<1>6. OutOK(chans, meta, out, rows)
  <2>1. out = [data |-> <<>>, sd |-> [i \in 1..MaxChans |-> <<>>], count |-> 0]
        /\ rows = <<>> /\ meta = <<>>
    BY DEF Init
  <2>2. <<>> \in Seq(Nat) /\ <<>> \in Seq(Rows) /\ Len(<<>>) = 0
    BY EmptySeq
  <2>3. out \in Streams /\ out.count = 0 /\ Len(out.data) = 0
    BY <2>1, <2>2 DEF Streams
  <2>4. RecSize(meta) = 0
    BY <2>1 DEF RecSize
  <2>5. 1..0 = {} /\ (\A r \in 0..0 : r * 0 <= 0) /\ 0 * 0 = 0
    OBVIOUS
  <2> QED
    BY <2>1, <2>2, <2>3, <2>4, <2>5 DEF OutOK
<1> QED
  BY <1>2, <1>4, <1>5, <1>6 DEF RowsInv

(* A channel more (writergroup.go: add).                                   *)
LEMMA AddOK ==
    ASSUME RowsInv, NEW type \in Types, Add(type)
    PROVE  RowsInv'
<1>1. Layout(chans) /\ Len(chans) <= MaxChans /\ MetaOK /\ RecsOK
      /\ OutOK(chans, meta, out, rows) /\ LateInv
  BY DEF RowsInv
<1>2. type \in TypeNames /\ chans' = WithChannel(chans, type) /\ Len(chans) < MaxChans
      /\ UNCHANGED <<meta, started, closed, damaged, recs, out, rows>>
  BY TypesKnown DEF Add
<1>3. /\ Layout(chans') /\ Len(chans') = Len(chans) + 1
      /\ \A i \in 1..Len(chans) : chans'[i] = chans[i]
      /\ \A k \in 0..Len(chans) : SizeTo(chans', k) = SizeTo(chans, k)
      /\ Len(chans) \in Nat
  <2>1. PICK cs, ds : cs = chans /\ ds = WithChannel(cs, type)
    OBVIOUS
  <2>2. Layout(cs) /\ type \in TypeNames
    BY <1>1, <1>2, <2>1
  <2>3. /\ Layout(ds) /\ Len(ds) = Len(cs) + 1
        /\ \A i \in 1..Len(cs) : ds[i] = cs[i]
        /\ \A k \in 0..Len(cs) : SizeTo(ds, k) = SizeTo(cs, k)
    BY <2>1, <2>2, AddKeepsLayout
  <2>4. Len(cs) \in Nat
    BY <2>2, LayoutFacts
  <2>5. chans' = ds
    BY <1>2, <2>1
  <2> QED
    BY <2>1, <2>3, <2>4, <2>5
<1>4. Layout(chans)' /\ (Len(chans) <= MaxChans)'
  BY <1>2, <1>3, GroupRowsAssumption
<1>5. MetaOK'
  <2>1. IsPrefixOf(meta, chans')
    <3>1. Len(meta) \in 0..Len(chans) /\ \A i \in 1..Len(meta) : meta[i] = chans[i] /\ i \in 1..Len(chans)
      BY <1>1, PrefixFacts DEF MetaOK
    <3> QED
      BY <1>1, <1>3, <3>1 DEF MetaOK, IsPrefixOf
  <2> QED
    BY <1>1, <1>2, <2>1 DEF MetaOK
<1>6. RecsOK'
  BY <1>1, <1>2, AddKeepsRecord DEF RecsOK
<1>7. OutOK(chans, meta, out, rows)'
  <2>1. \A r \in 1..Len(rows) : Len(rows[r].set) \in 0..Len(chans)
    <3> SUFFICES ASSUME NEW r \in 1..Len(rows) PROVE Len(rows[r].set) \in 0..Len(chans)
      OBVIOUS
    <3>1. rows \in Seq(Rows) /\ Len(rows[r].set) <= Len(chans)
      BY <1>1 DEF OutOK
    <3>2. rows[r] \in Rows
      BY <3>1, ElementOfSeq
    <3>3. Len(rows[r].set) \in Nat
      BY <3>2, LenProperties DEF Rows
    <3> QED
      BY <1>3, <3>1, <3>3
  <2>2. \A r \in 1..Len(rows) : Len(rows[r].set) <= Len(chans') /\ rows[r].len = SizeTo(chans', Len(rows[r].set))
    BY <1>1, <1>3, <2>1 DEF OutOK
  <2>3. OutOK(chans', meta, out, rows)
    BY <1>1, <2>2 DEF OutOK
  <2> QED
    BY <1>2, <2>3
<1>8. LateInv'
  <2> SUFFICES ASSUME ~late' PROVE LateInv'
    BY DEF LateInv
  <2>1. ~late /\ ~started /\ DOMAIN recs = {} /\ call' = Did("ok")
    BY DEF Add
  <2>2. rows = <<>> /\ ~damaged
    BY <1>1, <2>1 DEF MetaOK, LateInv
  <2> QED
    BY <1>2, <2>1, <2>2 DEF LateInv, Did
<1> QED
  BY <1>4, <1>5, <1>6, <1>7, <1>8 DEF RowsInv

(* A new Record (writergroup.go: Record).                                  *)
LEMMA NewRecordOK ==
    ASSUME RowsInv, NEW s \in Slots, NewRecord(s)
    PROVE  RowsInv'
<1>1. Layout(chans) /\ Len(chans) <= MaxChans /\ MetaOK /\ RecsOK
      /\ OutOK(chans, meta, out, rows) /\ LateInv
  BY DEF RowsInv
<1>2. /\ UNCHANGED <<chans, meta, started, closed, final, damaged, out, rows, late>>
      /\ call' = Did("ok")
      /\ recs' = [q \in DOMAIN recs \union {s} |-> IF q = s THEN FreshRecord ELSE recs[q]]
  BY DEF NewRecord
<1>3. /\ DOMAIN recs' = DOMAIN recs \union {s}
      /\ recs' = [q \in DOMAIN recs' |-> recs'[q]]
      /\ \A q \in DOMAIN recs' : recs'[q] = FreshRecord \/ (q \in DOMAIN recs /\ recs'[q] = recs[q])
  BY <1>2
<1>4. RecordOK(chans, FreshRecord) /\ Len(FreshRecord.set) = Len(chans)
  BY <1>1, FreshOK
<1>5. RecsOK'
  BY <1>1, <1>2, <1>3, <1>4 DEF RecsOK
<1>6. LateInv'
  BY <1>1, <1>2, <1>3, <1>4 DEF LateInv, Did
<1> QED
  BY <1>1, <1>2, <1>5, <1>6 DEF RowsInv, MetaOK

(* A setter does not reach outside the Record, and fails only on one that  *)
(* is older than the channel.                                              *)
LEMMA SetOK ==
    ASSUME RowsInv, NEW s \in Slots, NEW i \in DOMAIN chans, NEW c \in Setters,
           Set(s, i, c[1], c[2])
    PROVE  RowsInv'
<1>1. Layout(chans) /\ Len(chans) <= MaxChans /\ MetaOK /\ RecsOK
      /\ OutOK(chans, meta, out, rows) /\ LateInv
  BY DEF RowsInv
<1>2. PICK kind, v : kind = c[1] /\ v = c[2]
  OBVIOUS
<1>3. kind \in Kinds /\ v \in Value(kind)
  BY <1>2, GroupRowsAssumption
<1>4. /\ UNCHANGED <<chans, meta, started, closed, final, damaged, out, rows, late>>
      /\ s \in DOMAIN recs
      /\ IF SetPanics(recs[s], i, kind)
         THEN call' = Did("panic") /\ UNCHANGED recs
         ELSE /\ recs' = [recs EXCEPT ![s] = WithValue(recs[s], i, kind, v)]
              /\ call' = Did("ok")
  BY <1>2 DEF Set
<1>5. PICK r : r = recs[s]
  OBVIOUS
<1>6. RecordOK(chans, r) /\ i \in 1..Len(chans) /\ Len(r.strs) = Len(r.set) /\ Len(r.set) \in Nat
      /\ Len(chans) \in Nat
  BY <1>1, <1>4, <1>5, LayoutFacts, RecordFacts DEF RecsOK
<1>7. SetPanics(r, i, kind) <=> chans[i].type \in Takes(kind) /\ i > Len(r.set)
  <2>1. HasRoom(r, chans[i]) <=> i <= Len(r.set)
    BY <1>1, <1>6, RoomIsThere
  <2> QED
    BY <1>6, <2>1 DEF SetPanics
<1>8. RecsOK'
  <2>1. CASE SetPanics(r, i, kind)
    BY <1>1, <1>4, <1>5, <2>1 DEF RecsOK
  <2>2. CASE ~SetPanics(r, i, kind)
    <3>1. SetGives(r, i, kind, v, WithValue(r, i, kind, v))
      BY <1>1, <1>3, <1>6, <1>7, <2>2, SetKeeps
    <3>2. RecordOK(chans, WithValue(r, i, kind, v))
      BY <3>1 DEF SetGives
    <3> QED
      BY <1>1, <1>4, <1>5, <2>2, <3>2 DEF RecsOK
  <2> QED
    BY <2>1, <2>2
<1>9. LateInv'
  <2> SUFFICES ASSUME ~late PROVE LateInv'
    BY <1>4 DEF LateInv
  <2>1. Len(r.set) = Len(chans)
    BY <1>1, <1>4, <1>5 DEF LateInv
  <2>2. ~SetPanics(r, i, kind)
    BY <1>6, <1>7, <2>1
  <2>3. call' = Did("ok") /\ recs' = [recs EXCEPT ![s] = WithValue(r, i, kind, v)]
    BY <1>4, <1>5, <2>2
  <2>4. SetGives(r, i, kind, v, WithValue(r, i, kind, v))
    BY <1>1, <1>3, <1>6, <1>7, <2>2, SetKeeps
  <2>5. Len(WithValue(r, i, kind, v).set) = Len(chans)
    BY <2>1, <2>4 DEF SetGives
  <2> QED
    BY <1>1, <1>4, <2>3, <2>5 DEF LateInv, Did
<1> QED
  BY <1>1, <1>4, <1>8, <1>9 DEF RowsInv, MetaOK

(* begin describes the channels that are there, before the first row.      *)
LEMMA BeginOK ==
    ASSUME RowsInv, Begin
    PROVE  /\ IsPrefixOf(meta', chans) /\ OutOK(chans, meta', out, rows)
           /\ ~started' => meta' = <<>> /\ rows = <<>>
           /\ ~BeginFails => (started \/ meta' = chans)
           /\ started => meta' = meta /\ started'
           /\ (~BeginFails /\ ~closed) => started'
           /\ (~late /\ (rows # <<>> \/ (started' /\ ~closed))) => meta' = chans
<1>1. Layout(chans) /\ MetaOK /\ OutOK(chans, meta, out, rows) /\ LateInv
  BY DEF RowsInv
<1>2. IsPrefixOf(chans, chans)
  BY <1>1, LayoutFacts DEF IsPrefixOf
<1>3. CASE started
  BY <1>1, <1>3 DEF Begin, MetaOK, BeginFails, LateInv
<1>4. CASE ~started /\ BeginFails
  <2>1. meta' = meta /\ meta = <<>> /\ rows = <<>>
    BY <1>1, <1>4 DEF Begin, MetaOK
  <2>2. started' /\ ~closed => FALSE
    BY <1>4 DEF Begin, BeginFails
  <2> QED
    BY <1>1, <1>4, <2>1, <2>2 DEF MetaOK
<1>5. CASE ~started /\ ~BeginFails
  <2>1. meta' = chans /\ rows = <<>> /\ started' /\ ~closed
    BY <1>1, <1>5 DEF Begin, MetaOK, BeginFails
  <2>2. RecSize(meta) \in Nat /\ RecSize(chans) \in Nat
    BY <1>1, LayoutFacts, PrefixFacts DEF MetaOK
  <2>3. OutOK(chans, chans, out, rows)
    BY <1>1, <2>1, <2>2, NoRows
  <2> QED
    BY <1>2, <1>5, <2>1, <2>3
<1> QED
  BY <1>3, <1>4, <1>5

(* Append, of a Record.                                                    *)
LEMMA AppendOK ==
    ASSUME RowsInv, NEW s \in Slots, AppendRecord(s)
    PROVE  RowsInv'
<1>1. Layout(chans) /\ Len(chans) <= MaxChans /\ MetaOK /\ RecsOK
      /\ OutOK(chans, meta, out, rows) /\ LateInv
  BY DEF RowsInv
<1>2. PICK r : r = recs[s]
  OBVIOUS
<1>3. /\ s \in DOMAIN recs /\ UNCHANGED <<chans, closed, final, damaged, late>>
      /\ IF r.err THEN UNCHANGED <<started, meta>> ELSE Begin
  BY <1>2 DEF AppendRecord
<1>4. RecordOK(chans, r)
  BY <1>1, <1>2, <1>3 DEF RecsOK
<1>5. /\ IsPrefixOf(meta', chans) /\ OutOK(chans, meta', out, rows)
      /\ ~started' => meta' = <<>> /\ rows = <<>>
      /\ (~late /\ (rows # <<>> \/ (started' /\ ~closed))) => meta' = chans
  <2>1. CASE r.err
    BY <1>1, <1>3, <2>1 DEF MetaOK, LateInv
  <2>2. CASE ~r.err
    BY <1>3, <2>2, BeginOK
  <2> QED
    BY <2>1, <2>2
<1>6. CASE Refused(r)
  <2>1. call' = Did("error") /\ UNCHANGED <<recs, out, rows>>
    BY <1>2, <1>6 DEF AppendRecord
  <2>2. MetaOK' /\ RecsOK' /\ OutOK(chans, meta, out, rows)'
    BY <1>1, <1>3, <1>5, <2>1 DEF MetaOK, RecsOK
  <2>3. LateInv'
    BY <1>1, <1>3, <1>5, <2>1 DEF LateInv, Did
  <2> QED
    BY <1>1, <1>3, <2>2, <2>3 DEF RowsInv
<1>7. CASE ~Refused(r) /\ AppendPanics(r)
  <2>1. call' = Did("panic") /\ UNCHANGED <<recs, out, rows>>
    BY <1>2, <1>7 DEF AppendRecord
  <2>2. MetaOK' /\ RecsOK' /\ OutOK(chans, meta, out, rows)'
    BY <1>1, <1>3, <1>5, <2>1 DEF MetaOK, RecsOK
  <2>3. late
    <3> SUFFICES ASSUME ~late PROVE FALSE
      OBVIOUS
    <3>1. Len(r.set) = Len(chans) /\ Len(r.strs) = Len(r.set)
      BY <1>1, <1>2, <1>3, <1>4, RecordFacts DEF LateInv
    <3>2. PICK i \in Texts(chans) : i > Len(r.strs) \/ ~HasRoom(r, chans[i])
      BY <1>7 DEF AppendPanics
    <3>3. i \in 1..Len(chans) /\ Len(chans) \in Nat
      BY <1>1, LayoutFacts DEF Texts
    <3>4. HasRoom(r, chans[i])
      BY <1>1, <1>4, <3>1, <3>3, RoomIsThere
    <3> QED
      BY <3>1, <3>2, <3>3, <3>4
  <2>4. LateInv'
    BY <1>3, <2>3 DEF LateInv
  <2> QED
    BY <1>1, <1>3, <2>2, <2>4 DEF RowsInv
<1>8. CASE ~Refused(r) /\ ~AppendPanics(r)
  <2>1. /\ out' = WithRow(out, r) /\ recs' = [recs EXCEPT ![s] = WithOffsets(r, out)]
        /\ rows' = Append(rows, Row(r)) /\ call' = Did("ok")
    BY <1>2, <1>8 DEF AppendRecord
  <2>2. ~r.err /\ ~BeginFails /\ ~closed /\ started'
    <3>1. ~r.err /\ ~BeginFails /\ ~closed
      BY <1>8 DEF Refused
    <3> QED
      BY <1>3, <3>1, BeginOK
  <2>3. HasTexts(r)
    <3> SUFFICES ASSUME NEW i \in Texts(chans) PROVE i <= Len(r.set)
      BY DEF HasTexts
    <3>1. ~(i > Len(r.strs)) /\ Len(r.strs) = Len(r.set) /\ Len(r.set) \in 0..Len(chans)
      BY <1>1, <1>4, <1>8, RecordFacts DEF AppendPanics
    <3>2. i \in Nat /\ Len(r.set) \in Nat
      BY <1>1, <3>1, LayoutFacts DEF Texts
    <3> QED
      BY <3>1, <3>2
  <2>4. RowGives(meta', rows, r, out', rows')
    <3>1. PICK m : m = meta'
      OBVIOUS
    <3>2. RowGives(m, rows, r, WithRow(out, r), Append(rows, Row(r)))
      BY <1>1, <1>4, <1>5, <2>3, <3>1, RowKept
    <3> QED
      BY <2>1, <3>1, <3>2
  <2>5. /\ OutOK(chans, meta', out', rows') /\ Len(rows') = Len(rows) + 1
        /\ rows'[Len(rows) + 1].set = r.set
        /\ \A q \in 1..Len(rows) : rows'[q] = rows[q]
    BY <2>4 DEF RowGives
  <2>6. OffsetsGive(r, out, WithOffsets(r, out))
    <3>1. out.sd \in [1..MaxChans -> Seq(Nat)]
      BY <1>1 DEF OutOK, Streams
    <3> QED
      BY <1>1, <1>4, <3>1, OffsetsKeep
  <2>7. RecordOK(chans, WithOffsets(r, out)) /\ WithOffsets(r, out).set = r.set
    BY <2>6 DEF OffsetsGive
  <2>8. RecsOK'
    BY <1>1, <1>3, <2>1, <2>7 DEF RecsOK
  <2>9. MetaOK'
    BY <1>3, <1>5, <2>2 DEF MetaOK
  <2>10. OutOK(chans, meta, out, rows)'
    BY <1>3, <2>5
  <2>11. LateInv'
    <3> SUFFICES ASSUME ~late PROVE LateInv'
      BY <1>3 DEF LateInv
    <3>1. /\ ~damaged /\ \A q \in DOMAIN recs : Len(recs[q].set) = Len(chans)
          /\ \A q \in 1..Len(rows) : Len(rows[q].set) = Len(chans)
      BY <1>1 DEF LateInv
    <3>2. Len(r.set) = Len(chans)
      BY <1>2, <1>3, <3>1
    <3>3. meta' = chans
      BY <1>5, <2>2
    <3>4. \A q \in DOMAIN recs' : Len(recs'[q].set) = Len(chans)
      BY <2>1, <2>7, <3>1, <3>2
    <3>5. \A q \in 1..Len(rows') : Len(rows'[q].set) = Len(chans)
      <4> SUFFICES ASSUME NEW q \in 1..Len(rows') PROVE Len(rows'[q].set) = Len(chans)
        OBVIOUS
      <4>1. Len(rows) \in Nat
        BY <1>1, LenProperties DEF OutOK
      <4>2. q \in 1..Len(rows) \/ q = Len(rows) + 1
        BY <2>5, <4>1
      <4> QED
        BY <2>5, <3>1, <3>2, <4>2
    <3> QED
      BY <1>3, <2>1, <3>1, <3>3, <3>4, <3>5 DEF LateInv, Did
  <2> QED
    BY <1>1, <1>3, <2>8, <2>9, <2>10, <2>11 DEF RowsInv
<1> QED
  BY <1>6, <1>7, <1>8

(* An Append that a write stops keeps the rows.                            *)
LEMMA AppendFailsOK ==
    ASSUME RowsInv, NEW s \in Slots, AppendFails(s)
    PROVE  RowsInv'
<1>1. Layout(chans) /\ Len(chans) <= MaxChans /\ MetaOK /\ RecsOK
      /\ OutOK(chans, meta, out, rows) /\ LateInv
  BY DEF RowsInv
<1>2. /\ UNCHANGED <<chans, closed, final, damaged, recs, out, rows, late>>
      /\ Begin /\ call' = Did("error")
  BY DEF AppendFails
<1>3. /\ IsPrefixOf(meta', chans) /\ OutOK(chans, meta', out, rows)
      /\ ~started' => meta' = <<>> /\ rows = <<>>
      /\ (~late /\ (rows # <<>> \/ (started' /\ ~closed))) => meta' = chans
  BY <1>2, BeginOK
<1>4. MetaOK' /\ RecsOK' /\ OutOK(chans, meta, out, rows)'
  BY <1>1, <1>2, <1>3 DEF MetaOK, RecsOK
<1>5. LateInv'
  BY <1>1, <1>2, <1>3 DEF LateInv, Did
<1> QED
  BY <1>1, <1>2, <1>4, <1>5 DEF RowsInv

(* Close, whether a write fails in it or not.                              *)
LEMMA CloseOK ==
    ASSUME RowsInv, Close \/ CloseFails
    PROVE  RowsInv'
<1>1. Layout(chans) /\ Len(chans) <= MaxChans /\ MetaOK /\ RecsOK
      /\ OutOK(chans, meta, out, rows) /\ LateInv
  BY DEF RowsInv
<1>2. /\ Begin /\ ~closed /\ closed' /\ UNCHANGED <<chans, recs, out, rows, late>>
      /\ damaged' => damaged \/ (~BeginFails /\ HitsHeader)
      /\ \E res \in {"ok", "error"} : call' = Did(res)
  BY DEF Close, CloseFails
<1>3. /\ IsPrefixOf(meta', chans) /\ OutOK(chans, meta', out, rows)
      /\ ~started' => meta' = <<>> /\ rows = <<>>
      /\ (~BeginFails /\ ~closed) => started'
      /\ (~late /\ (rows # <<>> \/ (started' /\ ~closed))) => meta' = chans
  BY <1>2, BeginOK
<1>4. MetaOK' /\ RecsOK' /\ OutOK(chans, meta, out, rows)'
  BY <1>1, <1>2, <1>3 DEF MetaOK, RecsOK
<1>5. ~late => ~damaged'
  <2> SUFFICES ASSUME ~late, ~BeginFails PROVE ~HitsHeader
    BY <1>1, <1>2 DEF LateInv
  <2>1. meta' = chans
    BY <1>2, <1>3
  <2> QED
    BY <2>1 DEF Texts, HitsHeader
<1>6. call'.res # "panic"
  BY <1>2 DEF Did
<1>7. LateInv'
  BY <1>1, <1>2, <1>3, <1>5, <1>6 DEF LateInv
<1> QED
  BY <1>1, <1>2, <1>4, <1>7 DEF RowsInv

(* The first n rows of the batch are behind the rows that were there.      *)
RowsGiven(b, n) ==
    /\ Len(rows') = Len(rows) + n
    /\ \A q \in 1..Len(rows) : rows'[q] = rows[q]
    /\ \A row \in 1..n : \A i \in 1..Len(chans) :
          rows'[Len(rows) + row].set[i] = BatchValue(b, i, row)

(* What one call of AppendColumns does with the rows.                      *)
BatchDone(b) ==
    LET n == Len(rows') - Len(rows)
    IN /\ call'.res = "ok" => n = b.n
       /\ call'.res = "error" => n < b.n
       /\ call'.res = "error" /\ (TooShort(b) \/ Mismatch(b) \/ closed \/ ~failed')
             => rows' = rows /\ out' = out
       /\ \A r \in DOMAIN rows : rows'[r] = rows[r]
       /\ \A row \in 1..n : \A i \in DOMAIN chans :
             rows'[Len(rows) + row].set[i] = BatchValue(b, i, row)

LEMMA DoneIfGiven ==
    ASSUME RowsInv, NEW b, NEW n \in Nat, RowsGiven(b, n),
           call'.res = "ok" => n = b.n,
           call'.res = "error" => n < b.n,
           call'.res = "error" /\ (TooShort(b) \/ Mismatch(b) \/ closed \/ ~failed')
              => rows' = rows /\ out' = out
    PROVE  BatchDone(b)
<1>1. rows \in Seq(Rows) /\ DOMAIN rows = 1..Len(rows) /\ Len(rows) \in Nat
      /\ DOMAIN chans = 1..Len(chans)
  BY LenProperties, LayoutFacts DEF RowsInv, OutOK
<1>2. Len(rows') - Len(rows) = n
  BY <1>1 DEF RowsGiven
<1> QED
  BY <1>1, <1>2 DEF RowsGiven, BatchDone

LEMMA NoneGiven ==
    ASSUME RowsInv, NEW b, rows' = rows
    PROVE  RowsGiven(b, 0)
<1>1. Len(rows) = Len(rows) + 0 /\ 1..0 = {}
  BY LenProperties DEF RowsInv, OutOK
<1> QED
  BY <1>1 DEF RowsGiven

LEMMA BatchSeq ==
    ASSUME NEW b \in Batches
    PROVE  b.n \in Nat /\ IsSeq(b.cols) /\ \A k \in 1..Len(b.cols) : Column(b.cols[k])
<1>1. b.n \in Nat /\ b.cols \in Seq(Range(b.cols)) /\ \A c \in Range(b.cols) : Column(c)
  BY GroupRowsAssumption
<1>2. IsSeq(b.cols)
  BY <1>1, LenProperties DEF IsSeq
<1>3. \A k \in 1..Len(b.cols) : b.cols[k] \in Range(b.cols)
  BY <1>1, ElementOfSeq
<1> QED
  BY <1>1, <1>2, <1>3

(* The first n rows of a batch that no guard refuses.                      *)
LEMMA BatchRowsOK ==
    ASSUME RowsInv, NEW b \in Batches, \A c \in Range(b.cols) : c.ch \in DOMAIN chans,
           b.n # 0, ~TooShort(b), ~Mismatch(b), ~Refused(FreshRecord), Begin,
           NEW n \in 0..b.n,
           out' = BatchState(b.cols, n).out, rows' = BatchState(b.cols, n).rows,
           UNCHANGED <<chans, closed, damaged, recs, late>>, call'.res # "panic"
    PROVE  RowsInv' /\ RowsGiven(b, n)
<1>1. Layout(chans) /\ Len(chans) <= MaxChans /\ MetaOK /\ RecsOK
      /\ OutOK(chans, meta, out, rows) /\ LateInv
  BY DEF RowsInv
<1>2. b.n \in Nat /\ IsSeq(b.cols) /\ \A k \in 1..Len(b.cols) : Column(b.cols[k])
  BY BatchSeq
<1>3. \A k \in 1..Len(b.cols) : b.cols[k].ch \in 1..Len(chans)
  <2>1. \A k \in 1..Len(b.cols) : b.cols[k] \in Range(b.cols)
    BY <1>2 DEF IsSeq, Range
  <2> QED
    BY <1>1, <2>1, LayoutFacts
<1>4. ~BeginFails /\ ~closed /\ started'
  <2>1. ~BeginFails /\ ~closed
    BY DEF Refused
  <2> QED
    BY <2>1, BeginOK
<1>5. /\ IsPrefixOf(meta', chans) /\ OutOK(chans, meta', out, rows)
      /\ (~late /\ (rows # <<>> \/ (started' /\ ~closed))) => meta' = chans
  BY BeginOK
<1>6. BatchOK(b)
  <2>1. ASSUME NEW k \in 1..Len(b.cols) PROVE b.n <= Len(b.cols[k].vals)
    <3>1. ~(Len(b.cols[k].vals) < b.n)
      BY <1>2 DEF TooShort, IsSeq
    <3>2. Len(b.cols[k].vals) \in Nat
      BY <1>2, LenProperties DEF Column
    <3> QED
      BY <1>2, <3>1, <3>2
  <2>2. ASSUME NEW row \in 1..b.n, NEW k \in 1..Len(b.cols) PROVE row \in 1..Len(b.cols[k].vals)
    <3>1. Len(b.cols[k].vals) \in Nat
      BY <1>2, LenProperties DEF Column
    <3> QED
      BY <1>2, <2>1, <3>1
  <2> QED
    BY <1>2, <1>3, <2>2 DEF BatchOK, Reach, IsSeq
<1>7. AllFit(b)
  <2>1. RecordOK(chans, FreshRecord) /\ Len(FreshRecord.set) = Len(chans) /\ Reach(b.cols, 1)
    <3>1. 1 \in 1..b.n
      BY <1>2
    <3> QED
      BY <1>1, <1>6, <3>1, FreshOK DEF BatchOK
  <2>2. AfterColumns(FreshRecord, b.cols, 1, Len(b.cols), WithColumns(FreshRecord, b.cols, 1))
    BY <1>1, <2>1, ColumnsSet
  <2>3. ~WithColumns(FreshRecord, b.cols, 1).err
    BY <1>2 DEF Mismatch
  <2>4. ~\E j \in 1..Len(b.cols) : ~Fits(b.cols[j])
    BY <2>2, <2>3 DEF AfterColumns
  <2> QED
    BY <2>4 DEF AllFit
<1>8. PICK m, x : m = meta' /\ x = BatchState(b.cols, n)
  OBVIOUS
<1>9. AfterRows(b, m, n, x)
  <2>1. IsPrefixOf(m, chans) /\ OutOK(chans, m, out, rows)
    BY <1>5, <1>8
  <2>2. AfterRows(b, m, n, BatchState(b.cols, n))
    BY <1>1, <1>2, <1>6, <2>1, BatchKept
  <2> QED
    BY <1>8, <2>2
<1>10. /\ OutOK(chans, m, out', rows') /\ Len(rows') = Len(rows) + n
       /\ \A q \in 1..Len(rows) : rows'[q] = rows[q]
       /\ \A row \in 1..n : Len(rows'[Len(rows) + row].set) = Len(chans)
       /\ \A row \in 1..n : \A i \in 1..Len(chans) :
             rows'[Len(rows) + row].set[i] = BatchValue(b, i, row)
  <2>1. x.out = out' /\ x.rows = rows'
    BY <1>8
  <2> QED
    BY <1>7, <1>9, <2>1 DEF AfterRows
<1>11. MetaOK' /\ RecsOK' /\ OutOK(chans, meta, out, rows)'
  BY <1>1, <1>4, <1>5, <1>8, <1>10 DEF MetaOK, RecsOK
<1>12. LateInv'
  <2> SUFFICES ASSUME ~late PROVE LateInv'
    BY DEF LateInv
  <2>1. /\ ~damaged /\ \A q \in DOMAIN recs : Len(recs[q].set) = Len(chans)
        /\ \A q \in 1..Len(rows) : Len(rows[q].set) = Len(chans)
    BY <1>1 DEF LateInv
  <2>2. meta' = chans
    BY <1>4, <1>5
  <2>3. \A q \in 1..Len(rows') : Len(rows'[q].set) = Len(chans)
    <3> SUFFICES ASSUME NEW q \in 1..Len(rows') PROVE Len(rows'[q].set) = Len(chans)
      OBVIOUS
    <3>1. Len(rows) \in Nat /\ n \in Nat
      BY <1>1, <1>2, LenProperties DEF OutOK
    <3>2. CASE q \in 1..Len(rows)
      BY <1>10, <2>1, <3>2
    <3>3. CASE q \notin 1..Len(rows)
      <4>1. q - Len(rows) \in 1..n /\ Len(rows) + (q - Len(rows)) = q
        BY <1>10, <3>1, <3>3
      <4> QED
        BY <1>10, <4>1
    <3> QED
      BY <3>2, <3>3
  <2> QED
    BY <2>1, <2>2, <2>3 DEF LateInv
<1> QED
  BY <1>1, <1>10, <1>11, <1>12 DEF RowsInv, RowsGiven

LEMMA ColumnsOK ==
    ASSUME RowsInv, NEW b \in Batches, AppendColumns(b)
    PROVE  RowsInv' /\ BatchDone(b)
<1>1. Layout(chans) /\ Len(chans) <= MaxChans /\ MetaOK /\ RecsOK
      /\ OutOK(chans, meta, out, rows) /\ LateInv
  BY DEF RowsInv
<1>2. /\ UNCHANGED <<chans, closed, final, damaged, recs, late>>
      /\ call'.res \in {"ok", "error"}
      /\ \A c \in Range(b.cols) : c.ch \in DOMAIN chans
  <2>1. call' = [op |-> "columns", batch |-> b, res |-> "ok"]
        \/ call' = [op |-> "columns", batch |-> b, res |-> "error"]
    BY DEF AppendColumns
  <2> QED
    BY <2>1 DEF AppendColumns
<1>3. b.n \in Nat
  BY BatchSeq
<1>4. ASSUME UNCHANGED <<rows, out>>,
             IsPrefixOf(meta', chans), OutOK(chans, meta', out, rows),
             ~started' => meta' = <<>> /\ rows = <<>>,
             (~late /\ (rows # <<>> \/ (started' /\ ~closed))) => meta' = chans
      PROVE  RowsInv'
  <2>1. MetaOK' /\ RecsOK' /\ OutOK(chans, meta, out, rows)'
    BY <1>1, <1>2, <1>4 DEF MetaOK, RecsOK
  <2>2. LateInv'
    BY <1>1, <1>2, <1>4 DEF LateInv
  <2> QED
    BY <1>1, <1>2, <2>1, <2>2 DEF RowsInv
<1>5. ASSUME UNCHANGED <<started, meta, rows, out>> PROVE RowsInv'
  BY <1>1, <1>4, <1>5 DEF MetaOK, LateInv
<1>6. ASSUME UNCHANGED <<rows, out>>, call'.res = "error", b.n # 0 PROVE BatchDone(b)
  <2>1. RowsGiven(b, 0) /\ 0 < b.n
    BY <1>3, <1>6, NoneGiven
  <2> QED
    BY <1>6, <2>1, DoneIfGiven
<1>7. CASE TooShort(b)
  <2>1. UNCHANGED <<started, meta, rows, out>> /\ call'.res = "error"
    BY <1>7 DEF AppendColumns
  <2>2. b.n # 0
    <3>1. PICK k \in DOMAIN b.cols : Len(b.cols[k].vals) < b.n
      BY <1>7 DEF TooShort
    <3>2. Column(b.cols[k])
      BY BatchSeq DEF IsSeq
    <3>3. Len(b.cols[k].vals) \in Nat
      BY <3>2, LenProperties DEF Column
    <3> QED
      BY <1>3, <3>1, <3>3
  <2> QED
    BY <1>5, <1>6, <2>1, <2>2
<1>8. CASE ~TooShort(b) /\ b.n = 0
  <2>1. UNCHANGED <<started, meta, rows, out>> /\ call'.res = "ok"
    BY <1>8 DEF AppendColumns
  <2>2. RowsGiven(b, 0)
    BY <2>1, NoneGiven
  <2>3. BatchDone(b)
    BY <1>8, <2>1, <2>2, DoneIfGiven
  <2> QED
    BY <1>5, <2>1, <2>3
<1>9. CASE ~TooShort(b) /\ b.n # 0 /\ Mismatch(b)
  <2>1. UNCHANGED <<started, meta, rows, out>> /\ call'.res = "error"
    BY <1>9 DEF AppendColumns
  <2> QED
    BY <1>5, <1>6, <1>9, <2>1
<1>10. CASE ~TooShort(b) /\ b.n # 0 /\ ~Mismatch(b) /\ Refused(FreshRecord)
  <2>1. UNCHANGED <<rows, out>> /\ call'.res = "error" /\ Begin
    BY <1>10 DEF AppendColumns
  <2>2. /\ IsPrefixOf(meta', chans) /\ OutOK(chans, meta', out, rows)
        /\ ~started' => meta' = <<>> /\ rows = <<>>
        /\ (~late /\ (rows # <<>> \/ (started' /\ ~closed))) => meta' = chans
    BY <2>1, BeginOK
  <2> QED
    BY <1>4, <1>6, <1>10, <2>1, <2>2
<1>11. CASE ~TooShort(b) /\ b.n # 0 /\ ~Mismatch(b) /\ ~Refused(FreshRecord)
  <2>1. /\ out' = BatchState(b.cols, b.n).out /\ rows' = BatchState(b.cols, b.n).rows
        /\ Begin /\ call'.res = "ok"
    BY <1>11 DEF AppendColumns
  <2>2. b.n \in 0..b.n
    BY <1>3
  <2>3. RowsInv' /\ RowsGiven(b, b.n)
    BY <1>2, <1>11, <2>1, <2>2, BatchRowsOK
  <2> QED
    BY <1>3, <2>1, <2>3, DoneIfGiven
<1> QED
  BY <1>7, <1>8, <1>9, <1>10, <1>11

(* A batch that a write stops.                                             *)
LEMMA ColumnsStoppedOK ==
    ASSUME RowsInv, NEW b \in Batches, AppendColumnsFails(b)
    PROVE  RowsInv' /\ BatchDone(b)
<1>1. PICK row \in 1..b.n :
          /\ (row = 1 /\ StopsInBegin) \/ failed' = TRUE
          /\ out' = BatchState(b.cols, row - 1).out
          /\ rows' = BatchState(b.cols, row - 1).rows
  BY DEF AppendColumnsFails
<1>2. /\ ~TooShort(b) /\ ~Mismatch(b) /\ ~Refused(FreshRecord) /\ Begin
      /\ \A c \in Range(b.cols) : c.ch \in DOMAIN chans
      /\ UNCHANGED <<chans, closed, damaged, recs, late>> /\ call'.res = "error"
  BY DEF AppendColumnsFails
<1>3. b.n \in Nat /\ row - 1 \in 0..b.n /\ row - 1 < b.n /\ b.n # 0 /\ row - 1 \in Nat
  BY <1>1, BatchSeq
<1>4. RowsInv' /\ RowsGiven(b, row - 1)
  BY <1>1, <1>2, <1>3, BatchRowsOK
<1>5. ASSUME ~failed' PROVE rows' = rows /\ out' = out
  <2>1. row - 1 = 0
    BY <1>1, <1>5
  <2>2. BatchState(b.cols, 0) = [rec |-> FreshRecord, out |-> out, rows |-> rows]
    BY BatchStateIs DEF BatchSteps
  <2> QED
    BY <1>1, <2>1, <2>2
<1>6. ~closed
  BY <1>2 DEF Refused
<1>7. BatchDone(b)
  BY <1>2, <1>3, <1>4, <1>5, <1>6, DoneIfGiven
<1> QED
  BY <1>4, <1>7

LEMMA StepOK == RowsInv /\ [Next]_vars => RowsInv'
<1> SUFFICES ASSUME RowsInv, [Next]_vars PROVE RowsInv'
  OBVIOUS
<1>1. ASSUME NEW type \in Types, Add(type) PROVE RowsInv'
  BY <1>1, AddOK
<1>2. ASSUME NEW s \in Slots, NewRecord(s) PROVE RowsInv'
  BY <1>2, NewRecordOK
<1>3. ASSUME NEW s \in Slots, AppendRecord(s) PROVE RowsInv'
  BY <1>3, AppendOK
<1>4. ASSUME NEW s \in Slots, NEW i \in DOMAIN chans, NEW c \in Setters, Set(s, i, c[1], c[2])
      PROVE  RowsInv'
  BY <1>4, SetOK
<1>5. ASSUME NEW b \in Batches, AppendColumns(b) PROVE RowsInv'
  BY <1>5, ColumnsOK
<1>6. ASSUME NEW b \in Batches, AppendColumnsFails(b) PROVE RowsInv'
  BY <1>6, ColumnsStoppedOK
<1>7. CASE Close \/ CloseFails
  BY <1>7, CloseOK
<1>8. ASSUME NEW s \in Slots, AppendFails(s) PROVE RowsInv'
  BY <1>8, AppendFailsOK
<1>9. CASE UNCHANGED vars
  BY <1>9 DEF vars, RowsInv, MetaOK, RecsOK, LateInv
<1> QED
  BY <1>1, <1>2, <1>3, <1>4, <1>5, <1>6, <1>7, <1>8, <1>9 DEF Next

(* No Close succeeds once the buffer has failed, and nothing is written    *)
(* behind one that did (writer.go: Close, writergroup.go: Append).         *)
SealInv == failed \in BOOLEAN /\ (final => closed) /\ (failed => ~final)

LEMMA SealOK == SealInv /\ [Next]_vars => SealInv' /\ (failed => ~final')
<1> SUFFICES ASSUME SealInv, [Next]_vars PROVE SealInv' /\ (failed => ~final')
  OBVIOUS
<1>1. final => closed /\ ~failed
  BY DEF SealInv
<1>2. CASE UNCHANGED <<closed, final, failed>>
  BY <1>2 DEF SealInv
<1>3. ASSUME ~closed, UNCHANGED <<closed, final>>, failed' \in {failed, TRUE}
      PROVE  SealInv' /\ (failed => ~final')
  BY <1>1, <1>3 DEF SealInv
<1>4. ASSUME NEW type \in Types, Add(type) PROVE UNCHANGED <<closed, final, failed>>
  BY <1>4 DEF Add
<1>5. ASSUME NEW s \in Slots, NewRecord(s) \/ AppendRecord(s)
      PROVE  UNCHANGED <<closed, final, failed>>
  BY <1>5 DEF NewRecord, AppendRecord
<1>6. ASSUME NEW s \in Slots, NEW i \in DOMAIN chans, NEW c \in Setters, Set(s, i, c[1], c[2])
      PROVE  UNCHANGED <<closed, final, failed>>
  BY <1>6 DEF Set
<1>7. ASSUME NEW s \in Slots, AppendFails(s) PROVE SealInv' /\ (failed => ~final')
  BY <1>3, <1>7 DEF AppendFails, Refused, StopsInBegin, StopsInStreams
<1>8. ASSUME NEW b \in Batches, AppendColumns(b) PROVE UNCHANGED <<closed, final, failed>>
  BY <1>8 DEF AppendColumns
<1>9. ASSUME NEW b \in Batches, AppendColumnsFails(b) PROVE SealInv' /\ (failed => ~final')
  BY <1>3, <1>9 DEF AppendColumnsFails, Refused, StopsInBegin
<1>10. CASE Close
  BY <1>10 DEF Close, SealInv
<1>11. CASE CloseFails
  BY <1>1, <1>11 DEF CloseFails, SealInv
<1>12. CASE UNCHANGED vars
  BY <1>2, <1>12 DEF vars
<1> QED
  BY <1>2, <1>4, <1>5, <1>6, <1>7, <1>8, <1>9, <1>10, <1>11, <1>12 DEF Next

(* What the Records and the streams of a group hold is what was set, in    *)
(* every reachable state (writergroup.go).                                 *)
THEOREM GroupRowsInv == Spec => []RowsInv
<1>1. Init => RowsInv
  BY InitOK
<1>2. RowsInv /\ [Next]_vars => RowsInv'
  BY StepOK
<1> QED
  BY <1>1, <1>2, PTL DEF Spec

(* Channels that are defined before the first Record and the first row are *)
(* enough for no call to panic, for rows of one length and for the header  *)
(* to stay (writergroup.go: Append, writer.go: finalize).                  *)
THEOREM InTimeIsSafe == Spec => []DefinedInTime
<1>1. RowsInv => DefinedInTime
  <2> SUFFICES ASSUME RowsInv, ~late
               PROVE  /\ call.res # "panic" /\ ~damaged
                      /\ \A r \in DOMAIN rows : Aligned(r)
    BY DEF DefinedInTime
  <2>1. Layout(chans) /\ OutOK(chans, meta, out, rows) /\ LateInv
    BY DEF RowsInv
  <2>2. call.res # "panic" /\ ~damaged
    BY <2>1 DEF LateInv
  <2>3. rows \in Seq(Rows) /\ DOMAIN rows = 1..Len(rows) /\ Len(rows) \in Nat
    BY <2>1, LenProperties DEF OutOK
  <2>4. ASSUME NEW r \in 1..Len(rows), NEW q \in 1..r PROVE rows[q].len = RecSize(meta)
    <3>1. q \in 1..Len(rows) /\ rows # <<>>
      BY <2>3
    <3>2. rows[q].len = SizeTo(chans, Len(chans)) /\ meta = chans
      BY <2>1, <3>1 DEF OutOK, LateInv
    <3> QED
      BY <2>1, <3>2, LayoutFacts
  <2> QED
    BY <2>2, <2>3, <2>4 DEF Aligned
<1> QED
  BY <1>1, GroupRowsInv, PTL

(* A batch is appended up to the row that a write stopped, none of it when *)
(* it is refused, and a finished file holds no part of one (writergroup.go: *)
(* AppendColumns, writer.go: Close).                                       *)
THEOREM BatchesAreWholeIfFinal == Spec => BatchesEndWhole
<1> DEFINE A == /\ failed => ~final'
                /\ call'.op = "columns" => BatchDone(call'.batch)
<1>1. ASSUME RowsInv, SealInv, Next PROVE A
  <2>1. failed => ~final'
    BY <1>1, SealOK
  <2> DEFINE B == call'.op = "columns" => BatchDone(call'.batch)
  <2> HIDE DEF B
  <2>2. ASSUME NEW b \in Batches, AppendColumns(b) PROVE B
    <3>1. BatchDone(b)
      BY <1>1, <2>2, ColumnsOK
    <3>2. call'.batch = b
      BY <2>2 DEF AppendColumns
    <3> QED
      BY <3>1, <3>2 DEF B
  <2>3. ASSUME NEW b \in Batches, AppendColumnsFails(b) PROVE B
    <3>1. BatchDone(b)
      BY <1>1, <2>3, ColumnsStoppedOK
    <3>2. call'.batch = b
      BY <2>3 DEF AppendColumnsFails
    <3> QED
      BY <3>1, <3>2 DEF B
  <2>4. ASSUME NEW res, call' = Did(res) PROVE B
    BY <2>4 DEF Did, B
  <2>5. ASSUME NEW type \in Types, Add(type) PROVE B
    BY <2>4, <2>5 DEF Add
  <2>6. ASSUME NEW s \in Slots, NewRecord(s) PROVE B
    BY <2>4, <2>6 DEF NewRecord
  <2>7. ASSUME NEW s \in Slots, AppendRecord(s) PROVE B
    BY <2>4, <2>7 DEF AppendRecord
  <2>8. ASSUME NEW s \in Slots, AppendFails(s) PROVE B
    BY <2>4, <2>8 DEF AppendFails
  <2>9. ASSUME NEW s \in Slots, NEW i \in DOMAIN chans, NEW c \in Setters, Set(s, i, c[1], c[2])
        PROVE  B
    BY <2>4, <2>9 DEF Set
  <2>10. ASSUME Close \/ CloseFails PROVE B
    BY <2>4, <2>10 DEF Close, CloseFails
  <2>11. B
    BY <1>1, <2>2, <2>3, <2>5, <2>6, <2>7, <2>8, <2>9, <2>10 DEF Next
  <2> QED
    BY <2>1, <2>11 DEF B
<1>2. Init => SealInv
  BY DEF Init, SealInv
<1>3. SealInv /\ [Next]_vars => SealInv'
  BY SealOK
<1>4. RowsInv /\ SealInv /\ [Next]_vars => [A]_vars
  BY <1>1
<1> HIDE DEF A
<1>5. Spec => [][A]_vars
  BY <1>2, <1>3, <1>4, GroupRowsInv, PTL DEF Spec
<1> QED
  BY <1>5 DEF A, BatchDone, BatchesEndWhole

(* A part of a sequence is what its bytes say.                             *)
LEMMA PartIs ==
    ASSUME NEW s \in Seq(Nat), NEW a \in Nat, NEW w \in Seq(Nat), a + Len(w) <= Len(s),
           \A j \in 1..Len(w) : s[a + j] = w[j]
    PROVE  SubSeq(s, a + 1, a + Len(w)) = w
<1>1. Len(w) \in Nat /\ Len(s) \in Nat
  BY LenProperties
<1>2. PICK n : n = Len(w)
  OBVIOUS
<1>3. PICK p : p = SubSeq(s, a + 1, a + n)
  OBVIOUS
<1>4. \A k \in (a + 1)..(a + n) : s[k] \in Nat
  <2>1. \A k \in (a + 1)..(a + n) : k \in 1..Len(s)
    BY <1>1, <1>2
  <2> QED
    BY <2>1, ElementOfSeq
<1>5. /\ p \in Seq(Nat) /\ Len(p) = n
      /\ \A j \in 1..n : p[j] = s[a + j]
  <2>1. a + 1 \in Int /\ a + n \in Int /\ n \in Nat
    BY <1>1, <1>2
  <2>2. PICK m, l : m = a + 1 /\ l = a + n
    OBVIOUS
  <2>3. /\ SubSeq(s, m, l) \in Seq(Nat)
        /\ Len(SubSeq(s, m, l)) = IF m <= l THEN l - m + 1 ELSE 0
        /\ \A j \in 1..(l - m + 1) : SubSeq(s, m, l)[j] = s[m + j - 1]
    BY <1>4, <2>1, <2>2, SubSeqProperties
  <2>4. l - m + 1 = n /\ (m <= l \/ n = 0) /\ \A j \in 1..n : m + j - 1 = a + j
    BY <2>1, <2>2
  <2> QED
    BY <1>3, <2>1, <2>2, <2>3, <2>4
<1>6. p = w
  BY <1>1, <1>2, <1>5, SeqEqual
<1> QED
  BY <1>2, <1>3, <1>6

(* The offset in a row leads to the text.                                  *)
LEMMA TextFound ==
    ASSUME NEW sd \in Seq(Nat), NEW at, NEW t \in Seq(Nat), TextIn(sd, at, t)
    PROVE  TextAt(sd, at) = {t}
<1>1. Len(sd) \in Nat /\ Len(t) \in Nat /\ DOMAIN sd = 1..Len(sd)
  BY LenProperties
<1>2. /\ at \in Nat /\ at + 1 + Len(t) <= Len(sd) /\ sd[at + 1] = Len(t)
      /\ \A j \in 1..Len(t) : sd[at + 1 + j] = t[j]
  BY DEF TextIn
<1>3. at + 1 \in DOMAIN sd /\ Len(t) \in 0..Len(sd)
  BY <1>1, <1>2
<1>4. {m \in 0..Len(sd) : at + 1 \in DOMAIN sd /\ sd[at + 1] = m} = {Len(t)}
  BY <1>2, <1>3
<1>5. TextAt(sd, at) = {SubSeq(sd, at + 2, at + 1 + Len(t))}
  BY <1>4 DEF TextAt
<1>6. PICK a \in Nat : a = at + 1
  BY <1>2
<1>7. SubSeq(sd, a + 1, a + Len(t)) = t
  BY <1>2, <1>6, PartIs
<1>8. a + 1 = at + 2 /\ a + Len(t) = at + 1 + Len(t)
  BY <1>2, <1>6
<1> QED
  BY <1>5, <1>7, <1>8

(* Rows are read back from a closed file as they were set, whenever a      *)
(* channel was defined (writergroup.go: Append).                           *)
THEOREM RowsAreAsSet == Spec => []RowsReadBack
<1>1. ASSUME RowsInv PROVE RowsReadBack
  <2>1. Layout(chans) /\ Len(chans) <= MaxChans /\ MetaOK /\ OutOK(chans, meta, out, rows)
    BY <1>1 DEF RowsInv
  <2>2. /\ out \in Streams /\ out.count = Len(rows) /\ rows \in Seq(Rows)
        /\ DOMAIN rows = 1..Len(rows)
    BY <2>1, LenProperties DEF OutOK
  <2>3. IsPrefixOf(meta, chans)
    BY <2>1 DEF MetaOK
  <2>4. /\ DOMAIN meta = 1..Len(meta) /\ Len(meta) \in 0..Len(chans) /\ Len(chans) \in Nat
        /\ RecSize(meta) = SizeTo(chans, Len(meta)) /\ RecSize(meta) \in Nat
        /\ \A i \in 1..Len(meta) : meta[i] = chans[i] /\ i \in 1..Len(chans)
    BY <2>1, <2>3, PrefixFacts, LayoutFacts
  <2>5. out.data \in Seq(Nat) /\ Len(out.data) \in Nat /\ out.sd \in [1..MaxChans -> Seq(Nat)]
    BY <2>2, LenProperties DEF Streams
  <2>6. ASSUME NEW r \in 1..Len(rows), Aligned(r), NEW i \in 1..Len(meta)
        PROVE  IF meta[i].type = "str" THEN ReadText(i, r) = {rows[r].set[i]}
               ELSE ReadRaw(meta[i], r) = Field(meta[i].type, rows[r].set[i])
    <3>1. PICK start, c, set : /\ start = (r - 1) * RecSize(meta) /\ c = meta[i]
                               /\ set = rows[r].set
      OBVIOUS
    <3>2. AllLong(meta, rows, r)
      BY <2>6 DEF Aligned, AllLong
    <3>3. r * RecSize(meta) <= Len(out.data) /\ RowHeld(meta, out, r, set)
      <4>1. r \in 0..Len(rows)
        OBVIOUS
      <4> QED
        BY <2>1, <3>1, <3>2, <4>1 DEF OutOK
    <3>4. Len(set) = Len(meta) /\ ValueHeld(c, i, out, start, set[i])
      BY <3>1, <3>3 DEF RowHeld
    <3>5. set[i] \in Seq(Nat)
      <4>1. rows[r] \in Rows
        BY <2>2, ElementOfSeq
      <4>2. set \in Seq(Seq(Nat)) /\ i \in 1..Len(set)
        BY <3>1, <3>4, <4>1 DEF Rows
      <4> QED
        BY <4>2, ElementOfSeq
    <3>6. /\ c.off \in Nat /\ Width(c.type) \in {1, 2} /\ (c.type = "str" => Width(c.type) = 2)
          /\ c.off + Width(c.type) <= RecSize(meta) /\ c.type \in TypeNames
      <4>1. i \in 1..Len(chans) /\ c = chans[i] /\ i <= Len(meta)
        BY <2>4, <3>1
      <4> QED
        BY <2>1, <2>4, <4>1, LayoutFacts
    <3>7. start \in Nat /\ start + RecSize(meta) = r * RecSize(meta)
      <4>1. r - 1 \in Nat /\ (r - 1) + 1 = r
        BY <2>2, LenProperties
      <4> QED
        BY <2>4, <3>1, <4>1, Times
    <3>8. PICK a \in Nat : a = start + c.off
      BY <3>6, <3>7
    <3>9. a + Width(c.type) <= Len(out.data)
      <4>1. PICK R, L, w \in Nat : R = RecSize(meta) /\ L = Len(out.data) /\ w = Width(c.type)
        BY <2>4, <2>5, <3>6
      <4>2. PICK X : X = r * RecSize(meta)
        OBVIOUS
      <4>3. X <= L /\ start + R = X /\ c.off + w <= R
        BY <3>3, <3>6, <3>7, <4>1, <4>2
      <4>4. PICK f \in Nat : f = c.off
        BY <3>6
      <4>5. start \in Nat /\ a = start + f /\ f + w <= R /\ start + R <= L
        BY <3>7, <3>8, <4>3, <4>4
      <4>6. a + w <= L
        BY <4>5
      <4> QED
        BY <4>1, <4>6
    <3>10. ReadRaw(c, r) = SubSeq(out.data, a + 1, a + Width(c.type))
      BY <3>1, <3>8 DEF ReadRaw
    <3>11. CASE c.type # "str"
      <4>1. PICK w : w = Field(c.type, set[i])
        OBVIOUS
      <4>2. w \in Seq(Nat) /\ Len(w) = Width(c.type)
        BY <3>4, <3>5, <3>6, <3>11, <4>1, FieldType DEF ValueHeld
      <4>3. \A j \in 1..Len(w) : out.data[a + j] = w[j]
        BY <3>4, <3>8, <3>11, <4>1, <4>2 DEF ValueHeld
      <4>4. SubSeq(out.data, a + 1, a + Len(w)) = w
        BY <2>5, <3>9, <4>2, <4>3, PartIs
      <4> QED
        BY <3>1, <3>10, <3>11, <4>1, <4>2, <4>4
    <3>12. CASE c.type = "str"
      <4>1. PICK at \in Nat : /\ out.data[start + c.off + 1] = Low(at)
                              /\ out.data[start + c.off + 2] = High(at)
                              /\ TextIn(out.sd[i], at, set[i])
        BY <3>4, <3>12 DEF ValueHeld
      <4>2. out.data[a + 1] = Low(at) /\ out.data[a + 2] = High(at)
        BY <3>8, <4>1
      <4>3. Low(at) \in Nat /\ High(at) \in Nat /\ Low(at) + 16 * High(at) = at
        BY DEF Low, High
      <4>4. PICK w : w = <<Low(at), High(at)>>
        OBVIOUS
      <4>5. w \in Seq(Nat) /\ Len(w) = 2 /\ w[1] = Low(at) /\ w[2] = High(at)
        BY <4>3, <4>4
      <4>6. \A j \in 1..Len(w) : out.data[a + j] = w[j]
        BY <4>2, <4>5
      <4>7. SubSeq(out.data, a + 1, a + Len(w)) = w
        <5>1. a + Len(w) <= Len(out.data)
          BY <3>6, <3>9, <3>12, <4>5
        <5> QED
          BY <2>5, <4>5, <4>6, <5>1, PartIs
      <4>8. ReadRaw(c, r)[1] = Low(at) /\ ReadRaw(c, r)[2] = High(at)
        BY <3>6, <3>10, <3>12, <4>5, <4>7
      <4>9. ReadText(i, r) = TextAt(out.sd[i], at)
        BY <3>1, <4>3, <4>8 DEF ReadText
      <4>10. out.sd[i] \in Seq(Nat)
        <5>1. i \in 1..MaxChans
          BY <2>1, <2>4, GroupRowsAssumption
        <5> QED
          BY <2>5, <5>1
      <4>11. TextAt(out.sd[i], at) = {set[i]}
        BY <3>5, <4>1, <4>10, TextFound
      <4> QED
        BY <3>1, <3>12, <4>9, <4>11
    <3> QED
      BY <3>11, <3>12, <3>1
  <2> QED
    BY <2>2, <2>4, <2>6 DEF RowsReadBack
<1> QED
  BY <1>1, GroupRowsInv, PTL

=============================================================================
