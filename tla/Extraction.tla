----------------------------- MODULE Extraction -----------------------------
(***************************************************************************)
(* Where a channel lives in a record and which number its bits make:       *)
(* internal/records (integer fields, invalidation bits) and the expansion  *)
(* of an array channel into one channel per element.                       *)
(*                                                                         *)
(* Numbers are the integers themselves: the widening to float64 that a     *)
(* conversion asks for is not represented.  Bytes are 0..255, a record is  *)
(* a sequence of them.                                                     *)
(***************************************************************************)
EXTENDS Integers, Sequences, SequencesExt

CONSTANTS
    WordBits,      \* width of uint64, the accumulator of a field: 64
    MaxElements    \* arrays with more elements are not expanded: 2^20

ASSUME WordAssumption == WordBits \in Nat \ {0} /\ WordBits % 8 = 0
ASSUME ElementsAssumption == MaxElements \in Nat

-----------------------------------------------------------------------------
(* ColumnSpec: byte and bit offset, width, byte order, sign, and the       *)
(* invalidation bit (-1 when the channel has none).                        *)
Field(byte, bit, count, bigE, signed, inval) ==
    [byte |-> byte, bit |-> bit, count |-> count, bigE |-> bigE,
     signed |-> signed, inval |-> inval]

(* The bytes of p from the most significant one to the least.              *)
InOrder(p, bigE) == IF bigE THEN p ELSE Reverse(p)

(* 1 << n.                                                                 *)
Pow2(n) ==
    LET p[k \in 0..n] == IF k = 0 THEN 1 ELSE 2 * p[k - 1]
    IN p[n]

(* v = v<<8 | b over the bytes: what leaves the word at the top is lost.   *)
Word(bytes) ==
    LET v[k \in 0..Len(bytes)] ==
            IF k = 0 THEN 0 ELSE (v[k - 1] * 256 + bytes[k]) % Pow2(WordBits)
    IN v[Len(bytes)]

FieldBytes(spec) == (spec.bit + spec.count + 7) \div 8

BitField(p, spec) ==
    LET v == Word(InOrder(SubSeq(p, 1, FieldBytes(spec)), spec.bigE))
    IN (v \div Pow2(spec.bit)) % Pow2(spec.count)

(* extractInts: byte-aligned fields of 1, 2, 4 or 8 bytes (as far as they  *)
(* fit the word) are loaded directly, all others are cut out bit by bit.   *)
Direct(spec) ==
    spec.bit = 0 /\ spec.count \in {8, 16, 32, 64} /\ spec.count <= WordBits

Get(p, spec) ==
    IF Direct(spec)
    THEN Word(InOrder(SubSeq(p, 1, spec.count \div 8), spec.bigE))
    ELSE BitField(p, spec)

(* Shifted up to the top of the word and back down with the sign; a width  *)
(* of zero or of more than a word shifts everything out.                   *)
SignExtend(v, n) ==
    IF n = 0 \/ n > WordBits THEN 0
    ELSE LET low == v % Pow2(n)
         IN IF low >= Pow2(n - 1) THEN low - Pow2(n) ELSE low

(* Extract refuses a field that ends behind the record.                    *)
FieldFits(spec, recSize) == spec.byte + FieldBytes(spec) <= recSize

ValueOf(rec, spec) ==
    LET v == Get(SubSeq(rec, spec.byte + 1, Len(rec)), spec)
    IN IF spec.signed THEN SignExtend(v, spec.count) ELSE v

(* Mutation: the bits of a byte are counted from the top.                  *)
InvalidBitFromTop(bytes, bitPos) ==
    LET i == bitPos \div 8 + 1
    IN i <= Len(bytes) /\ (bytes[i] \div Pow2(7 - (bitPos % 8))) % 2 = 1

(* A flag outside the invalidation bytes is never appended to the bitset,  *)
(* and Get answers FALSE for what was not appended.                        *)
InvalidBit(bytes, bitPos) ==
    LET i == bitPos \div 8 + 1
    IN i <= Len(bytes) /\ (bytes[i] \div Pow2(bitPos % 8)) % 2 = 1

-----------------------------------------------------------------------------
(* expandArray.  An array [levels, below] is the chain of nested CA blocks *)
(* of a channel, all of CN-template storage; below says whether the last   *)
(* one has something else than a CA as its composition.                    *)

(* What matters of a CA block: the sizes of its dimensions and the         *)
(* distance of neighbouring elements in bytes and in invalidation bits.    *)
Level(dims, base, inv) == [dims |-> dims, base |-> base, inv |-> inv]

Product(s) ==
    LET prod[n \in 0..Len(s)] == IF n = 0 THEN 1 ELSE prod[n - 1] * s[n]
    IN prod[Len(s)]

(* Product of the dimensions behind the d-th.                              *)
Later(dims, d) == Product(SubSeq(dims, d + 1, Len(dims)))

(* Strides grow within a level only: each level starts at its own base.    *)
LevelDims(l) ==
    [d \in DOMAIN l.dims |->
        [size   |-> l.dims[d],
         stride |-> l.base * Later(l.dims, d),
         inv    |-> l.inv * Later(l.dims, d)]]

Dims(levels) == FlattenSeq([i \in DOMAIN levels |-> LevelDims(levels[i])])

Sizes(levels) ==
    LET ds == Dims(levels) IN [d \in DOMAIN ds |-> ds[d].size]

Expandable(arr) ==
    /\ \A i \in DOMAIN arr.levels : arr.levels[i].dims # <<>>
    /\ \A n \in 1..Len(Sizes(arr.levels)) :
          Product(SubSeq(Sizes(arr.levels), 1, n)) \in 1..MaxElements
    /\ ~arr.below

(* The index of element k (from 0) in dimension d: row-major, the last     *)
(* dimension runs fastest.                                                 *)
IndexOf(sizes, k, d) == (k \div Later(sizes, d)) % sizes[d]

(* How far element k is from the first one, in bytes or invalidation bits. *)
Along(ds, k, step) ==
    LET sizes == [d \in DOMAIN ds |-> ds[d].size]
        sum[n \in 0..Len(ds)] ==
            IF n = 0 THEN 0
            ELSE sum[n - 1] + IndexOf(sizes, k, n) * ds[n][step]
    IN sum[Len(ds)]

Element(spec, ds, k) ==
    [spec EXCEPT !.byte = @ + Along(ds, k, "stride"),
                 !.inval = IF @ < 0 THEN @
                           ELSE @ + Along(ds, k, "inv")]

(* The channels an array channel is expanded to, in the order they are     *)
(* added to the group.                                                     *)
ExpandArray(spec, arr) ==
    IF ~Expandable(arr) THEN <<>>
    ELSE LET ds == Dims(arr.levels)
         IN [e \in 1..Product(Sizes(arr.levels)) |-> Element(spec, ds, e - 1)]
=============================================================================
