---------------------------- MODULE ColumnStorage ----------------------------
(***************************************************************************)
(* Reading a channel of a group in MDF 4.2 column storage: NewColumnStorage*)
(* turns the chain of LD blocks into two logical streams, the records and  *)
(* their invalidation bytes, and extractColumn reads a range of samples of *)
(* one channel, or of one array element, out of both.                      *)
(*                                                                         *)
(* A file is a chain of lists.  A list [ok, equal, inval, blocks] decodes  *)
(* or does not, counts equal samples per block (0: it gives an offset for  *)
(* each) and may have invalidation blocks.  A block [from, n, ok, di] holds*)
(* the samples from..from+n-1; ok says whether it is a data block inside   *)
(* the file, di whether its invalidation block is there ("DI"), omitted    *)
(* ("none") or damaged ("bad").  The recorder that made the file is not    *)
(* part of this library.  The file is finalized (MdfFile has the clamping  *)
(* of unfinalized blocks) and inflating is SectionCache's: a zipped block  *)
(* and a stored one are the same here.  The window of chunkSamples that    *)
(* extractColumn reads at a time is in Chunks; here a range is read whole. *)
(***************************************************************************)
EXTENDS Extraction, FiniteSetsExt

CONSTANTS
    Files,        \* the chains a file may have
    RecSize,      \* cg_data_bytes
    InvalSize,    \* cg_inval_bytes
    RecByte(_, _),\* byte b of the record of sample k
    InvByte(_, _),\* invalidation byte b of sample k
    Channels,     \* what is read: [spec, arr], arr.levels empty for a scalar
    MaxSamples    \* bound on the ranges that are asked for

ASSUME SizeAssumption ==
    RecSize \in Nat \ {0} /\ InvalSize \in Nat /\ MaxSamples \in Nat

(* Bytes of the samples that can be asked for.                             *)
ASSUME ByteAssumption ==
    \A k \in 0..2 * MaxSamples : \A b \in 1..RecSize : RecByte(k, b) \in 0..255

AnyBlock == [from : Nat, n : Nat, ok : BOOLEAN, di : {"DI", "none", "bad"}]
AnyList == [ok : BOOLEAN, equal : Nat, inval : BOOLEAN, blocks : Seq(AnyBlock)]

(* The blocks of a file: the b-th of the l-th list is at <<l, b>>.         *)
Places(f) == UNION {{<<l, b>> : b \in DOMAIN f[l].blocks} : l \in DOMAIN f}
At(f, p) == f[p[1]].blocks[p[2]]
Ahead(p, q) == p[1] < q[1] \/ (p[1] = q[1] /\ p[2] < q[2])
EndsBefore(a, b) == a.from + a.n <= b.from

(* How many blocks the lists before the l-th have.                         *)
First(f, l) ==
    LET sum[m \in 0..Len(f)] == IF m = 0 THEN 0 ELSE sum[m - 1] + Len(f[m].blocks)
    IN sum[l - 1]

(* What the recorder sees to.  A list that counts samples counts right, and*)
(* blocks hold different samples.  They come in the order of their samples *)
(* or not, but only in order can there be an empty one at another's start. *)
ASSUME FilesAssumption ==
    \A f \in Files :
        /\ f \in Seq(AnyList)
        /\ \A p \in Places(f) :
              f[p[1]].equal > 0 =>
                  At(f, p).from = f[p[1]].equal * (First(f, p[1]) + p[2] - 1)
        /\ \/ \A p, q \in Places(f) :
                 Ahead(p, q) => EndsBefore(At(f, p), At(f, q))
           \/ \A p, q \in Places(f) :
                 p # q => /\ At(f, p).from # At(f, q).from
                          /\ \/ EndsBefore(At(f, p), At(f, q))
                             \/ EndsBefore(At(f, q), At(f, p))

(* Arrays are stored without gaps: neighbours in a dimension are as far    *)
(* apart as the elements behind that dimension need room.                  *)
Packed(levels) ==
    \A d \in DOMAIN Dims(levels) :
        /\ Dims(levels)[d].stride = Last(levels).base * Later(Sizes(levels), d)
        /\ Dims(levels)[d].inv = Last(levels).inv * Later(Sizes(levels), d)

ASSUME ChannelsAssumption ==
    \A c \in Channels :
        /\ c.spec \in [byte : Nat, bit : Nat, count : Nat, bigE : BOOLEAN,
                       signed : BOOLEAN, inval : Int]
        /\ c.arr.levels \in Seq([dims : Seq(Nat), base : Nat, inv : Nat])
        /\ c.arr.levels = <<>> \/ Packed(c.arr.levels)

VARIABLES
    chain,      \* the file
    ld, i,      \* the list and the block of it that come next (i = 0: decode)
    sampleIdx,  \* running block index, over all lists
    data, iv,   \* segments of the two streams
    hasIv,      \* the reader of the second one exists
    status,     \* walking, ready, failed
    col         \* the last column that was read

vars == <<chain, ld, i, sampleIdx, data, iv, hasIv, status, col>>

NoColumn == [done |-> FALSE]

-----------------------------------------------------------------------------
(* Segments: logical offset and length in bytes, and the sample the block  *)
(* starts with; an omitted invalidation block is a segment of zeros whose  *)
(* length is settled at the end.                                           *)
Seg(kind, logical, length, from) ==
    [kind |-> kind, logical |-> logical, length |-> length, from |-> from]

ZeroSeg(logical) ==
    [kind |-> "zero", logical |-> logical, length |-> -1, from |-> 0]

SizeOf(segs) == Max({0} \union {segs[s].logical + segs[s].length : s \in DOMAIN segs})

InSequence(segs) ==
    \A s, t \in DOMAIN segs : s < t => segs[s].logical <= segs[t].logical

(* What sort.Slice may make of the segments: it leaves sorted ones as they *)
(* are, and sorts others without a promise for equal offsets.              *)
SortSlice(segs) ==
    IF InSequence(segs) THEN {segs}
    ELSE {sorted \in {[s \in DOMAIN segs |-> segs[p[s]]] :
                        p \in Bijection(DOMAIN segs, DOMAIN segs)} :
            InSequence(sorted)}

(* ReadAt: the last segment that starts at or before the offset.           *)
OwnerOf(segs, off) ==
    Max({0} \union {s \in DOMAIN segs : segs[s].logical <= off})

Holds(segs, off) ==
    /\ OwnerOf(segs, off) > 0
    /\ off < segs[OwnerOf(segs, off)].logical + segs[OwnerOf(segs, off)].length

(* A read of whole entries, width bytes each, from the entry from on.      *)
ReadAtOK(segs, width, from, count) ==
    \A off \in from * width .. (from + count) * width - 1 : Holds(segs, off)

(* Entry k of a stream: a record, or the invalidation bytes of a sample.   *)
Entry(segs, width, k) ==
    [b \in 1..width |->
        LET off  == k * width + b - 1
            seg  == segs[OwnerOf(segs, off)]
            at   == off - seg.logical
            from == seg.from + at \div width
        IN CASE seg.kind = "zero" -> 0
             [] seg.kind = "DV"   -> RecByte(from, (at % width) + 1)
             [] seg.kind = "DI"   -> InvByte(from, (at % width) + 1)]

-----------------------------------------------------------------------------
(* NewColumnStorage.                                                       *)

Init ==
    /\ chain \in Files
    /\ ld = 1 /\ i = 0 /\ sampleIdx = 0
    /\ data = <<>> /\ iv = <<>> /\ hasIv = FALSE
    /\ status = "walking"
    /\ col = NoColumn

(* A list is decoded; the first one with invalidation data makes the       *)
(* second reader.                                                          *)
EnterLD ==
    /\ status = "walking" /\ i = 0 /\ ld <= Len(chain) /\ chain[ld].ok
    /\ hasIv' = (hasIv \/ (chain[ld].inval /\ InvalSize > 0))
    /\ i' = 1
    /\ UNCHANGED <<chain, ld, sampleIdx, data, iv, status, col>>

(* Mutation: blocks are counted within their list.                         *)
StartOfInList(list) ==
    IF list.equal > 0 THEN list.equal * (i - 1) ELSE list.blocks[i].from

(* The sample a block starts with, as its list tells it.                   *)
StartOf(list) ==
    IF list.equal > 0 THEN list.equal * sampleIdx ELSE list.blocks[i].from

(* A list without invalidation data has no links to DI blocks at all.      *)
InvalSeg(list, block) ==
    IF list.inval /\ block.di = "DI"
    THEN Seg("DI", StartOf(list) * InvalSize, block.n * InvalSize, block.from)
    ELSE ZeroSeg(StartOf(list) * InvalSize)

Damaged(list, block) ==
    ~block.ok \/ (hasIv /\ list.inval /\ block.di = "bad")

AddBlock ==
    /\ status = "walking" /\ ld <= Len(chain) /\ i \in DOMAIN chain[ld].blocks
    /\ LET list  == chain[ld]
           block == list.blocks[i]
       IN /\ ~Damaged(list, block)
          /\ data' = Append(data, Seg("DV", StartOf(list) * RecSize,
                                      block.n * RecSize, block.from))
          /\ iv' = IF hasIv THEN Append(iv, InvalSeg(list, block)) ELSE iv
    /\ sampleIdx' = sampleIdx + 1
    /\ i' = i + 1
    /\ UNCHANGED <<chain, ld, hasIv, status, col>>

LeaveLD ==
    /\ status = "walking" /\ ld <= Len(chain) /\ i = Len(chain[ld].blocks) + 1
    /\ ld' = ld + 1 /\ i' = 0
    /\ UNCHANGED <<chain, sampleIdx, data, iv, hasIv, status, col>>

(* Any block that cannot be taken fails the whole construction.            *)
FailStorage ==
    /\ status = "walking" /\ ld <= Len(chain)
    /\ \/ i = 0 /\ ~chain[ld].ok
       \/ i \in DOMAIN chain[ld].blocks /\ Damaged(chain[ld], chain[ld].blocks[i])
    /\ status' = "failed"
    /\ UNCHANGED <<chain, ld, i, sampleIdx, data, iv, hasIv, col>>

(* Mutation: the byte offset is taken for a sample number.                 *)
ZeroSegLenOfBytes(segs, logical) ==
    LET same == {s \in DOMAIN segs : segs[s].logical = logical * RecSize}
    IN IF same = {} THEN 0
       ELSE (segs[Min(same)].length \div RecSize) * InvalSize

(* The span of the first data block that starts with the same sample.      *)
ZeroSegLen(segs, logical) ==
    LET start == logical \div InvalSize
        same  == {s \in DOMAIN segs : segs[s].logical = start * RecSize}
    IN IF same = {} THEN 0
       ELSE (segs[Min(same)].length \div RecSize) * InvalSize

Settled(segs) ==
    [s \in DOMAIN iv |->
        IF iv[s].kind = "zero"
        THEN [iv[s] EXCEPT !.length = ZeroSegLen(segs, iv[s].logical)]
        ELSE iv[s]]

Finish ==
    /\ status = "walking" /\ ld = Len(chain) + 1
    /\ data' \in SortSlice(data)
    /\ iv' \in SortSlice(Settled(data'))
    /\ status' = "ready"
    /\ UNCHANGED <<chain, ld, i, sampleIdx, hasIv, col>>

-----------------------------------------------------------------------------
(* extractColumn.                                                          *)

(* Scalars are read as they are, arrays element by element.  (The channel  *)
(* of the array itself gives its bytes, which are not represented.)        *)
Elements(c) ==
    IF c.arr.levels = <<>> THEN <<c.spec>> ELSE ExpandArray(c.spec, c.arr)

Total == SizeOf(data) \div RecSize

(* Flags come from the second stream.  Without one the place of the bit is *)
(* behind the record, and extractInvalid appends no flag.                  *)
NeedsInval(spec) == spec.inval >= 0 /\ hasIv

(* The bitset of the column: the samples of the range whose flag is set.   *)
FlagsOf(spec, from, count) ==
    {s \in 1..count :
        InvalidBit(Entry(iv, InvalSize, from + s - 1), spec.inval)}

ReadFails(spec, from, count) ==
    /\ count > 0
    /\ \/ from + count > Total
       \/ ~ReadAtOK(data, RecSize, from, count)
       \/ ~FieldFits(spec, RecSize)
       \/ NeedsInval(spec) /\ ~ReadAtOK(iv, InvalSize, from, count)

Column(c, e, from, count) ==
    LET spec  == Elements(c)[e]
        fails == ReadFails(spec, from, count)
    IN [done |-> TRUE, c |-> c, e |-> e, from |-> from, count |-> count,
        ok |-> ~fails,
        vals |-> IF fails THEN <<>> ELSE
            [s \in 1..count |-> ValueOf(Entry(data, RecSize, from + s - 1), spec)],
        invalid |-> IF fails \/ ~NeedsInval(spec) THEN {}
                    ELSE FlagsOf(spec, from, count)]

ReadColumn(c, e, from, count) ==
    /\ status = "ready"
    /\ col' = Column(c, e, from, count)
    /\ UNCHANGED <<chain, ld, i, sampleIdx, data, iv, hasIv, status>>

(* A read leaves the two streams alone, so a behaviour has one of them.    *)
Read ==
    /\ ~col.done
    /\ \E c \in Channels : \E e \in DOMAIN Elements(c) :
       \E from, count \in 0..MaxSamples : ReadColumn(c, e, from, count)

Next == EnterLD \/ AddBlock \/ LeaveLD \/ FailStorage \/ Finish \/ Read

Spec == Init /\ [][Next]_vars

-----------------------------------------------------------------------------
(* What the recorder put into the file, sample by sample.                  *)
Blocks ==
    UNION {{<<chain[l], b>> : b \in Range(chain[l].blocks)} : l \in DOMAIN chain}

BlocksOf(k) == {lb \in Blocks : k \in lb[2].from .. lb[2].from + lb[2].n - 1}

(* Bit number q of the record bytes seen as one number in byte order.      *)
TrueBit(spec, byte, k, q) ==
    LET b == IF spec.bigE THEN byte + FieldBytes(spec) - q \div 8
             ELSE byte + q \div 8 + 1
    IN (RecByte(k, b) \div Pow2(q % 8)) % 2

TrueValue(spec, byte, k) ==
    LET weight(q) == IF spec.signed /\ q = spec.count - 1 THEN -Pow2(q) ELSE Pow2(q)
        sum[n \in 0..spec.count] ==
            IF n = 0 THEN 0
            ELSE sum[n - 1] + TrueBit(spec, byte, k, spec.bit + n - 1) * weight(n - 1)
    IN sum[spec.count]

(* Elements of the arrays that are checked lie packed in the record.       *)
Cell(c, field) ==
    IF c.arr.levels = <<>> THEN 0
    ELSE IF field = "byte" THEN Last(c.arr.levels).base ELSE Last(c.arr.levels).inv

(* A column that was read without an error holds, sample by sample, the    *)
(* numbers whose bits the recorder stored: whatever lists and blocks the   *)
(* samples are spread over (NewColumnStorage), in both byte orders, with   *)
(* any bit offset and sign (bitField, appendInts), element by element of   *)
(* nested arrays (expandArray).  Fields that span more bits than a word    *)
(* are left out: bitField loses their top bits.                            *)
SamplesReadBack ==
    (col.done /\ col.ok /\ col.c.spec.bit + col.c.spec.count <= WordBits) =>
        \A s \in 1..col.count :
            col.vals[s] = TrueValue(col.c.spec,
                                    col.c.spec.byte + (col.e - 1) * Cell(col.c, "byte"),
                                    col.from + s - 1)

(* A sample is flagged invalid exactly when its invalidation block is in   *)
(* the file and has the bit of the channel (or array element) set: an      *)
(* omitted block means valid, and flags never slip to another sample       *)
(* although the two streams have different strides (readSeparateInvalid).  *)
InvalidReadBack ==
    (col.done /\ col.ok) =>
        \A s \in 1..col.count :
            LET k   == col.from + s - 1
                bit == col.c.spec.inval + (col.e - 1) * Cell(col.c, "inv")
            IN (s \in col.invalid) <=>
                  /\ col.c.spec.inval >= 0 /\ bit < 8 * InvalSize
                  /\ \E lb \in BlocksOf(k) : lb[1].inval /\ lb[2].di = "DI"
                  /\ (InvByte(k, bit \div 8 + 1) \div Pow2(bit % 8)) % 2 = 1

(* Where the reader has a gap in its second stream.  A list before the     *)
(* first one with invalidation data gets no segments there; and for an     *)
(* omitted block zeroSegLen measures the first data block at its start,    *)
(* which may be an empty one in front of the block.  The file says which   *)
(* flags these samples have (see OmittedReadsAsValid): the gap is the      *)
(* reader's.                                                               *)
FlagGap(k) ==
    \E l \in DOMAIN chain : \E b \in DOMAIN chain[l].blocks :
        LET block == chain[l].blocks[b]
        IN /\ k \in block.from .. block.from + block.n - 1
           /\ \/ \A m \in 1..l : ~chain[m].inval
              \/ /\ ~(chain[l].inval /\ block.di = "DI")
                 /\ \E lb \in Blocks : lb[2].n = 0 /\ lb[2].from = block.from

(* The field of the column that was asked for lies in the record.          *)
AsksInside ==
    FieldFits([col.c.spec EXCEPT !.byte = @ + (col.e - 1) * Cell(col.c, "byte")],
              RecSize)

(* When a range can be read: exactly if the field lies in the record, some *)
(* block holds each sample, and none of them is in a gap of the flags when *)
(* the channel has flags.  So neither stream fails for the other's layout  *)
(* (lists, strides, omitted blocks, order of the blocks) but in the gaps,  *)
(* and in those, and over missing samples, the reader does not make up     *)
(* values or flags: it fails.                                              *)
ReadsSucceed ==
    col.done =>
        (col.ok <=>
            /\ col.count = 0 \/ AsksInside
            /\ \A k \in col.from .. col.from + col.count - 1 :
                  /\ BlocksOf(k) # {}
                  /\ NeedsInval(col.c.spec) => ~FlagGap(k))

(* What the documentation of the blocks says (ld.go:16-18): an omitted     *)
(* invalidation block means that all its samples are valid, so the gaps    *)
(* are no reason to fail.  The code fails in them; no run has it.          *)
OmittedReadsAsValid ==
    (col.done /\ ~col.ok) =>
        \/ ~AsksInside
        \/ \E k \in col.from .. col.from + col.count - 1 : BlocksOf(k) = {}
=============================================================================
