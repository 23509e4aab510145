------------------------------ MODULE MdfFile ------------------------------
(***************************************************************************)
(* An MDF 4 file as the reader of this library sees it.                    *)
(*                                                                         *)
(* A file is a sequence of cells.  The address of a block is the index of  *)
(* its header cell; NIL is 0.  One cell stands for one whole metadata      *)
(* block, for one data-block header, or for one byte of block content, so  *)
(* a torn write can cut a file between any two of them.  A content cell    *)
(* Byte(s, k, v) is the k-th byte of the stream s and carries v, what the  *)
(* reader makes of the byte (a string's length, a record's offset into the *)
(* signal data); the cells of another stream, or of another position, are  *)
(* told apart although real bytes would not be.                            *)
(*                                                                         *)
(* Streams are <<g, 0>>, the records of group g, and <<g, j>>, the signal  *)
(* data of the j-th string channel of g.                                   *)
(*                                                                         *)
(* A block with links and several fields is one record: DG stands for the  *)
(* DG block and its single CG block, whose cycle counter is the field      *)
(* cycles; CN is the channel block of a string channel (cn_data its only   *)
(* field that matters here).  Names, units, comments and conversions are   *)
(* not represented.                                                        *)
(***************************************************************************)
EXTENDS Integers, Sequences, FiniteSets, FiniteSetsExt, SequencesExt

NIL == 0

IDCell(unfin) == [t |-> "ID", unfin |-> unfin]
HDCell == [t |-> "HD", first |-> NIL]
DGCell(next, rec, cns) == [t |-> "DG", next |-> next, data |-> NIL,
                           cycles |-> 0, rec |-> rec, cns |-> cns]
CNCell == [t |-> "CN", data |-> NIL]
Header(id, len) == [t |-> id, len |-> len]
DZCell(payload, param) == [t |-> "DZ", payload |-> payload, param |-> param]
DLCell(links, offs) == [t |-> "DL", next |-> NIL, equal |-> 0,
                        links |-> links, offs |-> offs]
PadCell == [t |-> "PAD"]
Byte(s, k, v) == [t |-> "B", s |-> s, k |-> k, v |-> v]

-----------------------------------------------------------------------------
(* internal/datasection: whatever a data link points at, as one logical    *)
(* byte stream.                                                            *)

PeekID(f, a) == IF a \in DOMAIN f THEN f[a].t ELSE "none"

StoredIDs == {"DT", "SD", "DV", "RD"}

(* A header is valid when the block it announces lies inside the file.  A  *)
(* finalizing reader accepts the overrun and clamps it.                    *)
ValidStored(f, a, clamp) ==
    PeekID(f, a) \in StoredIDs /\ (clamp \/ f[a].len <= Len(f) - a)

(* The length addStored gives the segment.  An unfinalized file may hold a *)
(* last block whose length was never updated: its records run to the end   *)
(* of the file.                                                            *)
StoredLen(f, a, clamp) ==
    LET max == Len(f) - a
    IN IF clamp /\ (f[a].len > max \/ f[a].len = 0) THEN max ELSE f[a].len

ValidLeaf(f, a, clamp) == ValidStored(f, a, clamp) \/ PeekID(f, a) = "DZ"

(* Byte transposition before deflate is undone after it: the writer stored *)
(* the matrix of rows of cols bytes column by column, and the remainder as *)
(* it is.  (Deflate itself is the zlib library and loses nothing.)         *)
Untranspose(in, cols) ==
    LET rows == Len(in) \div cols
    IN IF cols <= 1 \/ cols >= Len(in) THEN in
       ELSE [q \in 1..Len(in) |->
               IF q > rows * cols THEN in[q]
               ELSE in[((q - 1) % cols) * rows + (q - 1) \div cols + 1]]

(* addStored and addZipped: the segment of one data block.                 *)
Segment(f, a, logical, clamp) ==
    [logical |-> logical,
     bytes   |-> IF f[a].t = "DZ" THEN Untranspose(f[a].payload, f[a].param)
                 ELSE SubSeq(f, a + 1, a + StoredLen(f, a, clamp))]

(* The blocks of a DL chain, as far as the chain can be followed.          *)
DLChain(f, a) ==
    LET chain[x \in Nat] ==
            IF PeekID(f, x) = "DL" THEN <<x>> \o chain[f[x].next] ELSE <<>>
    IN chain[a]

ChainOK(f, a) ==
    LET ch == DLChain(f, a) IN ch # <<>> /\ f[Last(ch)].next = NIL

(* The leaves of a chain in order: NIL entries are skipped and do not      *)
(* count for the running index of an equal-length list.                    *)
DLLeaves(f, a) ==
    LET ch      == DLChain(f, a)
        entries == FlattenSeq([d \in DOMAIN ch |->
                       [i \in DOMAIN f[ch[d]].links |-> <<ch[d], i>>]])
        real    == SelectSeq(entries, LAMBDA e : f[e[1]].links[e[2]] # NIL)
    IN [n \in DOMAIN real |->
           LET dl == f[real[n][1]]
           IN [addr    |-> dl.links[real[n][2]],
               logical |-> IF dl.equal > 0 THEN dl.equal * (n - 1)
                                           ELSE dl.offs[real[n][2]]]]

(* resolve: is the section readable, and which segments does it have?      *)
SectionOK(f, a, clamp) ==
    \/ a = NIL
    \/ ValidLeaf(f, a, clamp)
    \/ /\ ChainOK(f, a)
       /\ \A i \in DOMAIN DLLeaves(f, a) :
             ValidLeaf(f, DLLeaves(f, a)[i].addr, clamp)

Segments(f, a, clamp) ==
    IF a = NIL THEN {}
    ELSE IF PeekID(f, a) = "DL"
         THEN LET ls == DLLeaves(f, a)
              IN {Segment(f, ls[i].addr, ls[i].logical, clamp) : i \in DOMAIN ls}
         ELSE {Segment(f, a, 0, clamp)}

SectionSize(segs) ==
    Max({0} \union {s.logical + Len(s.bytes) : s \in segs})

(* The byte ReadAt delivers for a logical offset comes from the last       *)
(* segment that starts at or before it; an offset past that segment's end  *)
(* is a gap and fails the read.                                            *)
Owner(segs, off) ==
    CHOOSE s \in segs :
        /\ s.logical <= off
        /\ \A r \in segs : r.logical <= off => r.logical <= s.logical

Covered(segs, off) ==
    /\ \E s \in segs : s.logical <= off
    /\ off < Owner(segs, off).logical + Len(Owner(segs, off).bytes)

ByteAt(segs, off) ==
    Owner(segs, off).bytes[off - Owner(segs, off).logical + 1]

ReadOK(segs, off, n) == \A i \in off..(off + n - 1) : Covered(segs, i)
ReadAt(segs, off, n) == [i \in 1..n |-> ByteAt(segs, off + i - 1)]

-----------------------------------------------------------------------------
(* newFile, buildTree and fixCycleCounts: the view Open builds.            *)

Fixable == {0, 1, 2, 3, 5}
Finalizing(f) == f[1].unfin # {}

DGChain(f) ==
    LET chain[a \in Nat] ==
            IF PeekID(f, a) = "DG" THEN <<a>> \o chain[f[a].next] ELSE <<>>
    IN chain[f[2].first]

TreeOK(f) ==
    LET ch == DGChain(f)
    IN /\ ch = <<>> => f[2].first = NIL
       /\ ch # <<>> => f[Last(ch)].next = NIL
       /\ \A i \in DOMAIN ch : \A j \in DOMAIN f[ch[i]].cns :
             PeekID(f, f[ch[i]].cns[j]) = "CN"

(* recordLayout of a group: the segments its records live in.              *)
RecordSegs(f, dg) == Segments(f, f[dg].data, Finalizing(f))
LayoutOK(f, dg) == SectionOK(f, f[dg].data, Finalizing(f))

OpenOK(f) ==
    /\ PeekID(f, 1) = "ID" /\ PeekID(f, 2) = "HD"
    /\ f[1].unfin \subseteq Fixable
    /\ TreeOK(f)
    /\ 0 \in f[1].unfin =>
          \A i \in DOMAIN DGChain(f) : LayoutOK(f, DGChain(f)[i])

(* Mutation: a torn last record is counted.                                *)
RecordCountRoundsUp(f, dg) ==
    IF 0 \in f[1].unfin
    THEN (SectionSize(RecordSegs(f, dg)) + f[dg].rec - 1) \div f[dg].rec
    ELSE f[dg].cycles

(* RecordCount: the stored cycle counter, or the count recomputed from the *)
(* data when the file says that its counters are not final.                *)
RecordCount(f, dg) ==
    IF 0 \in f[1].unfin
    THEN SectionSize(RecordSegs(f, dg)) \div f[dg].rec
    ELSE f[dg].cycles

(* Channel.Read of the whole group: succeeds when the section holds as     *)
(* many records as the group claims.                                       *)
RecordsOK(f, dg) ==
    /\ LayoutOK(f, dg)
    /\ RecordCount(f, dg) <= SectionSize(RecordSegs(f, dg)) \div f[dg].rec
    /\ ReadOK(RecordSegs(f, dg), 0, RecordCount(f, dg) * f[dg].rec)

Records(f, dg) == ReadAt(RecordSegs(f, dg), 0, RecordCount(f, dg) * f[dg].rec)

(* resolveVLSD: the offset stored in the record leads to a length and the  *)
(* value's bytes in the signal data (read without clamping, even in an     *)
(* unfinalized file).  A channel without a signal data link fails.         *)
StringSegs(f, cn) == Segments(f, f[cn].data, FALSE)
SignalDataOK(f, cn) == f[cn].data # NIL /\ SectionOK(f, f[cn].data, FALSE)

StringOK(f, cn, off) ==
    LET segs == StringSegs(f, cn)
    IN /\ off + 1 <= SectionSize(segs) /\ ReadOK(segs, off, 1)
       /\ off + 1 + ByteAt(segs, off).v <= SectionSize(segs)
       /\ ReadOK(segs, off + 1, ByteAt(segs, off).v)

StringAt(f, cn, off) ==
    LET segs == StringSegs(f, cn)
    IN ReadAt(segs, off + 1, ByteAt(segs, off).v)
=============================================================================
