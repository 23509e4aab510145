------------------------------ MODULE Unsorted ------------------------------
(***************************************************************************)
(* De-interleaving of an unsorted data group (unsorted.go): one pass over  *)
(* the data section takes the records apart by record ID, and the streams  *)
(* it leaves are what channels, VLSD values and array elements are read    *)
(* from; an unfinalized file is opened by counting the records in them.    *)
(*                                                                         *)
(* Bytes are bytes: record IDs and VLSD lengths are little-endian numbers, *)
(* and what is read at a wrong position is taken for an ID or a length.    *)
(* The n-th record of the recording is filled with the byte n, so streams  *)
(* tell whose bytes they hold.  The recorder is external: it logs whole    *)
(* records, a VLSD value before the record that points at it, and may stop *)
(* (an unfinalized file) anywhere in the last one.                         *)
(*                                                                         *)
(* step names what io.ReadFull is reading (got of want bytes): "id",       *)
(* "len" or "body"; "done" when the pass is over, "open" when the streams  *)
(* are in use, "error" when the pass has failed.                           *)
(***************************************************************************)
EXTENDS Integers, Sequences, FiniteSets, FiniteSetsExt, SequencesExt

CONSTANTS
    GroupIDs,   \* record IDs of the fixed-length channel groups
    VlsdIDs,    \* record IDs of the VLSD channel groups
    ElemIDs,    \* derivedIDs: record IDs of CG-template array elements
    AlienIDs,   \* record IDs no block of the file declares
    RecSize,    \* record size of GroupIDs and ElemIDs
    PointsTo,   \* the VLSD group the first byte of a group's record points into
    ValueLens,  \* lengths of VLSD values
    IdSize,     \* dg_rec_id_size
    BufCap,     \* capacity of bufferedReader
    MaxRecords, \* bound: records in the recording
    IoErrors    \* may reads of the section fail?

LenSize == 4
Known == GroupIDs \union VlsdIDs \union ElemIDs

(* v shifted right by 0, 1, ... n bytes.                                   *)
Shifted(v, n) ==
    LET rest[i \in 0..n] == IF i = 0 THEN v ELSE rest[i - 1] \div 256
    IN rest

(* v can be written in n bytes.                                            *)
Fits(v, n) == Shifted(v, n)[n] = 0

ASSUME UnsortedAssumption ==
    /\ Known \union AlienIDs \subseteq Nat
    /\ AlienIDs \intersect Known = {}
    /\ VlsdIDs \intersect (GroupIDs \union ElemIDs) = {}
    /\ RecSize \in [GroupIDs \union ElemIDs -> Nat]
    /\ DOMAIN PointsTo \subseteq GroupIDs
    /\ \A g \in DOMAIN PointsTo : PointsTo[g] \in VlsdIDs /\ RecSize[g] > 0
    /\ ValueLens \subseteq Nat
    /\ IdSize \in {1, 2, 4, 8} /\ BufCap \in Nat \ {0}
    /\ MaxRecords \in Nat /\ IoErrors \in BOOLEAN

(* The recorder uses record IDs and lengths that fit their fields.         *)
ASSUME FieldsAssumption ==
    /\ \A id \in Known \union AlienIDs : Fits(id, IdSize)
    /\ \A n \in ValueLens : Fits(n, LenSize)

-----------------------------------------------------------------------------
(* The recording (external).                                               *)

Digits(v, n) == [i \in 1..n |-> Shifted(v, n)[i - 1] % 256]

(* Mutation: only the low byte of a record ID is looked at.                *)
NumberLowByte(bytes) == IF bytes = <<>> THEN 0 ELSE bytes[1]

(* v = v<<8 | b, from the last byte to the first.                          *)
Number(bytes) ==
    LET num[k \in 0..Len(bytes)] ==
            IF k = 0 THEN 0 ELSE num[k - 1] * 256 + bytes[Len(bytes) - k + 1]
    IN num[Len(bytes)]

Entry(id, n) == [id |-> id, len |-> n]
Entries == {Entry(id, RecSize[id]) : id \in GroupIDs \union ElemIDs}
              \union {Entry(id, n) : id \in VlsdIDs, n \in ValueLens}
              \union {Entry(id, 1) : id \in AlienIDs}

Times(log, m, id) == Cardinality({n \in 1..m : log[n].id = id})

Logs ==
    {log \in UNION {[1..m -> Entries] : m \in 0..MaxRecords} :
        \A m \in DOMAIN log : \A g \in DOMAIN PointsTo :
            Times(log, m, g) <= Times(log, m, PointsTo[g])}

(* The n-th record as an entry of a VLSD group: a length and that many     *)
(* bytes.                                                                  *)
Value(log, n) == Digits(log[n].len, LenSize) \o [i \in 1..log[n].len |-> n]

(* Where the VLSD value starts that the n-th record points at: the k-th    *)
(* record of the group points at the k-th value.                           *)
OffsetFor(log, n) ==
    LET v == PointsTo[log[n].id]
        k == Times(log, n, log[n].id)
        before == [m \in 1..Len(log) |->
                      IF log[m].id = v /\ Times(log, m, v) < k
                      THEN Value(log, m) ELSE <<>>]
    IN Len(FlattenSeq(before))

Body(log, n) ==
    LET e == log[n]
    IN IF e.id \in VlsdIDs THEN Value(log, n)
       ELSE [i \in 1..e.len |->
                IF i = 1 /\ e.id \in DOMAIN PointsTo THEN OffsetFor(log, n) ELSE n]

RawRecord(log, n) == Digits(log[n].id, IdSize) \o Body(log, n)
Raw(log, m) == FlattenSeq([n \in 1..m |-> RawRecord(log, n)])

-----------------------------------------------------------------------------
VARIABLES
    log, section, unfin,   \* the file: what was recorded, and what is there
    src, rbuf, rpos,       \* section position and buffer of bufferedReader
    step, want, got,       \* io.ReadFull
    pos, cur, bufs,        \* deinterleave: offset, record ID, streams
    counts,                \* RecordCount of groups and of array elements
    failed                 \* history: did reading the section fail?

filevars == <<log, section, unfin>>
vars == <<filevars, src, rbuf, rpos, step, want, got, pos, cur, bufs, counts,
          failed>>

Smaller(a, b) == IF a < b THEN a ELSE b

(* bufferedReader.Read after the buffer holds b with at of it consumed.    *)
Deliver(b, at) ==
    LET n == Smaller(want - Len(got), Len(b) - at)
    IN /\ got' = got \o SubSeq(b, at + 1, at + n)
       /\ rbuf' = b /\ rpos' = at + n

Refill(n) ==
    /\ src' = src + n
    /\ Deliver(SubSeq(section, src + 1, src + n), 0)

(* The buffer after a refill that got nothing: it has its full length      *)
(* again, with the bytes it held, while the position stays.                *)
StaleBuffer == [i \in 1..BufCap |-> IF i \in DOMAIN rbuf THEN rbuf[i] ELSE 0]

(* Mutation: a refill that got nothing is tried again.                     *)
ReadFailsIsRetried ==
    /\ rpos >= Len(rbuf) /\ (src = Len(section) \/ IoErrors)
    /\ rbuf' = StaleBuffer /\ failed' = (src # Len(section))
    /\ UNCHANGED <<step, src, rpos, got>>

ReadFails ==
    /\ rpos >= Len(rbuf) /\ (src = Len(section) \/ IoErrors)
    /\ step' = "error" /\ failed' = (src # Len(section))
    /\ rbuf' = StaleBuffer
    /\ UNCHANGED <<src, rpos, got>>

(* One call of Read by io.ReadFull.  A refill takes what there is, or, if  *)
(* the section fails on the way, what it got before.                       *)
Read ==
    /\ step \in {"id", "len", "body"} /\ Len(got) < want
    /\ \/ /\ rpos < Len(rbuf)
          /\ Deliver(rbuf, rpos) /\ UNCHANGED <<step, src, failed>>
       \/ /\ rpos >= Len(rbuf) /\ src < Len(section)
          /\ LET most == Smaller(BufCap, Len(section) - src)
             IN \E n \in (IF IoErrors THEN 1..most ELSE {most}) : Refill(n)
          /\ UNCHANGED <<step, failed>>
       \/ ReadFails
    /\ UNCHANGED <<filevars, want, pos, cur, bufs, counts>>

Expect(what, n) == step' = what /\ want' = n /\ got' = <<>>
Loop(p) ==
    IF p < Len(section) THEN Expect("id", IdSize) ELSE Expect("done", 0)

(* Mutation: the records of array elements are not expected.               *)
KnownGroups == GroupIDs \union VlsdIDs

(* Which record IDs have a stream: the channel groups, VLSD groups         *)
(* included, and the derived IDs of CG-template array elements.            *)
HasStream == Known

(* The record ID has been read.                                            *)
TakeId ==
    LET id == Number(got)
    IN /\ step = "id" /\ Len(got) = want
       /\ pos' = pos + IdSize
       /\ \/ /\ id \in HasStream /\ cur' = id
             /\ IF id \in VlsdIDs THEN Expect("len", LenSize)
                                  ELSE Expect("body", RecSize[id])
          \/ /\ id \notin HasStream
             /\ step' = "error" /\ UNCHANGED <<cur, want, got>>
       /\ UNCHANGED <<filevars, src, rbuf, rpos, bufs, counts, failed>>

(* Mutation: the length is consumed and not kept in the stream.            *)
TakeLenDropsIt ==
    /\ step = "len" /\ Len(got) = want
    /\ Expect("body", Number(got))
    /\ UNCHANGED <<filevars, src, rbuf, rpos, pos, cur, bufs, counts, failed>>

(* The length of a VLSD value: it goes into the stream as it is.           *)
TakeLen ==
    /\ step = "len" /\ Len(got) = want
    /\ bufs' = [bufs EXCEPT ![cur] = @ \o got]
    /\ Expect("body", Number(got))
    /\ UNCHANGED <<filevars, src, rbuf, rpos, pos, cur, counts, failed>>

(* Mutation: the offset is not advanced past a record.                     *)
TakeBodyStays ==
    /\ step = "body" /\ Len(got) = want
    /\ Expect("body", 0)
    /\ UNCHANGED <<filevars, src, rbuf, rpos, pos, cur, bufs, counts, failed>>

(* The record or value: the end of one round of the loop.                  *)
TakeBody ==
    /\ step = "body" /\ Len(got) = want
    /\ bufs' = [bufs EXCEPT ![cur] = @ \o got]
    /\ pos' = pos + want + (IF cur \in VlsdIDs THEN LenSize ELSE 0)
    /\ Loop(pos')
    /\ UNCHANGED <<filevars, src, rbuf, rpos, cur, counts, failed>>

(* fixCycleCounts: the groups' counters, from the streams.  Groups without *)
(* record bytes keep theirs, and so do array elements.                     *)
FixedCounts ==
    [id \in DOMAIN counts |->
        IF id \in GroupIDs /\ RecSize[id] > 0
        THEN Len(bufs[id]) \div RecSize[id] ELSE counts[id]]

(* The streams are published; newFile goes on to fix the cycle counters of *)
(* an unfinalized file.                                                    *)
Publish ==
    /\ step = "done" /\ step' = "open"
    /\ counts' = IF unfin THEN FixedCounts ELSE counts
    /\ UNCHANGED <<filevars, src, rbuf, rpos, want, got, pos, cur, bufs, failed>>

Init ==
    /\ log \in Logs
    /\ unfin \in BOOLEAN
    /\ LET all == Raw(log, Len(log))
           before == Len(Raw(log, Max({0, Len(log) - 1})))
       IN section \in IF unfin THEN {SubSeq(all, 1, k) : k \in before..Len(all)}
                               ELSE {all}
    /\ counts = [id \in GroupIDs \union ElemIDs |->
                    IF unfin THEN 0 ELSE Times(log, Len(log), id)]
    /\ src = 0 /\ rbuf = <<>> /\ rpos = 0
    /\ IF section = <<>> THEN step = "done" /\ want = 0
                         ELSE step = "id" /\ want = IdSize
    /\ got = <<>> /\ pos = 0 /\ cur = 0 /\ failed = FALSE
    /\ bufs = [id \in Known |-> <<>>]

Next == Read \/ TakeId \/ TakeLen \/ TakeBody \/ Publish

Spec == Init /\ [][Next]_vars

(* The pass is a loop that waits for nothing but the file.                 *)
FairSpec == Spec /\ WF_vars(Next)

-----------------------------------------------------------------------------
(* resolveVLSD: an offset taken from a record leads to a length and that   *)
(* many bytes in the VLSD group's stream.                                  *)
ValueOK(sd, off) ==
    /\ off + LenSize <= Len(sd)
    /\ off + LenSize + Number(SubSeq(sd, off + 1, off + LenSize)) <= Len(sd)

ValueAt(sd, off) ==
    SubSeq(sd, off + LenSize + 1,
           off + LenSize + Number(SubSeq(sd, off + 1, off + LenSize)))

-----------------------------------------------------------------------------
Whole(m) == Len(Raw(log, m))
Projection(m, id) ==
    FlattenSeq([n \in 1..m |-> IF log[n].id = id THEN Body(log, n) ELSE <<>>])

(* Between two rounds of deinterleave's loop the streams hold exactly the  *)
(* records consumed so far, each in the stream of its ID and in the order  *)
(* recorded, however the buffered reader's refills cut the section; and    *)
(* the pass ends only with every byte of the section accounted for, so a   *)
(* torn or misread record is never taken for data.                         *)
StreamsAreProjections ==
    (step = "id" /\ got = <<>>) \/ step \in {"done", "open"} =>
        \E m \in 0..Len(log) :
            /\ pos = Whole(m) /\ SubSeq(section, 1, pos) = Raw(log, m)
            /\ step # "id" => pos = Len(section)
            /\ \A id \in Known : bufs[id] = Projection(m, id)

Torn == \A m \in 0..Len(log) : Len(section) # Whole(m)
Alien == \E n \in DOMAIN log : log[n].id \in AlienIDs

(* deinterleave gives up only on a section that cannot be read, that ends  *)
(* inside a record, or that holds a record ID no block declares: a whole   *)
(* recording is always taken apart, array elements' records included.      *)
NoFalseAlarm == step = "error" => failed \/ Torn \/ Alien

(* The offset a record carries is the offset of its value in the stream of *)
(* the VLSD group: resolveVLSD returns what was logged for that record     *)
(* (the comment on deinterleaved promises the SD layout).                  *)
OffsetsResolve ==
    step = "open" =>
        \A n \in DOMAIN log :
            /\ Whole(n) <= Len(section)
            /\ log[n].id \in DOMAIN PointsTo
            => LET v  == PointsTo[log[n].id]
                   k  == Times(log, n, log[n].id)
                   at == (k - 1) * RecSize[log[n].id] + 1
                   off == bufs[log[n].id][at]
                   m  == CHOOSE i \in DOMAIN log :
                            log[i].id = v /\ Times(log, i, v) = k
               IN /\ ValueOK(bufs[v], off)
                  /\ ValueAt(bufs[v], off) = [i \in 1..log[m].len |-> m]

Recorded(id) ==
    Cardinality({n \in DOMAIN log : log[n].id = id /\ Whole(n) <= Len(section)})

(* Every channel group of an opened file claims as many records as its     *)
(* stream holds, whether the counter was stored or recomputed.             *)
GroupCountsAreRight ==
    step = "open" =>
        \A g \in GroupIDs : RecSize[g] > 0 => counts[g] = Recorded(g)

(* The same for the elements of CG-template arrays: newFile's comment says *)
(* that the counters of CG and CA blocks are recomputed from the data.     *)
ElementCountsAreRight ==
    step = "open" => \A e \in ElemIDs : counts[e] = Recorded(e)

(* The pass over the section ends, in streams or in an error.              *)
PassEnds == <>(step \in {"open", "error"})
=============================================================================
