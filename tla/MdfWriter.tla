----------------------------- MODULE MdfWriter -----------------------------
(***************************************************************************)
(* The Writer: Append, Flush and Close of one writer, with the metadata    *)
(* tree written by the first append, the bufio buffer between the writer   *)
(* and the operating system, the patches applied in place, and failures.   *)
(*                                                                         *)
(*   file   what the operating system holds: a process killed now leaves   *)
(*          this file, so the properties below speak of every state;       *)
(*   disk   the part of file an fsync has made stable;                     *)
(*   buf    the bytes bufio still holds.                                   *)
(*                                                                         *)
(* A call of the API runs over several steps (pc), one for each write,     *)
(* because each may fail and leave a prefix of what it meant to write; the *)
(* same prefixes are what a process killed in the middle leaves.           *)
(*                                                                         *)
(* Groups and channels are fixed: they are the constants.  The blocks of a *)
(* metadata tree are one cell each.  The links to the file history and to  *)
(* the file comment are patched with the others and are left out.          *)
(* Assumed of a power loss: appended cells survive as a prefix, cells      *)
(* patched in place survive in any subset.                                 *)
(***************************************************************************)
EXTENDS MdfFile

CONSTANTS
    NG,          \* number of channel groups, 1..NG
    RecSize,     \* record size of each group
    NStr,        \* number of string (VLSD) channels of each group
    StrLens,     \* lengths a string value may have
    ChunkSize,   \* cfg.chunkSize
    BufCap,      \* capacity of the bufio writer
    Align,       \* alignment of blocks
    Compress,    \* cfg.compress
    MaxRecords,  \* bound: calls of Append on a group
    IoErrors,    \* may writes fail?
    PowerFails   \* may the machine lose power?

Groups == 1..NG
ChansOf(g) == 1..NStr[g]
Streams == UNION {{<<g, j>> : j \in 0..NStr[g]} : g \in Groups}

ASSUME ConstantsAssumption ==
    /\ NG \in Nat \ {0}
    /\ RecSize \in [Groups -> Nat \ {0}]
    /\ NStr \in [Groups -> Nat]
    /\ \A g \in Groups : NStr[g] <= RecSize[g]
    /\ StrLens \subseteq Nat
    /\ ChunkSize \in Nat \ {0} /\ BufCap \in Nat \ {0} /\ Align \in Nat \ {0}
    /\ MaxRecords \in Nat
    /\ {Compress, IoErrors, PowerFails} \subseteq BOOLEAN

VARIABLES
    pc,         \* step of the running call; "idle" between calls
    call,       \* the running call, with its arguments
    res,        \* result of the last call that returned
    file, disk, buf,
    err,        \* bufio's sticky error
    started, closed,
    growAddr, growBytes,
    patches, pi,  \* pending in-place writes; index of the one being applied
    count,        \* g.count
    cs,           \* chunk streams: [buf, segs, total]
    li,           \* finalize's position in LinkOrder
    calls,        \* calls of Append made, for the bound
    acked,        \* history: records whose Append returned nil
    flushed,      \* history: acked at the last successful Flush
    lens          \* history: lengths of the strings of each counted record

wvars == <<started, closed, growAddr, growBytes, patches, pi, count, cs, li>>
hist == <<acked, flushed, lens, calls>>
vars == <<pc, call, res, file, disk, buf, err, wvars, hist>>

Growing == NG = 1 /\ ~Compress

-----------------------------------------------------------------------------
(* The path of a byte to the file.                                         *)

Sink == [file |-> file, buf |-> buf]

(* bufio.Writer.Write: bytes that fit stay in the buffer; otherwise the    *)
(* buffer is filled up and written, and what is still larger than the      *)
(* buffer goes to the file directly.  A write may cut a record in two.     *)
Put(sk, bytes) ==
    LET all == sk.buf \o bytes
        n   == Len(all)
        out == IF n <= BufCap THEN 0
               ELSE IF sk.buf = <<>> \/ n > 2 * BufCap THEN n ELSE BufCap
    IN [file |-> sk.file \o SubSeq(all, 1, out), buf |-> SubSeq(all, out + 1, n)]

Off(sk) == Len(sk.file) + Len(sk.buf)

(* writeBlock: align8, then the block.                                     *)
PutBlock(sk, block) ==
    Put(Put(sk, [i \in 1..((-Off(sk)) % Align) |-> PadCell]), block)
BlockAddr(sk, block) == Off(PutBlock(sk, block)) - Len(block) + 1

(* The writes that lead from the sink to sk succeed ...                    *)
Reach(sk) ==
    /\ sk = Sink \/ ~err
    /\ file' = sk.file /\ buf' = sk.buf
    /\ err' = err

(* ... or one fails: bufio has failed before, or the operating system      *)
(* takes only a prefix.  What the buffer then holds is never used again.   *)
Fails(sk) ==
    \/ err /\ sk # Sink /\ UNCHANGED <<file, buf, err>>
    \/ /\ ~err /\ IoErrors /\ Len(sk.file) > Len(file)
       /\ \E n \in Len(file)..(Len(sk.file) - 1) : file' = SubSeq(sk.file, 1, n)
       /\ buf' = <<>>
       /\ err' = TRUE

(* bufio.Writer.Flush reports the sticky error even when nothing is left.  *)
Emptied(sk) == [file |-> sk.file \o sk.buf, buf |-> <<>>]
(* Mutation: a buffer that is empty is taken as flushed.                   *)
BufFlushForgetsError == Reach(Emptied(Sink))

BufFlush == ~err /\ Reach(Emptied(Sink))
BufFlushFails ==
    IF err THEN UNCHANGED <<file, buf, err>> ELSE Fails(Emptied(Sink))

(* WriteAt on the file itself, past bufio.  Its errors are not sticky.     *)
Patched(f, p) ==
    [f EXCEPT ![p.at] =
        [x \in DOMAIN @ |-> IF x = p.fld THEN p.val ELSE @[x]]]

Patch(at, fld, val) == [at |-> at, fld |-> fld, val |-> val]

Succeed(next) == pc' = next /\ res' = IF next \in {"idle", "done"} THEN "ok" ELSE res
Return == pc' = (IF closed THEN "done" ELSE "idle") /\ res' = "error"

-----------------------------------------------------------------------------
(* begin: the identification block, the header, and the groups in reverse  *)
(* order so that every link to the next group is known.                    *)

DGAddr(g) == 2 + MapThenSumSet(LAMBDA h : NStr[h] + 1, g..NG)
CNAddr(g, j) == DGAddr(g) - j

GroupMeta(g) ==
    [j \in ChansOf(g) |-> CNCell] \o
    <<DGCell(IF g = NG THEN NIL ELSE DGAddr(g + 1), RecSize[g],
             [j \in ChansOf(g) |-> CNAddr(g, j)])>>

(* Mutation: the file does not announce that its counters are open.        *)
UnfinFlagsWithoutCycles == IF Growing THEN {2} ELSE {}

UnfinFlags == IF Growing THEN {0, 2} ELSE {0}

Metadata ==
    <<IDCell(UnfinFlags), HDCell>> \o
    FlattenSeq([i \in Groups |-> GroupMeta(NG + 1 - i)])

GrowHeader == <<Header("DT", 0)>>

BeginPatches(grow) ==
    <<Patch(2, "first", DGAddr(1))>> \o
    (IF Growing THEN <<Patch(DGAddr(1), "data", grow)>> ELSE <<>>)

Begin ==
    LET meta == Put(Sink, Metadata)
        sk   == IF Growing THEN PutBlock(meta, GrowHeader) ELSE meta
    IN /\ pc = "begin"
       /\ started' = TRUE
       /\ \/ /\ Reach(sk)
             /\ growAddr' = IF Growing THEN BlockAddr(meta, GrowHeader) ELSE NIL
             /\ patches' = patches \o BeginPatches(growAddr')
             /\ Succeed("patch")
          \/ Fails(sk) /\ Return /\ UNCHANGED <<growAddr, patches>>
       /\ UNCHANGED <<call, disk, closed, growBytes, pi, count, cs, li, hist>>

(* applyPatches flushes the buffer, then writes the patches one by one;    *)
(* they are forgotten only when all are written.                           *)
FlushForPatches ==
    /\ pc = "patch"
    /\ \/ BufFlush /\ Succeed("apply") /\ pi' = 1
       \/ BufFlushFails /\ Return /\ UNCHANGED pi
    /\ UNCHANGED <<call, disk, started, closed, growAddr, growBytes, patches,
                   count, cs, li, hist>>

(* Mutation: the loop over the patches does not advance.                   *)
ApplyPatchStays ==
    /\ pc = "apply" /\ pi <= Len(patches)
    /\ file' = Patched(file, patches[pi])
    /\ UNCHANGED <<pc, res, pi, call, disk, buf, err, started, closed, growAddr,
                   growBytes, patches, count, cs, li, hist>>

ApplyPatch ==
    /\ pc = "apply" /\ pi <= Len(patches)
    /\ \/ file' = Patched(file, patches[pi]) /\ pi' = pi + 1 /\ UNCHANGED <<pc, res>>
       \/ IoErrors /\ Return /\ pi' = 0 /\ UNCHANGED file
    /\ UNCHANGED <<call, disk, buf, err, started, closed, growAddr, growBytes,
                   patches, count, cs, li, hist>>

FirstStep(g) == IF NStr[g] = 0 THEN "record" ELSE "length"

(* The streams finalize links, in its order.                               *)
LinkOrder ==
    FlattenSeq([g \in Groups |-> [j \in 1..(NStr[g] + 1) |-> <<g, j - 1>>]])

PatchesApplied ==
    /\ pc = "apply" /\ pi > Len(patches)
    /\ patches' = <<>> /\ pi' = 0
    /\ Succeed(IF call.op = "append" THEN FirstStep(call.g)
               ELSE IF li <= Len(LinkOrder) THEN "link" ELSE "id")
    /\ UNCHANGED <<call, file, disk, buf, err, started, closed, growAddr,
                   growBytes, count, cs, li, hist>>

-----------------------------------------------------------------------------
(* Append.                                                                 *)

StrArgs(g) == [ChansOf(g) -> StrLens]

(* The call.  After Close it returns an error and changes nothing.         *)
AppendCall(g, strs) ==
    /\ pc = "idle" /\ ~closed
    /\ calls[g] < MaxRecords /\ calls' = [calls EXCEPT ![g] = @ + 1]
    /\ call' = [op |-> "append", g |-> g, strs |-> strs, offs |-> <<>>]
    /\ pc' = IF started THEN FirstStep(g) ELSE "begin"
    /\ UNCHANGED <<res, file, disk, buf, err, wvars, acked, flushed, lens>>

(* Mutation: the block says transposed, the bytes are not.                 *)
TransposeNothing(in, cols) == in

Transpose(in, cols) ==
    LET rows == Len(in) \div cols
    IN [q \in 1..Len(in) |->
          IF q > rows * cols THEN in[q]
          ELSE in[((q - 1) % rows) * cols + (q - 1) \div rows + 1]]

(* buildDZ: chunks of records are transposed, signal data is not.          *)
ZipBlock(s, bytes) ==
    IF s[2] = 0 /\ RecSize[s[1]] > 1 /\ Len(bytes) > RecSize[s[1]]
    THEN <<DZCell(Transpose(bytes, RecSize[s[1]]), RecSize[s[1]])>>
    ELSE <<DZCell(bytes, 0)>>

(* flushChunk's block: stored, or deflated when that is smaller (which     *)
(* depends on the bytes, so either may happen).                            *)
BlockId(s) == IF s[2] = 0 THEN "DT" ELSE "SD"
ChunkBlocks(s, bytes) ==
    {<<Header(BlockId(s), Len(bytes))>> \o bytes}
        \union (IF Compress THEN {ZipBlock(s, bytes)} ELSE {})

Flushed(stream, addr) ==
    [stream EXCEPT !.segs = Append(@, [addr |-> addr, len |-> Len(stream.buf)]),
                   !.buf  = <<>>]

Buffered(stream, bytes) ==
    [stream EXCEPT !.buf = @ \o bytes, !.total = @ + Len(bytes)]

(* appendStream: a full chunk is written as a block; if that fails the     *)
(* bytes stay in the stream's buffer.                                      *)
AppendStream(s, bytes, next) ==
    LET stream == Buffered(cs[s], bytes)
    IN \/ /\ Len(stream.buf) < ChunkSize
          /\ cs' = [cs EXCEPT ![s] = stream]
          /\ Reach(Sink) /\ Succeed(next)
       \/ /\ Len(stream.buf) >= ChunkSize
          /\ \E block \in ChunkBlocks(s, stream.buf) :
                LET sk == PutBlock(Sink, block)
                IN \/ /\ Reach(sk) /\ Succeed(next)
                      /\ cs' = [cs EXCEPT ![s] = Flushed(stream, BlockAddr(Sink, block))]
                   \/ Fails(sk) /\ Return /\ cs' = [cs EXCEPT ![s] = stream]

CurStream == <<call.g, Len(call.offs)>>

(* The offset goes into the record, the length into the signal data.       *)
StoreLength ==
    LET j == Len(call.offs) + 1
        s == <<call.g, j>>
    IN /\ pc = "length"
       /\ call' = [call EXCEPT !.offs = Append(@, cs[s].total)]
       /\ AppendStream(s, <<Byte(s, cs[s].total + 1, call.strs[j])>>, "value")
       /\ UNCHANGED <<disk, started, closed, growAddr, growBytes, patches, pi,
                      count, li, hist>>

(* The string's bytes; v names the record they belong to.                  *)
StoreValue ==
    LET j == Len(call.offs)
        s == CurStream
    IN /\ pc = "value"
       /\ AppendStream(s, [i \in 1..call.strs[j] |->
                              Byte(s, cs[s].total + i, count[call.g] + 1)],
                       IF j < NStr[call.g] THEN "length" ELSE "record")
       /\ UNCHANGED <<call, disk, started, closed, growAddr, growBytes, patches,
                      pi, count, li, hist>>

RecordBytes(g) ==
    [i \in 1..RecSize[g] |->
        Byte(<<g, 0>>, count[g] * RecSize[g] + i,
             IF i <= NStr[g] THEN call.offs[i] ELSE 0)]

(* The record itself: into the growing block, or into the group's stream.  *)
StoreRecord ==
    LET g == call.g
    IN /\ pc = "record"
       /\ count' = [count EXCEPT ![g] = @ + 1]
       /\ IF Growing
          THEN /\ growBytes' = growBytes + RecSize[g]
               /\ \/ Reach(Put(Sink, RecordBytes(g))) /\ Succeed("idle")
                  \/ Fails(Put(Sink, RecordBytes(g))) /\ Return
               /\ UNCHANGED cs
          ELSE /\ AppendStream(<<g, 0>>, RecordBytes(g), "idle")
               /\ UNCHANGED growBytes
       /\ acked' = IF res' = "ok" THEN [acked EXCEPT ![g] = @ + 1] ELSE acked
       /\ lens' = [lens EXCEPT ![g] = Append(@, call.strs)]
       /\ UNCHANGED <<call, disk, started, closed, growAddr, patches, pi, li,
                      flushed, calls>>

-----------------------------------------------------------------------------
(* Mutation: no fsync.                                                     *)
FlushWithoutSync ==
    /\ pc = "idle" /\ ~closed
    /\ BufFlush /\ Succeed("idle") /\ flushed' = acked
    /\ UNCHANGED <<disk, call, wvars, acked, lens, calls>>

(* Flush: the buffer to the file, then an fsync; either may fail.          *)
Flush ==
    /\ pc = "idle" /\ ~closed
    /\ \/ BufFlush /\ Succeed("idle") /\ disk' = file' /\ flushed' = acked
       \/ BufFlush /\ IoErrors /\ Return /\ UNCHANGED <<disk, flushed>>
       \/ BufFlushFails /\ Return /\ UNCHANGED <<disk, flushed>>
    /\ UNCHANGED <<call, wvars, acked, lens, calls>>

(* Close: marks the writer closed, then finalize; the file is closed       *)
(* whatever finalize returns.  A second Close does nothing.                *)
Close ==
    /\ pc = "idle" /\ ~closed
    /\ closed' = TRUE
    /\ call' = [op |-> "close", g |-> 1, strs |-> <<>>, offs |-> <<>>]
    /\ pc' = IF started THEN "link" ELSE "begin"
    /\ UNCHANGED <<res, file, disk, buf, err, started, growAddr, growBytes,
                   patches, pi, count, cs, li, hist>>

(* Mutation: the offset of an entry is where its block ends.               *)
LinkBlockAtEnds(segs) ==
    <<DLCell([i \in DOMAIN segs |-> segs[i].addr],
             [i \in DOMAIN segs |->
                 MapThenSumSet(LAMBDA k : segs[k].len, 1..i)])>>

(* linkStream after its flushChunk: the address the owning link gets.      *)
LinkBlock(segs) ==
    <<DLCell([i \in DOMAIN segs |-> segs[i].addr],
             [i \in DOMAIN segs |->
                 MapThenSumSet(LAMBDA k : segs[k].len, 1..(i - 1))])>>

(* Mutation: finalize links what was written and forgets the last chunk.   *)
FlushAllForgetsLast(s) == {[sk |-> Sink, segs |-> cs[s].segs]}

(* linkStream's flushChunk, with nothing to do for an empty buffer.        *)
FlushAll(s) ==
    IF cs[s].buf = <<>> THEN {[sk |-> Sink, segs |-> cs[s].segs]}
    ELSE {[sk |-> PutBlock(Sink, b),
           segs |-> Flushed(cs[s], BlockAddr(Sink, b)).segs] :
              b \in ChunkBlocks(s, cs[s].buf)}

Linked(fl) ==
    CASE Len(fl.segs) = 0 -> [sk |-> fl.sk, addr |-> NIL]
      [] Len(fl.segs) = 1 -> [sk |-> fl.sk, addr |-> fl.segs[1].addr]
      [] Len(fl.segs) > 1 -> [sk   |-> PutBlock(fl.sk, LinkBlock(fl.segs)),
                              addr |-> BlockAddr(fl.sk, LinkBlock(fl.segs))]

LengthPatch == <<Patch(growAddr, "len", growBytes)>>
(* Mutation: the counter patched is that of the streams, before the last   *)
(* record.                                                                 *)
CyclePatchOneLess(g) == <<Patch(DGAddr(g), "cycles", Max({0, count[g] - 1}))>>

CyclePatch(g) == <<Patch(DGAddr(g), "cycles", count[g])>>

(* One stream of finalize's loop: its patch, and after a group's last one  *)
(* the group's cycle counter.  A stream that could not be linked is never  *)
(* looked at again: the writer is closed.                                  *)
LinkStream ==
    LET s == LinkOrder[li]
        g == s[1]
        last == IF s[2] = NStr[g] THEN CyclePatch(g) ELSE <<>>
        next == IF li = Len(LinkOrder) THEN "patch" ELSE "link"
    IN /\ pc = "link"
       /\ IF Growing /\ s[2] = 0
          THEN /\ patches' = patches \o LengthPatch \o last
               /\ li' = li + 1 /\ Reach(Sink) /\ Succeed(next) /\ UNCHANGED cs
          ELSE \E fl \in FlushAll(s) :
                  LET ln == Linked(fl)
                      at == IF s[2] = 0 THEN DGAddr(g) ELSE CNAddr(g, s[2])
                  IN \/ /\ Reach(ln.sk) /\ Succeed(next) /\ li' = li + 1
                        /\ patches' = patches \o <<Patch(at, "data", ln.addr)>> \o last
                        /\ cs' = [cs EXCEPT ![s] = [@ EXCEPT !.buf = <<>>, !.segs = fl.segs]]
                     \/ Fails(ln.sk) /\ Return /\ UNCHANGED <<patches, li, cs>>
       /\ UNCHANGED <<call, disk, started, closed, growAddr, growBytes, pi,
                      count, hist>>

(* The finalized identification block, the last write ...                  *)
WriteFinalID ==
    /\ pc = "id"
    /\ \/ file' = Patched(file, Patch(1, "unfin", {})) /\ Succeed("sync")
       \/ IoErrors /\ Return /\ UNCHANGED file
    /\ UNCHANGED <<call, disk, buf, err, wvars, hist>>

(* ... and the fsync that ends Close.                                      *)
SyncClose ==
    /\ pc = "sync"
    /\ \/ disk' = file /\ Succeed("done")
       \/ IoErrors /\ Return /\ UNCHANGED disk
    /\ UNCHANGED <<call, file, buf, err, wvars, hist>>

(* External: the machine loses power while the writer is in use.  What was *)
(* synced survives; of the rest, a prefix of the appended cells and any of *)
(* the patched ones.                                                       *)
PowerLoss ==
    /\ PowerFails /\ pc \notin {"crashed", "done"}
    /\ \E n \in Len(disk)..Len(file) :
       \E S \in SUBSET {i \in 1..Len(disk) : disk[i] # file[i]} :
          file' = [i \in 1..n |-> IF i <= Len(disk) /\ i \notin S
                                  THEN disk[i] ELSE file[i]]
    /\ disk' = file'
    /\ pc' = "crashed" /\ buf' = <<>>
    /\ UNCHANGED <<call, res, err, wvars, hist>>

-----------------------------------------------------------------------------
Init ==
    /\ pc = "idle" /\ res = "ok"
    /\ call = [op |-> "none", g |-> 1, strs |-> <<>>, offs |-> <<>>]
    /\ file = <<>> /\ disk = <<>> /\ buf = <<>> /\ err = FALSE
    /\ started = FALSE /\ closed = FALSE
    /\ growAddr = NIL /\ growBytes = 0
    /\ patches = <<>> /\ pi = 0 /\ li = 1
    /\ count = [g \in Groups |-> 0]
    /\ cs = [s \in Streams |-> [buf |-> <<>>, segs |-> <<>>, total |-> 0]]
    /\ acked = [g \in Groups |-> 0]
    /\ flushed = [g \in Groups |-> 0]
    /\ lens = [g \in Groups |-> <<>>]
    /\ calls = [g \in Groups |-> 0]

(* The steps a running call takes by itself.                               *)
Step ==
    \/ Begin \/ FlushForPatches \/ ApplyPatch \/ PatchesApplied
    \/ StoreLength \/ StoreValue \/ StoreRecord
    \/ LinkStream \/ WriteFinalID \/ SyncClose

Next ==
    \/ \E g \in Groups : \E strs \in StrArgs(g) : AppendCall(g, strs)
    \/ Flush \/ Close
    \/ Step
    \/ PowerLoss

Spec == Init /\ [][Next]_vars

(* A call runs until it returns: nothing in it waits for anything.         *)
FairSpec == Spec /\ WF_vars(Step)
=============================================================================
