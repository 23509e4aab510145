---------------------------- MODULE WriterProps ----------------------------
(***************************************************************************)
(* What the Writer promises, stated of the file by way of the reader of    *)
(* this library (MdfFile): a file is right when Open and Read give back    *)
(* what was appended.                                                      *)
(***************************************************************************)
EXTENDS MdfWriter

-----------------------------------------------------------------------------
(* What a reader gets out of a file.                                       *)

(* The groups found are the writer's, in its order.                        *)
GroupsFound(f) == OpenOK(f) /\ Len(DGChain(f)) = NG
GroupAt(f, g) == DGChain(f)[g]

(* The bytes of group g that Read returns are its first records, in order, *)
(* with nothing else among them.                                           *)
GenuineRecords(f, g) ==
    /\ RecordsOK(f, GroupAt(f, g))
    /\ \A p \in DOMAIN Records(f, GroupAt(f, g)) :
          LET b == Records(f, GroupAt(f, g))[p]
          IN b.t = "B" /\ b.s = <<g, 0>> /\ b.k = p

Readable(f, g) == RecordCount(f, GroupAt(f, g))

(* Record r is among those Read returns, and its j-th string is read back: *)
(* right length, right bytes.                                              *)
GenuineString(f, g, j, r) ==
    LET dg  == GroupAt(f, g)
        cn  == f[dg].cns[j]
        at  == (r - 1) * RecSize[g] + j
        off == Records(f, dg)[at].v
    IN /\ RecordsOK(f, dg) /\ at \in DOMAIN Records(f, dg)
       /\ SignalDataOK(f, cn) /\ StringOK(f, cn, off)
       /\ Len(StringAt(f, cn, off)) = lens[g][r][j]
       /\ \A i \in DOMAIN StringAt(f, cn, off) :
             LET b == StringAt(f, cn, off)[i]
             IN b.t = "B" /\ b.s = <<g, j>> /\ b.v = r

CompleteRecords(f, n) ==
    /\ GroupsFound(f)
    /\ \A g \in Groups : GenuineRecords(f, g) /\ Readable(f, g) = n[g]

CompleteStrings(f, n) ==
    \A g \in Groups : \A j \in ChansOf(g) : \A r \in 1..n[g] :
        GenuineString(f, g, j, r)

-----------------------------------------------------------------------------
(* A Close that returned nil leaves a finalized file from which the reader *)
(* gets back every record whose Append returned nil, and nothing else      *)
(* (Writer.Close, finalize).                                               *)
ClosedRoundTrip ==
    pc = "done" /\ res = "ok" =>
        file[1].unfin = {} /\ disk = file /\ CompleteRecords(file, acked)

(* ... and every string value of those records (resolveVLSD over what      *)
(* linkStream linked).                                                     *)
ClosedStrings ==
    pc = "done" /\ res = "ok" => CompleteStrings(file, acked)

(* The power was lost after Close had begun: finalize writes in place and  *)
(* syncs only at its end, so the file may be any mixture.                  *)
LostInClose == pc = "crashed" /\ closed

(* Whatever write failed, wherever the process is killed, and also after a *)
(* power loss that did not hit Close, a file that says it is finalized is  *)
(* complete: the identification block is the last thing finalize writes,   *)
(* and bufio's sticky error keeps it from being written over missing data. *)
FinalizedIsComplete ==
    ~LostInClose /\ PeekID(file, 1) = "ID" /\ file[1].unfin = {} =>
        CompleteRecords(file, count) /\ CompleteStrings(file, count)

(* The metadata tree of the growing layout is linked in the file: the      *)
(* header names the group and the group names the growing block.           *)
TreeLinked(f) ==
    /\ PeekID(f, 1) = "ID" /\ PeekID(f, 2) = "HD" /\ f[2].first # NIL
    /\ PeekID(f, f[2].first) = "DG" /\ f[f[2].first].data # NIL

(* In the growing layout a process killed at any moment leaves a file that *)
(* gives a prefix of the appended records: a torn last record is dropped   *)
(* and nothing is invented (addStored's clamping, fixCycleCounts).  After  *)
(* a power loss that no Flush preceded the file may not open at all.       *)
KilledFileIsPrefix ==
    Growing /\ pc # "crashed" /\ TreeLinked(file) =>
        GroupsFound(file) /\ GenuineRecords(file, 1) /\ Readable(file, 1) <= count[1]

(* In the growing layout everything a successful Flush has covered can be  *)
(* read from the file at any later moment, finalized or not, and also from *)
(* what a power loss leaves, unless it hits Close (Flush: the file is      *)
(* readable up to this point even if the process dies).                    *)
FlushedReadable(f) ==
    flushed[1] > 0 => /\ GroupsFound(f) /\ GenuineRecords(f, 1)
                      /\ Readable(f, 1) >= flushed[1]

FlushedIsReadable ==
    Growing /\ TreeLinked(file) /\ ~LostInClose => FlushedReadable(file)

(* The same of a power loss at any moment, Close included.                 *)
PowerLossKeepsFlushed == Growing => FlushedReadable(file)

(* Once bufio has failed no later Close reports success and the file never *)
(* becomes finalized: the failure cannot be lost.                          *)
ErrorIsFinal ==
    err => /\ ~(pc = "done" /\ res = "ok")
           /\ PeekID(file, 1) = "ID" => file[1].unfin # {}

(* What the state of the abstract log is in the growing layout: what a     *)
(* reader would get from the file now, what the last fsync made stable of  *)
(* what was flushed, and how far the writer is.                            *)
LogReadable ==
    IF TreeLinked(file) /\ OpenOK(file) /\ ~LostInClose THEN Readable(file, 1) ELSE 0
LogDurable == IF TreeLinked(disk) /\ ~LostInClose THEN flushed[1] ELSE 0
LogStatus ==
    CASE LostInClose -> "torn"
      [] pc = "crashed" /\ ~closed -> "lost"
      [] pc = "done" /\ res = "ok" -> "closed"
      [] pc = "done" /\ res # "ok" -> "failed"
      [] pc \notin {"crashed", "done"} /\ closed -> "closing"
      [] pc \notin {"crashed", "done"} /\ ~closed -> "open"

Log == INSTANCE RecordingLog WITH
    appended <- count[1], readable <- LogReadable, durable <- LogDurable,
    status <- LogStatus

(* The growing layout implements the abstract log: what a reader would get *)
(* from the file only ever grows, through the records cut by bufio, the    *)
(* failed writes and each of the in-place writes of Close, until a power   *)
(* loss takes back at most what no Flush has covered.                      *)
ImplementsLog == Log!Spec

(* Every call returns: an Append, Flush or Close that has begun ends.      *)
CallsReturn == pc \notin {"idle", "done"} ~> pc \in {"idle", "done", "crashed"}
=============================================================================
