---------------------------- MODULE SectionCache ----------------------------
(***************************************************************************)
(* Concurrent reads of one compressed data section.  Several goroutines    *)
(* call Reader.ReadAt; each first prefetches: it scans the segments from   *)
(* its range onwards through the cache, and when two or more are missing   *)
(* it starts workers that inflate them in parallel and waits for them.     *)
(* Then it reads segment by segment through the cache.  decompressed is    *)
(* get, inflate, put with no lock in between, so another goroutine may     *)
(* cache the same payload, or evict it, at any point.                      *)
(*                                                                         *)
(* Segments are the DZ segments 1..NSeg in logical order; a read covers    *)
(* segments lo..hi.  Stored segments do not touch the cache and are left   *)
(* out.                                                                    *)
(***************************************************************************)
EXTENDS LruCache

CONSTANTS
    Readers,    \* goroutines that call ReadAt
    NSeg,       \* compressed segments of the section
    NumCPU,     \* runtime.NumCPU()
    Corrupt,    \* segments whose payload does not inflate
    MaxReads    \* bound: calls of ReadAt by one reader

ASSUME SectionAssumption ==
    /\ NSeg \in Nat /\ Keys = 1..NSeg /\ NumCPU \in Nat \ {0}
    /\ Corrupt \subseteq Keys /\ MaxReads \in Nat

Segs == 1..NSeg
Lookahead == 2 * NumCPU
Workers == 1..NumCPU

VARIABLES
    pc,       \* reader: "idle", "scan", "wait" or "read"
    pos,      \* reader: segment being scanned or read
    lo, hi,   \* reader: first and last segment of the running call
    missing,  \* reader: segments the scan missed; then the channel's rest
    job,      \* worker of a reader: what it is doing
    rjob,     \* the reader's own decompressed call
    got,      \* reader: payloads delivered so far
    result,   \* reader: result of its last call
    reads     \* calls made, for the bound

svars == <<pc, pos, lo, hi, missing, job, rjob, got, result, reads>>
vars == <<lru, svars>>

Idle == [at |-> "none", seg |-> 0]
At(where, seg) == [at |-> where, seg |-> seg]

(* ReadAt is called; prefetch starts at the first segment of the range.    *)
StartRead(r, a, b) ==
    /\ pc[r] = "idle" /\ reads[r] < MaxReads /\ a <= b
    /\ pc' = [pc EXCEPT ![r] = "scan"]
    /\ pos' = [pos EXCEPT ![r] = a]
    /\ lo' = [lo EXCEPT ![r] = a] /\ hi' = [hi EXCEPT ![r] = b]
    /\ missing' = [missing EXCEPT ![r] = <<>>]
    /\ got' = [got EXCEPT ![r] = <<>>]
    /\ result' = [result EXCEPT ![r] = "running"]
    /\ reads' = [reads EXCEPT ![r] = @ + 1]
    /\ UNCHANGED <<lru, job, rjob>>

(* Mutation: the scan does not stop at the last segment.                   *)
ScanRunsOff(r) ==
    \/ Len(missing[r]) = Lookahead
    \/ pos[r] > hi[r] /\ missing[r] = <<>>

ScanEnds(r) ==
    \/ pos[r] > NSeg
    \/ Len(missing[r]) = Lookahead
    \/ pos[r] > hi[r] /\ missing[r] = <<>>

(* prefetch's scan looks at one segment: a hit counts as a use.            *)
Scan(r) ==
    /\ pc[r] = "scan" /\ ~ScanEnds(r)
    /\ pos' = [pos EXCEPT ![r] = @ + 1]
    /\ \/ GetHit(pos[r]) /\ UNCHANGED missing
       \/ /\ pos[r] \notin Cached
          /\ missing' = [missing EXCEPT ![r] = Append(@, pos[r])]
          /\ UNCHANGED lru
    /\ UNCHANGED <<pc, lo, hi, job, rjob, got, result, reads>>

(* Fewer than two misses are left to the sequential path.                  *)
ScanDone(r) ==
    /\ pc[r] = "scan" /\ ScanEnds(r)
    /\ pc' = [pc EXCEPT ![r] = IF Len(missing[r]) >= 2 THEN "wait" ELSE "read"]
    /\ job' = [job EXCEPT ![r] = [w \in Workers |->
                  IF Len(missing[r]) >= 2 /\ w <= Len(missing[r])
                  THEN At("next", 0) ELSE Idle]]
    /\ pos' = [pos EXCEPT ![r] = lo[r]]
    /\ UNCHANGED <<lru, lo, hi, missing, rjob, got, result, reads>>

(* Mutation: the channel is never closed.                                  *)
WorkerNextBlocks(r, w) ==
    /\ job[r][w].at = "next" /\ missing[r] # <<>>
    /\ job' = [job EXCEPT ![r][w] = At("get", Head(missing[r]))]
    /\ missing' = [missing EXCEPT ![r] = Tail(@)]
    /\ UNCHANGED <<lru, pc, pos, lo, hi, rjob, got, result, reads>>

(* A worker takes the next segment off the closed channel, or ends.        *)
WorkerNext(r, w) ==
    /\ job[r][w].at = "next"
    /\ IF missing[r] = <<>>
       THEN job' = [job EXCEPT ![r][w] = Idle] /\ UNCHANGED missing
       ELSE /\ job' = [job EXCEPT ![r][w] = At("get", Head(missing[r]))]
            /\ missing' = [missing EXCEPT ![r] = Tail(@)]
    /\ UNCHANGED <<lru, pc, pos, lo, hi, rjob, got, result, reads>>

(* Mutation: wg.Wait returns once the channel is empty.                    *)
WorkersDoneEarly(r) ==
    /\ pc[r] = "wait" /\ missing[r] = <<>>
    /\ pc' = [pc EXCEPT ![r] = "read"]
    /\ UNCHANGED <<lru, pos, lo, hi, missing, job, rjob, got, result, reads>>

(* wg.Wait returns.                                                        *)
WorkersDone(r) ==
    /\ pc[r] = "wait" /\ \A w \in Workers : job[r][w] = Idle
    /\ pc' = [pc EXCEPT ![r] = "read"]
    /\ UNCHANGED <<lru, pos, lo, hi, missing, job, rjob, got, result, reads>>

(* decompressed, in a worker: cache hit, or inflate and then put.  The     *)
(* worker drops its error: the sequential path will meet it again.         *)
WorkerGet(r, w) ==
    /\ job[r][w].at = "get"
    /\ \/ /\ GetHit(job[r][w].seg)
          /\ job' = [job EXCEPT ![r][w] = At("next", 0)]
       \/ /\ job[r][w].seg \notin Cached
          /\ job' = [job EXCEPT ![r][w] = IF job[r][w].seg \in Corrupt
                         THEN At("next", 0) ELSE At("put", job[r][w].seg)]
          /\ UNCHANGED lru
    /\ UNCHANGED <<pc, pos, lo, hi, missing, rjob, got, result, reads>>

WorkerPut(r, w) ==
    /\ job[r][w].at = "put"
    /\ Put(job[r][w].seg)
    /\ job' = [job EXCEPT ![r][w] = At("next", 0)]
    /\ UNCHANGED <<pc, pos, lo, hi, missing, rjob, got, result, reads>>

(* The sequential path: the payload of the segment at pos.                 *)
Deliver(r, payload) ==
    /\ got' = [got EXCEPT ![r] = Append(@, payload)]
    /\ pos' = [pos EXCEPT ![r] = @ + 1]
    /\ rjob' = [rjob EXCEPT ![r] = Idle]

ReadHit(r) ==
    /\ pc[r] = "read" /\ rjob[r] = Idle /\ pos[r] <= hi[r]
    /\ GetHit(pos[r]) /\ Deliver(r, entries[pos[r]])
    /\ UNCHANGED <<pc, lo, hi, missing, job, result, reads>>

(* Mutation: the error is dropped here as it is in the workers.            *)
ReadInflateDropsError(r) ==
    /\ pc[r] = "read" /\ rjob[r] = Idle /\ pos[r] <= hi[r]
    /\ pos[r] \notin Cached
    /\ rjob' = [rjob EXCEPT ![r] = At("put", pos[r])]
    /\ UNCHANGED <<lru, pc, result, pos, lo, hi, missing, job, got, reads>>

ReadInflate(r) ==
    /\ pc[r] = "read" /\ rjob[r] = Idle /\ pos[r] <= hi[r]
    /\ pos[r] \notin Cached
    /\ IF pos[r] \in Corrupt
       THEN /\ pc' = [pc EXCEPT ![r] = "idle"]
            /\ result' = [result EXCEPT ![r] = "error"] /\ UNCHANGED rjob
       ELSE rjob' = [rjob EXCEPT ![r] = At("put", pos[r])] /\ UNCHANGED <<pc, result>>
    /\ UNCHANGED <<lru, pos, lo, hi, missing, job, got, reads>>

ReadPut(r) ==
    /\ rjob[r].at = "put"
    /\ Put(rjob[r].seg) /\ Deliver(r, rjob[r].seg)
    /\ UNCHANGED <<pc, lo, hi, missing, job, result, reads>>

ReadDone(r) ==
    /\ pc[r] = "read" /\ rjob[r] = Idle /\ pos[r] > hi[r]
    /\ pc' = [pc EXCEPT ![r] = "idle"]
    /\ result' = [result EXCEPT ![r] = "ok"]
    /\ UNCHANGED <<lru, pos, lo, hi, missing, job, rjob, got, reads>>

-----------------------------------------------------------------------------
Init ==
    /\ LruInit
    /\ pc = [r \in Readers |-> "idle"]
    /\ pos = [r \in Readers |-> 1]
    /\ lo = [r \in Readers |-> 1] /\ hi = [r \in Readers |-> 1]
    /\ missing = [r \in Readers |-> <<>>]
    /\ job = [r \in Readers |-> [w \in Workers |-> Idle]]
    /\ rjob = [r \in Readers |-> Idle]
    /\ got = [r \in Readers |-> <<>>]
    /\ result = [r \in Readers |-> "none"]
    /\ reads = [r \in Readers |-> 0]

ReaderStep(r) ==
    \/ Scan(r) \/ ScanDone(r) \/ WorkersDone(r)
    \/ ReadHit(r) \/ ReadInflate(r) \/ ReadPut(r) \/ ReadDone(r)
WorkerStep(r, w) == WorkerNext(r, w) \/ WorkerGet(r, w) \/ WorkerPut(r, w)

Next ==
    \/ \E r \in Readers : \E a, b \in Segs : StartRead(r, a, b)
    \/ \E r \in Readers : ReaderStep(r)
    \/ \E r \in Readers : \E w \in Workers : WorkerStep(r, w)

Spec == Init /\ [][Next]_vars

(* The Go scheduler runs every runnable goroutine eventually.              *)
FairSpec ==
    /\ Spec
    /\ \A r \in Readers : WF_vars(ReaderStep(r))
    /\ \A r \in Readers : \A w \in Workers : WF_vars(WorkerStep(r, w))

-----------------------------------------------------------------------------
Jobs == [at : {"none", "next", "get", "put"}, seg : 0..NSeg]

(* One type invariant for the cache and its users (Reader, prefetch).      *)
TypeOK ==
    /\ order \in Seq(Keys) /\ Cached \subseteq Keys
    /\ pc \in [Readers -> {"idle", "scan", "wait", "read"}]
    /\ pos \in [Readers -> 1..(NSeg + 1)]
    /\ lo \in [Readers -> Nat] /\ hi \in [Readers -> Nat]
    /\ missing \in [Readers -> Seq(Keys)]
    /\ job \in [Readers -> [Workers -> Jobs]]
    /\ rjob \in [Readers -> Jobs]
    /\ got \in [Readers -> Seq(Keys)]
    /\ result \in [Readers -> {"none", "running", "ok", "error"}]

(* A step evicts only the least recently used payloads, and only as many   *)
(* as it must: the last one evicted would not have fitted.                 *)
EvictsOnlyWhatItMust ==
    [][LET gone == {i \in DOMAIN order : order[i] \notin Cached'}
       IN gone # {} => /\ gone = 1..Max(gone)
                       /\ size' + Size[order[Max(gone)]] > Budget]_lru

(* A ReadAt that returns nil has delivered the payloads of its range, in   *)
(* order, whatever the other goroutines cached or evicted meanwhile; one   *)
(* that meets a corrupt block reports it although prefetch dropped the     *)
(* error.                                                                  *)
ReadsAreRight ==
    \A r \in Readers :
        /\ result[r] = "ok" =>
              got[r] = [i \in 1..(hi[r] - lo[r] + 1) |-> lo[r] + i - 1]
        /\ result[r] = "error" => \E k \in Corrupt : lo[r] <= k /\ k <= hi[r]
        /\ result[r] = "ok" => \A k \in lo[r]..hi[r] : k \notin Corrupt

(* No worker outlives the ReadAt that started it.                          *)
NoStrayWorkers ==
    \A r \in Readers : pc[r] \in {"idle", "scan", "read"} =>
        \A w \in Workers : job[r][w] = Idle

(* Every ReadAt returns: the wait for the workers ends.                    *)
ReadsReturn == \A r \in Readers : pc[r] # "idle" ~> pc[r] = "idle"
=============================================================================
