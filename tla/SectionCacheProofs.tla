-------------------------- MODULE SectionCacheProofs --------------------------
(***************************************************************************)
(* Proofs about concurrent reads of a compressed section, for any number   *)
(* of readers, segments and processors, any budget and any set of corrupt  *)
(* blocks.                                                                 *)
(*                                                                         *)
(* A ReadAt is right because whatever a goroutine finds in the cache under *)
(* a key is the payload of that key (PayloadsGood), because only a payload *)
(* that did inflate is ever put (JobsGood), and because the reader's       *)
(* position says what it has delivered (ReaderInv).  None of this depends  *)
(* on what stays cached, so evictions may happen at any point.             *)
(***************************************************************************)
EXTENDS SectionCache, TLAPS, SequenceTheorems, FiniteSetTheorems,
        WellFoundedInduction

PayloadsGood == \A k \in Cached : entries[k] = k /\ k \notin Corrupt

LruInv ==
    /\ order \in Seq(Keys) /\ Cached \subseteq Keys
    /\ OrderIsKeys /\ PayloadsGood

JobsGood ==
    \A r \in Readers : \A w \in Workers :
        /\ job[r][w].at \in {"get", "put"} => job[r][w].seg \in Keys
        /\ job[r][w].at = "put" => job[r][w].seg \notin Corrupt

ReaderInv(r) ==
    /\ pc[r] # "idle" =>
          /\ result[r] = "running"
          /\ 1 <= lo[r] /\ lo[r] <= hi[r] /\ hi[r] <= NSeg
    /\ pc[r] \in {"scan", "wait"} => got[r] = <<>>
    /\ pc[r] = "wait" => pos[r] = lo[r]
    /\ pc[r] = "read" =>
          /\ lo[r] <= pos[r] /\ pos[r] <= hi[r] + 1
          /\ Len(got[r]) = pos[r] - lo[r]
          /\ \A i \in 1..Len(got[r]) :
                got[r][i] = lo[r] + i - 1 /\ got[r][i] \notin Corrupt
    /\ \/ rjob[r] = Idle
       \/ /\ pc[r] = "read" /\ rjob[r] = At("put", pos[r])
          /\ pos[r] <= hi[r] /\ pos[r] \notin Corrupt

(* The inductive invariant.                                                *)
IInv ==
    /\ TypeOK /\ LruInv /\ JobsGood
    /\ \A r \in Readers : ReaderInv(r)
    /\ NoStrayWorkers /\ ReadsAreRight

-----------------------------------------------------------------------------
(* The cache operations.                                                   *)

(* put's eviction loop ends after some number of evictions between none    *)
(* and all, the first at which it may stop (cache.go: put).                *)
LEMMA EvictedInRange ==
    ASSUME order \in Seq(Keys), NEW key
    PROVE  /\ Evicted(key) \in 0..Len(order) /\ Stops(key, Evicted(key))
           /\ \A m \in 0..(Evicted(key) - 1) : ~Stops(key, m)
<1> DEFINE T == {n \in 0..Len(order) : Stops(key, n)}
<1>1. Len(order) \in Nat
  BY LenProperties
<1>2. Len(order) \in T
  BY <1>1 DEF Stops
<1>3. T \subseteq Nat
  BY <1>1
<1> HIDE DEF T
<1>4. PICK n \in T : \A y \in T : ~(<<y, n>> \in OpToRel(<, Nat))
  <2>1. T # {}
    BY <1>2
  <2> QED
    BY <1>3, <2>1, NatLessThanWellFounded, WFMin
<1>5. \A y \in T : ~(y < n)
  BY <1>3, <1>4 DEF OpToRel
<1>6. n \in 0..Len(order) /\ Stops(key, n)
  BY <1>4 DEF T
<1>7. \A m \in 0..(n - 1) : ~Stops(key, m)
  BY <1>1, <1>5, <1>6 DEF T
<1> QED
  BY <1>6, <1>7 DEF Evicted

(* touch permutes the order list (cache.go: touch).                        *)
LEMMA TouchPermutes ==
    ASSUME NEW ord \in Seq(Keys), NEW key \in Keys,
           NEW i \in DOMAIN ord, ord[i] = key,
           \A p, q \in DOMAIN ord : ord[p] = ord[q] => p = q,
           NEW t, t = Touch(ord, key)
    PROVE  /\ t \in Seq(Keys)
           /\ \A j \in DOMAIN t : \E p \in DOMAIN ord : t[j] = ord[p]
           /\ \A p \in DOMAIN ord : \E j \in DOMAIN t : t[j] = ord[p]
           /\ \A p, q \in DOMAIN t : t[p] = t[q] => p = q
<1> DEFINE n == Len(ord)
           rest == [j \in 1..(n - 1) |-> IF j < i THEN ord[j] ELSE ord[j + 1]]
<1>1. n \in Nat \ {0} /\ DOMAIN ord = 1..n /\ i \in 1..n /\ \A j \in 1..n : ord[j] \in Keys
  BY LenProperties, ElementOfSeq
<1>2. t = Append(rest, key)
  <2>1. (CHOOSE j \in DOMAIN ord : ord[j] = key) = i
    OBVIOUS
  <2> QED
    BY <2>1 DEF Touch
<1>3. /\ rest \in Seq(Keys) /\ Len(rest) = n - 1
      /\ \A j \in 1..(n - 1) : rest[j] = IF j < i THEN ord[j] ELSE ord[j + 1]
  BY <1>1
<1> HIDE DEF rest, n
<1>4. /\ t \in Seq(Keys) /\ DOMAIN t = 1..n
      /\ \A j \in 1..(n - 1) : t[j] = rest[j]
      /\ t[n] = key
  <2>1. /\ t \in Seq(Keys) /\ Len(t) = Len(rest) + 1 /\ t[Len(rest) + 1] = key
        /\ \A j \in 1..Len(rest) : t[j] = rest[j]
    BY <1>2, <1>3, AppendProperties
  <2>2. DOMAIN t = 1..Len(t)
    BY <2>1, LenProperties
  <2> QED
    BY <1>1, <1>3, <2>1, <2>2
<1>5. \A j \in 1..n : t[j] = IF j = n THEN key ELSE IF j < i THEN ord[j] ELSE ord[j + 1]
  BY <1>1, <1>3, <1>4
<1>6. \A p, q \in 1..n : t[p] = t[q] => p = q
  <2> SUFFICES ASSUME NEW p \in 1..n, NEW q \in 1..n, p # q, t[p] = t[q] PROVE FALSE
    OBVIOUS
  <2> DEFINE from(j) == IF j = n THEN i ELSE IF j < i THEN j ELSE j + 1
  <2>1. \A j \in 1..n : from(j) \in 1..n /\ t[j] = ord[from(j)]
    BY <1>1, <1>5
  <2>2. from(p) # from(q)
    BY <1>1
  <2> QED
    BY <1>1, <2>1, <2>2, SMTT(30)
<1>7. \A j \in 1..n : \E p \in 1..n : t[j] = ord[p]
  BY <1>1, <1>5
<1>8. \A p \in 1..n : \E j \in 1..n : t[j] = ord[p]
  <2> SUFFICES ASSUME NEW p \in 1..n PROVE \E j \in 1..n : t[j] = ord[p]
    OBVIOUS
  <2>1. CASE p < i
    <3>1. p # n /\ p \in 1..n
      BY <1>1, <2>1
    <3> QED
      BY <1>5, <2>1, <3>1
  <2>2. CASE p = i
    BY <1>1, <1>4, <2>2
  <2>3. CASE p > i
    <3>1. p - 1 \in 1..n /\ p - 1 # n /\ ~(p - 1 < i) /\ (p - 1) + 1 = p
      BY <1>1, <2>3
    <3> QED
      BY <1>5, <3>1
  <2> QED
    BY <1>1, <2>1, <2>2, <2>3
<1>9. DOMAIN t = 1..n /\ DOMAIN ord = 1..n
  BY <1>1, <1>4
<1>10. \A j \in DOMAIN t : \E p \in DOMAIN ord : t[j] = ord[p]
  BY <1>7, <1>9
<1>11. \A p \in DOMAIN ord : \E j \in DOMAIN t : t[j] = ord[p]
  BY <1>8, <1>9
<1>12. \A p, q \in DOMAIN t : t[p] = t[q] => p = q
  BY <1>6, <1>9
<1> QED
  BY <1>4, <1>10, <1>11, <1>12

(* A hit keeps the cache's invariant and its contents (cache.go: get).     *)
LEMMA GetHitKeepsLru ==
    ASSUME LruInv, NEW key \in Keys, GetHit(key)
    PROVE  LruInv' /\ Cached' = Cached
<1>1. PICK i \in DOMAIN order : order[i] = key
  BY DEF GetHit, LruInv, OrderIsKeys
<1>2. order' = Touch(order, key) /\ entries' = entries
  BY DEF GetHit
<1>3. order \in Seq(Keys) /\ \A p, q \in DOMAIN order : order[p] = order[q] => p = q
  BY DEF LruInv, OrderIsKeys
<1>4. /\ order' \in Seq(Keys)
      /\ \A j \in DOMAIN order' : \E p \in DOMAIN order : order'[j] = order[p]
      /\ \A p \in DOMAIN order : \E j \in DOMAIN order' : order'[j] = order[p]
      /\ \A p, q \in DOMAIN order' : order'[p] = order'[q] => p = q
  BY <1>1, <1>2, <1>3, TouchPermutes
<1>5. Cached' = Cached /\ PayloadsGood'
  BY <1>2 DEF LruInv, PayloadsGood, Cached
<1>6. {order'[j] : j \in DOMAIN order'} = {order[p] : p \in DOMAIN order}
  BY <1>4
<1>7. OrderIsKeys'
  BY <1>4, <1>5, <1>6, Zenon DEF LruInv, OrderIsKeys
<1> QED
  BY <1>4, <1>5, <1>7 DEF LruInv

(* A put of a payload that inflated keeps the cache's invariant, whatever  *)
(* it evicts (cache.go: put).                                              *)
LEMMA PutKeepsLru ==
    ASSUME LruInv, NEW key \in Keys, key \notin Corrupt, Put(key)
    PROVE  LruInv'
<1>1. CASE GetHit(key)
  BY <1>1, GetHitKeepsLru
<1>2. CASE PutNew(key)
  <2> DEFINE n == Evicted(key)
             kept == SubSeq(order, n + 1, Len(order))
             ord == Append(kept, key)
             m == Len(kept)
  <2>1. n \in 0..Len(order) /\ Len(order) \in Nat
    BY EvictedInRange, LenProperties DEF LruInv
  <2>2. DOMAIN order = 1..Len(order) /\ \A i \in 1..Len(order) : order[i] \in Keys
    BY LenProperties, ElementOfSeq DEF LruInv
  <2>3. /\ kept \in Seq(Keys) /\ m = Len(order) - n
        /\ \A i \in 1..m : kept[i] = order[n + i]
    <3> HIDE DEF n
    <3>1. \A i \in (n + 1)..Len(order) : order[i] \in Keys
      BY <2>1, <2>2
    <3>2. /\ kept \in Seq(Keys)
          /\ m = IF n + 1 <= Len(order) THEN Len(order) - (n + 1) + 1 ELSE 0
          /\ \A i \in 1..(Len(order) - (n + 1) + 1) : kept[i] = order[n + 1 + i - 1]
      BY <2>1, <3>1, SubSeqProperties
    <3> QED
      BY <2>1, <3>2
  <2> HIDE DEF n, kept
  <2>4. DOMAIN kept = 1..m /\ m \in Nat
    BY <2>3, LenProperties
  <2>5. /\ ord \in Seq(Keys) /\ DOMAIN ord = 1..(m + 1)
        /\ \A i \in 1..m : ord[i] = kept[i]
        /\ ord[m + 1] = key
    <3>1. ord \in Seq(Keys) /\ Len(ord) = m + 1 /\ ord[m + 1] = key
          /\ \A i \in 1..m : ord[i] = kept[i]
      BY <2>3, AppendProperties
    <3> QED
      BY <3>1, LenProperties
  <2>6. order' = ord /\ key \notin Cached
        /\ entries' = [k \in {kept[i] : i \in DOMAIN kept} \union {key} |->
                          IF k = key THEN key ELSE entries[k]]
    BY <1>2 DEF PutNew, kept, n
  <2>7. \A i \in 1..m : kept[i] \in Cached
    BY <2>1, <2>2, <2>3, <2>4 DEF LruInv, OrderIsKeys
  <2>8. ASSUME NEW i \in 1..m, NEW j \in 1..m, kept[i] = kept[j] PROVE i = j
    <3>1. /\ n + i \in DOMAIN order /\ n + j \in DOMAIN order
          /\ order[n + i] = order[n + j]
      BY <2>1, <2>2, <2>3, <2>4, <2>8
    <3>2. n + i = n + j
      BY <3>1 DEF LruInv, OrderIsKeys
    <3> QED
      BY <2>1, <3>2
  <2> HIDE DEF ord
  <2>9. Cached' = {kept[i] : i \in 1..m} \union {key}
    BY <2>4, <2>6 DEF Cached
  <2>10. order' \in Seq(Keys) /\ Cached' \subseteq Keys
    BY <2>5, <2>6, <2>7, <2>9 DEF LruInv
  <2>11. OrderIsKeys'
    <3>1. \A i, j \in 1..(m + 1) : ord[i] = ord[j] => i = j
      BY <2>4, <2>5, <2>6, <2>7, <2>8
    <3>2. {ord[i] : i \in 1..(m + 1)} = {kept[i] : i \in 1..m} \union {key}
      BY <2>4, <2>5
    <3> QED
      BY <2>5, <2>6, <2>9, <3>1, <3>2 DEF OrderIsKeys
  <2>12. PayloadsGood'
    BY <2>4, <2>6, <2>7, <2>9 DEF PayloadsGood, LruInv, Cached
  <2> QED
    BY <2>10, <2>11, <2>12 DEF LruInv
<1> QED
  BY <1>1, <1>2 DEF Put

-----------------------------------------------------------------------------
(* The steps of the readers.                                               *)

USE SectionAssumption

(* The invariant holds before the first read.                              *)
LEMMA InitInv == Init => IInv
<1> SUFFICES ASSUME Init PROVE IInv
  OBVIOUS
<1>1. Workers \subseteq Nat
  BY DEF Workers
<1>2. <<>> \in Seq(Keys)
  BY EmptySeq
<1>3. LruInv
  BY <1>2 DEF Init, LruInit, LruInv, OrderIsKeys, PayloadsGood, Cached
<1>4. TypeOK
  BY <1>2, <1>3 DEF Init, TypeOK, LruInv, Jobs, Idle
<1>5. JobsGood /\ NoStrayWorkers /\ ReadsAreRight
  BY DEF Init, JobsGood, NoStrayWorkers, ReadsAreRight, Idle
<1>6. \A r \in Readers : ReaderInv(r)
  BY DEF Init, ReaderInv
<1> QED
  BY <1>3, <1>4, <1>5, <1>6 DEF IInv

(* A new call (ReadAt).                                                    *)
LEMMA StartReadInv ==
    ASSUME IInv, NEW r \in Readers, NEW a \in Segs, NEW b \in Segs,
           StartRead(r, a, b)
    PROVE  IInv'
<1>1. TypeOK /\ LruInv /\ JobsGood /\ (\A q \in Readers : ReaderInv(q))
      /\ NoStrayWorkers /\ ReadsAreRight
  BY DEF IInv
<1>2. LruInv'
  BY <1>1 DEF StartRead, lru, LruInv, OrderIsKeys, PayloadsGood, Cached
<1>3. a \in 1..NSeg /\ b \in 1..NSeg /\ a <= b
  BY DEF StartRead, Segs
<1>4. TypeOK'
  <2>1. got' \in [Readers -> Seq(Keys)] /\ missing' \in [Readers -> Seq(Keys)]
    BY <1>1, EmptySeq DEF StartRead, TypeOK
  <2>2. /\ pc' \in [Readers -> {"idle", "scan", "wait", "read"}]
        /\ pos' \in [Readers -> 1..(NSeg + 1)]
        /\ lo' \in [Readers -> Nat] /\ hi' \in [Readers -> Nat]
        /\ result' \in [Readers -> {"none", "running", "ok", "error"}]
    BY <1>1, <1>3 DEF StartRead, TypeOK
  <2> QED
    BY <1>1, <1>2, <2>1, <2>2 DEF StartRead, TypeOK, LruInv
<1>5. JobsGood'
  BY <1>1 DEF StartRead, JobsGood
<1>6. NoStrayWorkers'
  BY <1>1 DEF StartRead, NoStrayWorkers, TypeOK
<1>7. ASSUME NEW q \in Readers PROVE ReaderInv(q)'
  <2>1. CASE q = r
    BY <1>1, <1>3, <2>1 DEF StartRead, ReaderInv, TypeOK
  <2>2. CASE q # r
    BY <1>1, <2>2 DEF StartRead, ReaderInv, TypeOK
  <2> QED
    BY <2>1, <2>2
<1>8. ReadsAreRight'
  BY <1>1 DEF StartRead, ReadsAreRight, TypeOK
<1> QED
  BY <1>2, <1>4, <1>5, <1>6, <1>7, <1>8 DEF IInv

(* prefetch's scan touches one segment.                                    *)
LEMMA ScanInv ==
    ASSUME IInv, NEW r \in Readers, Scan(r)
    PROVE  IInv'
<1>1. TypeOK /\ LruInv /\ JobsGood /\ (\A q \in Readers : ReaderInv(q))
      /\ NoStrayWorkers /\ ReadsAreRight
  BY DEF IInv
<1>2. pos[r] \in Keys
  BY <1>1 DEF Scan, TypeOK, ScanEnds
<1>3. LruInv'
  <2>1. CASE GetHit(pos[r])
    BY <1>1, <1>2, <2>1, GetHitKeepsLru
  <2>2. CASE UNCHANGED lru
    BY <1>1, <2>2 DEF lru, LruInv, OrderIsKeys, PayloadsGood, Cached
  <2> QED
    BY <2>1, <2>2 DEF Scan
<1>4. TypeOK'
  <2>1. missing' \in [Readers -> Seq(Keys)]
    <3>1. Append(missing[r], pos[r]) \in Seq(Keys)
      BY <1>1, <1>2, AppendProperties DEF TypeOK
    <3> QED
      BY <1>1, <3>1 DEF Scan, TypeOK
  <2>2. pos' \in [Readers -> 1..(NSeg + 1)]
    BY <1>1, <1>2 DEF Scan, TypeOK
  <2> QED
    BY <1>1, <1>3, <2>1, <2>2 DEF Scan, TypeOK, LruInv
<1>5. JobsGood' /\ NoStrayWorkers' /\ ReadsAreRight'
  BY <1>1 DEF Scan, JobsGood, NoStrayWorkers, ReadsAreRight
<1>6. ASSUME NEW q \in Readers PROVE ReaderInv(q)'
  <2>1. CASE q = r
    BY <1>1, <2>1 DEF Scan, ReaderInv, TypeOK
  <2>2. CASE q # r
    BY <1>1, <2>2 DEF Scan, ReaderInv, TypeOK
  <2> QED
    BY <2>1, <2>2
<1> QED
  BY <1>3, <1>4, <1>5, <1>6 DEF IInv

(* The scan ends: workers start, or the sequential path does.              *)
LEMMA ScanDoneInv ==
    ASSUME IInv, NEW r \in Readers, ScanDone(r)
    PROVE  IInv'
<1>1. TypeOK /\ LruInv /\ JobsGood /\ (\A q \in Readers : ReaderInv(q))
      /\ NoStrayWorkers /\ ReadsAreRight
  BY DEF IInv
<1>2. LruInv'
  BY <1>1 DEF ScanDone, lru, LruInv, OrderIsKeys, PayloadsGood, Cached
<1>3. /\ pc[r] = "scan" /\ got[r] = <<>> /\ Len(got[r]) = 0 /\ rjob[r] = Idle
      /\ lo[r] \in 1..NSeg /\ hi[r] \in 1..NSeg /\ lo[r] <= hi[r]
  <2>1. pc[r] = "scan" /\ ReaderInv(r) /\ lo[r] \in Nat /\ hi[r] \in Nat
    BY <1>1 DEF ScanDone, TypeOK
  <2>2. Len(<<>>) = 0
    BY EmptySeq
  <2> QED
    BY <2>1, <2>2 DEF ReaderInv
<1>4. TypeOK'
  <2>1. job' \in [Readers -> [Workers -> Jobs]]
    BY <1>1 DEF ScanDone, TypeOK, Jobs, Idle, At
  <2>2. pos' \in [Readers -> 1..(NSeg + 1)]
    <3>1. pos' = [pos EXCEPT ![r] = lo[r]] /\ pos \in [Readers -> 1..(NSeg + 1)]
      BY <1>1 DEF ScanDone, TypeOK
    <3>2. lo[r] \in 1..(NSeg + 1)
      BY <1>3
    <3> QED
      BY <3>1, <3>2
  <2>3. pc' \in [Readers -> {"idle", "scan", "wait", "read"}]
    BY <1>1 DEF ScanDone, TypeOK
  <2> QED
    BY <1>1, <1>2, <2>1, <2>2, <2>3 DEF ScanDone, TypeOK, LruInv
<1>5. JobsGood'
  BY <1>1 DEF ScanDone, JobsGood, TypeOK, Idle, At
<1>6. NoStrayWorkers'
  BY <1>1 DEF ScanDone, NoStrayWorkers, TypeOK
<1>7. ReadsAreRight'
  BY <1>1 DEF ScanDone, ReadsAreRight
<1>8. ASSUME NEW q \in Readers PROVE ReaderInv(q)'
  <2>1. CASE q = r
    BY <1>1, <1>3, <2>1 DEF ScanDone, ReaderInv, TypeOK
  <2>2. CASE q # r
    BY <1>1, <2>2 DEF ScanDone, ReaderInv, TypeOK
  <2> QED
    BY <2>1, <2>2
<1> QED
  BY <1>2, <1>4, <1>5, <1>6, <1>7, <1>8 DEF IInv

(* A worker takes a segment off the channel, or ends.                      *)
LEMMA WorkerNextInv ==
    ASSUME IInv, NEW r \in Readers, NEW w \in Workers, WorkerNext(r, w)
    PROVE  IInv'
<1>1. TypeOK /\ LruInv /\ JobsGood /\ (\A q \in Readers : ReaderInv(q))
      /\ NoStrayWorkers /\ ReadsAreRight
  BY DEF IInv
<1>2. LruInv'
  BY <1>1 DEF WorkerNext, lru, LruInv, OrderIsKeys, PayloadsGood, Cached
<1>3. /\ missing' \in [Readers -> Seq(Keys)]
      /\ job' \in [Readers -> [Workers -> Jobs]]
      /\ JobsGood'
  <2>1. missing[r] \in Seq(Keys)
    BY <1>1 DEF TypeOK
  <2>2. CASE missing[r] = <<>>
    <3>1. job' = [job EXCEPT ![r][w] = Idle] /\ missing' = missing
      BY <2>2 DEF WorkerNext
    <3>2. Idle \in Jobs
      BY DEF Idle, Jobs
    <3>3. missing' \in [Readers -> Seq(Keys)] /\ job' \in [Readers -> [Workers -> Jobs]]
      BY <1>1, <3>1, <3>2 DEF TypeOK
    <3>4. JobsGood'
      BY <1>1, <3>1 DEF TypeOK, JobsGood, Idle
    <3> QED
      BY <3>3, <3>4
  <2>3. CASE missing[r] # <<>>
    <3>1. Head(missing[r]) \in Keys /\ Tail(missing[r]) \in Seq(Keys)
      BY <2>1, <2>3, HeadTailProperties
    <3>2. /\ job' = [job EXCEPT ![r][w] = At("get", Head(missing[r]))]
          /\ missing' = [missing EXCEPT ![r] = Tail(missing[r])]
      BY <1>1, <2>3 DEF WorkerNext, TypeOK
    <3>3. At("get", Head(missing[r])) \in Jobs
      BY <3>1 DEF At, Jobs
    <3>4. missing' \in [Readers -> Seq(Keys)] /\ job' \in [Readers -> [Workers -> Jobs]]
      BY <1>1, <3>1, <3>2, <3>3 DEF TypeOK
    <3>5. JobsGood'
      BY <1>1, <3>1, <3>2 DEF TypeOK, JobsGood, At
    <3> QED
      BY <3>4, <3>5
  <2> QED
    BY <2>2, <2>3
<1>4. TypeOK'
  BY <1>1, <1>2, <1>3 DEF WorkerNext, TypeOK, LruInv
<1>5. NoStrayWorkers'
  <2>1. job[r][w] # Idle /\ pc' = pc
    BY DEF WorkerNext, Idle
  <2>2. pc[r] \notin {"idle", "scan", "read"}
    BY <1>1, <2>1 DEF NoStrayWorkers
  <2>3. \A q \in Readers : q # r => job'[q] = job[q]
    BY <1>1 DEF WorkerNext, TypeOK
  <2> QED
    BY <1>1, <2>1, <2>2, <2>3 DEF NoStrayWorkers
<1>6. ReadsAreRight' /\ \A q \in Readers : ReaderInv(q)'
  BY <1>1 DEF WorkerNext, ReadsAreRight, ReaderInv
<1> QED
  BY <1>2, <1>3, <1>4, <1>5, <1>6 DEF IInv

(* prefetch has waited for its workers.                                    *)
LEMMA WorkersDoneInv ==
    ASSUME IInv, NEW r \in Readers, WorkersDone(r)
    PROVE  IInv'
<1>1. TypeOK /\ LruInv /\ JobsGood /\ (\A q \in Readers : ReaderInv(q))
      /\ NoStrayWorkers /\ ReadsAreRight
  BY DEF IInv
<1>2. LruInv'
  BY <1>1 DEF WorkersDone, lru, LruInv, OrderIsKeys, PayloadsGood, Cached
<1>3. TypeOK'
  BY <1>1, <1>2 DEF WorkersDone, TypeOK, LruInv
<1>4. JobsGood' /\ NoStrayWorkers' /\ ReadsAreRight'
  BY <1>1 DEF WorkersDone, JobsGood, NoStrayWorkers, ReadsAreRight, TypeOK
<1>5. /\ pc[r] = "wait" /\ got[r] = <<>> /\ Len(got[r]) = 0 /\ rjob[r] = Idle
      /\ pos[r] = lo[r] /\ lo[r] \in 1..NSeg /\ hi[r] \in 1..NSeg /\ lo[r] <= hi[r]
  <2>1. pc[r] = "wait" /\ ReaderInv(r) /\ lo[r] \in Nat /\ hi[r] \in Nat
    BY <1>1 DEF WorkersDone, TypeOK
  <2>2. Len(<<>>) = 0
    BY EmptySeq
  <2> QED
    BY <2>1, <2>2 DEF ReaderInv
<1>6. ASSUME NEW q \in Readers PROVE ReaderInv(q)'
  <2>1. CASE q = r
    BY <1>1, <1>5, <2>1 DEF WorkersDone, ReaderInv, TypeOK
  <2>2. CASE q # r
    BY <1>1, <2>2 DEF WorkersDone, ReaderInv, TypeOK
  <2> QED
    BY <2>1, <2>2
<1> QED
  BY <1>2, <1>3, <1>4, <1>6 DEF IInv

(* A worker looks its segment up and inflates it on a miss.                *)
LEMMA WorkerGetInv ==
    ASSUME IInv, NEW r \in Readers, NEW w \in Workers, WorkerGet(r, w)
    PROVE  IInv'
<1>1. TypeOK /\ LruInv /\ JobsGood /\ (\A q \in Readers : ReaderInv(q))
      /\ NoStrayWorkers /\ ReadsAreRight
  BY DEF IInv
<1>2. job[r][w].seg \in Keys
  BY <1>1 DEF WorkerGet, JobsGood
<1>3. LruInv'
  <2>1. CASE GetHit(job[r][w].seg)
    BY <1>1, <1>2, <2>1, GetHitKeepsLru
  <2>2. CASE UNCHANGED lru
    BY <1>1, <2>2 DEF lru, LruInv, OrderIsKeys, PayloadsGood, Cached
  <2> QED
    BY <2>1, <2>2 DEF WorkerGet
<1>4. PICK j \in Jobs :
          /\ job' = [job EXCEPT ![r][w] = j]
          /\ j.at # "get" /\ (j.at = "put" => j.seg \in Keys /\ j.seg \notin Corrupt)
  <2>1. At("next", 0) \in Jobs /\ At("put", job[r][w].seg) \in Jobs
    BY <1>2 DEF At, Jobs
  <2> QED
    BY <1>2, <2>1 DEF WorkerGet, At
<1>6. TypeOK'
  <2>1. job' \in [Readers -> [Workers -> Jobs]]
    BY <1>1, <1>4 DEF TypeOK
  <2> QED
    BY <1>1, <1>3, <2>1 DEF WorkerGet, TypeOK, LruInv
<1>7. JobsGood'
  BY <1>1, <1>4 DEF JobsGood, TypeOK
<1>8. NoStrayWorkers'
  BY <1>1, <1>4 DEF WorkerGet, NoStrayWorkers, TypeOK, Idle
<1>9. ReadsAreRight' /\ \A q \in Readers : ReaderInv(q)'
  BY <1>1 DEF WorkerGet, ReadsAreRight, ReaderInv
<1> QED
  BY <1>3, <1>6, <1>7, <1>8, <1>9 DEF IInv

(* A worker puts what it inflated.                                         *)
LEMMA WorkerPutInv ==
    ASSUME IInv, NEW r \in Readers, NEW w \in Workers, WorkerPut(r, w)
    PROVE  IInv'
<1>1. TypeOK /\ LruInv /\ JobsGood /\ (\A q \in Readers : ReaderInv(q))
      /\ NoStrayWorkers /\ ReadsAreRight
  BY DEF IInv
<1>2. job[r][w].seg \in Keys /\ job[r][w].seg \notin Corrupt
  BY <1>1 DEF WorkerPut, JobsGood
<1>3. LruInv'
  BY <1>1, <1>2, PutKeepsLru DEF WorkerPut
<1>4. job' = [job EXCEPT ![r][w] = At("next", 0)] /\ At("next", 0) \in Jobs
  BY DEF WorkerPut, At, Jobs
<1>5. TypeOK'
  <2>1. job' \in [Readers -> [Workers -> Jobs]]
    BY <1>1, <1>4 DEF TypeOK
  <2> QED
    BY <1>1, <1>3, <2>1 DEF WorkerPut, TypeOK, LruInv
<1>6. JobsGood'
  BY <1>1, <1>4 DEF JobsGood, TypeOK, At
<1>7. NoStrayWorkers'
  BY <1>1, <1>4 DEF WorkerPut, NoStrayWorkers, TypeOK, Idle
<1>8. ReadsAreRight' /\ \A q \in Readers : ReaderInv(q)'
  BY <1>1 DEF WorkerPut, ReadsAreRight, ReaderInv
<1> QED
  BY <1>3, <1>5, <1>6, <1>7, <1>8 DEF IInv

(* A reader delivers the payload of the segment it stands at and moves on. *)
LEMMA DeliverInv ==
    ASSUME TypeOK, \A q \in Readers : ReaderInv(q), ReadsAreRight,
           NEW r \in Readers,
           pc[r] = "read", pos[r] \in Keys, pos[r] <= hi[r], pos[r] \notin Corrupt,
           Deliver(r, pos[r]), UNCHANGED <<pc, lo, hi, result>>
    PROVE  /\ got' \in [Readers -> Seq(Keys)] /\ rjob' \in [Readers -> Jobs]
           /\ pos' \in [Readers -> 1..(NSeg + 1)]
           /\ \A q \in Readers : ReaderInv(q)'
           /\ ReadsAreRight'
<1> DEFINE g == Append(got[r], pos[r])
<1>1. /\ got[r] \in Seq(Keys) /\ lo[r] \in Nat /\ hi[r] \in Nat /\ pos[r] \in 1..NSeg
      /\ ReaderInv(r)
  BY DEF TypeOK
<1>2. /\ g \in Seq(Keys) /\ Len(g) = Len(got[r]) + 1 /\ g[Len(got[r]) + 1] = pos[r]
      /\ \A i \in 1..Len(got[r]) : g[i] = got[r][i]
  BY <1>1, AppendProperties
<1> HIDE DEF g
<1>3. /\ got' = [got EXCEPT ![r] = g] /\ pos' = [pos EXCEPT ![r] = pos[r] + 1]
      /\ rjob' = [rjob EXCEPT ![r] = Idle] /\ Idle \in Jobs
  BY DEF Deliver, TypeOK, g, Idle, Jobs
<1>4. got' \in [Readers -> Seq(Keys)] /\ rjob' \in [Readers -> Jobs]
  BY <1>2, <1>3 DEF TypeOK
<1>5. pos' \in [Readers -> 1..(NSeg + 1)]
  <2>1. pos[r] + 1 \in 1..(NSeg + 1)
    BY <1>1
  <2> QED
    BY <1>3, <2>1 DEF TypeOK
<1>6. ASSUME NEW q \in Readers PROVE ReaderInv(q)'
  <2>1. CASE q = r
    <3>1. got'[r] = g /\ pos'[r] = pos[r] + 1 /\ rjob'[r] = Idle
      BY <1>3 DEF TypeOK
    <3>2. Len(got[r]) = pos[r] - lo[r] /\ lo[r] <= pos[r] /\ lo[r] >= 1 /\ hi[r] <= NSeg
          /\ result[r] = "running" /\ lo[r] <= hi[r]
      BY <1>1 DEF ReaderInv
    <3>3. Len(g) = pos'[r] - lo[r]
      BY <1>1, <1>2, <3>1, <3>2
    <3>4. \A i \in 1..Len(got[r]) : g[i] = lo[r] + i - 1 /\ g[i] \notin Corrupt
      BY <1>1, <1>2 DEF ReaderInv
    <3>5. ASSUME NEW i \in 1..Len(g) PROVE g[i] = lo[r] + i - 1 /\ g[i] \notin Corrupt
      <4>1. CASE i \in 1..Len(got[r])
        BY <3>4, <4>1
      <4>2. CASE i = Len(got[r]) + 1
        BY <1>1, <1>2, <3>2, <4>2
      <4>3. Len(got[r]) \in Nat
        BY <1>1, LenProperties
      <4> QED
        BY <1>2, <4>1, <4>2, <4>3
    <3> QED
      BY <1>1, <2>1, <3>1, <3>2, <3>3, <3>5 DEF ReaderInv
  <2>2. CASE q # r
    BY <1>3, <2>2 DEF ReaderInv, TypeOK
  <2> QED
    BY <2>1, <2>2
<1>7. ReadsAreRight'
  <2>1. result[r] = "running"
    BY <1>1 DEF ReaderInv
  <2>2. \A q \in Readers : q # r => got'[q] = got[q]
    BY <1>3 DEF TypeOK
  <2> QED
    BY <2>1, <2>2 DEF ReadsAreRight
<1> QED
  BY <1>4, <1>5, <1>6, <1>7

(* The sequential path finds its payload in the cache.                     *)
LEMMA ReadHitInv ==
    ASSUME IInv, NEW r \in Readers, ReadHit(r)
    PROVE  IInv'
<1>1. TypeOK /\ LruInv /\ JobsGood /\ (\A q \in Readers : ReaderInv(q))
      /\ NoStrayWorkers /\ ReadsAreRight
  BY DEF IInv
<1>2. pos[r] \in Keys /\ pos[r] \in Cached
  BY <1>1 DEF ReadHit, GetHit, LruInv
<1>3. LruInv'
  BY <1>1, <1>2, GetHitKeepsLru DEF ReadHit
<1>4. entries[pos[r]] = pos[r] /\ pos[r] \notin Corrupt
  BY <1>1, <1>2 DEF LruInv, PayloadsGood
<1>5. /\ got' \in [Readers -> Seq(Keys)] /\ rjob' \in [Readers -> Jobs]
      /\ pos' \in [Readers -> 1..(NSeg + 1)]
      /\ \A q \in Readers : ReaderInv(q)'
      /\ ReadsAreRight'
  <2>1. /\ Deliver(r, pos[r]) /\ UNCHANGED <<pc, lo, hi, result>>
        /\ pc[r] = "read" /\ pos[r] <= hi[r]
    BY <1>4 DEF ReadHit
  <2> QED
    BY <1>1, <1>2, <1>4, <2>1, DeliverInv
<1>6. TypeOK'
  BY <1>1, <1>3, <1>5 DEF ReadHit, TypeOK, LruInv
<1>7. JobsGood' /\ NoStrayWorkers'
  BY <1>1 DEF ReadHit, JobsGood, NoStrayWorkers
<1> QED
  BY <1>3, <1>5, <1>6, <1>7 DEF IInv

(* The sequential path inflates, or reports the corrupt block.             *)
LEMMA ReadInflateInv ==
    ASSUME IInv, NEW r \in Readers, ReadInflate(r)
    PROVE  IInv'
<1>1. TypeOK /\ LruInv /\ JobsGood /\ (\A q \in Readers : ReaderInv(q))
      /\ NoStrayWorkers /\ ReadsAreRight
  BY DEF IInv
<1>2. LruInv'
  BY <1>1 DEF ReadInflate, lru, LruInv, OrderIsKeys, PayloadsGood, Cached
<1>3. /\ pc[r] = "read" /\ rjob[r] = Idle /\ ReaderInv(r)
      /\ lo[r] \in Nat /\ hi[r] \in Nat /\ pos[r] \in 1..NSeg
      /\ lo[r] <= pos[r] /\ pos[r] <= hi[r]
  <2>1. /\ pc[r] = "read" /\ rjob[r] = Idle /\ ReaderInv(r) /\ pos[r] <= hi[r]
        /\ lo[r] \in Nat /\ hi[r] \in Nat /\ pos[r] \in 1..(NSeg + 1)
    BY <1>1 DEF ReadInflate, TypeOK
  <2>2. hi[r] <= NSeg /\ lo[r] <= pos[r]
    BY <2>1 DEF ReaderInv
  <2> QED
    BY <2>1, <2>2
<1>5. JobsGood' /\ NoStrayWorkers'
  <2>1. pc' = pc \/ pc' = [pc EXCEPT ![r] = "idle"]
    BY DEF ReadInflate
  <2> QED
    BY <1>1, <1>3, <2>1 DEF ReadInflate, JobsGood, NoStrayWorkers, TypeOK
<1>6. CASE pos[r] \in Corrupt
  <2>1. /\ pc' = [pc EXCEPT ![r] = "idle"] /\ result' = [result EXCEPT ![r] = "error"]
        /\ UNCHANGED <<lru, rjob, pos, lo, hi, missing, job, got, reads>>
    BY <1>6 DEF ReadInflate
  <2>2. TypeOK'
    BY <1>1, <1>2, <2>1 DEF TypeOK, LruInv
  <2>3. ASSUME NEW q \in Readers PROVE ReaderInv(q)'
    BY <1>1, <1>3, <2>1 DEF ReaderInv, TypeOK
  <2>4. ReadsAreRight'
    BY <1>1, <1>3, <1>6, <2>1 DEF ReadsAreRight, TypeOK
  <2> QED
    BY <1>2, <1>5, <2>2, <2>3, <2>4 DEF IInv
<1>7. CASE pos[r] \notin Corrupt
  <2>1. /\ rjob' = [rjob EXCEPT ![r] = At("put", pos[r])]
        /\ UNCHANGED <<lru, pc, result, pos, lo, hi, missing, job, got, reads>>
    BY <1>7 DEF ReadInflate
  <2>2. At("put", pos[r]) \in Jobs
    BY <1>3 DEF At, Jobs
  <2>3. TypeOK'
    BY <1>1, <1>2, <2>1, <2>2 DEF TypeOK, LruInv
  <2>4. ASSUME NEW q \in Readers PROVE ReaderInv(q)'
    BY <1>1, <1>3, <1>7, <2>1 DEF ReaderInv, TypeOK
  <2>5. ReadsAreRight'
    BY <1>1, <2>1 DEF ReadsAreRight
  <2> QED
    BY <1>2, <1>5, <2>3, <2>4, <2>5 DEF IInv
<1> QED
  BY <1>6, <1>7

(* The sequential path puts what it inflated and delivers it.              *)
LEMMA ReadPutInv ==
    ASSUME IInv, NEW r \in Readers, ReadPut(r)
    PROVE  IInv'
<1>1. TypeOK /\ LruInv /\ JobsGood /\ (\A q \in Readers : ReaderInv(q))
      /\ NoStrayWorkers /\ ReadsAreRight
  BY DEF IInv
<1>2. /\ rjob[r].at = "put" /\ rjob[r].seg = pos[r] /\ pc[r] = "read"
      /\ pos[r] <= hi[r] /\ pos[r] \notin Corrupt /\ pos[r] \in Keys
  <2>1. rjob[r] # Idle /\ ReaderInv(r) /\ pos[r] \in 1..(NSeg + 1) /\ hi[r] \in Nat
    BY <1>1 DEF ReadPut, Idle, TypeOK
  <2>2. /\ pc[r] = "read" /\ rjob[r] = At("put", pos[r])
        /\ pos[r] <= hi[r] /\ pos[r] \notin Corrupt /\ hi[r] <= NSeg
    BY <2>1 DEF ReaderInv
  <2> QED
    BY <2>1, <2>2 DEF At
<1>3. LruInv'
  BY <1>1, <1>2, PutKeepsLru DEF ReadPut
<1>4. /\ got' \in [Readers -> Seq(Keys)] /\ rjob' \in [Readers -> Jobs]
      /\ pos' \in [Readers -> 1..(NSeg + 1)]
      /\ \A q \in Readers : ReaderInv(q)'
      /\ ReadsAreRight'
  <2>1. Deliver(r, pos[r]) /\ UNCHANGED <<pc, lo, hi, result>>
    BY <1>2 DEF ReadPut
  <2> QED
    BY <1>1, <1>2, <2>1, DeliverInv
<1>5. TypeOK'
  BY <1>1, <1>3, <1>4 DEF ReadPut, TypeOK, LruInv
<1>6. JobsGood' /\ NoStrayWorkers'
  BY <1>1 DEF ReadPut, JobsGood, NoStrayWorkers
<1> QED
  BY <1>3, <1>4, <1>5, <1>6 DEF IInv

(* ReadAt returns nil: everything in its range has been delivered.         *)
LEMMA ReadDoneInv ==
    ASSUME IInv, NEW r \in Readers, ReadDone(r)
    PROVE  IInv'
<1>1. TypeOK /\ LruInv /\ JobsGood /\ (\A q \in Readers : ReaderInv(q))
      /\ NoStrayWorkers /\ ReadsAreRight
  BY DEF IInv
<1>2. LruInv'
  BY <1>1 DEF ReadDone, lru, LruInv, OrderIsKeys, PayloadsGood, Cached
<1>3. TypeOK'
  BY <1>1, <1>2 DEF ReadDone, TypeOK, LruInv
<1>4. JobsGood' /\ NoStrayWorkers'
  BY <1>1 DEF ReadDone, JobsGood, NoStrayWorkers, TypeOK
<1>5. ASSUME NEW q \in Readers PROVE ReaderInv(q)'
  BY <1>1 DEF ReadDone, ReaderInv, TypeOK
<1>6. /\ got[r] = [i \in 1..(hi[r] - lo[r] + 1) |-> lo[r] + i - 1]
      /\ \A k \in lo[r]..hi[r] : k \notin Corrupt
  <2>1. /\ ReaderInv(r) /\ pc[r] = "read" /\ pos[r] > hi[r] /\ got[r] \in Seq(Keys)
        /\ lo[r] \in Nat /\ hi[r] \in Nat /\ pos[r] \in Nat
    BY <1>1 DEF ReadDone, TypeOK
  <2>2. /\ pos[r] = hi[r] + 1 /\ lo[r] <= pos[r] /\ Len(got[r]) = hi[r] + 1 - lo[r]
        /\ \A i \in 1..Len(got[r]) :
              got[r][i] = lo[r] + i - 1 /\ got[r][i] \notin Corrupt
    BY <2>1 DEF ReaderInv
  <2>3. got[r] \in [1..Len(got[r]) -> Keys]
    BY <2>1, LenProperties
  <2>4. got[r] = [i \in 1..(hi[r] - lo[r] + 1) |-> lo[r] + i - 1]
    <3>1. Len(got[r]) = hi[r] - lo[r] + 1
      BY <2>1, <2>2
    <3>2. got[r] \in [1..(hi[r] - lo[r] + 1) -> Keys]
      BY <2>3, <3>1
    <3>3. \A i \in 1..(hi[r] - lo[r] + 1) : got[r][i] = lo[r] + i - 1
      BY <2>2, <3>1
    <3> QED
      BY <3>2, <3>3
  <2>5. ASSUME NEW k \in lo[r]..hi[r] PROVE k \notin Corrupt
    <3>1. k - lo[r] + 1 \in 1..Len(got[r]) /\ lo[r] + (k - lo[r] + 1) - 1 = k
      BY <2>1, <2>2
    <3> QED
      BY <2>2, <3>1
  <2> QED
    BY <2>4, <2>5
<1>7. ReadsAreRight'
  <2>1. result' = [result EXCEPT ![r] = "ok"] /\ UNCHANGED <<got, lo, hi>>
    BY DEF ReadDone
  <2>2. ASSUME NEW q \in Readers, q # r PROVE result'[q] = result[q]
    BY <1>1, <2>1, <2>2 DEF TypeOK
  <2>3. result'[r] = "ok"
    BY <1>1, <2>1 DEF TypeOK
  <2>4. ASSUME NEW q \in Readers
        PROVE  /\ result'[q] = "ok" =>
                    /\ got'[q] = [i \in 1..(hi'[q] - lo'[q] + 1) |-> lo'[q] + i - 1]
                    /\ \A k \in lo'[q]..hi'[q] : k \notin Corrupt
               /\ result'[q] = "error" =>
                    \E k \in Corrupt : lo'[q] <= k /\ k <= hi'[q]
    <3>1. CASE q = r
      BY <1>6, <2>1, <2>3, <3>1
    <3>2. CASE q # r
      BY <1>1, <2>1, <2>2, <3>2 DEF ReadsAreRight
    <3> QED
      BY <3>1, <3>2
  <2> QED
    BY <2>4 DEF ReadsAreRight
<1> QED
  BY <1>2, <1>3, <1>4, <1>5, <1>7 DEF IInv

-----------------------------------------------------------------------------
(* Every step keeps the invariant.                                         *)
LEMMA NextInv == IInv /\ [Next]_vars => IInv'
<1> SUFFICES ASSUME IInv, [Next]_vars PROVE IInv'
  OBVIOUS
<1>1. ASSUME NEW r \in Readers, NEW a \in Segs, NEW b \in Segs, StartRead(r, a, b)
      PROVE  IInv'
  BY <1>1, StartReadInv
<1>2. ASSUME NEW r \in Readers, ReaderStep(r) PROVE IInv'
  BY <1>2, ScanInv, ScanDoneInv, WorkersDoneInv, ReadHitInv, ReadInflateInv,
     ReadPutInv, ReadDoneInv DEF ReaderStep
<1>3. ASSUME NEW r \in Readers, NEW w \in Workers, WorkerStep(r, w) PROVE IInv'
  BY <1>3, WorkerNextInv, WorkerGetInv, WorkerPutInv DEF WorkerStep
<1>4. CASE UNCHANGED vars
  <2>1. TypeOK' /\ LruInv'
    BY <1>4 DEF IInv, TypeOK, LruInv, OrderIsKeys, PayloadsGood, Cached, vars, lru, svars
  <2>2. JobsGood' /\ NoStrayWorkers' /\ ReadsAreRight'
    BY <1>4 DEF IInv, JobsGood, NoStrayWorkers, ReadsAreRight, vars, svars
  <2>3. ASSUME NEW r \in Readers PROVE ReaderInv(r)'
    <3>1. ReaderInv(r) /\ UNCHANGED <<pc, pos, lo, hi, rjob, got, result>>
      BY <1>4 DEF IInv, vars, svars
    <3> QED
      BY <3>1 DEF ReaderInv
  <2> QED
    BY <2>1, <2>2, <2>3 DEF IInv
<1> QED
  BY <1>1, <1>2, <1>3, <1>4 DEF Next

(* The inductive invariant holds of every behaviour.                       *)
THEOREM Invariance == Spec => []IInv
BY InitInv, NextInv, PTL DEF Spec

(* The state of the cache and of its users keeps its type (Reader, lru).   *)
THEOREM TypeCorrect == Spec => []TypeOK
<1>1. IInv => TypeOK
  BY DEF IInv
<1> QED
  BY <1>1, Invariance, PTL

(* The LRU list and the map of cached payloads agree under every           *)
(* interleaving of get and put (cache.go).                                 *)
THEOREM CacheBookkeeping == Spec => []OrderIsKeys
<1>1. IInv => OrderIsKeys
  BY DEF IInv, LruInv
<1> QED
  BY <1>1, Invariance, PTL

(* No goroutine started by prefetch outlives its ReadAt.                   *)
THEOREM WorkersJoined == Spec => []NoStrayWorkers
<1>1. IInv => NoStrayWorkers
  BY DEF IInv
<1> QED
  BY <1>1, Invariance, PTL

(* Every ReadAt that returns has delivered the right payloads, or reports  *)
(* a block that is corrupt, whatever others cached or evicted meanwhile    *)
(* (Reader.ReadAt, prefetch, decompressed).                                *)
THEOREM ReadsCorrect == Spec => []ReadsAreRight
<1>1. IInv => ReadsAreRight
  BY DEF IInv
<1> QED
  BY <1>1, Invariance, PTL

-----------------------------------------------------------------------------
(* Sums of payload sizes.                                                  *)

First(s) == CHOOSE x \in s : TRUE

(* h adds up the sizes of every subset of S, as MapThenSumSet does.        *)
Adds(S, h) ==
    h = [s \in SUBSET S |-> IF s = {} THEN 0 ELSE Size[First(s)] + h[s \ {First(s)}]]

(* Finite sets of keys, by the number of their elements.                   *)
Finite == {s \in SUBSET Keys : IsFiniteSet(s)}

(* An element less.                                                        *)
LEMMA OneLess ==
    ASSUME NEW s \in Finite, NEW x \in s
    PROVE  /\ s \ {x} \in Finite /\ s \ {x} # s /\ s \ {x} \subseteq s
           /\ Cardinality(s) \in Nat /\ Cardinality(s \ {x}) \in Nat
           /\ Cardinality(s \ {x}) < Cardinality(s)
<1>1. IsFiniteSet(s \ {x}) /\ Cardinality(s \ {x}) = Cardinality(s) - 1
  BY FS_RemoveElement DEF Finite
<1>2. Cardinality(s) \in Nat /\ Cardinality(s \ {x}) \in Nat
  BY <1>1, FS_CardinalityType DEF Finite
<1> QED
  BY <1>1, <1>2 DEF Finite

(* Of the sets with some property, one has the fewest elements.            *)
LEMMA Least ==
    ASSUME NEW C, C \subseteq Finite, C # {}
    PROVE  \E s \in C : \A t \in C : ~(Cardinality(t) < Cardinality(s))
<1> DEFINE N == {Cardinality(s) : s \in C}
<1>1. N \subseteq Nat /\ N # {}
  BY FS_CardinalityType DEF Finite
<1> HIDE DEF N
<1>2. PICK n \in N : \A m \in N : ~(<<m, n>> \in OpToRel(<, Nat))
  BY <1>1, NatLessThanWellFounded, WFMin
<1>3. \A m \in N : ~(m < n)
  BY <1>1, <1>2 DEF OpToRel
<1> QED
  BY <1>2, <1>3 DEF N

(* A subset of a finite set is smaller.                                    *)
LEMMA Smaller ==
    ASSUME NEW s \in Finite, NEW t, t \subseteq s, t # s
    PROVE  t \in Finite /\ Cardinality(t) < Cardinality(s)
<1>1. IsFiniteSet(t) /\ Cardinality(t) <= Cardinality(s)
  BY FS_Subset DEF Finite
<1>2. Cardinality(t) # Cardinality(s)
  BY <1>1, FS_Subset DEF Finite
<1>3. Cardinality(s) \in Nat /\ Cardinality(t) \in Nat
  BY <1>1, FS_CardinalityType DEF Finite
<1> QED
  BY <1>1, <1>2, <1>3 DEF Finite

(* The first of a set is one of it.                                        *)
LEMMA FirstIn ==
    ASSUME NEW s, s # {}
    PROVE  First(s) \in s
  BY DEF First

(* Two ways to add up agree.                                               *)
LEMMA AddsUnique ==
    ASSUME NEW S, NEW T, NEW g, NEW h, Adds(S, g), Adds(T, h),
           NEW u \in Finite, u \subseteq S, u \subseteq T
    PROVE  g[u] = h[u]
<1> DEFINE C == {s \in Finite : s \subseteq S /\ s \subseteq T /\ g[s] # h[s]}
<1>1. SUFFICES ASSUME g[u] # h[u] PROVE FALSE
  OBVIOUS
<1>2. C \subseteq Finite /\ u \in C
  BY <1>1
<1>3. PICK s \in C : \A t \in C : ~(Cardinality(t) < Cardinality(s))
  <2> HIDE DEF C
  <2> QED
    BY <1>2, Least
<1>4. /\ g[s] = IF s = {} THEN 0 ELSE Size[First(s)] + g[s \ {First(s)}]
      /\ h[s] = IF s = {} THEN 0 ELSE Size[First(s)] + h[s \ {First(s)}]
  <2>1. s \in SUBSET S /\ s \in SUBSET T
    OBVIOUS
  <2> QED
    BY <2>1, Zenon DEF Adds
<1>5. s # {} /\ s \in Finite /\ g[s] # h[s]
  BY <1>4
<1>6. First(s) \in s
  BY <1>5, FirstIn
<1>7. PICK t : t = s \ {First(s)}
  OBVIOUS
<1>8. t \in Finite /\ t \subseteq s /\ Cardinality(t) < Cardinality(s)
  BY <1>5, <1>6, <1>7, OneLess
<1>9. g[t] # h[t]
  BY <1>4, <1>5, <1>7
<1>10. t \in C
  BY <1>8, <1>9
<1> QED
  BY <1>3, <1>8, <1>10

(* What MapThenSumSet gives.                                               *)
LEMMA BytesIs ==
    ASSUME NEW S
    PROVE  Bytes(S) = (CHOOSE h : Adds(S, h))[S]
  BY Zenon DEF Bytes, MapThenSumSet, MapThenFoldSet, Adds, First

(* Every finite set of keys can be added up.                               *)
LEMMA AddsExists ==
    ASSUME NEW S \in Finite
    PROVE  \E h : Adds(S, h)
<1> DEFINE C == {s \in Finite : ~\E h : Adds(s, h)}
<1>1. SUFFICES ASSUME ~\E h : Adds(S, h) PROVE FALSE
  OBVIOUS
<1>2. C \subseteq Finite /\ S \in C
  BY <1>1
<1>3. PICK s \in C : \A t \in C : ~(Cardinality(t) < Cardinality(s))
  <2> HIDE DEF C
  <2> QED
    BY <1>2, Least
<1>4. s \in Finite /\ ~\E h : Adds(s, h)
  OBVIOUS
<1>5. ASSUME NEW t, t \subseteq s, t # s
      PROVE  t \in Finite /\ \E h : Adds(t, h)
  <2>1. t \in Finite /\ Cardinality(t) < Cardinality(s)
    BY <1>4, <1>5, Smaller
  <2> QED
    BY <1>3, <2>1
<1>6. ASSUME NEW t, t \subseteq s, t # s, t # {}
      PROVE  Bytes(t) = Size[First(t)] + Bytes(t \ {First(t)})
  <2>1. PICK r : r = t \ {First(t)}
    OBVIOUS
  <2>2. First(t) \in t /\ t \in Finite
    BY <1>5, <1>6, FirstIn
  <2>3. r \subseteq t /\ r \subseteq s /\ r # s /\ r \in Finite
    BY <1>4, <1>6, <2>1, <2>2, OneLess
  <2>4. PICK g, h : g = (CHOOSE f : Adds(t, f)) /\ h = (CHOOSE f : Adds(r, f))
    OBVIOUS
  <2>5. Adds(t, g) /\ Adds(r, h)
    <3>1. (\E f : Adds(t, f)) /\ (\E f : Adds(r, f))
      BY <1>5, <1>6, <2>3
    <3> QED
      BY <2>4, <3>1, Zenon
  <2>6. g[t] = Size[First(t)] + g[r]
    <3>1. t \in SUBSET t
      OBVIOUS
    <3> QED
      BY <1>6, <2>1, <2>5, <3>1, Zenon DEF Adds
  <2>7. g[r] = h[r]
    BY <2>3, <2>5, AddsUnique
  <2>8. Bytes(t) = g[t] /\ Bytes(r) = h[r]
    BY <2>4, BytesIs
  <2> QED
    BY <2>1, <2>6, <2>7, <2>8
<1> DEFINE g == [t \in SUBSET s |-> IF t = {} THEN 0
                                    ELSE IF t = s THEN Size[First(s)] + Bytes(s \ {First(s)})
                                    ELSE Bytes(t)]
<1>7. Bytes({}) = 0
  <2>1. Adds({}, [t \in SUBSET {} |-> 0])
    BY DEF Adds
  <2>2. PICK h : h = (CHOOSE f : Adds({}, f))
    OBVIOUS
  <2>3. Adds({}, h)
    BY <2>1, <2>2, Zenon
  <2>4. h[{}] = 0
    BY <2>3 DEF Adds
  <2> QED
    BY <2>2, <2>4, BytesIs
<1>8. ASSUME NEW t \in SUBSET s
      PROVE  g[t] = IF t = {} THEN 0 ELSE Size[First(t)] + g[t \ {First(t)}]
  <2>1. CASE t = {}
    BY <2>1
  <2>2. CASE t # {}
    <3>1. PICK r : r = t \ {First(t)}
      OBVIOUS
    <3>2. First(t) \in t /\ r \in SUBSET s /\ r # s
      BY <2>2, <3>1, FirstIn
    <3>3. g[r] = Bytes(r)
      BY <1>7, <3>2
    <3>4. g[t] = Size[First(t)] + Bytes(r)
      BY <1>6, <2>2, <3>1
    <3> QED
      BY <2>2, <3>1, <3>3, <3>4
  <2> QED
    BY <2>1, <2>2
<1>9. Adds(s, g)
  <2>1. g = [t \in SUBSET s |-> g[t]]
    OBVIOUS
  <2> HIDE DEF g
  <2> QED
    BY <1>8, <2>1 DEF Adds
<1> QED
  BY <1>4, <1>9

(* The sum over no key, and over a key and the others.                     *)
LEMMA BytesFirst ==
    /\ Bytes({}) = 0
    /\ \A S \in Finite : S # {} => Bytes(S) = Size[First(S)] + Bytes(S \ {First(S)})
<1>1. {} \in Finite
  BY FS_EmptySet DEF Finite
<1>2. ASSUME NEW S \in Finite
      PROVE  \E h : Adds(S, h) /\ Bytes(S) = h[S] /\ S \in SUBSET S
  <2>1. PICK h : h = (CHOOSE f : Adds(S, f))
    OBVIOUS
  <2>2. Adds(S, h)
    BY <2>1, AddsExists, Zenon
  <2> QED
    BY <2>1, <2>2, BytesIs
<1>3. Bytes({}) = 0
  <2>1. PICK h : Adds({}, h) /\ Bytes({}) = h[{}] /\ {} \in SUBSET {}
    BY <1>1, <1>2
  <2> QED
    BY <2>1, Zenon DEF Adds
<1>4. ASSUME NEW S \in Finite, S # {}
      PROVE  Bytes(S) = Size[First(S)] + Bytes(S \ {First(S)})
  <2>1. PICK t : t = S \ {First(S)}
    OBVIOUS
  <2>2. t \in Finite /\ t \subseteq S
    BY <1>4, <2>1, FirstIn, OneLess
  <2>3. PICK g : Adds(S, g) /\ Bytes(S) = g[S] /\ S \in SUBSET S
    BY <1>2
  <2>4. PICK h : Adds(t, h) /\ Bytes(t) = h[t]
    BY <1>2, <2>2
  <2>5. g[t] = h[t]
    BY <2>2, <2>3, <2>4, AddsUnique
  <2>6. g[S] = Size[First(S)] + g[t]
    BY <1>4, <2>1, <2>3, Zenon DEF Adds
  <2> QED
    BY <2>1, <2>3, <2>4, <2>5, <2>6
<1> QED
  BY <1>3, <1>4

(* A sum of sizes is a number.                                             *)
LEMMA BytesType ==
    ASSUME NEW S \in Finite
    PROVE  Bytes(S) \in Nat
<1> DEFINE C == {s \in Finite : Bytes(s) \notin Nat}
<1>1. SUFFICES ASSUME Bytes(S) \notin Nat PROVE FALSE
  OBVIOUS
<1>2. C \subseteq Finite /\ S \in C
  BY <1>1
<1>3. PICK s \in C : \A t \in C : ~(Cardinality(t) < Cardinality(s))
  <2> HIDE DEF C
  <2> QED
    BY <1>2, Least
<1>4. s \in Finite /\ Bytes(s) \notin Nat
  OBVIOUS
<1>5. s # {}
  <2>1. Bytes({}) = 0 /\ 0 \in Nat
    BY BytesFirst
  <2> QED
    BY <1>4, <2>1, Zenon
<1>6. PICK x, t : x = First(s) /\ t = s \ {x}
  OBVIOUS
<1>7. x \in s /\ t \in Finite /\ Cardinality(t) < Cardinality(s)
  BY <1>4, <1>5, <1>6, FirstIn, OneLess
<1>8. Bytes(t) \in Nat
  BY <1>3, <1>7
<1>9. Bytes(s) = Size[x] + Bytes(t)
  BY <1>4, <1>5, <1>6, BytesFirst
<1>10. Size[x] \in Nat
  BY <1>4, <1>7, LruAssumption DEF Finite
<1> QED
  BY <1>4, <1>8, <1>9, <1>10

(* The sum does not depend on which key is taken first.                    *)
LEMMA BytesWithout ==
    ASSUME NEW S \in Finite, NEW x \in S
    PROVE  Bytes(S) = Size[x] + Bytes(S \ {x})
<1> DEFINE C == {s \in Finite : \E y \in s : Bytes(s) # Size[y] + Bytes(s \ {y})}
<1>1. SUFFICES ASSUME Bytes(S) # Size[x] + Bytes(S \ {x}) PROVE FALSE
  OBVIOUS
<1>2. C \subseteq Finite /\ S \in C
  BY <1>1
<1>3. PICK s \in C : \A t \in C : ~(Cardinality(t) < Cardinality(s))
  <2> HIDE DEF C
  <2> QED
    BY <1>2, Least
<1>4. s \in Finite
  OBVIOUS
<1>5. PICK y \in s : Bytes(s) # Size[y] + Bytes(s \ {y})
  OBVIOUS
<1>6. ASSUME NEW t \in Finite, Cardinality(t) < Cardinality(s), NEW z \in t
      PROVE  Bytes(t) = Size[z] + Bytes(t \ {z})
  BY <1>3, <1>6
<1>7. PICK f : f = First(s)
  OBVIOUS
<1>8. f \in s /\ Bytes(s) = Size[f] + Bytes(s \ {f})
  BY <1>4, <1>5, <1>7, FirstIn, BytesFirst
<1>9. f # y
  BY <1>5, <1>8
<1>10. PICK a, b, c : a = s \ {f} /\ b = s \ {y} /\ c = a \ {y}
  OBVIOUS
<1>11. c = b \ {f} /\ y \in a /\ f \in b
  BY <1>8, <1>9, <1>10
<1>12. /\ a \in Finite /\ Cardinality(a) < Cardinality(s)
       /\ b \in Finite /\ Cardinality(b) < Cardinality(s)
  BY <1>4, <1>8, <1>10, OneLess
<1>13. Bytes(a) = Size[y] + Bytes(c) /\ Bytes(b) = Size[f] + Bytes(c)
  BY <1>6, <1>10, <1>11, <1>12
<1>14. Bytes(c) \in Nat /\ Size[y] \in Nat /\ Size[f] \in Nat
  <2>1. c \in Finite
    <3>1. a \ {y} \in Finite
      BY <1>11, <1>12, OneLess
    <3> QED
      BY <1>10, <3>1
  <2>2. y \in Keys /\ f \in Keys
    BY <1>4, <1>8 DEF Finite
  <2> QED
    BY <2>1, <2>2, BytesType, LruAssumption
<1> QED
  BY <1>5, <1>8, <1>10, <1>13, <1>14

(* The sum over two disjoint sets.                                         *)
LEMMA BytesUnion ==
    ASSUME NEW A \in Finite, NEW B \in Finite, A \intersect B = {}
    PROVE  A \union B \in Finite /\ Bytes(A \union B) = Bytes(A) + Bytes(B)
<1>0. ASSUME NEW T \in Finite PROVE A \union T \in Finite
  BY FS_Union DEF Finite
<1> DEFINE C == {s \in Finite : A \intersect s = {} /\ Bytes(A \union s) # Bytes(A) + Bytes(s)}
<1>1. SUFFICES ASSUME Bytes(A \union B) # Bytes(A) + Bytes(B) PROVE FALSE
  BY <1>0
<1>2. C \subseteq Finite /\ B \in C
  BY <1>1
<1>3. PICK s \in C : \A t \in C : ~(Cardinality(t) < Cardinality(s))
  <2> HIDE DEF C
  <2> QED
    BY <1>2, Least
<1>4. s \in Finite /\ A \intersect s = {} /\ Bytes(A \union s) # Bytes(A) + Bytes(s)
  OBVIOUS
<1>5. s # {}
  <2>1. s = {} => Bytes(A \union s) = Bytes(A) /\ Bytes(s) = 0
    <3>1. A \union {} = A
      OBVIOUS
    <3> QED
      BY <3>1, BytesFirst
  <2>2. Bytes(A) \in Nat
    BY BytesType
  <2> QED
    BY <1>4, <2>1, <2>2
<1>6. PICK y \in s : TRUE
  BY <1>5
<1>7. PICK t, u : t = s \ {y} /\ u = A \union s
  OBVIOUS
<1>8. /\ t \in Finite /\ Cardinality(t) < Cardinality(s) /\ A \intersect t = {}
  BY <1>4, <1>7, OneLess
<1>9. Bytes(A \union t) = Bytes(A) + Bytes(t)
  BY <1>3, <1>8
<1>10. u \in Finite /\ y \in u /\ u \ {y} = A \union t
  BY <1>0, <1>4, <1>7
<1>11. Bytes(u) = Size[y] + Bytes(A \union t) /\ Bytes(s) = Size[y] + Bytes(t)
  BY <1>4, <1>7, <1>10, BytesWithout
<1>12. Size[y] \in Nat /\ Bytes(A) \in Nat /\ Bytes(t) \in Nat
  <2>1. y \in Keys
    BY <1>4 DEF Finite
  <2> QED
    BY <1>8, <2>1, BytesType, LruAssumption
<1> QED
  BY <1>4, <1>7, <1>9, <1>11, <1>12

-----------------------------------------------------------------------------
(* The budget.                                                             *)

(* All sets of keys are finite.                                            *)
LEMMA KeysFinite ==
    ASSUME NEW S, S \subseteq Keys
    PROVE  S \in Finite
<1>1. IsFiniteSet(Keys)
  BY FS_Interval
<1>2. IsFiniteSet(S)
  BY <1>1, FS_Subset
<1> QED
  BY <1>2 DEF Finite

Oldest(n) == {order[i] : i \in 1..n}
Newest(n) == {order[i] : i \in (n + 1)..Len(order)}

(* A put of a new key drops the oldest payloads and keeps the others.      *)
LEMMA PutSplits ==
    ASSUME LruInv, NEW key \in Keys, PutNew(key), NEW n, n = Evicted(key)
    PROVE  /\ n \in 0..Len(order) /\ Len(order) \in Nat /\ DOMAIN order = 1..Len(order)
           /\ \A i \in 1..Len(order) : order[i] \in Keys
           /\ Stops(key, n) /\ \A m \in 0..(n - 1) : ~Stops(key, m)
           /\ Cached = Oldest(n) \union Newest(n) /\ Oldest(n) \intersect Newest(n) = {}
           /\ Cached' = Newest(n) \union {key} /\ key \notin Cached
           /\ size' = SizeAfter(key, n)
<1>0. Stops(key, n) /\ \A m \in 0..(n - 1) : ~Stops(key, m)
  BY EvictedInRange DEF LruInv
<1>1. /\ n \in 0..Len(order) /\ Len(order) \in Nat /\ DOMAIN order = 1..Len(order)
      /\ \A i \in 1..Len(order) : order[i] \in Keys
  BY EvictedInRange, LenProperties, ElementOfSeq DEF LruInv
<1>2. PICK kept : kept = SubSeq(order, n + 1, Len(order))
  OBVIOUS
<1>3. /\ kept \in Seq(Keys) /\ Len(kept) = Len(order) - n
      /\ \A i \in 1..(Len(order) - n) : kept[i] = order[n + i]
  <2>1. \A i \in (n + 1)..Len(order) : order[i] \in Keys
    BY <1>1
  <2>2. /\ kept \in Seq(Keys)
        /\ Len(kept) = IF n + 1 <= Len(order) THEN Len(order) - (n + 1) + 1 ELSE 0
        /\ \A i \in 1..(Len(order) - (n + 1) + 1) : kept[i] = order[n + 1 + i - 1]
    BY <1>1, <1>2, <2>1, SubSeqProperties, SMTT(30)
  <2>3. Len(kept) = Len(order) - n
    BY <1>1, <2>2
  <2>4. ASSUME NEW i \in 1..(Len(order) - n) PROVE kept[i] = order[n + i]
    <3>1. i \in 1..(Len(order) - (n + 1) + 1) /\ n + 1 + i - 1 = n + i
      BY <1>1
    <3>2. kept[i] = order[n + 1 + i - 1]
      BY <2>2, <3>1
    <3> QED
      BY <3>1, <3>2
  <2> QED
    BY <2>2, <2>3, <2>4
<1>4. DOMAIN kept = 1..(Len(order) - n)
  BY <1>3, LenProperties
<1>5. {kept[i] : i \in DOMAIN kept} = Newest(n)
  <2>1. ASSUME NEW i \in DOMAIN kept PROVE kept[i] \in Newest(n)
    <3>1. n + i \in (n + 1)..Len(order) /\ i \in 1..(Len(order) - n)
      BY <1>1, <1>4
    <3>2. kept[i] = order[n + i]
      BY <1>3, <3>1
    <3> QED
      BY <3>1, <3>2 DEF Newest
  <2>2. ASSUME NEW i \in (n + 1)..Len(order) PROVE order[i] \in {kept[j] : j \in DOMAIN kept}
    <3>1. i - n \in DOMAIN kept /\ kept[i - n] = order[n + (i - n)] /\ n + (i - n) = i
      BY <1>1, <1>3, <1>4
    <3> QED
      BY <3>1
  <2> QED
    BY <2>1, <2>2 DEF Newest
<1>6. Cached' = Newest(n) \union {key} /\ key \notin Cached /\ size' = SizeAfter(key, n)
  <2>1. /\ entries' = [k \in {kept[i] : i \in DOMAIN kept} \union {key} |->
                          IF k = key THEN key ELSE entries[k]]
        /\ key \notin Cached /\ size' = SizeAfter(key, n)
    BY <1>2, Zenon DEF PutNew
  <2> QED
    BY <1>5, <2>1 DEF Cached
<1>7. Cached = Oldest(n) \union Newest(n) /\ Oldest(n) \intersect Newest(n) = {}
  <2>1. Cached = {order[i] : i \in 1..Len(order)} /\ \A i, j \in 1..Len(order) : order[i] = order[j] => i = j
    BY <1>1 DEF LruInv, OrderIsKeys
  <2>2. 1..Len(order) = (1..n) \union ((n + 1)..Len(order))
    BY <1>1
  <2>3. Cached = Oldest(n) \union Newest(n)
    BY <2>1, <2>2 DEF Oldest, Newest
  <2>4. \A i \in 1..n, j \in (n + 1)..Len(order) : order[i] # order[j]
    BY <1>1, <2>1, <2>2
  <2> QED
    BY <2>3, <2>4 DEF Oldest, Newest
<1> QED
  BY <1>0, <1>1, <1>6, <1>7

(* put keeps the count of bytes right and the budget (cache.go: put).      *)
LEMMA PutKeepsBudget ==
    ASSUME LruInv, SizeIsHeld, NEW key \in Keys, PutNew(key)
    PROVE  BudgetKept'
<1>1. PICK n : n = Evicted(key)
  OBVIOUS
<1>2. /\ n \in 0..Len(order) /\ Len(order) \in Nat /\ Stops(key, n)
      /\ Cached = Oldest(n) \union Newest(n) /\ Oldest(n) \intersect Newest(n) = {}
      /\ Cached' = Newest(n) \union {key} /\ key \notin Cached
      /\ size' = SizeAfter(key, n)
  BY <1>1, PutSplits
<1>3. PICK old, new, all : old = Oldest(n) /\ new = Newest(n) /\ all = new \union {key}
  OBVIOUS
<1>4. old \in Finite /\ new \in Finite /\ all \in Finite
  <2>1. Cached \subseteq Keys
    BY DEF LruInv
  <2> QED
    BY <1>2, <1>3, <2>1, KeysFinite
<1>5. size = Bytes(old) + Bytes(new)
  BY <1>2, <1>3, <1>4, BytesUnion DEF SizeIsHeld
<1>6. Bytes(all) = Size[key] + Bytes(new)
  <2>1. all \ {key} = new /\ key \in all
    BY <1>2, <1>3
  <2> QED
    BY <1>4, <2>1, BytesWithout
<1>7. size' = size - Bytes(old) + Size[key]
  BY <1>2, <1>3 DEF SizeAfter, SizeOfOldest, Oldest
<1>8. Bytes(old) \in Nat /\ Bytes(new) \in Nat /\ Size[key] \in Nat
  BY <1>4, BytesType, LruAssumption
<1>9. size' = Bytes(all)
  BY <1>5, <1>6, <1>7, <1>8
<1>10. SizeIsHeld'
  <2>1. Bytes(Cached)' = Bytes(Cached')
    OBVIOUS
  <2> QED
    BY <1>2, <1>3, <1>9, <2>1 DEF SizeIsHeld
<1>11. WithinBudget'
  <2>1. CASE n = Len(order)
    <3>1. new = {}
      BY <1>2, <1>3, <2>1 DEF Newest
    <3>2. Cached' = {key}
      BY <1>2, <1>3, <3>1
    <3> QED
      BY <3>2, FS_Singleton DEF WithinBudget
  <2>2. CASE n # Len(order)
    <3>1. size - SizeOfOldest(n) + Size[key] <= Budget
      BY <1>2, <2>2 DEF Stops
    <3> QED
      BY <1>2, <3>1 DEF SizeAfter, WithinBudget
  <2> QED
    BY <2>1, <2>2
<1> QED
  BY <1>10, <1>11 DEF BudgetKept

(* put evicts the oldest payloads, and no more than it must.               *)
LEMMA PutEvicts ==
    ASSUME LruInv, NEW key \in Keys, PutNew(key), NEW gone, size \in Nat,
           gone = {i \in DOMAIN order : order[i] \notin Cached'}, gone # {}
    PROVE  gone = 1..Max(gone) /\ size' + Size[order[Max(gone)]] > Budget
<1>1. PICK n : n = Evicted(key)
  OBVIOUS
<1>2. /\ n \in 0..Len(order) /\ Len(order) \in Nat /\ DOMAIN order = 1..Len(order)
      /\ \A i \in 1..Len(order) : order[i] \in Keys
      /\ \A m \in 0..(n - 1) : ~Stops(key, m)
      /\ Cached = Oldest(n) \union Newest(n) /\ Oldest(n) \intersect Newest(n) = {}
      /\ Cached' = Newest(n) \union {key} /\ key \notin Cached
      /\ size' = SizeAfter(key, n)
  BY <1>1, PutSplits
<1>3. gone = 1..n
  <2>1. ASSUME NEW i \in 1..n PROVE i \in gone
    <3>1. i \in DOMAIN order /\ order[i] \in Oldest(n)
      BY <1>2 DEF Oldest
    <3> QED
      BY <1>2, <3>1
  <2>2. ASSUME NEW i \in gone PROVE i \in 1..n
    <3>1. i \in 1..Len(order) /\ order[i] \notin Newest(n)
      BY <1>2
    <3>2. i \notin (n + 1)..Len(order)
      BY <3>1 DEF Newest
    <3> QED
      BY <1>2, <3>1, <3>2
  <2> QED
    BY <2>1, <2>2
<1>4. n >= 1 /\ n \in Nat
  BY <1>2, <1>3
<1>5. Max(gone) = n
  <2>1. n \in gone /\ \A y \in gone : n >= y
    BY <1>3, <1>4
  <2>2. \A x \in gone : (\A y \in gone : x >= y) => x = n
    BY <1>3, <1>4, <2>1
  <2> QED
    BY <2>1, <2>2 DEF Max
<1>6. PICK a, b, k : a = Oldest(n) /\ b = Oldest(n - 1) /\ k = order[n]
  OBVIOUS
<1>7. k \in a /\ a \ {k} = b /\ a \in Finite /\ b \in Finite /\ k \in Keys
  <2>1. \A i, j \in 1..Len(order) : order[i] = order[j] => i = j
    BY <1>2 DEF LruInv, OrderIsKeys
  <2>2. 1..n = (1..(n - 1)) \union {n} /\ n \in 1..Len(order) /\ 1..n \subseteq 1..Len(order) /\ n \notin 1..(n - 1)
    BY <1>2, <1>4
  <2>3. a = b \union {k} /\ k \notin b
    <3>1. \A i \in 1..(n - 1) : order[i] # k
      BY <1>6, <2>1, <2>2
    <3> QED
      BY <1>6, <2>2, <3>1 DEF Oldest
  <2>4. a \subseteq Keys /\ b \subseteq Keys /\ k \in Keys
    BY <1>2, <1>6, <2>2 DEF Oldest
  <2> QED
    BY <2>3, <2>4, KeysFinite
<1>8. Bytes(a) = Size[k] + Bytes(b)
  BY <1>7, BytesWithout
<1>9. ~(size - Bytes(b) + Size[key] <= Budget)
  <2>1. n - 1 \in 0..(n - 1)
    BY <1>4
  <2>2. ~Stops(key, n - 1)
    BY <1>2, <2>1
  <2> QED
    BY <1>6, <2>2 DEF Stops, SizeOfOldest, Oldest
<1>10. size' = size - Bytes(a) + Size[key]
  BY <1>2, <1>6 DEF SizeAfter, SizeOfOldest, Oldest
<1>11. Bytes(a) \in Nat /\ Bytes(b) \in Nat /\ Size[key] \in Nat /\ Size[k] \in Nat /\ Budget \in Nat
  BY <1>7, BytesType, LruAssumption
<1>12. size' + Size[k] > Budget
  BY <1>8, <1>9, <1>10, <1>11, SMTT(30)
<1> QED
  BY <1>3, <1>5, <1>6, <1>12

(* The cache is changed by get and put alone.                              *)
LEMMA CacheSteps ==
    ASSUME IInv, [Next]_vars
    PROVE  UNCHANGED lru \/ \E key \in Keys : GetHit(key) \/ PutNew(key)
<1>0. Cached \subseteq Keys
  BY DEF IInv, LruInv
<1>1. \A key : GetHit(key) => key \in Keys
  BY <1>0 DEF GetHit
<1>2. ASSUME NEW r \in Readers, ReaderStep(r)
      PROVE  UNCHANGED lru \/ \E key \in Keys : GetHit(key) \/ PutNew(key)
  <2>1. CASE Scan(r)
    BY <1>1, <2>1 DEF Scan
  <2>2. CASE ScanDone(r) \/ WorkersDone(r) \/ ReadInflate(r) \/ ReadDone(r)
    BY <2>2 DEF ScanDone, WorkersDone, ReadInflate, ReadDone
  <2>3. CASE ReadHit(r)
    BY <1>1, <2>3 DEF ReadHit
  <2>4. CASE ReadPut(r)
    <3>1. rjob[r].at = "put" /\ (GetHit(rjob[r].seg) \/ PutNew(rjob[r].seg))
      BY <2>4 DEF ReadPut, Put
    <3>2. rjob[r].seg \in Keys
      <4>1. rjob[r] = At("put", pos[r]) /\ pos[r] <= hi[r] /\ hi[r] <= NSeg /\ pos[r] \in 1..(NSeg + 1) /\ hi[r] \in Nat
        BY <3>1 DEF IInv, ReaderInv, Idle, At, TypeOK
      <4> QED
        BY <4>1 DEF At
    <3> QED
      BY <3>1, <3>2
  <2> QED
    BY <1>2, <2>1, <2>2, <2>3, <2>4 DEF ReaderStep
<1>3. ASSUME NEW r \in Readers, NEW w \in Workers, WorkerStep(r, w)
      PROVE  UNCHANGED lru \/ \E key \in Keys : GetHit(key) \/ PutNew(key)
  <2>1. CASE WorkerNext(r, w)
    BY <2>1 DEF WorkerNext
  <2>2. CASE WorkerGet(r, w)
    BY <1>1, <2>2 DEF WorkerGet
  <2>3. CASE WorkerPut(r, w)
    <3>1. job[r][w].at = "put" /\ (GetHit(job[r][w].seg) \/ PutNew(job[r][w].seg))
      BY <2>3 DEF WorkerPut, Put
    <3>2. job[r][w].seg \in Keys
      BY <3>1 DEF IInv, JobsGood
    <3> QED
      BY <3>1, <3>2
  <2> QED
    BY <1>3, <2>1, <2>2, <2>3 DEF WorkerStep
<1>4. ASSUME NEW r \in Readers, NEW a \in Segs, NEW b \in Segs, StartRead(r, a, b)
      PROVE  UNCHANGED lru
  BY <1>4 DEF StartRead
<1>5. CASE UNCHANGED vars
  BY <1>5 DEF vars
<1> QED
  BY <1>2, <1>3, <1>4, <1>5 DEF Next

(* The size of the cache is the bytes it holds, and stays in the budget    *)
(* but for a payload that is larger and cached alone, under every          *)
(* interleaving of get and put (cache.go: put).                            *)
THEOREM CacheInBudget == Spec => []BudgetKept
<1>1. Init => BudgetKept
  <2> SUFFICES ASSUME Init PROVE BudgetKept
    OBVIOUS
  <2>1. Cached = {} /\ size = 0
    BY DEF Init, LruInit, Cached
  <2> QED
    BY <2>1, BytesFirst, LruAssumption DEF BudgetKept, SizeIsHeld, WithinBudget
<1>2. IInv /\ BudgetKept /\ [Next]_vars => BudgetKept'
  <2> SUFFICES ASSUME IInv, BudgetKept, [Next]_vars PROVE BudgetKept'
    OBVIOUS
  <2>1. LruInv /\ SizeIsHeld
    BY DEF IInv, BudgetKept
  <2>2. CASE UNCHANGED lru
    BY <2>2 DEF lru, BudgetKept, SizeIsHeld, WithinBudget, Cached
  <2>3. ASSUME NEW key \in Keys, GetHit(key) PROVE BudgetKept'
    BY <2>3 DEF GetHit, BudgetKept, SizeIsHeld, WithinBudget, Cached
  <2>4. ASSUME NEW key \in Keys, PutNew(key) PROVE BudgetKept'
    BY <2>1, <2>4, PutKeepsBudget
  <2> QED
    BY <2>2, <2>3, <2>4, CacheSteps
<1> QED
  BY <1>1, <1>2, Invariance, PTL DEF Spec

(* No step evicts another payload than the least recently used ones, or    *)
(* more of them than the new payload needs (cache.go: put).                *)
THEOREM EvictsTheOldest == Spec => EvictsOnlyWhatItMust
<1> DEFINE A == LET gone == {i \in DOMAIN order : order[i] \notin Cached'}
                IN gone # {} => /\ gone = 1..Max(gone)
                                /\ size' + Size[order[Max(gone)]] > Budget
<1>1. IInv /\ BudgetKept /\ [Next]_vars => [A]_lru
  <2> SUFFICES ASSUME IInv, BudgetKept, [Next]_vars, ~UNCHANGED lru,
                      NEW gone, gone = {i \in DOMAIN order : order[i] \notin Cached'}, gone # {}
               PROVE  /\ gone = 1..Max(gone)
                      /\ size' + Size[order[Max(gone)]] > Budget
    BY Zenon
  <2>1. LruInv /\ SizeIsHeld
    BY DEF IInv, BudgetKept
  <2>2. size \in Nat
    <3>1. Cached \in Finite
      BY <2>1, KeysFinite DEF LruInv
    <3> QED
      BY <2>1, <3>1, BytesType DEF SizeIsHeld
  <2>3. ASSUME NEW key \in Keys, GetHit(key) PROVE FALSE
    BY <2>1, <2>3 DEF GetHit, Cached, LruInv, OrderIsKeys
  <2>4. PICK key \in Keys : PutNew(key)
    BY <2>3, CacheSteps
  <2> QED
    BY <2>1, <2>2, <2>4, PutEvicts
<1> QED
  BY <1>1, Invariance, CacheInBudget, PTL DEF Spec, EvictsOnlyWhatItMust
=============================================================================
