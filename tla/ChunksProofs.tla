---------------------------- MODULE ChunksProofs ----------------------------
(***************************************************************************)
(* Proofs about window reads: for any requests, ranges, windows, record    *)
(* sizes and record counts, and for streams that are short or damaged, the *)
(* windows tile the range, are aligned, and give what one Read gives.      *)
(***************************************************************************)
EXTENDS Chunks, SequenceTheorems, NaturalsInduction, WellFoundedInduction, TLAPS

(* No stream claims so many records that a slice of the largest size       *)
(* behind the last one would reach beyond the ints: slices of Go are below *)
(* 2^48 bytes, ints go to 2^63.                                            *)
Modest == \A n \in RecordCounts : n + MaxAlloc <= MaxInt

Streams == {"group", "element"}

(* n samples of a stream, one after the other.                             *)
Run(s, from, n) == [i \in 1..n |-> <<s, from + i - 1>>]

(* Some of the samples cannot be decoded: extractColumn fails.             *)
Unreadable(s, from, n) ==
    n > 0 /\ (data.rec = 0 \/ from + n > data.held[s] \/ data.bad \in from..(from + n - 1))

Lost(c, from, n) == c # "virtual" /\ Unreadable(StreamOf(c), from, n)

(* Chunks has found nothing wrong with its arguments.                      *)
Ready == window > 0
Fine ==
    /\ \A i \in DOMAIN chans : chans[i] # "foreign" /\ SourceOK(chans[i])
    /\ CommonRange # <<>>

(* Something is read in a window at all.                                   *)
Watched == data.master \/ DOMAIN chans # {}

(* The first n samples of the range have been handed out.                  *)
Reached(n) ==
    \A i \in DOMAIN chans :
        delivered[i] = Samples(chans[i], cfg.from, n) /\ ~Lost(chans[i], cfg.from, n)

(* One read of the whole range cannot succeed.                             *)
WholeLost ==
    \/ \E i \in DOMAIN chans : Lost(chans[i], cfg.from, CommonRange[2])
    \/ data.master /\ Unreadable("group", cfg.from, CommonRange[2])

-----------------------------------------------------------------------------
(* The invariant.                                                          *)

TypeInv ==
    /\ data \in Datas
    /\ cfg \in [from : Froms, count : Counts, window : Windows]
    /\ chans \in Requests
    /\ pc \in {"new", "iter", "panic"}
    /\ pos \in Int /\ end \in Int /\ window \in 0..MaxInt
    /\ err \in BOOLEAN /\ closed \in BOOLEAN
    /\ DOMAIN delivered = DOMAIN chans /\ DOMAIN sigs \subseteq DOMAIN chans

(* What Chunks has found out, and what Close leaves.                       *)
StartInv ==
    /\ ~Ready => pos = 0 /\ end = 0 /\ sigs = <<>> /\ \A i \in DOMAIN chans : delivered[i] = <<>>
    /\ pc = "new" => ~Ready /\ ~err /\ ~closed
    /\ pc = "iter" /\ ~Ready => err /\ ~Fine
    /\ pc = "panic" => Ready
    /\ Ready => Fine /\ end = Int64(cfg.from + CommonRange[2])
    /\ closed => pos = end

(* What has been handed out is the range up to the position; after Close   *)
(* the position is no longer told.                                         *)
RangeInv ==
    /\ Ready /\ ~closed /\ Watched =>
          /\ pos = cfg.from \/ (cfg.from < pos /\ pos <= end)
          /\ Reached(pos - cfg.from)
    /\ \E n \in 0..CommonTotal : \A i \in DOMAIN chans :
          delivered[i] = Samples(chans[i], cfg.from, n)

(* The window in place: one run of samples for all channels.               *)
SigsInv ==
    \E o \in Nat, n \in Nat : \A i \in DOMAIN sigs :
        /\ sigs[i].offset = o
        /\ sigs[i].vals = Samples(chans[i], o, n)
        /\ data.master => sigs[i].time = Run("group", o, n)

(* An error of a window is one of the whole range.                         *)
ErrInv == Ready /\ err => end = cfg.from + CommonRange[2] /\ WholeLost

CInv == TypeInv /\ StartInv /\ RangeInv /\ SigsInv /\ ErrInv

-----------------------------------------------------------------------------
(* Numbers.                                                                *)

(* The remainder by a positive number of what is below it, or below twice  *)
(* of it.                                                                  *)
LEMMA ModFacts ==
    ASSUME NEW m \in Nat, m >= 1, NEW x \in Nat
    PROVE  /\ x % m \in 0..(m - 1)
           /\ x < m => x % m = x
           /\ m <= x /\ x < 2 * m => x % m = x - m
  OBVIOUS

(* int keeps what fits, and a sum of two ints that does not turns negative.*)
LEMMA Wraps ==
    ASSUME NEW x \in Int
    PROVE  /\ x \in (-MaxInt - 1)..MaxInt => Int64(x) = x
           /\ x \in (MaxInt + 1)..(2 * MaxInt + 1) => Int64(x) = x - 2 * MaxInt - 2
<1>1. MaxInt \in Nat
  BY ChunksAssumption
<1>2. ASSUME x \in (-MaxInt - 1)..(2 * MaxInt + 1)
      PROVE  /\ x \in (-MaxInt - 1)..MaxInt => Int64(x) = x
             /\ x \in (MaxInt + 1)..(2 * MaxInt + 1) => Int64(x) = x - 2 * MaxInt - 2
  <2>1. PICK y, m : y = x + MaxInt + 1 /\ m = 2 * MaxInt + 2
    OBVIOUS
  <2>2. y \in Nat /\ m \in Nat /\ m >= 1
    BY <1>1, <1>2, <2>1
  <2>3. Int64(x) = (y % m) - MaxInt - 1
    BY <2>1 DEF Int64
  <2>4. /\ y < m => y % m = y
        /\ m <= y /\ y < 2 * m => y % m = y - m
    BY <2>2, ModFacts
  <2>5. ASSUME x \in (-MaxInt - 1)..MaxInt PROVE Int64(x) = x
    BY <1>1, <2>1, <2>3, <2>4, <2>5
  <2>6. ASSUME x \in (MaxInt + 1)..(2 * MaxInt + 1) PROVE Int64(x) = x - 2 * MaxInt - 2
    <3>1. m <= y /\ y < 2 * m
      BY <1>1, <2>1, <2>6
    <3> QED
      BY <1>1, <2>1, <2>3, <2>4, <2>6, <3>1
  <2> QED
    BY <2>5, <2>6
<1> QED
  BY <1>1, <1>2

(* The result of a sum is an int.                                          *)
LEMMA IsInt ==
    ASSUME NEW x \in Int
    PROVE  Int64(x) \in Int
<1>1. MaxInt \in Nat
  BY ChunksAssumption
<1>2. PICK m : m = 2 * MaxInt + 2
  OBVIOUS
<1>3. m \in Nat /\ m >= 1 /\ x + MaxInt + 1 \in Int
  BY <1>1, <1>2
<1>4. (x + MaxInt + 1) % m \in Int
  BY <1>3
<1> QED
  BY <1>1, <1>2, <1>4 DEF Int64

(* The least of a set of numbers.                                          *)
LEMMA MinFacts ==
    ASSUME NEW S, S \subseteq Nat, S # {}
    PROVE  Min(S) \in S /\ \A x \in S : Min(S) <= x
<1>1. PICK m \in S : \A y \in S : ~(<<y, m>> \in OpToRel(<, Nat))
  BY NatLessThanWellFounded, WFMin
<1>2. m \in Nat /\ \A y \in S : y \in Nat /\ ~(y < m)
  BY <1>1 DEF OpToRel
<1>3. \A y \in S : m <= y
  BY <1>2
<1> QED
  BY <1>3 DEF Min

(* The larger of two.                                                      *)
LEMMA MaxFacts ==
    ASSUME NEW a \in Nat, NEW b \in Nat
    PROVE  Max({a, b}) \in {a, b} /\ Max({a, b}) >= a /\ Max({a, b}) >= b
<1>1. \E x \in {a, b} : \A y \in {a, b} : x >= y
  OBVIOUS
<1> QED
  BY <1>1 DEF Max

(* The window is at least one sample and an int.                           *)
LEMMA DefaultFacts ==
    ASSUME NEW rec \in Nat, rec >= 1
    PROVE  DefaultWindow(rec) \in 1..MaxInt
<1>1. ChunkBytes \in Nat /\ ChunkBytes >= 1 /\ ChunkBytes <= MaxInt /\ MaxInt \in Nat
  BY ChunksAssumption
<1>2. PICK q : q = ChunkBytes \div rec
  OBVIOUS
<1>3. q \in Nat /\ q <= ChunkBytes
  <2>1. q \in Nat /\ q * rec <= ChunkBytes
    BY <1>1, <1>2
  <2>2. q <= q * rec
    BY <2>1
  <2> QED
    BY <1>1, <2>1, <2>2
<1>4. Max({1, q}) \in {1, q} /\ Max({1, q}) >= 1
  BY <1>3, MaxFacts
<1> QED
  BY <1>1, <1>2, <1>3, <1>4 DEF DefaultWindow

-----------------------------------------------------------------------------
(* Runs of samples.                                                        *)

(* A run is a sequence.                                                    *)
LEMMA RunIsSeq ==
    ASSUME NEW s, NEW from \in Nat, NEW n \in Nat
    PROVE  /\ Run(s, from, n) \in Seq({s} \X Int) /\ Len(Run(s, from, n)) = n
           /\ DOMAIN Run(s, from, n) = 1..n
           /\ \A i \in 1..n : Run(s, from, n)[i] = <<s, from + i - 1>>
  BY DEF Run

(* One run behind the other.                                               *)
LEMMA RunCat ==
    ASSUME NEW s, NEW from \in Nat, NEW m \in Nat, NEW n \in Nat
    PROVE  Run(s, from, m) \o Run(s, from + m, n) = Run(s, from, m + n)
<1>1. PICK a, b, c, T : /\ a = Run(s, from, m) /\ b = Run(s, from + m, n)
                        /\ c = Run(s, from, m + n) /\ T = {s} \X Int
  OBVIOUS
<1>2. /\ a \in Seq(T) /\ Len(a) = m /\ \A i \in 1..m : a[i] = <<s, from + i - 1>>
      /\ b \in Seq(T) /\ Len(b) = n /\ \A i \in 1..n : b[i] = <<s, from + m + i - 1>>
      /\ c \in Seq(T) /\ Len(c) = m + n /\ \A i \in 1..(m + n) : c[i] = <<s, from + i - 1>>
  <2>1. from + m \in Nat /\ m + n \in Nat
    OBVIOUS
  <2>2. a \in Seq(T) /\ Len(a) = m /\ \A i \in 1..m : a[i] = <<s, from + i - 1>>
    BY <1>1, RunIsSeq
  <2>3. b \in Seq(T) /\ Len(b) = n /\ \A i \in 1..n : b[i] = <<s, from + m + i - 1>>
    BY <1>1, <2>1, RunIsSeq
  <2>4. c \in Seq(T) /\ Len(c) = m + n /\ \A i \in 1..(m + n) : c[i] = <<s, from + i - 1>>
    BY <1>1, <2>1, RunIsSeq
  <2> QED
    BY <2>2, <2>3, <2>4
<1>3. /\ a \o b \in Seq(T) /\ Len(a \o b) = m + n
      /\ \A i \in 1..(m + n) : (a \o b)[i] = IF i <= m THEN a[i] ELSE b[i - m]
  BY <1>2, ConcatProperties
<1>4. ASSUME NEW i \in 1..(m + n) PROVE (a \o b)[i] = c[i]
  <2>1. CASE i <= m
    <3>1. i \in 1..m
      BY <2>1
    <3> QED
      BY <1>2, <1>3, <2>1, <3>1
  <2>2. CASE ~(i <= m)
    <3>1. i - m \in 1..n /\ from + m + (i - m) - 1 = from + i - 1
      BY <2>2
    <3> QED
      BY <1>2, <1>3, <2>2, <3>1
  <2> QED
    BY <2>1, <2>2
<1>5. a \o b = c
  BY <1>2, <1>3, <1>4, SeqEqual
<1> QED
  BY <1>1, <1>5

(* The samples of a channel are a run of its stream, or of the indexes.    *)
LEMMA SamplesAreRun ==
    ASSUME NEW c, NEW from \in Nat, NEW n \in Nat
    PROVE  Samples(c, from, n) = Run(IF c = "virtual" THEN "index" ELSE StreamOf(c), from, n)
  BY DEF Samples, Run

(* Windows put together.                                                   *)
LEMMA SamplesCat ==
    ASSUME NEW c, NEW from \in Nat, NEW m \in Nat, NEW n \in Nat
    PROVE  Samples(c, from, m) \o Samples(c, from + m, n) = Samples(c, from, m + n)
<1>1. PICK s : s = IF c = "virtual" THEN "index" ELSE StreamOf(c)
  OBVIOUS
<1>2. Samples(c, from, m) = Run(s, from, m)
  BY <1>1, SamplesAreRun
<1>3. from + m \in Nat /\ m + n \in Nat
  OBVIOUS
<1>4. Samples(c, from + m, n) = Run(s, from + m, n) /\ Samples(c, from, m + n) = Run(s, from, m + n)
  BY <1>1, <1>3, SamplesAreRun
<1>5. Run(s, from, m) \o Run(s, from + m, n) = Run(s, from, m + n)
  BY RunCat
<1> QED
  BY <1>2, <1>4, <1>5

(* The loop of extractColumn decodes every sample of the range once, in    *)
(* order, whatever the size of its chunks.                                 *)
LEMMA DecodedRun ==
    ASSUME NEW s, NEW from \in Nat, NEW count \in Nat, NEW chunk \in Nat, chunk >= 1
    PROVE  Decoded(s, from, count, chunk) = Run(s, from, count)
<1> DEFINE P(d) == Part(d, count, chunk)
           Body(f, d) == IF d >= count THEN <<>>
                         ELSE [i \in 1..P(d) |-> <<s, from + d + i - 1>>] \o f[d + P(d)]
           Eq(f) == f = [d \in 0..count |-> Body(f, d)]
           W == [d \in 0..count |-> Run(s, from + d, count - d)]
<1>1. ASSUME NEW d \in 0..count, d < count
      PROVE  P(d) \in 1..(count - d) /\ d + P(d) \in 0..count
  BY <1>1 DEF Part
<1> HIDE DEF P
<1>2. ASSUME NEW d \in 0..count, d < count
      PROVE  Run(s, from + d, count - d) = [i \in 1..P(d) |-> <<s, from + d + i - 1>>] \o Run(s, from + (d + P(d)), count - (d + P(d)))
  <2>1. PICK p \in Nat : p = P(d)
    BY <1>1, <1>2
  <2>2. p \in Nat /\ count - (d + p) \in Nat /\ p + (count - (d + p)) = count - d /\ from + d \in Nat /\ (from + d) + p = from + (d + p)
    BY <1>1, <1>2, <2>1
  <2>3. Run(s, from + d, p) \o Run(s, (from + d) + p, count - (d + p)) = Run(s, from + d, p + (count - (d + p)))
    <3>1. PICK u \in Nat, v \in Nat : u = from + d /\ v = count - (d + p)
      BY <2>2
    <3>2. Run(s, u, p) \o Run(s, u + p, v) = Run(s, u, p + v)
      <4> HIDE DEF Body, Eq, W
      <4> QED
        BY RunCat, ZenonT(60)
    <3> QED
      BY <3>1, <3>2
  <2>4. Run(s, from + d, p) = [i \in 1..p |-> <<s, from + d + i - 1>>]
    BY DEF Run
  <2> QED
    BY <2>1, <2>2, <2>3, <2>4
<1>3. ASSUME NEW d \in 0..count PROVE W[d] = Body(W, d)
  <2>1. CASE d < count
    <3>1. d + P(d) \in 0..count
      BY <1>1, <2>1
    <3>2. W[d + P(d)] = Run(s, from + (d + P(d)), count - (d + P(d)))
      BY <3>1
    <3>3. ~(d >= count)
      BY <2>1
    <3> QED
      BY <1>2, <2>1, <3>2, <3>3
  <2>2. CASE ~(d < count)
    <3>1. d = count /\ d >= count /\ count - d = 0
      BY <2>2
    <3>2. Run(s, from + d, 0) = <<>>
      BY DEF Run
    <3> QED
      BY <3>1, <3>2
  <2> QED
    BY <2>1, <2>2
<1>4. Eq(W)
  BY <1>3
<1>5. ASSUME NEW f, Eq(f) PROVE f[0] = W[0]
  <2>1. \A d \in 0..count : f[d] = Body(f, d)
    BY <1>5
  <2> DEFINE No == {k \in 0..count : f[count - k] # W[count - k]}
  <2> SUFFICES ASSUME No # {} PROVE FALSE
    <3>1. count \in 0..count /\ count - count = 0
      OBVIOUS
    <3> QED
      BY <3>1
  <2>2. No \subseteq Nat
    OBVIOUS
  <2>3. PICK k \in No : \A y \in No : k <= y
    <3> HIDE DEF No
    <3> QED
      BY <2>2, MinFacts
  <2>4. PICK d \in 0..count : d = count - k /\ f[d] # W[d]
    BY <2>3
  <2>5. CASE d < count
    <3>1. P(d) \in 1..(count - d) /\ d + P(d) \in 0..count
      BY <1>1, <2>5
    <3>2. PICK j : j = count - (d + P(d))
      OBVIOUS
    <3>3. j \in 0..count /\ j < k /\ count - j = d + P(d)
      BY <2>3, <2>4, <3>1, <3>2
    <3>4. j \notin No
      BY <2>2, <2>3, <3>3, SMTT(30)
    <3>5. f[d + P(d)] = W[d + P(d)]
      BY <3>3, <3>4
    <3>6. Body(f, d) = Body(W, d)
      BY <3>5
    <3> QED
      BY <1>3, <2>1, <2>4, <3>6
  <2>6. CASE ~(d < count)
    <3>1. d >= count
      BY <2>6
    <3>2. f[d] = <<>> /\ W[d] = <<>>
      BY <1>3, <2>1, <3>1
    <3> QED
      BY <2>4, <3>2
  <2> QED
    BY <2>5, <2>6
<1>6. Eq(CHOOSE f : Eq(f))
  <2> HIDE DEF Eq
  <2> QED
    BY <1>4, Zenon
<1>7. Decoded(s, from, count, chunk) = (CHOOSE f : Eq(f))[0]
  BY Zenon DEF Decoded, P
<1>8. W[0] = Run(s, from, count)
  BY DEF Run
<1> QED
  <2> HIDE DEF Eq, W
  <2> QED
    BY <1>5, <1>6, <1>7, <1>8

-----------------------------------------------------------------------------
(* What a read of a range gives.                                           *)

(* The types of what the file holds and of what was asked for.             *)
LEMMA TypeFacts ==
    ASSUME TypeInv
    PROVE  /\ MaxInt \in Nat /\ MaxAlloc \in Nat /\ 2 * MaxAlloc <= MaxInt
           /\ \A s \in Streams : /\ data.claim[s] \in RecordCounts /\ data.claim[s] \in 0..MaxInt
                                 /\ data.held[s] \in Int
           /\ data.rec \in 0..MaxInt /\ data.bad \in Int /\ data.master \in BOOLEAN
           /\ cfg.from \in (-MaxInt - 1)..MaxInt /\ cfg.count \in (-MaxInt - 1)..MaxInt
           /\ cfg.window \in (-MaxInt - 1)..MaxInt
           /\ chans \in Seq(Kinds) /\ Len(chans) \in Nat /\ DOMAIN chans = 1..Len(chans)
           /\ \A i \in DOMAIN chans : chans[i] \in Kinds
<1>1. /\ MaxInt \in Nat /\ MaxAlloc \in Nat /\ 2 * MaxAlloc <= MaxInt
  BY ChunksAssumption
<1>2. \A s \in Streams : data.claim[s] \in RecordCounts /\ data.held[s] \in Int
  BY DEF TypeInv, Datas, Streams
<1>3. data.rec \in RecSizes /\ data.bad \in Int /\ data.master \in BOOLEAN
  BY DEF TypeInv, Datas
<1>4. cfg.from \in Froms /\ cfg.count \in Counts /\ cfg.window \in Windows
  BY DEF TypeInv
<1>5. chans \in Seq(Kinds)
  BY ChunksAssumption DEF TypeInv
<1>6. Len(chans) \in Nat /\ DOMAIN chans = 1..Len(chans) /\ \A i \in DOMAIN chans : chans[i] \in Kinds
  BY <1>5
<1> QED
  BY <1>1, <1>2, <1>3, <1>4, <1>5, <1>6, ChunksAssumption

(* Every channel reads one of the two streams.                             *)
LEMMA StreamFacts ==
    ASSUME NEW c
    PROVE  StreamOf(c) \in Streams
  BY DEF StreamOf, Streams

(* extractColumn: the run of samples, or an error if one of them cannot be *)
(* decoded, or a panic.                                                    *)
LEMMA ExtractFacts ==
    ASSUME TypeInv, NEW s \in Streams, NEW from \in Nat, NEW count \in Nat, from + count <= MaxInt
    PROVE  LET e == ExtractColumn(s, from, count)
           IN /\ e.out \in {"ok", "error", "panic"}
              /\ e.out = "ok" => e = Values(Run(s, from, count)) /\ ~Unreadable(s, from, count)
              /\ e.out = "error" => Unreadable(s, from, count)
<1> DEFINE e == ExtractColumn(s, from, count)
           chunk == ChunkSamples
           vals == Decoded(s, from, count, chunk)
           bad == \E i \in DOMAIN vals : vals[i][2] = data.bad
<1>1. /\ MaxInt \in Nat /\ data.held[s] \in Int /\ data.rec \in Nat /\ data.bad \in Int
      /\ cfg.window \in Int /\ cfg.window <= MaxInt
  BY TypeFacts
<1>2. Int64(from + count) = from + count
  BY <1>1, Wraps
<1>3. /\ Panic.out = "panic" /\ Failure.out = "error" /\ \A v : Values(v).out = "ok"
      /\ "panic" # "ok" /\ "panic" # "error" /\ "ok" # "error"
  BY DEF Panic, Failure, Values
<1>4. CASE count > MaxAlloc
  <2>1. e = Panic
    BY <1>4, Zenon DEF ExtractColumn
  <2> QED
    BY <1>3, <2>1
<1>5. CASE ~(count > MaxAlloc) /\ count = 0
  <2>1. e = Values(<<>>)
    BY <1>5, Zenon DEF ExtractColumn
  <2>2. Run(s, from, 0) = <<>> /\ ~(0 > 0)
    BY DEF Run
  <2> QED
    BY <1>3, <1>5, <2>1, <2>2 DEF Unreadable
<1>6. CASE ~(count > MaxAlloc) /\ count # 0 /\ (data.rec = 0 \/ from + count > data.held[s])
  <2>1. e = Failure
    BY <1>2, <1>6, Zenon DEF ExtractColumn
  <2>2. count > 0
    BY <1>6
  <2> QED
    BY <1>3, <1>6, <2>1, <2>2 DEF Unreadable
<1>7. CASE ~(count > MaxAlloc) /\ count # 0 /\ data.rec # 0 /\ ~(from + count > data.held[s])
  <2>1. chunk \in Nat /\ chunk >= 1
    BY <1>1, <1>7, DefaultFacts DEF ChunkSamples
  <2>2. vals = Run(s, from, count)
    <3> HIDE DEF chunk
    <3> QED
      BY <2>1, DecodedRun
  <2>3. bad <=> data.bad \in from..(from + count - 1)
    <3>1. DOMAIN vals = 1..count /\ \A i \in 1..count : vals[i] = <<s, from + i - 1>>
      <4> HIDE DEF vals
      <4> QED
        BY <2>2, RunIsSeq
    <3>2. bad <=> \E i \in 1..count : from + i - 1 = data.bad
      <4>1. \A i \in 1..count : vals[i][2] = from + i - 1
        <5> HIDE DEF vals
        <5> QED
          BY <3>1
      <4> HIDE DEF vals
      <4> QED
        BY <3>1, <4>1
    <3>3. ASSUME data.bad \in from..(from + count - 1)
          PROVE  \E i \in 1..count : from + i - 1 = data.bad
      <4>1. (data.bad - from + 1) \in 1..count /\ from + (data.bad - from + 1) - 1 = data.bad
        BY <1>1, <3>3
      <4> QED
        BY <4>1
    <3>4. ASSUME NEW i \in 1..count, from + i - 1 = data.bad
          PROVE  data.bad \in from..(from + count - 1)
      BY <3>4
    <3> HIDE DEF bad
    <3> QED
      BY <3>2, <3>3, <3>4
  <2>4. Unreadable(s, from, count) <=> bad
    <3>1. count > 0
      BY <1>7
    <3> HIDE DEF bad
    <3> QED
      BY <1>7, <2>3, <3>1 DEF Unreadable
  <2>5. e \in {Panic} \/ (bad /\ e = Failure) \/ (~bad /\ e = Values(vals))
    <3>1. e = IF BufferPanics(count, chunk) THEN Panic
              ELSE IF bad THEN Failure ELSE Values(vals)
      BY <1>2, <1>7, Zenon DEF ExtractColumn
    <3> HIDE DEF bad, vals, e, chunk
    <3> QED
      BY <3>1
  <2>6. /\ e.out \in {"ok", "error", "panic"}
        /\ e.out = "ok" => e = Values(Run(s, from, count)) /\ ~Unreadable(s, from, count)
        /\ e.out = "error" => Unreadable(s, from, count)
    <3> HIDE DEF bad, vals, e
    <3> QED
      BY <1>3, <2>2, <2>4, <2>5
  <2> QED
    BY <2>6
<1> QED
  BY <1>4, <1>5, <1>6, <1>7

(* resolveRange leaves a range alone that the stream has ...               *)
LEMMA RangeInside ==
    ASSUME MaxInt \in Nat, NEW total \in 0..MaxInt, NEW from \in Nat, NEW count \in Nat,
           from + count <= total
    PROVE  ResolveRange(from, count, total) = <<from, count>>
<1>1. Int64(from + count) = from + count
  BY Wraps
<1> QED
  BY <1>1 DEF ResolveRange

(* ... and one whose end has wrapped around, ...                           *)
LEMMA RangeWrapped ==
    ASSUME MaxInt \in Nat, NEW total \in 0..MaxInt, NEW from \in 0..total, NEW count \in 0..MaxInt,
           from + count > MaxInt
    PROVE  ResolveRange(from, count, total) = <<from, count>>
<1>1. Int64(from + count) = from + count - 2 * MaxInt - 2
  BY Wraps
<1> QED
  BY <1>1 DEF ResolveRange

(* ... and clamps all others.                                              *)
LEMMA RangeFacts ==
    ASSUME MaxInt \in Nat, NEW total \in 0..MaxInt, NEW from \in (-MaxInt - 1)..MaxInt,
           NEW count \in (-MaxInt - 1)..MaxInt, ResolveRange(from, count, total) # <<>>
    PROVE  LET r == ResolveRange(from, count, total)
           IN /\ from \in 0..total /\ r[1] = from /\ r[2] \in 0..MaxInt
              /\ from + r[2] <= total \/ from + r[2] > MaxInt
<1>1. from \in 0..total
  BY DEF ResolveRange
<1>2. CASE count < 0
  <2>1. ResolveRange(from, count, total) = <<from, total - from>>
    BY <1>1, <1>2 DEF ResolveRange
  <2> QED
    BY <1>1, <2>1
<1>3. CASE count >= 0 /\ from + count <= MaxInt
  <2>1. Int64(from + count) = from + count
    BY <1>1, <1>3, Wraps
  <2>2. ResolveRange(from, count, total) = IF from + count > total THEN <<from, total - from>> ELSE <<from, count>>
    BY <1>1, <1>3, <2>1 DEF ResolveRange
  <2>3. CASE from + count > total
    <3>1. ResolveRange(from, count, total) = <<from, total - from>>
      BY <2>2, <2>3
    <3> QED
      BY <1>1, <3>1
  <2>4. CASE ~(from + count > total)
    <3>1. ResolveRange(from, count, total) = <<from, count>>
      BY <2>2, <2>4
    <3> QED
      BY <1>1, <1>3, <2>4, <3>1
  <2> QED
    BY <2>3, <2>4
<1>4. CASE count >= 0 /\ from + count > MaxInt
  <2>1. ResolveRange(from, count, total) = <<from, count>>
    BY <1>1, <1>4, RangeWrapped
  <2> QED
    BY <1>1, <1>4, <2>1
<1> QED
  BY <1>1, <1>2, <1>3, <1>4

(* Channel.read of a range that the channel has.                           *)
LEMMA ReadFacts ==
    ASSUME TypeInv, NEW c, c # "foreign", SourceOK(c), NEW from \in Nat, NEW count \in Nat,
           from + count <= Total(c)
    PROVE  LET e == ReadChannel(c, from, count)
           IN /\ e.out \in {"ok", "error", "panic"}
              /\ e.out = "ok" => e = Values(Samples(c, from, count)) /\ ~Lost(c, from, count)
              /\ e.out = "error" => Lost(c, from, count)
<1>1. Total(c) \in 0..MaxInt /\ MaxInt \in Nat /\ StreamOf(c) \in Streams
  BY TypeFacts, StreamFacts DEF Total
<1>2. ResolveRange(from, count, Total(c)) = <<from, count>>
  BY <1>1, RangeInside
<1>3. <<from, count>> # <<>> /\ <<from, count>>[1] = from /\ <<from, count>>[2] = count
  OBVIOUS
<1>4. CASE c = "virtual"
  <2>1. ReadChannel(c, from, count) = ReadVirtual(from, count)
    BY <1>2, <1>3, <1>4, Zenon DEF ReadChannel
  <2>2. Samples(c, from, count) = [i \in 1..count |-> <<"index", from + i - 1>>]
    BY <1>4 DEF Samples
  <2>3. ReadVirtual(from, count) = Panic \/ ReadVirtual(from, count) = Values(Samples(c, from, count))
    BY <2>2 DEF ReadVirtual
  <2> QED
    BY <1>4, <2>1, <2>3 DEF Panic, Values, Lost
<1>5. CASE c # "virtual"
  <2>1. ReadChannel(c, from, count) = ExtractColumn(StreamOf(c), from, count)
    BY <1>2, <1>3, <1>5, Zenon DEF ReadChannel
  <2>2. Samples(c, from, count) = Run(StreamOf(c), from, count)
    BY <1>5, SamplesAreRun
  <2>3. Lost(c, from, count) <=> Unreadable(StreamOf(c), from, count)
    BY <1>5 DEF Lost
  <2>4. from + count <= MaxInt
    BY <1>1
  <2> QED
    BY <1>1, <2>1, <2>2, <2>3, <2>4, ExtractFacts
<1> QED
  BY <1>4, <1>5

(* readMasterFloats of a range that the group has.                         *)
LEMMA MasterFacts ==
    ASSUME TypeInv, NEW from \in Nat, NEW count \in Nat, from + count <= data.claim["group"]
    PROVE  LET e == ReadMaster("group", from, count)
           IN /\ e.out \in {"ok", "error", "panic"}
              /\ e.out = "ok" => e = Values(Run("group", from, count)) /\ ~Unreadable("group", from, count)
              /\ e.out = "error" => Unreadable("group", from, count)
<1>1. data.claim["group"] \in 0..MaxInt /\ MaxInt \in Nat /\ "group" \in Streams
  BY TypeFacts DEF Streams
<1>2. ResolveRange(from, count, data.claim["group"]) = <<from, count>>
  BY <1>1, RangeInside
<1>3. <<from, count>> # <<>> /\ <<from, count>>[1] = from /\ <<from, count>>[2] = count
  OBVIOUS
<1>4. ReadMaster("group", from, count) = ExtractColumn("group", from, count)
  BY <1>2, <1>3, Zenon DEF ReadMaster
<1>5. from + count <= MaxInt
  BY <1>1
<1> QED
  BY <1>1, <1>4, <1>5, ExtractFacts

(* A read of a range whose end has wrapped around makes too large a slice. *)
LEMMA WrappedReadPanics ==
    ASSUME Modest, TypeInv, NEW c, c # "foreign", SourceOK(c), NEW from \in 0..Total(c),
           NEW count \in 0..MaxInt, from + count > MaxInt
    PROVE  ReadChannel(c, from, count) = Panic
<1>1. /\ Total(c) \in 0..MaxInt /\ MaxInt \in Nat /\ MaxAlloc \in Nat
      /\ Total(c) + MaxAlloc <= MaxInt
  BY TypeFacts, StreamFacts DEF Total, Modest
<1>2. ResolveRange(from, count, Total(c)) = <<from, count>>
  BY <1>1, RangeWrapped
<1>3. <<from, count>> # <<>> /\ <<from, count>>[1] = from /\ <<from, count>>[2] = count
  OBVIOUS
<1>4. count > MaxAlloc
  BY <1>1
<1>5. ReadVirtual(from, count) = Panic
  BY <1>4 DEF ReadVirtual
<1>6. ExtractColumn(StreamOf(c), from, count) = Panic
  BY <1>4, Zenon DEF ExtractColumn
<1> QED
  BY <1>2, <1>3, <1>5, <1>6, Zenon DEF ReadChannel

(* The same of the master values.                                          *)
LEMMA WrappedMasterPanics ==
    ASSUME Modest, TypeInv, NEW from \in 0..data.claim["group"], NEW count \in 0..MaxInt,
           from + count > MaxInt
    PROVE  ReadMaster("group", from, count) = Panic
<1>1. /\ data.claim["group"] \in 0..MaxInt /\ MaxInt \in Nat /\ MaxAlloc \in Nat
      /\ data.claim["group"] + MaxAlloc <= MaxInt
  BY TypeFacts DEF Streams, Modest
<1>2. ResolveRange(from, count, data.claim["group"]) = <<from, count>>
  BY <1>1, RangeWrapped
<1>3. <<from, count>> # <<>> /\ <<from, count>>[1] = from /\ <<from, count>>[2] = count
  OBVIOUS
<1>4. count > MaxAlloc
  BY <1>1
<1>5. ExtractColumn("group", from, count) = Panic
  BY <1>4, Zenon DEF ExtractColumn
<1> QED
  BY <1>2, <1>3, <1>5, Zenon DEF ReadMaster

(* What cannot be read in a part cannot be read in the whole, ...          *)
LEMMA LostWhole ==
    ASSUME TypeInv, NEW s \in Streams, NEW from \in Nat, NEW p \in Nat, NEW n \in Nat, NEW count \in Nat,
           from <= p, p + n <= from + count, Unreadable(s, p, n)
    PROVE  Unreadable(s, from, count)
<1>1. data.held[s] \in Int /\ data.bad \in Int
  BY TypeFacts
<1> QED
  BY <1>1 DEF Unreadable

(* ... and what can be read in two parts can be read.                      *)
LEMMA ReadableParts ==
    ASSUME TypeInv, NEW s \in Streams, NEW from \in Nat, NEW m \in Nat, NEW n \in Nat,
           ~Unreadable(s, from, m), ~Unreadable(s, from + m, n)
    PROVE  ~Unreadable(s, from, m + n)
<1>1. data.held[s] \in Int /\ data.bad \in Int
  BY TypeFacts
<1> QED
  BY <1>1 DEF Unreadable

-----------------------------------------------------------------------------
(* What Chunks finds out.                                                  *)

(* The records that every channel and the group have.                      *)
LEMMA CommonFacts ==
    ASSUME TypeInv
    PROVE  /\ CommonTotal \in RecordCounts /\ CommonTotal \in 0..MaxInt
           /\ CommonTotal <= data.claim["group"]
           /\ \A i \in DOMAIN chans : CommonTotal <= Total(chans[i])
<1> DEFINE S == {data.claim["group"]} \union {Total(chans[i]) : i \in DOMAIN chans}
<1>1. /\ data.claim["group"] \in RecordCounts /\ data.claim["group"] \in 0..MaxInt
      /\ \A i \in DOMAIN chans : Total(chans[i]) \in RecordCounts /\ Total(chans[i]) \in 0..MaxInt
  BY TypeFacts, StreamFacts DEF Total, Streams
<1>2. S \subseteq RecordCounts /\ S \subseteq 0..MaxInt /\ S \subseteq Nat /\ S # {}
  BY <1>1
<1>3. data.claim["group"] \in S /\ \A i \in DOMAIN chans : Total(chans[i]) \in S
  OBVIOUS
<1>4. CommonTotal = Min(S)
  BY DEF CommonTotal
<1>5. Min(S) \in S /\ \A x \in S : Min(S) <= x
  <2> HIDE DEF S
  <2> QED
    BY <1>2, MinFacts
<1> HIDE DEF S
<1> QED
  BY <1>2, <1>3, <1>4, <1>5

(* The range that the iteration goes over, or one whose end has wrapped    *)
(* around, of which nothing is handed out.                                 *)
LEMMA WholeRange ==
    ASSUME TypeInv, StartInv, Ready
    PROVE  /\ cfg.from \in 0..CommonTotal /\ CommonRange[1] = cfg.from /\ CommonRange[2] \in 0..MaxInt
           /\ \/ cfg.from + CommonRange[2] <= CommonTotal /\ end = cfg.from + CommonRange[2]
              \/ cfg.from + CommonRange[2] > MaxInt /\ end < 0
<1>1. /\ MaxInt \in Nat /\ CommonTotal \in 0..MaxInt /\ cfg.from \in (-MaxInt - 1)..MaxInt
      /\ cfg.count \in (-MaxInt - 1)..MaxInt
  BY TypeFacts, CommonFacts
<1>2. ResolveRange(cfg.from, cfg.count, CommonTotal) # <<>> /\ end = Int64(cfg.from + CommonRange[2])
  BY DEF StartInv, Fine, CommonRange
<1>3. PICK total, from, count, r : /\ total = CommonTotal /\ from = cfg.from /\ count = cfg.count
                                   /\ r = ResolveRange(from, count, total)
  OBVIOUS
<1>4. /\ from \in 0..total /\ r[1] = from /\ r[2] \in 0..MaxInt
      /\ from + r[2] <= total \/ from + r[2] > MaxInt
  BY <1>1, <1>2, <1>3, RangeFacts
<1>5. r = CommonRange
  BY <1>3 DEF CommonRange
<1>6. /\ from + r[2] <= MaxInt => Int64(from + r[2]) = from + r[2]
      /\ from + r[2] > MaxInt => Int64(from + r[2]) = from + r[2] - 2 * MaxInt - 2
  BY <1>1, <1>3, <1>4, Wraps
<1> QED
  BY <1>1, <1>2, <1>3, <1>4, <1>5, <1>6

(* The range that Chunks has resolved starts where it was asked to.        *)
LEMMA FineRange ==
    ASSUME TypeInv, Fine
    PROVE  /\ cfg.from \in 0..CommonTotal /\ cfg.from \in Nat
           /\ CommonRange[1] = cfg.from /\ CommonRange[2] \in 0..MaxInt
<1>1. /\ MaxInt \in Nat /\ CommonTotal \in 0..MaxInt /\ cfg.from \in (-MaxInt - 1)..MaxInt
      /\ cfg.count \in (-MaxInt - 1)..MaxInt
  BY TypeFacts, CommonFacts
<1>2. PICK total, from, count, r : /\ total = CommonTotal /\ from = cfg.from /\ count = cfg.count
                                   /\ r = ResolveRange(from, count, total)
  OBVIOUS
<1>3. r = CommonRange /\ r # <<>>
  BY <1>2 DEF CommonRange, Fine
<1>4. from \in 0..total /\ r[1] = from /\ r[2] \in 0..MaxInt
  <2>1. /\ total \in 0..MaxInt /\ from \in (-MaxInt - 1)..MaxInt /\ count \in (-MaxInt - 1)..MaxInt
        /\ ResolveRange(from, count, total) # <<>>
    BY <1>1, <1>2, <1>3
  <2> QED
    BY <1>1, <1>2, <2>1, RangeFacts
<1> QED
  BY <1>1, <1>2, <1>3, <1>4

(* The file and the arguments are fixed.                                   *)
LEMMA FileFixed ==
    ASSUME UNCHANGED file
    PROVE  /\ CommonTotal' = CommonTotal /\ CommonRange' = CommonRange
           /\ (Fine' <=> Fine) /\ (Watched' <=> Watched)
           /\ data' = data /\ cfg' = cfg /\ chans' = chans
<1>1. data' = data /\ cfg' = cfg /\ chans' = chans
  BY DEF file
<1>2. CommonTotal' = CommonTotal
  BY <1>1 DEF CommonTotal, Total, StreamOf
<1>3. CommonRange' = CommonRange
  BY <1>1, <1>2 DEF CommonRange
<1>4. Fine' <=> Fine
  BY <1>1, <1>3 DEF Fine, SourceOK, StreamOf
<1> QED
  BY <1>1, <1>2, <1>3, <1>4 DEF Watched

(* The window of an iteration that Chunks has not refused.                 *)
LEMMA WindowForFacts ==
    ASSUME TypeInv
    PROVE  WindowFor(cfg.window, data.rec) \in 1..MaxInt
<1>1. data.rec \in Nat /\ cfg.window \in Int /\ cfg.window <= MaxInt
  BY TypeFacts
<1>2. PICK m : m = Max({1, data.rec})
  OBVIOUS
<1>3. m \in Nat /\ m >= 1
  BY <1>1, <1>2, MaxFacts
<1>4. DefaultWindow(m) \in 1..MaxInt
  BY <1>3, DefaultFacts
<1> QED
  BY <1>1, <1>2, <1>4 DEF WindowFor

(* The types and the start are kept by every step.                         *)
LEMMA StartNext ==
    ASSUME TypeInv, StartInv, [Next]_vars
    PROVE  TypeInv' /\ StartInv'
<1>1. CASE NewChunks
  <2>1. /\ pc = "new" /\ pc' = "iter" /\ UNCHANGED <<file, sigs, closed, delivered>>
        /\ window = 0 /\ pos = 0 /\ end = 0 /\ sigs = <<>> /\ ~closed
        /\ \A i \in DOMAIN chans : delivered[i] = <<>>
    BY <1>1 DEF NewChunks, StartInv, TypeInv, Ready
  <2>2. /\ data' = data /\ cfg' = cfg /\ chans' = chans
        /\ CommonRange' = CommonRange /\ (Fine' <=> Fine)
    BY <2>1, FileFixed
  <2>3. CASE Fine
    <3>1. ~(\E i \in DOMAIN chans : chans[i] = "foreign" \/ ~SourceOK(chans[i])) /\ CommonRange # <<>>
      BY <2>3 DEF Fine
    <3>2. /\ err' = FALSE /\ pos' = CommonRange[1] /\ end' = Int64(CommonRange[1] + CommonRange[2])
          /\ window' = WindowFor(cfg.window, data.rec)
      BY <1>1, <3>1 DEF NewChunks, CommonRange
    <3>3. /\ CommonRange[1] = cfg.from /\ cfg.from \in Int /\ CommonRange[2] \in Int
      BY <2>3, FineRange
    <3>4. window' \in 1..MaxInt /\ window' > 0 /\ MaxInt \in Nat
      BY <3>2, TypeFacts, WindowForFacts
    <3>5. end' \in Int /\ end' = Int64(cfg.from + CommonRange[2])
      BY <3>2, <3>3, IsInt
    <3>6. TypeInv'
      <4>1. pos' \in Int /\ end' \in Int /\ window' \in 0..MaxInt
        BY <3>2, <3>3, <3>4, <3>5
      <4>2. err' \in BOOLEAN /\ closed' \in BOOLEAN
        BY <2>1, <3>2 DEF TypeInv
      <4> QED
        BY <2>1, <2>2, <4>1, <4>2 DEF TypeInv
    <3> QED
      BY <2>1, <2>2, <2>3, <3>2, <3>4, <3>5, <3>6 DEF StartInv, Ready
  <2>4. CASE ~Fine
    <3>1. err' = TRUE /\ UNCHANGED <<pos, end, window>>
      BY <1>1, <2>4 DEF NewChunks, CommonRange, Fine
    <3>2. TypeInv'
      BY <2>1, <2>2, <3>1 DEF TypeInv
    <3> QED
      BY <2>1, <2>2, <2>4, <3>1, <3>2 DEF StartInv, Ready
  <2> QED
    BY <2>3, <2>4
<1>2. CASE NextWindow
  <2>1. /\ pc = "iter" /\ ~err /\ pos < end /\ UNCHANGED <<file, window, closed>>
    BY <1>2 DEF NextWindow, HasNext
  <2>2. Ready /\ ~closed
    BY <2>1 DEF StartInv, TypeInv
  <2>3. /\ data' = data /\ cfg' = cfg /\ chans' = chans
        /\ CommonRange' = CommonRange /\ (Fine' <=> Fine)
    BY <2>1, FileFixed
  <2>4. pc' \in {"iter", "panic"} /\ end' = end /\ err' \in BOOLEAN
    <3>1. (pc' = pc \/ pc' = "panic") /\ end' = end /\ (err' = err \/ err' = TRUE)
      BY <1>2, Zenon DEF NextWindow, Fail
    <3> QED
      BY <2>1, <3>1 DEF TypeInv
  <2>5. pos' \in Int
    <3>1. WindowSize \in Int
      BY DEF WindowSize, TypeInv
    <3>2. pos + WindowSize \in Int
      BY <3>1 DEF TypeInv
    <3>3. Int64(pos + WindowSize) \in Int
      BY <3>2, IsInt
    <3>4. pos' = pos \/ pos' = Int64(pos + WindowSize)
      BY <1>2 DEF NextWindow, Fail
    <3> QED
      BY <3>3, <3>4 DEF TypeInv
  <2>6. DOMAIN delivered' = DOMAIN chans /\ DOMAIN sigs' \subseteq DOMAIN chans
    <3>1. \/ UNCHANGED <<sigs, delivered>>
          \/ /\ sigs' = [i \in DOMAIN chans |-> Signal(i)]
             /\ delivered' = [i \in DOMAIN chans |-> delivered[i] \o WindowRead(i).vals]
      BY <1>2, Zenon DEF NextWindow, Fail
    <3> QED
      BY <3>1 DEF TypeInv
  <2>7. TypeInv'
    BY <2>1, <2>3, <2>4, <2>5, <2>6 DEF TypeInv
  <2> QED
    BY <2>1, <2>2, <2>3, <2>4, <2>7 DEF StartInv, Ready
<1>3. CASE Close
  <2>1. /\ pc = "iter" /\ closed' = TRUE /\ sigs' = <<>> /\ pos' = end
        /\ UNCHANGED <<file, pc, end, window, err, delivered>>
    BY <1>3 DEF Close
  <2>2. /\ data' = data /\ cfg' = cfg /\ chans' = chans
        /\ CommonRange' = CommonRange /\ (Fine' <=> Fine)
    BY <2>1, FileFixed
  <2>3. DOMAIN sigs' \subseteq DOMAIN chans
    BY <2>1
  <2>4. TypeInv'
    BY <2>1, <2>2, <2>3 DEF TypeInv
  <2> QED
    BY <2>1, <2>2, <2>4 DEF StartInv, Ready
<1>4. CASE UNCHANGED vars
  <2>1. UNCHANGED <<file, pc, pos, end, window, sigs, err, closed, delivered>>
    BY <1>4 DEF vars
  <2>2. /\ data' = data /\ cfg' = cfg /\ chans' = chans
        /\ CommonRange' = CommonRange /\ (Fine' <=> Fine)
    BY <2>1, FileFixed
  <2>3. TypeInv'
    BY <2>1, <2>2 DEF TypeInv
  <2> QED
    BY <2>1, <2>2, <2>3 DEF StartInv, Ready
<1> QED
  BY <1>1, <1>2, <1>3, <1>4 DEF Next

(* The types and the start hold of the initial states.                     *)
LEMMA StartInit ==
    ASSUME Init
    PROVE  TypeInv /\ StartInv
<1>1. MaxInt \in Nat
  BY ChunksAssumption
<1>2. TypeInv
  <2>1. DOMAIN delivered = DOMAIN chans /\ DOMAIN sigs \subseteq DOMAIN chans
    BY DEF Init
  <2>2. /\ pc \in {"new", "iter", "panic"} /\ pos \in Int /\ end \in Int /\ window \in 0..MaxInt
        /\ err \in BOOLEAN /\ closed \in BOOLEAN
    <3>1. pc = "new" /\ pos = 0 /\ end = 0 /\ window = 0 /\ err = FALSE /\ closed = FALSE
      BY Zenon DEF Init
    <3>2. err \in BOOLEAN /\ closed \in BOOLEAN
      BY <3>1, Zenon
    <3>3. pos \in Int /\ end \in Int /\ window \in 0..MaxInt
      BY <1>1, <3>1
    <3> QED
      BY <3>1, <3>2, <3>3, Zenon
  <2>3. data \in Datas /\ cfg \in [from : Froms, count : Counts, window : Windows] /\ chans \in Requests
    BY Zenon DEF Init
  <2> QED
    BY <2>1, <2>2, <2>3, Zenon DEF TypeInv
<1> QED
  BY <1>2 DEF Init, StartInv, Ready

(* The types and the start hold of every reachable state.                  *)
LEMMA StartAlways == Spec => [](TypeInv /\ StartInv)
<1>1. Init => TypeInv /\ StartInv
  BY StartInit
<1>2. TypeInv /\ StartInv /\ [Next]_vars => (TypeInv /\ StartInv)'
  BY StartNext
<1> QED
  BY <1>1, <1>2, PTL DEF Spec

(* After an error, and after Close, Next hands out nothing more and the    *)
(* error stays (chunks.go: Next returns false first of all; Close moves    *)
(* the position to the end).                                               *)
THEOREM EndIsFinal == Spec => StopsForGood
<1>1. TypeInv /\ StartInv /\ [Next]_vars => [err \/ closed => UNCHANGED <<delivered, err>>]_vars
  <2> SUFFICES ASSUME TypeInv, StartInv, Next, err \/ closed PROVE UNCHANGED <<delivered, err>>
    OBVIOUS
  <2>1. ~NewChunks
    BY DEF NewChunks, StartInv
  <2>2. ~NextWindow
    BY DEF NextWindow, HasNext, StartInv, TypeInv
  <2>3. Close
    BY <2>1, <2>2 DEF Next
  <2> QED
    BY <2>3 DEF Close
<1> QED
  BY <1>1, StartAlways, PTL DEF Spec, StopsForGood

-----------------------------------------------------------------------------
(* One window.                                                             *)

(* Where the window is: in the range, or its end has wrapped around.       *)
LEMMA WindowFacts ==
    ASSUME TypeInv, StartInv, RangeInv, HasNext, Watched
    PROVE  /\ Ready /\ ~closed /\ Fine /\ cfg.from \in Nat /\ pos \in Nat /\ cfg.from <= pos
           /\ CommonRange[2] \in Nat /\ end = cfg.from + CommonRange[2] /\ end <= CommonTotal
           /\ pos < end /\ WindowSize \in Nat /\ WindowSize >= 1
           /\ pos + WindowSize <= end \/ (pos + WindowSize > MaxInt /\ WindowSize <= MaxInt)
<1>1. pos < end /\ pc = "iter" /\ ~err
  BY DEF HasNext
<1>2. Ready /\ ~closed
  BY <1>1 DEF StartInv, TypeInv
<1>3. /\ cfg.from \in 0..CommonTotal /\ CommonRange[2] \in 0..MaxInt /\ MaxInt \in Nat
      /\ CommonTotal \in 0..MaxInt
      /\ \/ cfg.from + CommonRange[2] <= CommonTotal /\ end = cfg.from + CommonRange[2]
         \/ cfg.from + CommonRange[2] > MaxInt /\ end < 0
  BY <1>2, WholeRange, CommonFacts, TypeFacts
<1>4. pos = cfg.from \/ (cfg.from < pos /\ pos <= end)
  BY <1>2 DEF RangeInv
<1>5. /\ cfg.from \in Nat /\ pos \in Nat /\ cfg.from <= pos /\ end = cfg.from + CommonRange[2]
      /\ end <= CommonTotal /\ end \in Nat /\ end <= MaxInt
  BY <1>1, <1>3, <1>4 DEF TypeInv
<1>6. window \in 1..MaxInt
  BY <1>2, <1>3 DEF TypeInv, Ready
<1>7. CASE pos + window <= MaxInt
  <2>1. Int64(pos + window) = pos + window
    BY <1>3, <1>5, <1>6, <1>7, Wraps
  <2> QED
    BY <1>1, <1>2, <1>3, <1>5, <1>6, <2>1 DEF WindowSize, StartInv
<1>8. CASE pos + window > MaxInt
  <2>1. Int64(pos + window) = pos + window - 2 * MaxInt - 2
    BY <1>1, <1>3, <1>5, <1>6, <1>8, Wraps
  <2>2. WindowSize = window
    BY <1>1, <1>3, <1>5, <1>6, <2>1 DEF WindowSize
  <2> QED
    BY <1>1, <1>2, <1>3, <1>5, <1>6, <1>8, <2>2 DEF StartInv
<1> QED
  BY <1>3, <1>5, <1>6, <1>7, <1>8

(* A window inside of the range: the samples of every channel and the      *)
(* master values, or an error that a read of the whole range meets too.    *)
LEMMA WindowReads ==
    ASSUME TypeInv, StartInv, RangeInv, HasNext, Watched, pos + WindowSize <= end,
           NEW i \in 0..Len(chans)
    PROVE  /\ WindowRead(i).out \in {"ok", "error", "panic"}
           /\ i > 0 /\ WindowRead(i).out = "ok" =>
                 /\ WindowRead(i) = Values(Samples(chans[i], pos, WindowSize))
                 /\ ~Lost(chans[i], pos, WindowSize)
           /\ i = 0 /\ data.master /\ WindowRead(i).out = "ok" =>
                 WindowRead(i) = Values(Run("group", pos, WindowSize))
           /\ WindowRead(i).out = "error" => WholeLost
<1>1. PICK from, count, n : from = cfg.from /\ count = CommonRange[2] /\ n = WindowSize
  OBVIOUS
<1>2. /\ Fine /\ from \in Nat /\ pos \in Nat /\ from <= pos /\ count \in Nat /\ end = from + count
      /\ end <= CommonTotal /\ n \in Nat /\ n >= 1 /\ pos + n <= from + count
  BY <1>1, WindowFacts
<1>3. CommonTotal \in Nat /\ CommonTotal <= data.claim["group"] /\ data.claim["group"] \in Nat
  BY CommonFacts, TypeFacts, SMTT(30) DEF Streams
<1>4. CASE i = 0 /\ data.master
  <2>1. WindowRead(i) = ReadMaster("group", pos, n)
    BY <1>1, <1>4 DEF WindowRead
  <2>2. pos + n <= data.claim["group"]
    BY <1>2, <1>3
  <2>3. /\ WindowRead(i).out \in {"ok", "error", "panic"}
        /\ WindowRead(i).out = "ok" => WindowRead(i) = Values(Run("group", pos, n))
        /\ WindowRead(i).out = "error" => Unreadable("group", pos, n)
    BY <1>2, <2>1, <2>2, MasterFacts
  <2>4. ASSUME Unreadable("group", pos, n) PROVE WholeLost
    <3>1. "group" \in Streams
      BY DEF Streams
    <3>2. Unreadable("group", from, count)
      BY <1>2, <2>4, <3>1, LostWhole
    <3> QED
      BY <1>1, <1>4, <3>2 DEF WholeLost
  <2> QED
    BY <1>1, <1>4, <2>3, <2>4
<1>5. CASE i = 0 /\ ~data.master
  <2>1. WindowRead(i) = Values(<<>>)
    BY <1>5 DEF WindowRead
  <2> QED
    BY <1>5, <2>1 DEF Values
<1>6. CASE i > 0
  <2>1. i \in DOMAIN chans
    BY <1>6, TypeFacts
  <2>2. WindowRead(i) = ReadChannel(chans[i], pos, n)
    BY <1>1, <1>6 DEF WindowRead
  <2>3. chans[i] # "foreign" /\ SourceOK(chans[i])
    BY <1>2, <2>1 DEF Fine
  <2>4. pos + n <= Total(chans[i])
    <3>1. CommonTotal <= Total(chans[i]) /\ Total(chans[i]) \in Nat
      BY <2>1, CommonFacts, TypeFacts, StreamFacts DEF Total
    <3> QED
      BY <1>2, <1>3, <3>1
  <2>5. /\ WindowRead(i).out \in {"ok", "error", "panic"}
        /\ WindowRead(i).out = "ok" => /\ WindowRead(i) = Values(Samples(chans[i], pos, n))
                                      /\ ~Lost(chans[i], pos, n)
        /\ WindowRead(i).out = "error" => Lost(chans[i], pos, n)
    BY <1>2, <2>2, <2>3, <2>4, ReadFacts
  <2>6. ASSUME Lost(chans[i], pos, n) PROVE WholeLost
    <3>1. chans[i] # "virtual" /\ Unreadable(StreamOf(chans[i]), pos, n) /\ StreamOf(chans[i]) \in Streams
      BY <2>6, StreamFacts DEF Lost
    <3>2. Unreadable(StreamOf(chans[i]), from, count)
      BY <1>2, <3>1, LostWhole
    <3> QED
      BY <1>1, <2>1, <3>1, <3>2 DEF WholeLost, Lost
  <2> QED
    BY <1>1, <1>6, <2>5, <2>6
<1> QED
  BY <1>4, <1>5, <1>6

(* A window whose end has wrapped around is not read.                      *)
LEMMA WrappedWindow ==
    ASSUME Modest, TypeInv, StartInv, RangeInv, HasNext, Watched, pos + WindowSize > MaxInt,
           WindowSize <= MaxInt
    PROVE  /\ \A i \in 0..Len(chans) : WindowRead(i).out \in {"ok", "panic"}
           /\ \E i \in 0..Len(chans) : WindowRead(i).out # "ok"
<1>1. PICK n : n = WindowSize
  OBVIOUS
<1>2. /\ Fine /\ pos \in Nat /\ pos < end /\ end <= CommonTotal /\ n \in 0..MaxInt /\ MaxInt \in Nat
      /\ Len(chans) \in Nat /\ DOMAIN chans = 1..Len(chans) /\ data.master \in BOOLEAN
  BY <1>1, WindowFacts, TypeFacts
<1>3. CommonTotal \in Nat /\ CommonTotal <= data.claim["group"] /\ data.claim["group"] \in Nat /\ end \in Int
  BY CommonFacts, TypeFacts, SMTT(30) DEF Streams, TypeInv
<1>4. ASSUME NEW i \in DOMAIN chans PROVE WindowRead(i) = Panic
  <2>1. chans[i] # "foreign" /\ SourceOK(chans[i])
    BY <1>2 DEF Fine
  <2>2. CommonTotal <= Total(chans[i]) /\ Total(chans[i]) \in Nat
    BY CommonFacts, TypeFacts, StreamFacts DEF Total
  <2>3. pos \in 0..Total(chans[i])
    BY <1>2, <1>3, <2>2
  <2>4. ReadChannel(chans[i], pos, n) = Panic
    BY <1>1, <1>2, <2>1, <2>3, WrappedReadPanics
  <2>5. i > 0
    BY <1>2
  <2> QED
    BY <1>1, <2>4, <2>5 DEF WindowRead
<1>5. data.master => WindowRead(0) = Panic
  <2>1. pos \in 0..data.claim["group"]
    BY <1>2, <1>3
  <2>2. ReadMaster("group", pos, n) = Panic
    BY <1>1, <1>2, <2>1, WrappedMasterPanics
  <2> QED
    BY <1>1, <2>2 DEF WindowRead
<1>6. ~data.master => WindowRead(0) = Values(<<>>)
  BY DEF WindowRead
<1>7. Panic.out = "panic" /\ Values(<<>>).out = "ok" /\ "panic" # "ok"
  BY DEF Panic, Values
<1>8. \A i \in 0..Len(chans) : i = 0 \/ i \in DOMAIN chans
  BY <1>2
<1>9. \A i \in DOMAIN chans : i \in 0..Len(chans)
  BY <1>2
<1>10. \A i \in 0..Len(chans) : WindowRead(i).out \in {"ok", "panic"}
  BY <1>4, <1>5, <1>6, <1>7, <1>8
<1>11. \E i \in 0..Len(chans) : WindowRead(i).out # "ok"
  <2>1. CASE data.master
    <3>1. 0 \in 0..Len(chans)
      BY <1>2
    <3> QED
      BY <1>5, <1>7, <2>1, <3>1
  <2>2. CASE DOMAIN chans # {}
    BY <1>4, <1>7, <1>9, <2>2
  <2> QED
    BY <2>1, <2>2 DEF Watched
<1> QED
  BY <1>10, <1>11

(* The samples of a window have been handed out.                           *)
Handed(n) ==
    /\ pos + n <= end /\ pos' = pos + n /\ pc' = pc /\ err' = err
    /\ \A i \in DOMAIN chans :
          /\ ~Lost(chans[i], pos, n)
          /\ delivered'[i] = delivered[i] \o Samples(chans[i], pos, n)
    /\ DOMAIN sigs' = DOMAIN chans
    /\ \A i \in DOMAIN chans :
          /\ sigs'[i].offset = pos /\ sigs'[i].vals = Samples(chans[i], pos, n)
          /\ data.master => sigs'[i].time = Run("group", pos, n)

(* Next hands out a window, or meets an error, or panics.                  *)
LEMMA WindowStep ==
    ASSUME Modest, TypeInv, StartInv, RangeInv, NextWindow, Watched
    PROVE  /\ UNCHANGED <<file, window, closed, end>>
           /\ \/ pc' = "panic" /\ UNCHANGED <<pos, sigs, err, delivered>>
              \/ err' /\ WholeLost /\ UNCHANGED <<pos, sigs, delivered>>
              \/ Handed(WindowSize)
<1> DEFINE stops == {i \in 0..Len(chans) : WindowRead(i).out # "ok"}
<1>1. HasNext /\ UNCHANGED <<file, window, closed>>
  BY DEF NextWindow
<1>2. \/ pc' = "panic" /\ UNCHANGED <<pos, end, sigs, err, delivered>>
      \/ /\ stops # {} /\ WindowRead(Min(stops)).out = "error"
         /\ err' /\ UNCHANGED <<pos, sigs, end, delivered>>
      \/ /\ stops = {} /\ sigs' = [i \in DOMAIN chans |-> Signal(i)]
         /\ delivered' = [i \in DOMAIN chans |-> delivered[i] \o WindowRead(i).vals]
         /\ pos' = Int64(pos + WindowSize) /\ UNCHANGED <<pc, end, err>>
  BY Zenon DEF NextWindow, Fail
<1>3. Len(chans) \in Nat /\ DOMAIN chans = 1..Len(chans) /\ MaxInt \in Nat
  BY TypeFacts
<1>4. stops # {} => Min(stops) \in stops
  <2>1. stops \subseteq Nat
    BY <1>3
  <2> HIDE DEF stops
  <2> QED
    BY <2>1, MinFacts
<1>5. CASE pc' = "panic" /\ UNCHANGED <<pos, end, sigs, err, delivered>>
  BY <1>1, <1>5
<1>6. CASE /\ stops # {} /\ WindowRead(Min(stops)).out = "error"
           /\ err' /\ UNCHANGED <<pos, sigs, end, delivered>>
  <2>1. PICK i \in 0..Len(chans) : WindowRead(i).out = "error"
    <3>1. Min(stops) \in 0..Len(chans)
      BY <1>4, <1>6
    <3> HIDE DEF stops
    <3> QED
      BY <1>6, <3>1
  <2>2. pos + WindowSize <= end
    <3>1. ~(pos + WindowSize > MaxInt /\ WindowSize <= MaxInt)
      BY <1>1, <2>1, WrappedWindow
    <3> QED
      BY <1>1, <3>1, WindowFacts
  <2>3. WholeLost
    BY <1>1, <2>1, <2>2, WindowReads
  <2> QED
    BY <1>1, <1>6, <2>3
<1>7. CASE /\ stops = {} /\ sigs' = [i \in DOMAIN chans |-> Signal(i)]
           /\ delivered' = [i \in DOMAIN chans |-> delivered[i] \o WindowRead(i).vals]
           /\ pos' = Int64(pos + WindowSize) /\ UNCHANGED <<pc, end, err>>
  <2>1. \A i \in 0..Len(chans) : WindowRead(i).out = "ok"
    BY <1>7
  <2>2. pos + WindowSize <= end
    <3>1. ~(pos + WindowSize > MaxInt /\ WindowSize <= MaxInt)
      BY <1>1, <2>1, WrappedWindow
    <3> QED
      BY <1>1, <3>1, WindowFacts
  <2>3. PICK n : n = WindowSize
    OBVIOUS
  <2>4. /\ pos \in Nat /\ n \in Nat /\ pos + n <= end /\ end <= MaxInt /\ end \in Int
    BY <1>1, <2>2, <2>3, WindowFacts, CommonFacts, TypeFacts, SMTT(30) DEF TypeInv
  <2>5. pos' = pos + n
    BY <1>3, <1>7, <2>3, <2>4, Wraps
  <2>6. \A v : Values(v).vals = v
    BY DEF Values
  <2>7. ASSUME NEW i \in DOMAIN chans
        PROVE  WindowRead(i).vals = Samples(chans[i], pos, n) /\ ~Lost(chans[i], pos, n)
    <3>1. i \in 0..Len(chans) /\ i > 0
      BY <1>3
    <3> QED
      BY <1>1, <2>1, <2>2, <2>3, <2>6, <3>1, WindowReads
  <2>8. data.master => WindowRead(0).vals = Run("group", pos, n)
    <3>1. 0 \in 0..Len(chans)
      BY <1>3
    <3> QED
      BY <1>1, <2>1, <2>2, <2>3, <2>6, <3>1, WindowReads
  <2>9. ASSUME NEW i \in DOMAIN chans
        PROVE  /\ sigs'[i].offset = pos /\ sigs'[i].vals = Samples(chans[i], pos, n)
               /\ data.master => sigs'[i].time = Run("group", pos, n)
    <3>1. sigs'[i] = Signal(i)
      BY <1>7
    <3>2. /\ sigs'[i].offset = pos /\ sigs'[i].vals = WindowRead(i).vals
          /\ data.master /\ chans[i] = "master" => sigs'[i].time = WindowRead(i).vals
          /\ ~(data.master /\ chans[i] = "master") => sigs'[i].time = WindowRead(0).vals
      BY <3>1 DEF Signal
    <3>3. chans[i] = "master" => Samples(chans[i], pos, n) = Run("group", pos, n)
      BY <2>4, SamplesAreRun DEF StreamOf
    <3> QED
      BY <2>7, <2>8, <3>2, <3>3
  <2>10. \A i \in DOMAIN chans : delivered'[i] = delivered[i] \o Samples(chans[i], pos, n)
    BY <1>7, <2>7
  <2>11. DOMAIN sigs' = DOMAIN chans
    BY <1>7
  <2>12. Handed(n)
    BY <1>7, <2>4, <2>5, <2>7, <2>9, <2>10, <2>11 DEF Handed
  <2> QED
    BY <1>1, <1>7, <2>3, <2>12
<1> QED
  BY <1>2, <1>5, <1>6, <1>7

-----------------------------------------------------------------------------
(* The invariant is kept.                                                  *)

(* Reading does not depend on how far the iteration is.                    *)
LEMMA LostFixed ==
    ASSUME UNCHANGED file
    PROVE  /\ \A c, from, n : Lost(c, from, n)' <=> Lost(c, from, n)
           /\ WholeLost' <=> WholeLost
<1>1. data' = data /\ cfg' = cfg /\ chans' = chans /\ CommonRange' = CommonRange
  BY FileFixed
<1>2. \A s, from, n : Unreadable(s, from, n)' <=> Unreadable(s, from, n)
  BY <1>1 DEF Unreadable
<1>3. \A c, from, n : Lost(c, from, n)' <=> Lost(c, from, n)
  BY <1>1, <1>2 DEF Lost, StreamOf
<1> QED
  BY <1>1, <1>2, <1>3 DEF WholeLost

(* A window continues what was handed out before.                          *)
LEMMA HandedReaches ==
    ASSUME TypeInv, StartInv, RangeInv, HasNext, Watched, UNCHANGED <<file, window, closed, end>>,
           Handed(WindowSize)
    PROVE  RangeInv'
<1>1. PICK n, from : n = WindowSize /\ from = cfg.from
  OBVIOUS
<1>2. /\ Ready /\ ~closed /\ from \in Nat /\ pos \in Nat /\ from <= pos /\ end <= CommonTotal
      /\ n \in Nat /\ n >= 1
  BY <1>1, WindowFacts
<1>3. PICK m \in Nat : m = pos - from
  BY <1>2
<1>4. Reached(m)
  BY <1>1, <1>2, <1>3 DEF RangeInv
<1>5. pos = from + m /\ m + n \in Nat /\ pos + n = from + (m + n)
  BY <1>2, <1>3
<1>6. /\ data' = data /\ cfg' = cfg /\ chans' = chans /\ CommonTotal' = CommonTotal
  BY FileFixed
<1>7. ASSUME NEW i \in DOMAIN chans
      PROVE  /\ delivered'[i] = Samples(chans[i], from, m + n)
             /\ ~Lost(chans[i], from, m + n)
  <2>1. /\ delivered[i] = Samples(chans[i], from, m) /\ ~Lost(chans[i], from, m)
        /\ delivered'[i] = delivered[i] \o Samples(chans[i], from + m, n) /\ ~Lost(chans[i], from + m, n)
    BY <1>1, <1>4, <1>5 DEF Reached, Handed
  <2>2. Samples(chans[i], from, m) \o Samples(chans[i], from + m, n) = Samples(chans[i], from, m + n)
    BY <1>2, SamplesCat
  <2>3. ~Lost(chans[i], from, m + n)
    BY <1>2, <2>1, StreamFacts, ReadableParts DEF Lost
  <2> QED
    BY <2>1, <2>2, <2>3
<1>8. pos' = from + (m + n) /\ pos' <= end /\ pos' - from = m + n /\ from < pos'
  BY <1>1, <1>2, <1>5 DEF Handed
<1>9. ASSUME NEW i \in DOMAIN chans'
      PROVE  /\ delivered'[i] = Samples(chans'[i], cfg'.from, pos' - cfg'.from)
             /\ ~Lost(chans[i], cfg.from, pos - cfg.from)'
  <2>1. i \in DOMAIN chans /\ chans'[i] = chans[i] /\ cfg'.from = from /\ pos' - cfg'.from = m + n
    BY <1>1, <1>6, <1>8
  <2>2. ~Lost(chans[i], from, m + n) /\ delivered'[i] = Samples(chans[i], from, m + n)
    BY <1>7, <2>1
  <2>3. ~Lost(chans[i], cfg.from, pos - cfg.from)'
    BY <1>6, <2>1, <2>2 DEF Lost, Unreadable, StreamOf
  <2> QED
    BY <2>1, <2>2, <2>3
<1>10. Reached(pos - cfg.from)'
  BY <1>9 DEF Reached
<1>11. \E k \in 0..CommonTotal' : \A i \in DOMAIN chans' : delivered'[i] = Samples(chans'[i], cfg'.from, k)
  <2>1. m + n \in 0..CommonTotal
    <3>1. CommonTotal \in Nat /\ end \in Int
      BY CommonFacts DEF TypeInv
    <3> QED
      BY <1>2, <1>5, <1>8, <3>1
  <2> QED
    BY <1>1, <1>6, <1>7, <2>1
<1> QED
  BY <1>1, <1>6, <1>8, <1>10, <1>11 DEF RangeInv

(* What a step leaves alone keeps its part of the invariant.               *)
LEMMA RangeSame ==
    ASSUME RangeInv, UNCHANGED <<file, window, closed, end, pos, delivered>>
    PROVE  RangeInv'
<1>1. /\ data' = data /\ cfg' = cfg /\ chans' = chans /\ CommonTotal' = CommonTotal
      /\ (Watched' <=> Watched)
  BY FileFixed
<1>2. Reached(pos - cfg.from)' <=> Reached(pos - cfg.from)
  BY <1>1 DEF Reached, Lost, Unreadable, StreamOf
<1> QED
  BY <1>1, <1>2 DEF RangeInv, Ready

LEMMA SigsSame ==
    ASSUME SigsInv, UNCHANGED <<file, sigs>>
    PROVE  SigsInv'
<1>1. data' = data /\ chans' = chans
  BY FileFixed
<1> QED
  BY <1>1 DEF SigsInv

LEMMA ErrSame ==
    ASSUME ErrInv, UNCHANGED <<file, window, end, err>>
    PROVE  ErrInv'
<1>1. cfg' = cfg /\ CommonRange' = CommonRange /\ (WholeLost' <=> WholeLost)
  BY FileFixed, LostFixed
<1> QED
  BY <1>1 DEF ErrInv, Ready

(* There is no window in place.                                            *)
LEMMA NoSigs ==
    ASSUME DOMAIN sigs' = {}
    PROVE  SigsInv'
<1>1. 0 \in Nat
  OBVIOUS
<1> QED
  BY <1>1 DEF SigsInv

(* Nothing has been handed out yet.                                        *)
LEMMA NoneIsRun ==
    ASSUME NEW c, NEW from \in Nat
    PROVE  <<>> = Samples(c, from, 0) /\ ~Lost(c, from, 0)
<1>1. Samples(c, from, 0) = [k \in {} |-> <<IF c = "virtual" THEN "index" ELSE StreamOf(c), from + k - 1>>]
  BY DEF Samples
<1> QED
  BY <1>1 DEF Lost, Unreadable

(* Chunks.                                                                 *)
LEMMA NewKeeps ==
    ASSUME TypeInv, StartInv, NewChunks
    PROVE  RangeInv' /\ SigsInv' /\ ErrInv'
<1>1. /\ pc = "new" /\ pc' = "iter" /\ UNCHANGED <<file, sigs, closed, delivered>>
      /\ window = 0 /\ sigs = <<>> /\ \A i \in DOMAIN chans : delivered[i] = <<>>
  BY DEF NewChunks, StartInv, TypeInv, Ready
<1>2. /\ data' = data /\ cfg' = cfg /\ chans' = chans /\ CommonTotal' = CommonTotal
  BY <1>1, FileFixed
<1>3. CommonTotal \in Nat
  BY CommonFacts
<1>4. \E n \in 0..CommonTotal' : \A i \in DOMAIN chans' : delivered'[i] = Samples(chans'[i], cfg'.from, n)
  <2>1. \A c : <<>> = Samples(c, cfg.from, 0)
    BY DEF Samples
  <2>2. 0 \in 0..CommonTotal
    BY <1>3
  <2> QED
    BY <1>1, <1>2, <2>1, <2>2
<1>5. SigsInv'
  BY <1>1, NoSigs
<1>6. CASE Fine
  <2>1. ~(\E i \in DOMAIN chans : chans[i] = "foreign" \/ ~SourceOK(chans[i])) /\ CommonRange # <<>>
    BY <1>6 DEF Fine
  <2>2. err' = FALSE /\ pos' = CommonRange[1]
    BY <2>1 DEF NewChunks, CommonRange
  <2>3. PICK from : from = cfg.from /\ from \in Nat /\ CommonRange[1] = from
    BY <1>6, FineRange
  <2>4. pos' = cfg'.from /\ pos' - cfg'.from = 0
    BY <1>2, <2>2, <2>3
  <2>5. Reached(pos - cfg.from)'
    <3>1. ASSUME NEW i \in DOMAIN chans
          PROVE delivered'[i] = Samples(chans[i], from, 0) /\ ~Lost(chans[i], from, 0)
      BY <1>1, <2>3, NoneIsRun
    <3>2. ASSUME NEW i \in DOMAIN chans'
          PROVE  /\ delivered'[i] = Samples(chans'[i], cfg'.from, pos' - cfg'.from)
                 /\ ~Lost(chans[i], cfg.from, pos - cfg.from)'
      BY <1>2, <2>3, <2>4, <3>1 DEF Lost, Unreadable, StreamOf
    <3> QED
      BY <3>2 DEF Reached
  <2>6. RangeInv'
    BY <1>4, <2>4, <2>5 DEF RangeInv
  <2> QED
    BY <1>5, <2>2, <2>6 DEF ErrInv
<1>7. CASE ~Fine
  <2>1. window' = window
    BY <1>7, Zenon DEF NewChunks, Fine, CommonRange
  <2>2. ~Ready'
    BY <1>1, <2>1 DEF Ready
  <2> QED
    BY <1>4, <1>5, <2>2 DEF RangeInv, ErrInv
<1> QED
  BY <1>6, <1>7

(* Next.                                                                   *)
LEMMA WindowKeeps ==
    ASSUME Modest, TypeInv, StartInv, RangeInv, SigsInv, ErrInv, NextWindow
    PROVE  RangeInv' /\ SigsInv' /\ ErrInv'
<1>1. HasNext /\ ~err
  BY DEF NextWindow, HasNext
<1>2. CASE Watched
  <2>1. UNCHANGED <<file, window, closed, end>>
    BY <1>2, WindowStep
  <2>2. CASE pc' = "panic" /\ UNCHANGED <<pos, sigs, err, delivered>>
    BY <2>1, <2>2, RangeSame, SigsSame, ErrSame
  <2>3. CASE err' /\ WholeLost /\ UNCHANGED <<pos, sigs, delivered>>
    <3>1. RangeInv' /\ SigsInv'
      BY <2>1, <2>3, RangeSame, SigsSame
    <3>2. end = cfg.from + CommonRange[2]
      BY <1>1, <1>2, WindowFacts
    <3>3. cfg' = cfg /\ CommonRange' = CommonRange /\ WholeLost'
      BY <2>1, <2>3, FileFixed, LostFixed
    <3>4. ErrInv'
      BY <2>1, <3>2, <3>3 DEF ErrInv
    <3> QED
      BY <3>1, <3>4
  <2>4. CASE Handed(WindowSize)
    <3>1. RangeInv'
      BY <1>1, <1>2, <2>1, <2>4, HandedReaches
    <3>2. PICK o, n : o = pos /\ n = WindowSize
      OBVIOUS
    <3>3. o \in Nat /\ n \in Nat
      BY <1>1, <1>2, <3>2, WindowFacts
    <3>4. data' = data /\ chans' = chans
      BY <2>1, FileFixed
    <3>5. \A i \in DOMAIN sigs' : /\ sigs'[i].offset = o
                                  /\ sigs'[i].vals = Samples(chans'[i], o, n)
                                  /\ data'.master => sigs'[i].time = Run("group", o, n)
      BY <2>4, <3>2, <3>4 DEF Handed
    <3>6. SigsInv'
      BY <3>3, <3>5 DEF SigsInv
    <3>7. ~err'
      BY <1>1, <2>4 DEF Handed
    <3> QED
      BY <3>1, <3>6, <3>7 DEF ErrInv
  <2> QED
    BY <1>2, <2>2, <2>3, <2>4, WindowStep
<1>3. CASE ~Watched
  <2>1. ~data.master /\ DOMAIN chans = {} /\ Len(chans) = 0
    <3>1. ~data.master /\ DOMAIN chans = {}
      BY <1>3 DEF Watched
    <3>2. PICK n \in Nat : n = Len(chans) /\ DOMAIN chans = 1..n
      BY TypeFacts
    <3>3. n = 0
      <4>1. 1 \notin 1..n
        BY <3>1, <3>2
      <4> QED
        BY <4>1
    <3> QED
      BY <3>1, <3>2, <3>3
  <2>2. \A i \in 0..Len(chans) : WindowRead(i).out = "ok"
    <3>1. \A i \in 0..Len(chans) : i = 0
      BY <2>1
    <3>2. WindowRead(0).out = "ok"
      BY <2>1 DEF WindowRead, Values
    <3> QED
      BY <3>1, <3>2
  <2>3. sigs' = [i \in DOMAIN chans |-> Signal(i)] /\ UNCHANGED <<file, err>>
    BY <2>2, Zenon DEF NextWindow
  <2>4. /\ chans' = chans /\ (Watched' <=> Watched) /\ CommonTotal' = CommonTotal
    BY <2>3, FileFixed
  <2>5. DOMAIN sigs' = {}
    BY <2>1, <2>3
  <2>6. 0 \in 0..CommonTotal'
    BY <2>4, CommonFacts
  <2>7. RangeInv'
    BY <1>3, <2>1, <2>4, <2>6 DEF RangeInv
  <2> QED
    BY <1>1, <2>3, <2>5, <2>7, NoSigs DEF ErrInv
<1> QED
  BY <1>2, <1>3

(* Close.                                                                  *)
LEMMA CloseKeeps ==
    ASSUME RangeInv, ErrInv, Close
    PROVE  RangeInv' /\ SigsInv' /\ ErrInv'
<1>1. closed' /\ sigs' = <<>> /\ UNCHANGED <<file, end, window, err, delivered>>
  BY DEF Close
<1>2. cfg' = cfg /\ chans' = chans /\ CommonTotal' = CommonTotal
  BY <1>1, FileFixed
<1>3. RangeInv'
  BY <1>1, <1>2 DEF RangeInv
<1> QED
  BY <1>1, <1>3, NoSigs, ErrSame

-----------------------------------------------------------------------------
(* The results.                                                            *)

(* The inductive invariant holds of every reachable state of every         *)
(* iteration: any request, range and window, wrapping sums included.       *)
THEOREM ChunksInv ==
    ASSUME Modest
    PROVE  Spec => []CInv
<1>1. Init => CInv
  <2> SUFFICES ASSUME Init PROVE CInv
    OBVIOUS
  <2>1. TypeInv /\ StartInv
    BY StartInit
  <2>2. window = 0 /\ sigs = <<>> /\ \A i \in DOMAIN chans : delivered[i] = <<>>
    BY DEF Init
  <2>3. ~Ready
    BY <2>2 DEF Ready
  <2>4. \A c : <<>> = Samples(c, cfg.from, 0)
    BY DEF Samples
  <2>5. 0 \in 0..CommonTotal /\ 0 \in Nat
    BY <2>1, CommonFacts
  <2>6. RangeInv
    BY <2>2, <2>3, <2>4, <2>5 DEF RangeInv
  <2>7. SigsInv
    BY <2>2, <2>5 DEF SigsInv
  <2> QED
    BY <2>1, <2>3, <2>6, <2>7 DEF CInv, ErrInv
<1>2. CInv /\ [Next]_vars => CInv'
  <2> SUFFICES ASSUME CInv, [Next]_vars PROVE CInv'
    OBVIOUS
  <2>1. TypeInv /\ StartInv /\ RangeInv /\ SigsInv /\ ErrInv
    BY DEF CInv
  <2>2. TypeInv' /\ StartInv'
    BY <2>1, StartNext
  <2>3. RangeInv' /\ SigsInv' /\ ErrInv'
    <3>1. CASE NewChunks
      BY <2>1, <3>1, NewKeeps
    <3>2. CASE NextWindow
      BY <2>1, <3>2, WindowKeeps
    <3>3. CASE Close
      BY <2>1, <3>3, CloseKeeps
    <3>4. CASE UNCHANGED vars
      <4>1. UNCHANGED <<file, pc, pos, end, window, sigs, err, closed, delivered>>
        BY <3>4 DEF vars
      <4> QED
        BY <2>1, <4>1, RangeSame, SigsSame, ErrSame
    <3> QED
      BY <3>1, <3>2, <3>3, <3>4 DEF Next
  <2> QED
    BY <2>2, <2>3 DEF CInv
<1> QED
  BY <1>1, <1>2, PTL DEF Spec

(* The windows that Next hands out tile the requested range: no sample is  *)
(* left out or repeated, whatever the window (chunks.go: Next).            *)
THEOREM RangeIsTiled ==
    ASSUME Modest
    PROVE  Spec => []WindowsTile
<1>1. CInv => WindowsTile
  <2> SUFFICES ASSUME CInv PROVE WindowsTile
    OBVIOUS
  <2>1. TypeInv /\ StartInv /\ RangeInv
    BY DEF CInv
  <2>2. PICK m \in 0..CommonTotal : \A i \in DOMAIN chans : delivered[i] = Samples(chans[i], cfg.from, m)
    BY <2>1 DEF RangeInv
  <2>3. CommonTotal \in Nat
    BY <2>1, CommonFacts
  <2>4. CASE ~(pc = "iter" /\ ~closed)
    BY <2>2, <2>4 DEF WindowsTile
  <2>5. CASE ~Ready
    <3>1. \A c : <<>> = Samples(c, cfg.from, 0)
      BY DEF Samples
    <3>2. \A i \in DOMAIN chans : delivered[i] = Samples(chans[i], cfg.from, 0)
      BY <2>1, <2>5, <3>1 DEF StartInv
    <3> QED
      BY <2>3, <3>2 DEF WindowsTile
  <2>6. CASE ~Watched
    <3>1. DOMAIN chans = {}
      BY <2>6 DEF Watched
    <3> QED
      BY <2>3, <3>1 DEF WindowsTile
  <2>7. CASE pc = "iter" /\ ~closed /\ Ready /\ Watched
    <3>1. PICK from, n : from = cfg.from /\ n = pos - from
      OBVIOUS
    <3>2. /\ pos = from \/ (from < pos /\ pos <= end)
          /\ Reached(n)
      BY <2>1, <2>7, <3>1 DEF RangeInv
    <3>3. /\ from \in 0..CommonTotal /\ end <= CommonTotal /\ pos \in Int /\ end \in Int
      BY <2>1, <2>3, <2>7, <3>1, WholeRange DEF TypeInv
    <3>4. n \in 0..CommonTotal /\ pos = from + n
      BY <2>3, <3>1, <3>2, <3>3
    <3>5. \A i \in DOMAIN chans : delivered[i] = Samples(chans[i], cfg.from, n)
      BY <3>1, <3>2 DEF Reached
    <3> QED
      BY <3>1, <3>4, <3>5 DEF WindowsTile
  <2> QED
    BY <2>4, <2>5, <2>6, <2>7
<1> QED
  BY <1>1, ChunksInv, PTL

(* The signals of a window have one offset and one length, and the k-th    *)
(* master value is from the record of the k-th sample, unless the samples  *)
(* are of an array element with its own records (chunks.go: Next).         *)
THEOREM WindowsAreAligned ==
    ASSUME Modest
    PROVE  Spec => []WindowAligned
<1>1. CInv => WindowAligned
  <2> SUFFICES ASSUME CInv, NEW i \in DOMAIN sigs, NEW j \in DOMAIN sigs
               PROVE  /\ sigs[i].offset = sigs[j].offset
                      /\ Len(sigs[i].vals) = Len(sigs[j].vals)
                      /\ sigs[i].vals = Samples(chans[i], sigs[i].offset, Len(sigs[i].vals))
                      /\ data.master =>
                            /\ Len(sigs[i].time) = Len(sigs[i].vals)
                            /\ chans[i] # "element" =>
                                  \A k \in DOMAIN sigs[i].vals :
                                      sigs[i].time[k] = <<StreamOf(chans[i]), sigs[i].offset + k - 1>>
    BY DEF WindowAligned
  <2>1. PICK o \in Nat, n \in Nat : \A h \in DOMAIN sigs :
            /\ sigs[h].offset = o
            /\ sigs[h].vals = Samples(chans[h], o, n)
            /\ data.master => sigs[h].time = Run("group", o, n)
    BY DEF CInv, SigsInv
  <2>2. PICK s, t : /\ s = IF chans[i] = "virtual" THEN "index" ELSE StreamOf(chans[i])
                    /\ t = IF chans[j] = "virtual" THEN "index" ELSE StreamOf(chans[j])
    OBVIOUS
  <2>3. sigs[i].vals = Run(s, o, n) /\ sigs[j].vals = Run(t, o, n)
    BY <2>1, <2>2, SamplesAreRun
  <2>4. \A r : /\ Len(Run(r, o, n)) = n /\ DOMAIN Run(r, o, n) = 1..n
               /\ \A k \in 1..n : Run(r, o, n)[k] = <<r, o + k - 1>>
    BY RunIsSeq
  <2>5. Len(sigs[i].vals) = n /\ DOMAIN sigs[i].vals = 1..n /\ Len(sigs[j].vals) = n
    BY <2>3, <2>4
  <2>6. sigs[i].vals = Samples(chans[i], sigs[i].offset, Len(sigs[i].vals))
    BY <2>1, <2>5
  <2>7. data.master => /\ Len(sigs[i].time) = n
                       /\ \A k \in 1..n : sigs[i].time[k] = <<"group", o + k - 1>>
    BY <2>1, <2>4
  <2>8. chans[i] # "element" => StreamOf(chans[i]) = "group"
    BY DEF StreamOf
  <2>9. sigs[i].offset = o /\ sigs[j].offset = o
    BY <2>1
  <2> QED
    BY <2>5, <2>6, <2>7, <2>8, <2>9
<1> QED
  BY <1>1, ChunksInv, PTL

(* One read of the whole range, when the iteration has found nothing wrong *)
(* with its arguments.                                                     *)
LEMMA WholeRead ==
    ASSUME Modest, TypeInv, StartInv, Ready, NEW i \in DOMAIN chans
    PROVE  LET e == ReadChannel(chans[i], cfg.from, CommonRange[2])
           IN \/ end < 0 /\ e = Panic
              \/ /\ end = cfg.from + CommonRange[2]
                 /\ e.out \in {"ok", "error", "panic"}
                 /\ e.out = "ok" => /\ e = Values(Samples(chans[i], cfg.from, CommonRange[2]))
                                    /\ ~Lost(chans[i], cfg.from, CommonRange[2])
                 /\ e.out = "error" => Lost(chans[i], cfg.from, CommonRange[2])
<1>1. PICK from, count, total : from = cfg.from /\ count = CommonRange[2] /\ total = CommonTotal
  OBVIOUS
<1>2. /\ from \in 0..total /\ count \in 0..MaxInt
      /\ \/ from + count <= total /\ end = from + count
         \/ from + count > MaxInt /\ end < 0
  BY <1>1, WholeRange
<1>3. total \in Nat /\ total <= Total(chans[i]) /\ Total(chans[i]) \in Nat /\ MaxInt \in Nat
  BY <1>1, CommonFacts, TypeFacts, StreamFacts DEF Total
<1>4. chans[i] # "foreign" /\ SourceOK(chans[i])
  BY DEF StartInv, Fine
<1>5. from \in Nat /\ count \in Nat /\ from \in 0..Total(chans[i])
  BY <1>2, <1>3
<1>6. CASE from + count <= total /\ end = from + count
  <2>1. from + count <= Total(chans[i])
    BY <1>3, <1>5, <1>6
  <2> QED
    BY <1>1, <1>4, <1>5, <1>6, <2>1, ReadFacts
<1>7. CASE from + count > MaxInt /\ end < 0
  BY <1>1, <1>2, <1>4, <1>5, <1>7, WrappedReadPanics
<1> QED
  BY <1>2, <1>6, <1>7

(* An iteration that has ended with an error has met what Read fails on.   *)
LEMMA ErrorAgrees ==
    ASSUME Modest, CInv, pc = "iter", err
    PROVE  \/ CommonRange = <<>>
           \/ \E i \in DOMAIN chans : ReadChannel(chans[i], cfg.from, CommonRange[2]).out # "ok"
           \/ ReadTime("fixed", cfg.from, CommonRange[2]).out # "ok"
<1>1. TypeInv /\ StartInv /\ ErrInv
  BY DEF CInv
<1>2. CASE ~Ready
  <2>1. ~Fine
    BY <1>1, <1>2 DEF StartInv
  <2>2. CASE CommonRange = <<>>
    BY <2>2
  <2>3. CASE CommonRange # <<>>
    <3>1. PICK i \in DOMAIN chans : chans[i] = "foreign" \/ ~SourceOK(chans[i])
      BY <2>1, <2>3 DEF Fine
    <3>2. ReadChannel(chans[i], cfg.from, CommonRange[2]) = Failure
      BY <3>1, Zenon DEF ReadChannel
    <3>3. Failure.out # "ok"
      BY DEF Failure
    <3> QED
      BY <3>2, <3>3
  <2> QED
    BY <2>2, <2>3
<1>3. CASE Ready
  <2>1. end = cfg.from + CommonRange[2] /\ WholeLost
    BY <1>1, <1>3 DEF ErrInv
  <2>2. CASE \E i \in DOMAIN chans : Lost(chans[i], cfg.from, CommonRange[2])
    <3>1. PICK i \in DOMAIN chans : Lost(chans[i], cfg.from, CommonRange[2])
      BY <2>2
    <3>2. ReadChannel(chans[i], cfg.from, CommonRange[2]).out # "ok"
      BY <1>1, <1>3, <3>1, WholeRead DEF Panic
    <3> QED
      BY <3>2
  <2>3. CASE data.master /\ Unreadable("group", cfg.from, CommonRange[2])
    <3>1. PICK from, count : from = cfg.from /\ count = CommonRange[2]
      OBVIOUS
    <3>2. /\ from \in Nat /\ count \in Nat /\ from + count <= CommonTotal
      <4>1. /\ from \in 0..CommonTotal /\ count \in 0..MaxInt
            /\ from + count <= CommonTotal \/ end < 0
        BY <1>1, <1>3, <3>1, WholeRange
      <4> QED
        BY <2>1, <3>1, <4>1
    <3>3. CommonTotal \in Nat /\ CommonTotal <= data.claim["group"] /\ data.claim["group"] \in Nat
      BY <1>1, CommonFacts, TypeFacts DEF Streams
    <3>4. from + count <= data.claim["group"]
      BY <3>2, <3>3
    <3>5. ReadMaster("group", from, count).out # "ok"
      BY <1>1, <2>3, <3>1, <3>2, <3>4, MasterFacts
    <3>6. ReadTime("fixed", from, count) = ReadMaster("group", from, count)
      BY <2>3 DEF ReadTime, StreamOf
    <3> QED
      BY <3>1, <3>5, <3>6
  <2> QED
    BY <2>1, <2>2, <2>3 DEF WholeLost
<1> QED
  BY <1>2, <1>3

(* An iteration that has run to its end has handed out what Read gives.    *)
LEMMA EndAgrees ==
    ASSUME Modest, CInv, pc = "iter", ~closed, ~HasNext, ~err, NEW i \in DOMAIN chans
    PROVE  \/ ReadChannel(chans[i], cfg.from, CommonRange[2]).out = "panic"
           \/ ReadChannel(chans[i], cfg.from, CommonRange[2]) = Values(delivered[i])
<1>1. TypeInv /\ StartInv /\ RangeInv
  BY DEF CInv
<1>2. Ready /\ Watched /\ ~(pos < end)
  BY <1>1 DEF StartInv, Watched, HasNext
<1>3. PICK from, count, e : /\ from = cfg.from /\ count = CommonRange[2]
                            /\ e = ReadChannel(chans[i], from, count)
  OBVIOUS
<1>4. CASE end < 0 /\ e = Panic
  BY <1>3, <1>4 DEF Panic
<1>5. CASE /\ end = from + count
           /\ e.out \in {"ok", "error", "panic"}
           /\ e.out = "ok" => e = Values(Samples(chans[i], from, count)) /\ ~Lost(chans[i], from, count)
           /\ e.out = "error" => Lost(chans[i], from, count)
  <2>1. from \in Nat /\ count \in Nat /\ pos \in Int /\ end \in Int
    BY <1>1, <1>2, <1>3, WholeRange, CommonFacts, TypeFacts, SMTT(30) DEF TypeInv
  <2>2. /\ pos = from \/ (from < pos /\ pos <= end)
        /\ Reached(pos - from)
    BY <1>1, <1>2, <1>3 DEF RangeInv
  <2>3. pos - from = count
    BY <1>2, <1>5, <2>1, <2>2
  <2>4. delivered[i] = Samples(chans[i], from, count) /\ ~Lost(chans[i], from, count)
    BY <1>3, <2>2, <2>3 DEF Reached
  <2>5. e = Values(delivered[i]) \/ e.out = "panic"
    BY <1>5, <2>4
  <2> QED
    BY <1>3, <2>5
<1>6. \/ end < 0 /\ e = Panic
      \/ /\ end = from + count
         /\ e.out \in {"ok", "error", "panic"}
         /\ e.out = "ok" => e = Values(Samples(chans[i], from, count)) /\ ~Lost(chans[i], from, count)
         /\ e.out = "error" => Lost(chans[i], from, count)
  BY <1>1, <1>2, <1>3, WholeRead
<1> QED
  BY <1>4, <1>5, <1>6

(* An iteration gives what one Read of the same range gives: the same      *)
(* samples when it ran to its end (if the range fits into memory at once), *)
(* an error only where Read fails too (chunks.go: Chunks and Next;         *)
(* read.go: Channel.read, extractColumn).                                  *)
THEOREM IterationIsRead ==
    ASSUME Modest
    PROVE  Spec => []AgreesWithRead
<1>1. CInv => AgreesWithRead
  <2> SUFFICES ASSUME CInv, pc = "iter", ~closed, ~HasNext
               PROVE  IF err
                      THEN \/ CommonRange = <<>>
                           \/ \E i \in DOMAIN chans :
                                 ReadChannel(chans[i], cfg.from, CommonRange[2]).out # "ok"
                           \/ ReadTime("fixed", cfg.from, CommonRange[2]).out # "ok"
                      ELSE \A i \in DOMAIN chans :
                              \/ ReadChannel(chans[i], cfg.from, CommonRange[2]).out = "panic"
                              \/ ReadChannel(chans[i], cfg.from, CommonRange[2]) = Values(delivered[i])
    BY DEF AgreesWithRead
  <2>1. CASE err
    BY <2>1, ErrorAgrees
  <2>2. CASE ~err
    BY <2>2, EndAgrees
  <2> QED
    BY <2>1, <2>2
<1> QED
  BY <1>1, ChunksInv, PTL

(* A window that Next hands out moves the position forward, and not beyond *)
(* the end: the measure that the end of a user's loop rests on.  Without a *)
(* channel and a master nothing is read, and nothing stops a window whose  *)
(* end has wrapped around.                                                 *)
THEOREM WindowsAdvance ==
    ASSUME Modest
    PROVE  Spec => [][NextWindow /\ Watched => \/ pc' = "panic" \/ err'
                                               \/ pos < pos' /\ pos' <= end]_vars
<1>1. CInv /\ [Next]_vars => [NextWindow /\ Watched => \/ pc' = "panic" \/ err'
                                                       \/ pos < pos' /\ pos' <= end]_vars
  <2> SUFFICES ASSUME CInv, NextWindow, Watched, pc' # "panic", ~err'
               PROVE  pos < pos' /\ pos' <= end
    BY Zenon
  <2>1. TypeInv /\ StartInv /\ RangeInv
    BY DEF CInv
  <2>2. PICK n : n = WindowSize /\ Handed(n)
    BY <2>1, WindowStep
  <2>3. HasNext
    BY DEF NextWindow
  <2>4. pos \in Nat /\ n \in Nat /\ n >= 1
    BY <2>1, <2>2, <2>3, WindowFacts
  <2> QED
    BY <2>2, <2>4 DEF Handed
<1> QED
  BY <1>1, ChunksInv, PTL DEF Spec
=============================================================================
