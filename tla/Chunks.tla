------------------------------- MODULE Chunks -------------------------------
(***************************************************************************)
(* Window reads of a channel group (chunks.go and the range handling of    *)
(* read.go): the iterator Chunks, and Channel.Read with WithRange.         *)
(*                                                                         *)
(* A sample is named by the stream it is decoded from and its index there: *)
(* <<"group", i>>, <<"element", i>> for a fragmented array element with a  *)
(* record stream of its own, <<"index", i>> for a virtual channel, whose   *)
(* value is the index.  Master values are named in the same way.  Values,  *)
(* conversions and invalidation bits are not represented.                  *)
(*                                                                         *)
(* int goes up to MaxInt and wraps around.                                 *)
(***************************************************************************)
EXTENDS Integers, Sequences, FiniteSets, FiniteSetsExt, SequencesExt

CONSTANTS
    Requests,    \* sequences of channel kinds Chunks may be asked for
    Froms, Counts, Windows,  \* arguments of WithRange and WithChunkSamples
    RecSizes,    \* record sizes of the group
    RecordCounts,\* records a stream may claim
    ChunkBytes,  \* the default window in bytes (1 << 20)
    MaxAlloc,    \* make of more than this many elements panics
    MaxInt       \* the largest int, 2^63 - 1 in the code

Kinds == {"master", "fixed", "virtual", "element", "foreign"}

ASSUME ChunksAssumption ==
    /\ Requests \subseteq Seq(Kinds)
    /\ MaxInt \in Nat /\ MaxAlloc \in Nat /\ 2 * MaxAlloc <= MaxInt
    /\ ChunkBytes \in 1..MaxInt
    /\ Froms \union Counts \union Windows \subseteq (-MaxInt - 1)..MaxInt
    /\ RecSizes \union RecordCounts \subseteq 0..MaxInt

Int64(x) == ((x + MaxInt + 1) % (2 * MaxInt + 2)) - MaxInt - 1

-----------------------------------------------------------------------------
VARIABLES
    data,       \* the file: per stream the records claimed and held
    cfg,        \* readConfig: from, count, chunkSamples
    chans,      \* the channels asked for
    pc,         \* "new" before Chunks, "iter" after it, "panic"
    pos, end, window, sigs, err,
    closed,     \* history: Close was called
    delivered   \* history: the samples handed out, per requested channel

file == <<data, cfg, chans>>
vars == <<file, pc, pos, end, window, sigs, err, closed, delivered>>

StreamOf(c) == IF c = "element" THEN "element" ELSE "group"

(* source: fails when the element's data section cannot be resolved.       *)
SourceOK(c) == data.held[StreamOf(c)] >= 0
Total(c) == data.claim[StreamOf(c)]

(* resolveRange: <<from, count>>, or <<>> for an error.                    *)
ResolveRange(from, count, total) ==
    IF from < 0 \/ from > total THEN <<>>
    ELSE IF count < 0 \/ Int64(from + count) > total
         THEN <<from, total - from>> ELSE <<from, count>>

Panic == [out |-> "panic", vals |-> <<>>]
Failure == [out |-> "error", vals |-> <<>>]
Values(v) == [out |-> "ok", vals |-> v]

DefaultWindow(rec) == Max({1, ChunkBytes \div rec})

(* How many samples the loop of extractColumn decodes at a time, with done *)
(* of count behind it.  There is a second round only when chunk is smaller *)
(* than count, which is at most MaxAlloc, so done + chunk does not wrap.   *)
ChunkSamples == IF cfg.window > 0 THEN cfg.window ELSE DefaultWindow(data.rec)
Part(done, count, chunk) ==
    IF done + chunk > count THEN count - done ELSE chunk

(* The samples that the loop decodes.                                      *)
Decoded(s, from, count, chunk) ==
    LET rest[done \in 0..count] ==
            IF done >= count THEN <<>>
            ELSE [i \in 1..Part(done, count, chunk) |-> <<s, from + done + i - 1>>]
                     \o rest[done + Part(done, count, chunk)]
    IN rest[0]

(* The buffer of a chunk cannot be made, or is too small for its records   *)
(* because its size has wrapped around.                                    *)
BufferPanics(count, chunk) ==
    \/ Int64(chunk * data.rec) \notin 0..MaxAlloc
    \/ Part(0, count, chunk) * data.rec > Int64(chunk * data.rec)

(* extractColumn: count samples from a stream, decoded chunk by chunk.  A  *)
(* read that touches an unreadable record fails.                           *)
ExtractColumn(s, from, count) ==
    LET vals == Decoded(s, from, count, ChunkSamples)
    IN IF count > MaxAlloc THEN Panic
       ELSE IF count = 0 THEN Values(<<>>)
       ELSE IF data.rec = 0 \/ Int64(from + count) > data.held[s] THEN Failure
       ELSE IF BufferPanics(count, ChunkSamples) THEN Panic
       ELSE IF \E i \in DOMAIN vals : vals[i][2] = data.bad THEN Failure
       ELSE Values(vals)

ReadVirtual(from, count) ==
    IF count > MaxAlloc THEN Panic
    ELSE Values([i \in 1..count |-> <<"index", from + i - 1>>])

(* Channel.read.                                                           *)
ReadChannel(c, from, count) ==
    LET r == ResolveRange(from, count, Total(c))
    IN IF c = "foreign" \/ ~SourceOK(c) \/ r = <<>> THEN Failure
       ELSE IF c = "virtual" THEN ReadVirtual(r[1], r[2])
       ELSE ExtractColumn(StreamOf(c), r[1], r[2])

(* readMasterFloats through the layout of a stream.                        *)
ReadMaster(s, from, count) ==
    LET r == ResolveRange(from, count, data.claim[s])
    IN IF r = <<>> THEN Failure ELSE ExtractColumn(s, r[1], r[2])

(* Channel.Read: the samples, and the master values of the same stream.    *)
ReadTime(c, from, count) ==
    IF ~data.master THEN Values(<<>>)
    ELSE IF c = "master" THEN ReadChannel(c, from, count)
    ELSE ReadMaster(StreamOf(c), from, count)

-----------------------------------------------------------------------------
(* Mutation: no lower bound on the default window.                         *)
WindowForUnbounded(w, rec) ==
    IF w > 0 THEN w ELSE ChunkBytes \div Max({1, rec})

WindowFor(w, rec) == IF w > 0 THEN w ELSE DefaultWindow(Max({1, rec}))

(* Mutation: the group's own count is taken for all its channels.          *)
CommonTotalOfGroup == data.claim["group"]

(* The records every requested channel has, and the group.                 *)
CommonTotal ==
    Min({data.claim["group"]} \union {Total(chans[i]) : i \in DOMAIN chans})

(* ChannelGroup.Chunks.                                                    *)
NewChunks ==
    LET r == ResolveRange(cfg.from, cfg.count, CommonTotal)
    IN /\ pc = "new" /\ pc' = "iter"
       /\ IF \E i \in DOMAIN chans : chans[i] = "foreign" \/ ~SourceOK(chans[i])
          THEN err' = TRUE /\ UNCHANGED <<pos, end, window>>
          ELSE IF r = <<>> THEN err' = TRUE /\ UNCHANGED <<pos, end, window>>
          ELSE /\ err' = FALSE
               /\ pos' = r[1] /\ end' = Int64(r[1] + r[2])
               /\ window' = WindowFor(cfg.window, data.rec)
       /\ UNCHANGED <<file, sigs, closed, delivered>>

HasNext == pc = "iter" /\ ~err /\ pos < end

(* Mutation: the last window is a whole one.                               *)
WindowSizeWhole == window

WindowSize == IF Int64(pos + window) > end THEN end - pos ELSE window

(* Mutation: the window after an error is lost and the iteration goes on.  *)
FailSkips(n) == pos' = pos + n /\ UNCHANGED <<pc, err, sigs, end, delivered>>

Fail(n) == err' = TRUE /\ UNCHANGED <<pc, pos, sigs, end, delivered>>

(* The master values of the window (0), and the samples of channel i.      *)
WindowRead(i) ==
    IF i > 0 THEN ReadChannel(chans[i], pos, WindowSize)
    ELSE IF data.master THEN ReadMaster("group", pos, WindowSize)
    ELSE Values(<<>>)

(* The signals and the master values share their time slice.               *)
Signal(i) ==
    [offset |-> pos, vals |-> WindowRead(i).vals,
     time |-> WindowRead(IF data.master /\ chans[i] = "master" THEN i ELSE 0).vals]

(* Next: the master values of the window, then every channel; the first    *)
(* error ends the iteration with the previous window still in place.       *)
NextWindow ==
    LET stops == {i \in 0..Len(chans) : WindowRead(i).out # "ok"}
    IN /\ HasNext
       /\ \/ /\ stops # {} /\ WindowRead(Min(stops)).out = "panic"
             /\ pc' = "panic" /\ UNCHANGED <<pos, end, sigs, err, delivered>>
          \/ /\ stops # {} /\ WindowRead(Min(stops)).out = "error"
             /\ Fail(WindowSize)
          \/ /\ stops = {}
             /\ sigs' = [i \in DOMAIN chans |-> Signal(i)]
             /\ delivered' = [i \in DOMAIN chans |-> delivered[i] \o WindowRead(i).vals]
             /\ pos' = Int64(pos + WindowSize) /\ UNCHANGED <<pc, end, err>>
       /\ UNCHANGED <<file, window, closed>>

(* Mutation: Close leaves the position.                                    *)
CloseKeepsPos ==
    /\ pc = "iter" /\ ~closed /\ closed' = TRUE
    /\ sigs' = <<>>
    /\ UNCHANGED <<file, pc, pos, end, window, err, delivered>>

Close ==
    /\ pc = "iter" /\ ~closed /\ closed' = TRUE
    /\ sigs' = <<>> /\ pos' = end
    /\ UNCHANGED <<file, pc, end, window, err, delivered>>

-----------------------------------------------------------------------------
(* A stream may hold one record less than claimed, an element's section    *)
(* may not resolve (-1), one record may be unreadable (bad, -1 for none).  *)
Datas ==
    {d \in [claim : [{"group", "element"} -> RecordCounts],
            held  : [{"group", "element"} -> -1..Max(RecordCounts)],
            rec : RecSizes, bad : {-1, 1}, master : BOOLEAN] :
        /\ d.held["group"] \in {d.claim["group"] - 1, d.claim["group"]} \ {-1}
        /\ d.held["element"] \in {-1, d.claim["element"]}}

Init ==
    /\ data \in Datas
    /\ cfg \in [from : Froms, count : Counts, window : Windows]
    /\ chans \in Requests
    /\ "master" \in ToSet(chans) => data.master
    /\ pc = "new" /\ pos = 0 /\ end = 0 /\ window = 0 /\ sigs = <<>>
    /\ err = FALSE /\ closed = FALSE
    /\ delivered = [i \in DOMAIN chans |-> <<>>]

Next == NewChunks \/ NextWindow \/ Close

Spec == Init /\ [][Next]_vars

(* The user's loop calls Next until it returns false; it need not Close.   *)
FairSpec == Spec /\ WF_vars(NewChunks) /\ WF_vars(NextWindow)

-----------------------------------------------------------------------------
Samples(c, from, n) ==
    [k \in 1..n |-> <<IF c = "virtual" THEN "index" ELSE StreamOf(c), from + k - 1>>]

(* The windows tile the requested range: put together, they are for every  *)
(* channel the same run of samples from the start of the range to the      *)
(* iterator's position, with no sample left out or repeated.               *)
WindowsTile ==
    \E n \in 0..CommonTotal :
        /\ \A i \in DOMAIN chans : delivered[i] = Samples(chans[i], cfg.from, n)
        /\ pc = "iter" /\ ~closed /\ n > 0 => pos = cfg.from + n

(* All signals of a window start at its offset, have the same length and   *)
(* hold their samples from there on; the k-th master value is decoded from *)
(* the record of the k-th sample, or, of a virtual channel, from the       *)
(* record that its value counts.  For an array element with a record       *)
(* stream of its own only the number of master values is claimed:          *)
(* TimeIsOwn says what they should be.                                     *)
WindowAligned ==
    \A i, j \in DOMAIN sigs :
        /\ sigs[i].offset = sigs[j].offset
        /\ Len(sigs[i].vals) = Len(sigs[j].vals)
        /\ sigs[i].vals = Samples(chans[i], sigs[i].offset, Len(sigs[i].vals))
        /\ data.master =>
              /\ Len(sigs[i].time) = Len(sigs[i].vals)
              /\ chans[i] # "element" =>
                    \A k \in DOMAIN sigs[i].vals :
                        sigs[i].time[k] = <<StreamOf(chans[i]), sigs[i].offset + k - 1>>

CommonRange == ResolveRange(cfg.from, cfg.count, CommonTotal)

(* An iteration that ran to its end gave what one Read of the same range   *)
(* gives, if that fits into memory; one that ended with an error has met a *)
(* channel, a range or a record that Read fails on too.                    *)
AgreesWithRead ==
    LET whole(i) == ReadChannel(chans[i], cfg.from, CommonRange[2])
    IN pc = "iter" /\ ~closed /\ ~HasNext =>
        IF err
        THEN \/ CommonRange = <<>>
             \/ \E i \in DOMAIN chans : whole(i).out # "ok"
             \/ ReadTime("fixed", cfg.from, CommonRange[2]).out # "ok"
        ELSE \A i \in DOMAIN chans :
                whole(i).out = "panic" \/ whole(i) = Values(delivered[i])

(* After an error, and after Close, Next hands out nothing more.           *)
StopsForGood == [][err \/ closed => UNCHANGED <<delivered, err>>]_vars

(* The loop of a user who calls Next until it returns false ends: every    *)
(* window advances the position.                                           *)
IterationEnds == <>(pc # "new" /\ ~HasNext)

(* The master values of a signal come from the stream of its samples, as   *)
(* the comment in Channel.Read says for array elements.                    *)
TimeIsOwn ==
    \A i \in DOMAIN sigs : \A k \in DOMAIN sigs[i].time :
        sigs[i].time[k][1] = StreamOf(chans[i])
=============================================================================
