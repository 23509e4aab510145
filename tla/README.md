# Verification of GoMDF in TLA+

GoMDF reads and writes ASAM MDF 4 measurement files. This directory models the
parts of it in which state changes over time (the writer, the caches, the
concurrent readers, the passes over damaged data) and the algorithms between the
bytes of a file and the samples a caller gets (record layout, conversions, bus
decoding), checks the models with TLC on small instances, and proves some of the
results with TLAPS for every instance.

## 1. Inventory

| Part | Source | State | Operations | What is hard, what makes it correct |
|---|---|---|---|---|
| Writer | `writer.go`, `writerdata.go`, `writergroup.go` | bufio buffer and its sticky error, pending patches, started/closed, growing block, chunk streams of every group and string channel | definition calls, `Append`, `Flush`, `Close` | Killed, failed or powered off between any two writes; patches go past the buffer; chunks of several streams interleave. What was appended is read back after `Close`, what was flushed at any time, and no failure yields a file that calls itself finalized and is not complete |
| Row writer | `writergroup.go` | channels and record size of a group; `Record` buffers, texts and their sticky error; string streams | `Float64` ... `String`, `Record`, `Set*`, `Append`, `AppendColumns` | Nothing enforces the order of the calls; Records are reused and outlive definitions. A row holds what was last set, a batch that is reported so is appended whole, and one that a failing write stops ends in no finished file |
| Data section reader | `internal/datasection` | segment list | `New`, `ReadAt` | The inverse of the writer's layouts; clamping of a block whose length was never written |
| Decompression cache, prefetch | `internal/datasection/cache.go`, `dz.go`, `datasection.go` | LRU map, order, size; one worker pool per `ReadAt` | `get`, `put`, `ReadAt`, `prefetch` | get, inflate and put are not atomic; eviction between prefetch and use; dropped worker errors; waiting for workers |
| Open | `file.go`, `tree.go` | tree of groups and channels, record counts | `Open`, `fixCycleCounts` | Repair of unfinalized files |
| Lazy values, `ReadAll` | `read.go` | nested `sync.Once` values, semaphore, first error | `ReadAll`, `Read` | Everyone waits on everyone; a stored failure is shared |
| Windows | `read.go`, `chunks.go` | iterator position, end, error | `Read`, `Chunks`, `Next`, `Close` | Integer widths; failure inside a window; channels of different lengths |
| Unsorted groups | `unsorted.go` | read buffer, one stream per record ID | `deinterleave` | One wrong size shifts all that follows; torn tails; stale buffers |
| Column storage | `internal/datasection/ld.go` | segment lists of data and invalidation bytes | `NewColumnStorage` | Placeholder lengths settled later |
| VLSD values | `vlsd.go` | none | `resolveVLSD` | Offsets into signal data |
| Arrays | `arrays.go`, `tree.go` | element streams | `expandArray`, `resolve` | Index arithmetic; counts copied before they are repaired |
| Record extraction | `internal/records` | none | `Extract` | Bit fields across bytes |
| Conversions | `internal/conversion`, `read.go` | compiled rule of a channel | `compileConversion`, `Compile`, `applyConversion` | Nested rules, cycles, bounds of ranges, what is extracted for which rule. A sample is what the rule means for it |
| DBC databases | `internal/dbc` | the message signals go to, messages by key | `Parse`, `Message`, `Raw` | Broken and repeated lines; two bit orders; fields over a ninth byte |
| Bus decoding | `bus.go` | accumulators of one call, cached by bus, identifier and format | `DecodeBus` | Multiplexing, short frames, several groups. A signal is the projection of the log |
| Sample reductions | `reduction.go` | none | `Reduction.Read` | Three sub-records and flags behind them |
| Metadata views | `events.go`, `attachment.go`, `hierarchy.go` | none | walks over blocks | |
| Block codecs, byte sources | `internal/blocks`, `internal/source` | none | encode, decode, `ReadAt` | |

The writer and the reader meet only through the file: the writer's properties
are stated by opening the file it has left with the model of this library's
reader. `ReadAll` runs `Channel.Read` of many channels; each read resolves lazy
values (section, streams, conversion) that other reads share, and ends in
`ReadAt` of a data section, which runs prefetch and the cache. `Open` of an
unfinalized file runs the unsorted pass to recount records. A read ends in
`applyConversion`; `DecodeBus` reads the columns of frame groups and joins them
with databases, given or attached; `Reduction.Read` uses extraction and
conversion over a data section of its own.

## 2. Modules

| Module | Models | Lines of thought |
|---|---|---|
| `MdfFile` | the reader: data sections (stored, zipped, listed), clamping, untransposition, `Open`, record counts, VLSD lookup | pure operators over a file, a sequence of cells: a block is one cell followed by its payload bytes; a byte carries the stream and the position it was written for, so a reader that gets the wrong byte is caught |
| `MdfWriter` | `begin`, `Append`, `Flush`, `Close`, `finalize`, the bufio writer, in-place patches, fsync; failing and torn writes; power loss | one step per write of the code, `pc` names the step |
| `WriterProps` | what the writer promises | by way of `MdfFile` |
| `RecordingLog` | the abstract log the crash-safe layout implements | four numbers |
| `LruCache` | `get`, `put`, `touch` | actions on map, order and size |
| `SectionCache` | several goroutines in `ReadAt`: prefetch scan, workers, wait, sequential path | extends `LruCache` |
| `ReadAll` | `ReadAll`'s goroutines over nested `sync.Once` values | a stack per goroutine |
| `Unsorted` | `deinterleave` byte by byte with `bufferedReader`, and `fixCycleCounts` over its streams | real bytes: a record read at a wrong position is misread as in the code |
| `Chunks` | `resolveRange`, `Channel.read`/`Read`, `extractColumn`, the `Chunks` iterator | sums of `int` wrap at `MaxInt` |
| `Extraction` | integer fields and invalidation bits of records, `expandArray` | pure operators on bytes |
| `ColumnStorage` | `NewColumnStorage` and the columns read from it | one step per list and per block; extends `Extraction` |
| `GroupRows` | channel definition, `Record` and its setters, `Append`, `AppendColumns`, and what `Close` makes of them, for one group | the calls come in any order; `MdfWriter` takes over where the bytes of a row enter a stream |
| `Dbc` | `Parse` of a database text, message lookup, extraction of a signal's bits | pure operators; a text is a sequence of lines that match their expression or do not |
| `BusDecode` | `DecodeBus`: choice of databases, frame groups, one step per frame, the sort of the results | extends `Dbc` |
| `BusProps` | what bus decoding promises | without parser, words and caches: by lines, bit numbers and frames |
| `Conversion` | `compileConversion`, `Compile`, lookups, `applyConversion` | pure recursive operators over a file of rules and texts |
| `ChannelReads` | reads with conversion, and `Reduction.Read` | extends `ColumnStorage` and `Conversion`; holds the meaning of rules the results are compared with |
| `SectionCacheProofs`, `ReadAllProofs`, `UnsortedProofs`, `ChunksProofs`, `ColumnStorageProofs`, `GroupRowsProofs` | theorems about these modules | section 4 |
| `WriterProofs`, `GrowingProofs` | theorems about the writer: in every layout; the state of the growing layout, what its reader finds and the refinement | the second extends the first |
| `MC*` | constants of the runs | |

Definitions named *Mutation* in a comment are deliberate faults. Each property
of a passing run is also run with one of them in place of the definition below
it, and must then fail. No specification uses them.

### How the state corresponds to the code

`MdfWriter`: `file` is what the operating system holds, and so what a killed
process leaves; `disk` what an fsync has made stable; `buf` and `err` are
bufio's; `patches`, `started`, `closed`, `growAddr`, `growBytes` are fields of
`Writer`; `cs` holds a `chunkStream` for each group (`<<g, 0>>`) and each of its
string channels (`<<g, j>>`); `count` is `g.count`. `acked`, `flushed` and `lens`
are history. An API call is a sequence of steps: `AppendCall`, then `Begin`,
`FlushForPatches`, `ApplyPatch`..., `StoreLength`, `StoreValue`, `StoreRecord`;
`Close`, then `LinkStream`..., patches, `WriteFinalID`, `SyncClose`. Calls after
`Close` return an error and change nothing, so they are not actions.

`SectionCache`: `pc`, `pos`, `lo`, `hi`, `missing` are the locals of `ReadAt` and
`prefetch`; `job` is what a worker is doing; `rjob` the reader's own call of
`decompressed`; `got` what has been copied to the caller.

`ReadAll`: `once` is the state of each lazy value, `stack` the nested
computations a goroutine is in, `sem` the tokens taken.

`Unsorted`: `rbuf`, `rpos`, `src` are `bufferedReader`'s fields; `step`, `want`,
`got` the running `io.ReadFull`; `pos`, `cur`, `bufs` the locals of the pass.

`Chunks`: `pos`, `end`, `window`, `err`, `sigs` are the iterator's fields;
`data` says what the file holds and claims.

`ColumnStorage`: `ld`, `i`, `sampleIdx`, `data`, `iv` are the locals of
`NewColumnStorage` (`hasIv`: `iv` is not nil), `chain` is the file, `col` the
column `extractColumn` returns.

`GroupRows`: `chans`, `started`, `closed` and `out` (bytes of rows, string
streams, count) are fields of `GroupWriter` and `Writer`; `meta` is what the CN
blocks say; `failed` is bufio's error, `final` a `Close` that finished the file;
`recs` are the caller's Records. `set` in a Record, `rows` and `late`
are history, `damaged` records that a patch hit the header block.

`BusDecode`: `in` is the call with the file it is made on, `dbs` and `msgs` are
the fields of `busAccumulator` (an identifier no database knows maps to
`Unknown`), `gi` and `fi` the loops over groups and frames, `out` the result.

`ChannelReads`: `sig` is the last column converted and `red` the last reduction
read, each with the input it was made from.

## 3. Runs

### 3.1 `growing` (MCWriter)
One group, no compression: the crash-safe layout. Up to four records of three
bytes through a buffer of four, so that records are cut by the buffer at every
position; blocks aligned to two. Every write may fail and leave a prefix, and
the power may be lost at any step.
* `KilledFileIsPrefix`, `FinalizedIsComplete`, `ErrorIsFinal` speak of every
  state, since the process may be killed in each.
* `FlushedIsReadable`: flushed records are readable from then on, in the file
  and in what a power loss leaves, unless it hits `Close` (see 5, `v_power`).
* `ClosedRoundTrip`: what `Close` leaves reads back as what was appended.
* `ImplementsLog`: refinement of `RecordingLog`.
* `CallsReturn`: every call ends.

### 3.2 `chunked` (MCWriter)
Two groups (record sizes 2 and 1), the first with a string channel whose values
have length 0 or 2; chunks of three bytes, each stored or zipped as the code
would choose by size; failing and torn writes. Three records per group fill
chunks of every stream in all orders and leave remainders to `Close`; data lists
of two entries and transposed chunks occur.

### 3.3 `cache` and `cache_live` (MCSectionCache)
`cache`: two readers, four blocks of sizes 1, 2, 1 and 4, a budget of 3, so the
first three do not fit together (a put evicts some and keeps some) and the last
fits never; two CPUs. `BudgetKept`, `OrderIsKeys`, `EvictsOnlyWhatItMust` are
about the LRU under non-atomic use, `NoStrayWorkers` about the goroutines of
prefetch. The readers are symmetric, which is sound for these properties.
`cache_live`: three blocks of sizes 1, 2 and 4, the second corrupt, fair
scheduling, no symmetry: `ReadsAreRight` (payloads, or the error) and
`ReadsReturn`.

### 3.4 `readall` (MCReadAll)
Four channels in three groups and two data groups, one unsorted, one master, two
channels of one name; two CPUs; any one of the shared values or reads fails.
`ReturnsWhatReadsGive`, `ComputedByOne`, `ReadAllReturns`.

### 3.5 `unsorted` (MCUnsorted)
Every recording of up to three records over a group, a group pointing into a
VLSD group, an array element whose ID shares its low byte with a group's, and an
undeclared ID; two-byte IDs, a four-byte buffer; finalized or cut anywhere in the
last record; refills return fewer bytes or fail. `StreamsAreProjections`,
`NoFalseAlarm`, `OffsetsResolve`, `GroupCountsAreRight`, `PassEnds`.

### 3.6 `chunks` (MCChunks)
Requests that mix fixed, master, virtual, element and foreign channels; ranges
before, in and behind the data; windows smaller and larger than it; counts and
windows so large that their sum with the position wraps around; record size
zero and larger than the chunk budget; short, unresolvable and damaged streams.
`WindowsTile`, `WindowAligned` (one offset, one length, and times of the same
records, array elements aside: section 5), `AgreesWithRead` (what one `Read` gives, if that
fits into memory: a slice of more than `MaxAlloc` elements panics), `StopsForGood`,
`IterationEnds`.

### 3.7 `columns` (MCColumns)
Files of three blocks spread over two lists: equal sample counts with a shorter
last block, explicit offsets with blocks of different sizes (an empty one among
them) or named in reverse order, every choice of omitted invalidation blocks and
of invalidation flags of the lists; damaged blocks and lists; a missing sample.
Records of four bytes with two invalidation bytes, words of 16 bits instead of
64 (`WordBits`; 2^64 is out of TLC's integers and 16 bits show the same
boundaries). Channels: fields across bytes, big-endian and signed ones, a whole
word, one wider than a word, one behind the record, nested arrays whose flags
cross a byte, a matrix that leaves the record, and arrays that are not expanded.
The recorder's bytes are a fixed pattern in which neighbouring samples differ.
* `SamplesReadBack` compares with a reference that adds up single bits and finds
  array elements by their packed position.
* `InvalidReadBack`: flags are those of the same sample, and none where the
  block was omitted.
* `ReadsSucceed`: a read succeeds exactly if the field is inside the record, every
  asked sample is in some block, and no flag it needs is in a gap of the reader
  (`FlagGap`; the gaps contradict a comment: section 5).
A behaviour reads one range, every range of every channel being tried: reading
leaves the streams alone.

The same run converts columns and reads reductions, one per behaviour. Rules are
all types but the algebraic one, with tables of up to three entries, values at,
between and outside the keys and bounds; rules with too few values or
references; references to texts, to nothing, to rules for numbers and for texts,
to a table with error codes, to a 1:1 rule, to a rule that refers to itself, to a
block that is no rule, and chains at and beyond the depth limit
(`MaxConversionDepth`, 2 here and 16 in the code). Columns are integers, reals,
texts and bytes, and record indexes of virtual channels. Reductions announce
fewer, as many or more intervals than their data holds, with and without flags.
* `ConvertedRight` compares with `Meaning`, which reads the blocks instead of
  compiling them and says for one value what a rule gives. It speaks of rules that
  fit the channel's values (`RuleFits`) and do not refer to a 1:1 rule; the code
  goes wrong on the others (section 5).
* `ReducedReadBack`: means, minima, maxima, flags and times are those of the
  asked intervals, and a read fails only when intervals are missing.

### 3.8 `bus` (MCBus)
Bytes of two bits and words of two bytes (`ByteBits`, `WordBytes`), so that a
field over three bytes is what one over nine is in the code. Every signal of up
to a word and one more bit at every start, signed and unsigned, in both orders,
is decoded from every payload of up to three bytes. Then structured texts
(multiplexed signals and switches, tables with negative and repeated values,
floats, a message defined twice, broken lines, attributes before what they name,
a switch that is multiplexed itself), one or two at a time, over logs of
three frames in two groups, standard and extended, on two buses, cut to lengths,
with and without the optional columns. Then attachments,
unreadable ones, groups that are no frame groups, unreadable and short columns.
* `DatabasesAsWritten`: a message has the signals of its own block with the
  attributes that name them, said of the lines of the text.
* `SignalsAreProjections`: the result is, for each bus and identifier, the
  projection of the log, said bit by bit. Extended frames whose identifier the
  databases have as a standard one only are left out (section 5).

### 3.9 `rows` (MCRows)
Up to two channels, the master among them or not, two Records, setters of three
kinds on channels of all types, batches that fit, are short, of a wrong type,
empty, or name a channel twice, and `Close`, in any order, definitions between
rows included. Any write may fail: in `begin`, at a text or a row, at any row of a
batch, in `Close`; the caller may go on all the same. The Records are symmetric.
* `RowsReadBack`: rows of a closed file, as far as they have the announced
  length, hold what was last set.
* `BatchesEndWhole`: a batch without an error is appended whole. Columns that are
  short or of a wrong type and a closed file are noticed before the first row. A
  failing write leaves the rows before it, with an error (`writergroup.go:277`),
  and then no `Close` succeeds, so that no finished file holds a part of a batch.
  (The bytes of the row that was stopped are not in `out`: no finished file has
  them.)
* `DefinedInTime`: with all channels defined before the first Record and row
  nothing panics, all rows have the announced length and `Close` patches only
  what `begin` wrote. Section 5 says what happens otherwise.

### Bounds
Every bound is a constant (`MaxRecords`, `MaxReads`, `MaxFaults`, `BufCap`,
`ChunkSize`, `Budget`, `MaxInt`, `MaxAlloc`, `MaxSamples`, `WordBits`,
`MaxElements`, `MaxConversionDepth`, `MaxRange`, `ByteBits`, `WordBytes`,
`MaxChans`, `MaxRows`). Sizes were chosen so that each
boundary is crossed: a buffer that cuts a record at every offset, a chunk
smaller than two records, a cache that cannot hold its blocks, more goroutines
than tokens, integers that wrap. More of the same repeats these cases.

### Fairness
* `MdfWriter`: a call that has begun goes on by itself (`WF(Step)`); nothing in
  it waits. Nobody is assumed to make a call.
* `SectionCache`, `ReadAll`: the Go scheduler runs every goroutine that is not
  blocked, so weak fairness for each of them. No assumption on new reads.
* `Unsorted`: the pass is one loop (`WF(Next)`).
* `Chunks`: the user's loop calls `Next` until it returns false; `Close` is not
  assumed.

`CHECK_DEADLOCK FALSE` everywhere: each system may stop (the writer is closed,
all reads are done). Blocking is what the liveness properties rule out.

## 4. Proofs

All theorems hold for every value of the constants that satisfies the named
assumptions of the modules (types; buffers, alignments and chunks are not
empty). Where one needs more, it is a hypothesis in its statement. An invariant
is proved by the usual three facts: `Init` gives it, every step keeps it, it
gives the property.

### The cache (`SectionCacheProofs`)
For any number of readers, segments, workers and any budget: `TypeCorrect`,
`CacheBookkeeping` (`OrderIsKeys`), `WorkersJoined` (`NoStrayWorkers`),
`ReadsCorrect` (`ReadsAreRight`), `CacheInBudget` (`BudgetKept`) and
`EvictsTheOldest` (`EvictsOnlyWhatItMust`), all from `Invariance`.
None of them is inductive alone. The inductive invariant `IInv` adds:
* `LruInv`: an entry of the cache holds the payload of its own key, and the key
  is not a corrupt segment (without it a hit could deliver anything);
* `JobsGood`: what a worker or reader is about to put is a segment that
  inflates (a put is separated from the inflate by steps of others);
* `ReaderInv`: for each reader, the range lies in the section, and in the
  sequential phase what was delivered is exactly `lo..pos-1`.

The eviction of `put` is the one hard step: `PutKeepsLru` shows that the kept
tail of `order` together with the new key is again free of repetitions and lists
exactly the cached keys, whatever number of entries was evicted. The budget rests
on sums of payload sizes over sets of keys: `BytesWithout` and `BytesUnion` say
that they may be taken apart in any order.

### `ReadAll` (`ReadAllProofs`)
For any number of channels, groups and processors and any set of things that
fail: `MutualExclusion` (`ComputedByOne`), `ReturnsRight`
(`ReturnsWhatReadsGive`), `AtMostNumCPU`, `RanksDecrease` and `NoDeadlock`.
The idea is that `faulty` alone decides what a `sync.Once` stores (`Bad`), so the
schedule decides who computes a value and never what it is. The invariant
`IInv` says what is on every goroutine's stack (its read at the bottom, above it
values under computation, whose needs so far are there), that no value is on two
stacks (`Exclusive`) and each value under computation is on one (`Owned`), and
that stored results agree with `Bad`.
`RankInv` adds that values on a stack go down a fixed ranking (reads, layouts,
streams and master values, sections and conversions). `NoDeadlock` follows: of
the running goroutines take the one whose top value has the least rank; if it
waits, then for a value of lower rank that is on another stack, whose top has a
rank as low or lower. It is the safety part
of `ReadAllReturns`; that the goroutine does go on is fairness and stays with
TLC.

### The writer in every layout (`WriterProofs`)
For any groups, strings, chunk, buffer and alignment sizes, compressed or not:
`FailureIsFinal` (`ErrorIsFinal`), from `WriterInv`. The invariant has the types,
what a call in progress looks like (`CallInv`), which step may follow which
(`StageInv`), and that the first cell ever written is the identification block
and no other write but the last of `finalize` reaches it (`HeadInv`): patches
name addresses of other blocks. That last write is behind a flush that hands on
bufio's sticky error.

### The growing layout (`GrowingProofs`)
Hypothesis `Plain`: one group, no compression, no string channel. String
channels have to be left out, the promises are false with them (`v_midblock`).
For any record, buffer and alignment size, any number of records and failures:
* `GrowingInv`: the invariant `GInv`. `SizeInv` ties offsets, counters and
  acknowledgements together; `ShapeInv` gives every cell of file and buffer by
  its address, before and after the patches of `finalize`; `DiskInv` says the
  same of what the last fsync made stable; `PatchInv` says which patches are
  pending and which are done. The last two are what a power loss needs: it mixes
  cells of `disk` and `file`.
* From it, by what the reader makes of such a file: `KilledLeavesPrefix`
  (`KilledFileIsPrefix`), `FlushIsKept` (`FlushedIsReadable`), `CloseKeepsAll`
  (`ClosedRoundTrip`) and `FinalizedMeansComplete` (`FinalizedIsComplete`).
* `GrowingImplementsLog` (`ImplementsLog`): the layout implements `RecordingLog`.
  The mapping reads the file with the model of the reader, so every step has to
  be shown to read back as before or as a step of the log; `LinkInv`, an
  invariant of its own, says when the tree is linked in the file and on disk.

### The abstract log (`GrowingProofs`)
Flushed records are readable, only appended ones are (`LogIsSafe`), and no step
but a power loss takes a readable record back, none but a power loss inside
`Close` a durable one (`LogOnlyGrows`). `GrowingOnlyGrows` takes both through
`GrowingImplementsLog` to the writer: they hold of what the reader makes of the
growing file.

### Unsorted data groups (`UnsortedProofs`)
For any groups, record sizes, VLSD values and array elements, any recording of
them, any buffer capacity, a section torn anywhere and reads that fail or come up
short: `StreamsAreRight` (`StreamsAreProjections`), `AlarmsAreJustified`
(`NoFalseAlarm`), `CountsAreRight` (`GroupCountsAreRight`) and `OffsetsAreRight`
(`OffsetsResolve`), from `UnsortedInv`. `FieldsAssumption` is needed: record IDs
and lengths fit the fields they are written in; a recording in which they do not
cannot be told apart by anyone. The invariant `UInv`:
* `FileInv`: the section is a prefix of the recording;
* `ReaderInv`: what is left in the buffer is what comes next in the section, and
  `got` is what came last. Of the stale buffer a failed refill leaves nothing is
  claimed: no read follows it;
* `PassInv`: some number of whole records is done, the streams are the projection
  of these, the position is the sum of their sizes, and the field being read is
  the next one of the record that follows (`InRecord`);
* `CountInv` and `NoFalseAlarm` itself.

That a misread ID or length is impossible rests on `NumberOfDigits` (the bytes of
a number that fits give it back) and `RecordAt`, `GotIs` (what lies at that
position of the recording). Every whole record of the section is then taken
(`TakeBodyKeeps`), and an end of the section inside one is a torn section
(`TornThere`). The counters follow from the length of a projection
(`StreamLength`), the offsets from where the k-th value starts in its stream
(`OffsetOfValue`, `ValueThere`).

### Window reads (`ChunksProofs`)
For any requests, ranges, windows, record sizes and record counts, short and
damaged streams: `RangeIsTiled` (`WindowsTile`), `WindowsAreAligned`
(`WindowAligned`), `IterationIsRead` (`AgreesWithRead`), `EndIsFinal`
(`StopsForGood`), and `WindowsAdvance`, the safety part of `IterationEnds`.
Hypothesis `Modest` (not needed for `EndIsFinal`): a stream's record count plus
the largest slice is an `int`. Without it a range whose end wraps around might be
short enough to be allocated, and be read. In the code `int` has 64 bits and a
slice is below 2^48, so `Modest` says that no file claims nearly 2^63 records.
The invariant `CInv` states what was handed out (`RangeInv`: the range up to the
position, all of it readable as one), the window in place (`SigsInv`) and that
an error met in a window is one of the whole range (`ErrInv`). It rests on what a
read of a range gives: `DecodedRun` shows that the chunk loop of `extractColumn`
decodes each sample once and in order for every chunk size, and
`WrappedReadPanics` that a range that wrapped around is never read.

### Column storage (`ColumnStorageProofs`)
For any chain of lists, block sizes, order of blocks, omitted or damaged blocks,
channels, arrays and ranges: `SamplesAreRight` (`SamplesReadBack`),
`FlagsReadBack` (`InvalidReadBack`) and `ReadableExactly` (`ReadsSucceed`),
from `ColumnStorageInv`. The assumptions say what a recorder does:
* `FilesAssumption`: a list that gives one sample count for its blocks is right
  about where each of them starts; no sample is in two blocks; and where the
  blocks are not linked in the order of their samples, no empty one starts where
  another does (the sort by offset may swap the two, and the reader then takes
  the empty one);
* `ChannelsAssumption`: the elements of an array lie without gaps (`Packed`), also
  from one level of nesting to the next, as each level states its own distance;
* `ByteAssumption`: bytes are bytes.

The invariant `ColumnInv`: while the lists are walked the segments are those of
the blocks so far, in the order of the file (`WalkInv`); once they are sorted,
each stream is a row without overlaps (`InARow`) in which every block has its
place (`DataInv`, and `FlagInv` for the blocks whose invalidation bytes are
described at all). `FinishKeeps` is the hard step: the sort moves the segments of
both streams, and `zeroSegLen` then measures an omitted block by the first data
segment at the same sample. `ZeroLength` shows that this is its own, except
exactly where an empty block starts at the same sample (`EmptyAt`). From it:
* `RecordRead`, `FlagRead`: a byte that can be read is that of the right sample,
  since offsets are products of the sample number and two different strides;
* `ElementIs`: the strides of `expandArray` place element `k` at `k` times the
  size of an element (`AlongIs`: mixed radix, one dimension after the other);
* `FieldIs`, `ValueIs`: the accumulator of `bitField` has the bits of the bytes
  in either order (`WordBit`), and what is left after shift, mask and sign
  extension is their weighted sum (`SumIs`, `SignedIs`);
* `RecordThere`, `FlagThere`: what the lists describe can be read, the gaps of
  `FlagGap` aside; `GapIs`, `SampleRead`: nothing else can (`SuccessIs`).

### The row writer (`GroupRowsProofs`)
For any number of channels of any types, Records, setter calls and batches, in
any order, with writes failing anywhere: `RowsAreAsSet` (`RowsReadBack`),
`BatchesAreWholeIfFinal` (`BatchesEndWhole`) and `InTimeIsSafe` (`DefinedInTime`),
from `GroupRowsInv`.
The assumption on the inputs is that a number has two bytes and that a batch's
columns are a sequence. The invariant `RowsInv`:
* `Layout`: channels do not overlap (`AddKeepsLayout`), so a setter and the
  offsets `Append` writes leave the other channels alone (`SetKeeps`,
  `OffsetsKeep`);
* `RecordOK`: a Record that is older than some channels has exactly the first
  ones, each with what was last set. Room for a channel is then the same as
  having it (`RoomIsThere`), which is why only late channels panic;
* `OutOK`: where the first rows have the announced length, row `r` starts at
  `(r - 1) * RecSize(meta)` and holds its values; a text is in its stream at the
  offset the row keeps (`RowArrives`), and stays there when the stream grows
  (`RowStays`). Nothing is claimed of rows behind one of another length, as
  nothing can be read from there;
* `LateInv`: channels defined in time are in every Record, row and the metadata.

`SealInv`, kept beside it, says that a finished file is closed and that none is
finished once bufio has kept an error.

The two loops of `AppendColumns` are recursive functions of the model.
`ColumnsSet` says what the inner one leaves in the Record (the last column of a
channel counts), `BatchKept` what the outer one appends.

### Induction
The library's induction theorems cannot be instantiated here. Where a fact about
a recursive definition is needed (`DecodedRun`, `AddsExists` and the sums of
payload sizes, the chain of group blocks, the loops of a batch, flattened records,
the digits of a number, counted records, powers of two, the words and sums of a
bit field, products of dimensions), it is proved
for that definition by a least counterexample, which `WFMin` provides for a
concrete set (`Climb` packs this up for the numbers up to n).

### Only model-checked
* All liveness: `CallsReturn`, `ReadsReturn`, `ReadAllReturns`, `PassEnds`,
  `IterationEnds`.
* The writer's chunked layout: `ClosedRoundTrip`, `ClosedStrings` and
  `FinalizedIsComplete` in run `chunked`. The invariant would have to describe a
  file of interleaved chunks of all streams and the lists that link them.
* All of `BusDecode` and `ChannelReads`. `Conversion` is recursive over the nesting of rules, so what it
  computes for every rule needs induction and stays with TLC, as do the sums over
  bits of `Dbc`.

## 5. Where code and documentation disagree

As runs that TLC refutes:
* `v_midblock`: in the growing layout a full chunk of a string channel is written
  into the growing data block; a successful `Close` leaves records that read
  back wrong (`writerdata.go:185`).
* `v_power`: `finalize` does not sync between the patches and the finalized
  identification block (`writerdata.go:306`).

Met while modelling, and visible in the models, without a run:
* Counters of array elements are not recomputed when an unfinalized file is
  opened (`tree.go:286`, against "bit 0: update cycle counters for CG/CA" at
  `file.go:113`). `ElementCountsAreRight` of `Unsorted` states it; added to
  `unsorted.cfg`, TLC refutes it.
* `Chunks` gives array elements the group's time stamps (`chunks.go:90`, against
  `read.go:74`: the element's own record stream "has its own timestamps").
  `TimeIsOwn` of `Chunks` states it; added to `chunks.cfg`, TLC refutes it.
* Definitions are not frozen by `begin` (`writergroup.go:68`, against "afterwards
  the definitions are frozen" at `writerdata.go:17`): a channel that comes after
  the first row lengthens the rows but not the announced record size, one that
  comes after a Record makes its setter or `Append` panic or its rows short, and
  a late string channel has no block, so `Close` patches its link into the header
  block at 64. `DefinedInTime` without its premise fails in each of these ways.
* A reference to a 1:1 rule compiles to no conversion and is taken for an empty
  text (`conversion.go:98`, against "non-nil when the ref was a nested CC block"
  at `:19`). `OneToOneIsARule` of `ChannelReads` states it; added to `columns.cfg`,
  TLC refutes it. `ConvertedRight` leaves such rules out (`RefersToOneToOne`).
* A text-to-text rule on a channel of numbers, or a value-to-text rule on a
  channel of texts, calls a function that is nil (`read.go:272-276`), against "no
  panics on malformed files" (`README.md:14`). `NeverPanics` of `ChannelReads`
  states it; added to `columns.cfg`, TLC refutes it. `ConvertedRight` says nothing
  of such rules (`WrongInput`).
* A virtual channel ignores rules that give texts (`read.go:304`, against
  "textual ones strings" at `:65`). `TextRulesGiveTexts` of `ChannelReads` states
  it; added to `columns.cfg`, TLC refutes it. `ConvertedRight` says nothing there
  (`RuleFits`).
* "table keys sorted" (`conversion.go:4`): tables are used as stored, and the
  lookup relies on the file. The run has sorted tables.
* `Database.Message` says "(or vice versa)" (`dbc.go:114`); only a standard
  identifier is looked up as an extended one. `MessageKey` follows the code;
  `IdOnlyMatch` of `BusProps` states the comment; added to `bus.cfg`, TLC refutes
  it. `SignalsAreProjections` leaves these frames out (`ExtendedByStandard`).
* `QualifiedName` is "unique per bus channel" (`bus.go:140`) and the results have
  "a stable order" (`bus.go:337`): neither holds when standard and extended frames
  of one identifier decode to the same message, as the results then compare equal
  and come in the order of a map.
* `multiplexer` returns the first switch, also one that is multiplexed itself
  (`dbc.go:84`), and multiplexed signals then follow that one.
  `SignalsAreProjections` leaves messages with such a switch out
  (`ExtendedMux`).
* A reduction read of an integer master without a conversion has no times
  (`reduction.go:95`), a group without record bytes divides by zero
  (`reduction.go:135`), and a field that ends behind the record is read from the
  next sub-record.
* `from+count` wraps for a large count (`read.go:58`, against the comment at
  `:52`): `WithRange(1, MaxInt)` is not clamped; `Chunks` yields nothing and
  reports no error, and `Read` panics when it makes its slice. `AgreesWithRead`
  compares with reads that do not panic.
* A field that spans a ninth byte loses its top bits in `bitField`
  (`internal/records/bits.go:14`); `internal/dbc/decode.go` treats the same case
  with care. `SamplesReadBack` leaves such fields out.
* In column storage, an omitted invalidation block whose data block starts where
  an empty data block does gets length zero (`zeroSegLen` measures the first),
  and the samples before the first list with invalidation data have no segment;
  reading a channel with an invalidation bit then fails with a gap, against
  "Omitted (NIL) invalidation blocks read as zero bytes" (`ld.go:17`).
  `OmittedReadsAsValid` of `ColumnStorage` states it; added to `columns.cfg`, TLC
  refutes it. `ReadsSucceed` says that a read fails there and only there
  (`FlagGap`).
* `docs/MANUAL.md:414` says column storage is not read, `:437` that it is; the
  code reads it.
* In the growing layout with strings, a process killed between `linkStream` and
  the length patch leaves bytes of the signal data block inside the growing
  block, where they count as records (same cause as `v_midblock`); this is why
  the `growing` run has no string channel.
* Strings stay in memory until a chunk is full, and their channel has no data
  link before `Close`: `Flush` does not make them readable (`writer.go:179`,
  against `docs/MANUAL.md:330`).
* When a patch of `begin` fails, later appends go on with the tree unlinked
  (`writerdata.go:114`, against the comment at `:98`).
* A string longer than the chunk size makes a DZ block above the limit
  (`writerdata.go:185`, against `writer.go:73`).
* Two goroutines that miss the same block both inflate it (`dz.go:12`, against
  "exactly once" in `docs/MANUAL.md:402`).
* An unfinalized unsorted file with a torn last record does not open
  (`unsorted.go:99`, against `docs/MANUAL.md:74`); `NoFalseAlarm` states exactly
  when the pass fails.

## 6. Abstractions and what is left out

* A block is one cell and its payload; a data group, its channel group and their
  record size are one cell. Names, units, comments, conversions, sources and the
  file history are not represented. Deflate is taken to be lossless.
* Power loss: appended cells survive as a prefix, cells patched in place in any
  subset. Real disks may do worse; the property that fails needs no more.
* In `MdfWriter` the definition calls are constants; they are actions of
  `GroupRows`, which has no file below it. The two meet at `Append`: `GroupRows`
  says which bytes a row is, `MdfWriter` what becomes of bytes in a stream. Every
  `Append` has one caller: two goroutines on one group are a data race, after
  which the Go memory model promises nothing.
* Numbers of conversions and signals are integers and quotients: rounding,
  overflow to infinity and NaN inputs are not represented. Names are numbers in
  the order of the strings.
* Not modelled: algebraic formulas (`expr.go`, a parser for float expressions,
  pure and without state), HL headers, structures, float, string and byte-array
  samples, text decoding, the description of rules for display, attachments,
  events and hierarchy (stateless walks over metadata), byte sources (pure I/O,
  their failures are choices of the models that use them), the example program.

## 7. Plan

Done: the writer and its abstract log, the row writer, the section cache,
`ReadAll`, the unsorted pass, windows and column storage with integer extraction
and array layout, all with proofs; conversions, reductions, databases and bus
decoding.
Next, in this order:
1. Proofs: the chunked layout of the writer; the lookups of a database.
2. Models: which stream an element of a fragmented array gets, the growing layout
   with an empty string channel, HL headers.
