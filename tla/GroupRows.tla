----------------------------- MODULE GroupRows -----------------------------
(***************************************************************************)
(* writergroup.go: the channels and the rows of one group that is written. *)
(*                                                                         *)
(* A channel is [type, off].  A number is a pair <<hi, lo>> of bytes: a    *)
(* float32 keeps the high byte of a float64, an 8-bit integer the low one. *)
(* A text is a sequence of bytes, its length prefix and the offset that a  *)
(* row keeps of it are numbers.  How the streams become blocks of a file   *)
(* is in MdfWriter.  Names, units, comments and conversions of channels    *)
(* are left out.                                                           *)
(*                                                                         *)
(* Nothing stops a caller from defining channels late or from using a      *)
(* Record that is older than a channel, so the actions allow both.         *)
(* Any call that reaches the file may be stopped by a failing write, and   *)
(* the caller may go on all the same.                                      *)
(***************************************************************************)
EXTENDS Integers, Sequences, SequencesExt, FiniteSetsExt, TLC

CONSTANTS
    Types,       \* channel types that are defined
    Setters,     \* calls of the setters: pairs of a kind and a value
    Batches,     \* batches given to AppendColumns: [n, cols]
    Slots,       \* Records of the caller
    MaxChans,    \* bound on the channels of the group
    MaxRows      \* bound on the rows

Kinds == {"float", "int", "uint", "text"}

(* A text, or the two bytes of a number.                                   *)
Value(kind) == {v \in Seq(Nat) : kind # "text" => Len(v) = 2}

Column(c) == /\ c.ch \in Nat /\ c.kind \in Kinds /\ c.vals \in Seq(Seq(Nat))
             /\ \A row \in DOMAIN c.vals : c.vals[row] \in Value(c.kind)

ASSUME GroupRowsAssumption ==
    /\ Types \subseteq {"f64", "f32", "i8", "i16", "u8", "str"}
    /\ \A c \in Setters : c[1] \in Kinds /\ c[2] \in Value(c[1])
    /\ \A b \in Batches :
          /\ b.n \in Nat /\ b.cols \in Seq(Range(b.cols))
          /\ \A c \in Range(b.cols) : Column(c)
    /\ MaxChans \in Nat \ {0} /\ MaxRows \in Nat

VARIABLES
    chans,     \* GroupWriter.chans
    meta,      \* the channels that the CN blocks describe, once begin ran
    started,   \* Writer.started
    closed,    \* Writer.closed
    final,     \* finalize has succeeded
    damaged,   \* a link patch has hit the header block
    failed,    \* bufio.Writer.err: a buffered write has failed
    recs,      \* the Records, by slot: [buf, strs, err, set], set being a history
    out,       \* what whole rows added to the streams: [data, sd, count]
    call,      \* the last call, told apart as far as it matters
    rows,      \* history: the rows whose Append succeeded, [len, set]
    late       \* history: a channel came after a Record or the first row

vars == <<chans, meta, started, closed, final, damaged, failed, recs, out, call, rows, late>>

-----------------------------------------------------------------------------
(* Channel definition.                                                     *)

Width(type) == IF type \in {"f64", "i16", "str"} THEN 2 ELSE 1

(* Mutation: the size is not moved on behind the last channel.             *)
RecSizeBeforeLast(cs) == IF cs = <<>> THEN 0 ELSE Last(cs).off

RecSize(cs) == IF cs = <<>> THEN 0 ELSE Last(cs).off + Width(Last(cs).type)

WithChannel(cs, type) == Append(cs, [type |-> type, off |-> RecSize(cs)])

Texts(cs) == {i \in DOMAIN cs : cs[i].type = "str"}

(* The result of a call other than AppendColumns.                          *)
Did(res) == [op |-> "other", res |-> res]

(* NewGroup, with or without the master channel.                           *)
Init ==
    /\ chans \in {<<>>, WithChannel(<<>>, "f64")}
    /\ meta = <<>> /\ started = FALSE /\ closed = FALSE
    /\ final = FALSE /\ damaged = FALSE /\ failed = FALSE
    /\ recs = [s \in {} |-> <<>>]
    /\ out = [data |-> <<>>, sd |-> [i \in 1..MaxChans |-> <<>>], count |-> 0]
    /\ call = Did("ok") /\ rows = <<>> /\ late = FALSE

Running == call.res # "panic"

(* add does not look at Writer.started.                                    *)
Add(type) ==
    /\ Running /\ Len(chans) < MaxChans
    /\ chans' = WithChannel(chans, type)
    /\ late' = (late \/ started \/ DOMAIN recs # {})
    /\ call' = Did("ok")
    /\ UNCHANGED <<meta, started, closed, final, damaged, failed, recs, out, rows>>

-----------------------------------------------------------------------------
(* Records.                                                                *)

Zero(type) == IF type = "str" THEN <<>> ELSE <<0, 0>>

FreshRecord ==
    [buf  |-> [i \in 1..RecSize(chans) |-> 0],
     strs |-> [i \in DOMAIN chans |-> <<>>],
     err  |-> FALSE,
     set  |-> [i \in DOMAIN chans |-> Zero(chans[i].type)]]

NewRecord(s) ==
    /\ Running
    /\ recs' = [q \in DOMAIN recs \union {s} |-> IF q = s THEN FreshRecord ELSE recs[q]]
    /\ call' = Did("ok")
    /\ UNCHANGED <<chans, meta, started, closed, final, damaged, failed, out, rows, late>>

Takes(kind) ==
    CASE kind = "float" -> {"f64", "f32"}
      [] kind = "int"   -> {"i8", "i16"}
      [] kind = "uint"  -> {"u8"}
      [] kind = "text"  -> {"str"}

(* The bytes of a number, least significant first (PutUint64, putUint).    *)
Field(type, v) ==
    CASE type = "f32"               -> <<v[1]>>
      [] type \in {"i8", "u8"}      -> <<v[2]>>
      [] type \in {"f64", "i16"}    -> <<v[2], v[1]>>

HasRoom(r, c) == c.off + Width(c.type) <= Len(r.buf)

Put(buf, off, bytes) ==
    [i \in DOMAIN buf |-> IF i - off \in DOMAIN bytes THEN bytes[i - off] ELSE buf[i]]

(* Of a Record that is older than the channel: the slice ends before it.   *)
SetPanics(r, i, kind) ==
    /\ chans[i].type \in Takes(kind)
    /\ IF kind = "text" THEN i > Len(r.strs) ELSE ~HasRoom(r, chans[i])

(* The setters.  A wrong type is kept and reported by Append, for good.    *)
WithValue(r, i, kind, v) ==
    IF chans[i].type \notin Takes(kind) THEN [r EXCEPT !.err = TRUE]
    ELSE IF kind = "text" THEN [r EXCEPT !.strs[i] = v, !.set[i] = v]
    ELSE [r EXCEPT !.buf = Put(@, chans[i].off, Field(chans[i].type, v)), !.set[i] = v]

Set(s, i, kind, v) ==
    /\ Running /\ s \in DOMAIN recs
    /\ IF SetPanics(recs[s], i, kind)
       THEN call' = Did("panic") /\ UNCHANGED recs
       ELSE /\ recs' = [recs EXCEPT ![s] = WithValue(@, i, kind, v)]
            /\ call' = Did("ok")
    /\ UNCHANGED <<chans, meta, started, closed, final, damaged, failed, out, rows, late>>

-----------------------------------------------------------------------------
(* Append.                                                                 *)

(* begin: a group without channels cannot be written.  A writer that was   *)
(* closed before it began fails when it writes, but counts as started.     *)
BeginFails == ~started /\ (chans = <<>> \/ closed)

Begin ==
    /\ started' = (started \/ chans # <<>>)
    /\ meta' = IF started \/ BeginFails THEN meta ELSE chans

Refused(r) == r.err \/ BeginFails \/ closed

AppendPanics(r) ==
    \E i \in Texts(chans) : i > Len(r.strs) \/ ~HasRoom(r, chans[i])

Low(n) == n % 16
High(n) == n \div 16

(* Mutation: the offset is where the text starts, not its length.          *)
WithOffsetsPastLength(r, o) ==
    [r EXCEPT !.buf = [b \in DOMAIN @ |->
        LET owner == {i \in Texts(chans) : b - chans[i].off \in {1, 2}}
        IN IF owner = {} THEN @[b]
           ELSE LET i == Min(owner)
                    at == Len(o.sd[i]) + 1
                IN IF b - chans[i].off = 1 THEN Low(at) ELSE High(at)]]

(* The row gets the offsets of its texts, which are added to their         *)
(* streams behind their length.                                            *)
WithOffsets(r, o) ==
    [r EXCEPT !.buf = [b \in DOMAIN @ |->
        LET owner == {i \in Texts(chans) : b - chans[i].off \in {1, 2}}
        IN IF owner = {} THEN @[b]
           ELSE LET i == Min(owner)
                    at == Len(o.sd[i])
                IN IF b - chans[i].off = 1 THEN Low(at) ELSE High(at)]]

WithRow(o, r) ==
    [data  |-> o.data \o WithOffsets(r, o).buf,
     sd    |-> [i \in DOMAIN o.sd |->
                  IF i \in Texts(chans) THEN o.sd[i] \o <<Len(r.strs[i])>> \o r.strs[i]
                  ELSE o.sd[i]],
     count |-> o.count + 1]

Row(r) == [len |-> Len(r.buf), set |-> r.set]

AppendRecord(s) ==
    /\ Running /\ s \in DOMAIN recs /\ out.count < MaxRows
    /\ IF recs[s].err THEN UNCHANGED <<started, meta>> ELSE Begin
    /\ IF Refused(recs[s])
       THEN call' = Did("error") /\ UNCHANGED <<recs, out, rows>>
       ELSE IF AppendPanics(recs[s])
       THEN call' = Did("panic") /\ UNCHANGED <<recs, out, rows>>
       ELSE /\ out' = WithRow(out, recs[s])
            /\ recs' = [recs EXCEPT ![s] = WithOffsets(@, out)]
            /\ rows' = Append(rows, Row(recs[s]))
            /\ call' = Did("ok")
    /\ UNCHANGED <<chans, closed, final, damaged, failed, late>>

(* A write stops an Append: in begin, where it went to the buffer or       *)
(* patched the file in place (only the buffer keeps the error), or at a    *)
(* text or the row.  What the streams and the Record keep of a row that    *)
(* was stopped is left out: with the buffer's error no Close succeeds, and *)
(* the next Append writes the offsets of the Record anew.                  *)
StopsInBegin == ~started /\ failed' \in {failed, TRUE}

FirstText == {i \in Texts(chans) : \A j \in Texts(chans) : i <= j}

StopsInStreams(r) ==
    /\ \A i \in FirstText : i <= Len(r.strs) /\ HasRoom(r, chans[i])
    /\ failed' = TRUE

AppendFails(s) ==
    /\ Running /\ s \in DOMAIN recs
    /\ ~Refused(recs[s]) /\ Begin
    /\ StopsInBegin \/ StopsInStreams(recs[s])
    /\ call' = Did("error")
    /\ UNCHANGED <<chans, closed, final, damaged, recs, out, rows, late>>

-----------------------------------------------------------------------------
(* AppendColumns: one Record for the whole batch.                          *)

TooShort(b) == \E k \in DOMAIN b.cols : Len(b.cols[k].vals) < b.n

WithColumn(r, c, row) == WithValue(r, c.ch, c.kind, c.vals[row])

WithColumns(r, cols, row) ==
    LET after[k \in 0..Len(cols)] ==
            IF k = 0 THEN r ELSE WithColumn(after[k - 1], cols[k], row)
    IN after[Len(cols)]

(* A row more: x is the Record, the streams and the rows before it.        *)
WithBatchRow(x, cols, row) ==
    LET r == WithColumns(x.rec, cols, row)
    IN [rec  |-> WithOffsets(r, x.out),
        out  |-> WithRow(x.out, r),
        rows |-> Append(x.rows, Row(r))]

(* After the first n rows of the batch.                                    *)
BatchState(cols, n) ==
    LET after[m \in 0..n] ==
            IF m = 0 THEN [rec |-> FreshRecord, out |-> out, rows |-> rows]
            ELSE WithBatchRow(after[m - 1], cols, m)
    IN after[n]

(* Seen by the first Append of the batch.                                  *)
Mismatch(b) == b.n > 0 /\ WithColumns(FreshRecord, b.cols, 1).err

(* Mutation: the lengths of the columns are not compared first; the rows   *)
(* up to the end of a short column are appended.                           *)
AppendColumnsUnchecked(b) ==
    LET full == {k \in 0..b.n : \A c \in Range(b.cols) : k <= Len(c.vals)}
        part == BatchState(b.cols, Max(full))
    IN /\ Running /\ out.count + b.n <= MaxRows
       /\ \A c \in Range(b.cols) : c.ch \in DOMAIN chans
       /\ ~Refused(FreshRecord) /\ b.n > 0 /\ Begin
       /\ \A c \in Range(b.cols) : chans[c.ch].type \in Takes(c.kind)
       /\ out' = part.out /\ rows' = part.rows
       /\ call' = [op |-> "columns", batch |-> b,
                   res |-> IF TooShort(b) THEN "error" ELSE "ok"]
       /\ UNCHANGED <<chans, closed, final, damaged, failed, recs, late>>

AppendColumns(b) ==
    /\ Running /\ out.count + b.n <= MaxRows
    /\ \A c \in Range(b.cols) : c.ch \in DOMAIN chans
    /\ LET result(res) == call' = [op |-> "columns", batch |-> b, res |-> res]
       IN IF TooShort(b)
          THEN result("error") /\ UNCHANGED <<started, meta, out, rows>>
          ELSE IF b.n = 0
          THEN result("ok") /\ UNCHANGED <<started, meta, out, rows>>
          ELSE IF Mismatch(b)
          THEN result("error") /\ UNCHANGED <<started, meta, out, rows>>
          ELSE IF Refused(FreshRecord)
          THEN result("error") /\ Begin /\ UNCHANGED <<out, rows>>
          ELSE /\ Begin /\ result("ok")
               /\ out' = BatchState(b.cols, b.n).out /\ rows' = BatchState(b.cols, b.n).rows
    /\ UNCHANGED <<chans, closed, final, damaged, failed, recs, late>>

(* A write stops the Append of one row: the rows before it stay.           *)
AppendColumnsFails(b) ==
    /\ Running /\ out.count + b.n <= MaxRows
    /\ \A c \in Range(b.cols) : c.ch \in DOMAIN chans
    /\ ~TooShort(b) /\ ~Mismatch(b) /\ ~Refused(FreshRecord) /\ Begin
    /\ \E row \in 1..b.n :
          /\ (row = 1 /\ StopsInBegin) \/ failed' = TRUE
          /\ out' = BatchState(b.cols, row - 1).out
          /\ rows' = BatchState(b.cols, row - 1).rows
    /\ call' = [op |-> "columns", batch |-> b, res |-> "error"]
    /\ UNCHANGED <<chans, closed, final, damaged, recs, late>>

-----------------------------------------------------------------------------
(* Close, the first time.  finalize patches a link of every string         *)
(* channel; one that begin has not seen has no CN block, its address is 0  *)
(* and the link lands in the header block at 64.                           *)
HitsHeader == \E i \in Texts(chans) : i \notin DOMAIN meta'

Close ==
    /\ Running /\ ~closed /\ ~failed
    /\ closed' = TRUE
    /\ Begin
    /\ final' = ~BeginFails
    /\ damaged' = (~BeginFails /\ HitsHeader)
    /\ call' = Did(IF BeginFails THEN "error" ELSE "ok")
    /\ UNCHANGED <<chans, failed, recs, out, rows, late>>

(* A write fails in Close.  An error that bufio kept stops it before the   *)
(* first patch.                                                            *)
CloseFails ==
    /\ Running /\ ~closed /\ ~BeginFails
    /\ closed' = TRUE
    /\ Begin
    /\ failed' \in {failed, TRUE}
    /\ damaged' \in {damaged, ~failed /\ HitsHeader}
    /\ call' = Did("error")
    /\ UNCHANGED <<chans, final, recs, out, rows, late>>

Next ==
    \/ \E type \in Types : Add(type)
    \/ \E s \in Slots : NewRecord(s) \/ AppendRecord(s) \/ AppendFails(s)
    \/ \E s \in Slots, i \in DOMAIN chans, c \in Setters : Set(s, i, c[1], c[2])
    \/ \E b \in Batches : AppendColumns(b) \/ AppendColumnsFails(b)
    \/ Close \/ CloseFails

Spec == Init /\ [][Next]_vars

-----------------------------------------------------------------------------
(* Properties.                                                             *)

(* A value of the channel as the metadata describes it, in row r.          *)
ReadRaw(c, r) ==
    SubSeq(out.data, (r - 1) * RecSize(meta) + c.off + 1,
                     (r - 1) * RecSize(meta) + c.off + Width(c.type))

(* The text an offset leads to, if it leads to one.                        *)
TextAt(sd, at) ==
    {SubSeq(sd, at + 2, at + 1 + n) :
        n \in {m \in 0..Len(sd) : at + 1 \in DOMAIN sd /\ sd[at + 1] = m}}

ReadText(i, r) ==
    LET raw == ReadRaw(meta[i], r) IN TextAt(out.sd[i], raw[1] + 16 * raw[2])

Aligned(r) == \A q \in 1..r : rows[q].len = RecSize(meta)

(* A file that was closed has as many rows as were appended, and every row *)
(* of the length the metadata announces, up to the first that has another  *)
(* one, holds what was last set in its Record for each channel: texts are  *)
(* found through the offsets in the rows, a Record that is reused keeps    *)
(* what is not set again, and what is set later, in it or in another one,  *)
(* does not reach rows already written (writergroup.go: Append).           *)
RowsReadBack ==
    final =>
        /\ out.count = Len(rows)
        /\ \A r \in DOMAIN rows : Aligned(r) =>
              \A i \in DOMAIN meta :
                  IF meta[i].type = "str" THEN ReadText(i, r) = {rows[r].set[i]}
                  ELSE ReadRaw(meta[i], r) = Field(meta[i].type, rows[r].set[i])

(* What column k of a batch gives for a channel in a row: the last column  *)
(* of the channel, or zero.                                                *)
BatchValue(b, i, row) ==
    LET ks == {k \in DOMAIN b.cols : b.cols[k].ch = i}
    IN IF ks = {} THEN Zero(chans[i].type) ELSE b.cols[Max(ks)].vals[row]

(* AppendColumns that succeeds appends all rows of the batch, with zero    *)
(* values for the columns that are not given.  One that returns an error   *)
(* appends the rows before the one that a failing write stopped, and then  *)
(* no Close succeeds: no file that is finished holds a part of a batch.  A *)
(* short column, one of the wrong type and a closed file are noticed       *)
(* before the first row (writergroup.go: AppendColumns).                   *)
BatchesEndWhole ==
    [][/\ failed => ~final'
       /\ call'.op = "columns" =>
            LET b == call'.batch
                n == Len(rows') - Len(rows)
            IN /\ call'.res = "ok" => n = b.n
               /\ call'.res = "error" => n < b.n
               /\ call'.res = "error" /\ (TooShort(b) \/ Mismatch(b) \/ closed \/ ~failed')
                     => rows' = rows /\ out' = out
               /\ \A r \in DOMAIN rows : rows'[r] = rows[r]
               /\ \A row \in 1..n : \A i \in DOMAIN chans :
                     rows'[Len(rows) + row].set[i] = BatchValue(b, i, row)]_vars

(* When every channel is defined before the first Record and the first     *)
(* row, no call panics, every row has the length the metadata announces,   *)
(* and Close leaves the header block alone.  (The code does not enforce    *)
(* the order, and each of the three happens when it is not kept.)          *)
DefinedInTime ==
    ~late =>
        /\ call.res # "panic" /\ ~damaged
        /\ \A r \in DOMAIN rows : Aligned(r)
=============================================================================
