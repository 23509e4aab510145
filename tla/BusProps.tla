------------------------------ MODULE BusProps ------------------------------
(***************************************************************************)
(* What DecodeBus promises, said without its parser, words, caches and     *)
(* accumulators: of a text by the lines it has, of a signal by the bits    *)
(* DBC numbers for it, of a result by the frames of the log.               *)
(***************************************************************************)
EXTENDS BusDecode

-----------------------------------------------------------------------------
(* A text.  Signals belong to the message line above them, unless another  *)
(* kind of line that is no attribute, or a broken message, comes between.  *)

Heads(lines, j) == {i \in 1..(j - 1) : lines[i].kind \in {"BO", "other"}}

BelongsTo(lines, j, i) ==
    /\ lines[j].kind = "SG" /\ lines[j].ok
    /\ Heads(lines, j) # {} /\ i = Max(Heads(lines, j))

MessageLines(lines) == {i \in DOMAIN lines : lines[i].kind = "BO" /\ lines[i].ok}

SignalLines(lines, i) ==
    SetToSortSeq({j \in DOMAIN lines : BelongsTo(lines, j, i)}, <)

(* The message of a key at line v: the last one above it.                  *)
MessageLineOf(lines, key, v) ==
    Max({0} \union {i \in MessageLines(lines) : i < v /\ KeyOf(lines[i].raw) = key})

(* The signal line that an attribute line v speaks of: the first of that   *)
(* name that its message has above it.                                     *)
TargetOf(lines, v) ==
    LET i == MessageLineOf(lines, KeyOf(lines[v].raw), v)
    IN Min({Len(lines) + 1} \union
           {j \in 1..(v - 1) : BelongsTo(lines, j, i) /\ lines[j].sig.name = lines[v].name})

AttributeLines(lines, j) ==
    {v \in DOMAIN lines : /\ lines[v].kind \in {"VAL", "VALTYPE", "CM"}
                          /\ lines[v].ok /\ TargetOf(lines, v) = j}

(* The text a table line v gives to value x: that of the last pair.        *)
PairsFor(lines, v, x) == {p \in DOMAIN lines[v].pairs : lines[v].pairs[p][1] = x}

TrueTable(lines, j) ==
    LET vs == {v \in AttributeLines(lines, j) : lines[v].kind = "VAL"}
        xs == UNION {{p[1] : p \in Range(lines[v].pairs)} : v \in vs}
    IN [x \in xs |->
          LET v == Max({u \in vs : PairsFor(lines, u, x) # {}})
          IN lines[v].pairs[Max(PairsFor(lines, v, x))][2]]

TrueSignal(lines, j) ==
    [lines[j].sig EXCEPT
        !.table = TrueTable(lines, j),
        !.float = \E v \in AttributeLines(lines, j) :
                     lines[v].kind = "VALTYPE" /\ lines[v].type \in {1, 2},
        !.comment = LET cs == {v \in AttributeLines(lines, j) : lines[v].kind = "CM"}
                    IN IF cs = {} THEN 0 ELSE lines[Max(cs)].text]

TextsInUse ==
    IF in.given # <<>> THEN in.given
    ELSE [i \in DOMAIN EmbeddedDatabases |-> EmbeddedDatabases[i].lines]

(* The message that a database gives for an identifier is the last one the *)
(* text defines for it, with the signals of its own block and of no other, *)
(* each with the tables, types and comments of the lines that name it      *)
(* (dbc.go: Parse): nothing that follows a broken message line, or another *)
(* section, ends up in the message before it.                              *)
DatabasesAsWritten ==
    \A d \in DOMAIN dbs : \A key \in {KeyOf(l.raw) : l \in
          {x \in Range(TextsInUse[d]) : x.kind = "BO" /\ x.ok}} :
        LET lines == TextsInUse[d]
            own   == SignalLines(lines, MessageLineOf(lines, key, Len(lines) + 1))
        IN /\ key \in DOMAIN dbs[d].byKey
           /\ dbs[d].msgs[dbs[d].byKey[key]].signals =
                 [s \in DOMAIN own |-> TrueSignal(lines, own[s])]

-----------------------------------------------------------------------------
(* A signal.  Its k-th bit (0: the most significant) in the numbering of   *)
(* the database, bit b of byte n being n * ByteBits + b.  Motorola signals *)
(* go down within a byte and on at the top of the next one.                *)
BitNumber(s, k) ==
    LET down[n \in 0..k] ==
            IF n = 0 THEN s.start
            ELSE IF down[n - 1] % ByteBits = 0
                 THEN down[n - 1] + 2 * ByteBits - 1
                 ELSE down[n - 1] - 1
    IN IF s.big THEN down[k] ELSE s.start + s.len - 1 - k

Bit(p, n) == (p[n \div ByteBits + 1] \div 2^(n % ByteBits)) % 2

(* All bits of the signal are in the payload.                              *)
CarriedBy(s, p) ==
    /\ s.len \in 1..WordBits
    /\ \A k \in 0..(s.len - 1) : BitNumber(s, k) < ByteBits * Len(p)

TrueNumber(s, p, signed) ==
    LET weight(k) == IF signed /\ k = 0 THEN -(2^(s.len - 1)) ELSE 2^(s.len - 1 - k)
    IN MapThenSumSet(LAMBDA k : Bit(p, BitNumber(s, k)) * weight(k), 0..(s.len - 1))

TruePhysical(s, p) ==
    s.offset + s.factor *
        (IF s.float /\ s.len \in {WordBits \div 2, WordBits}
         THEN FloatOf(TrueNumber(s, p, FALSE)) ELSE TrueNumber(s, p, s.signed))

TrueText(s, p) ==
    LET v == TrueNumber(s, p, s.signed) IN IF v \in DOMAIN s.table THEN s.table[v] ELSE 0

(* Multiplexing over several levels is not supported.                      *)
ExtendedMux(msg) == \E s \in Range(msg.signals) : s.mux /\ Multiplexed(s)

(* The signal is in the frame: its bits are, and the switch selects it.    *)
AppearsIn(msg, s, p) ==
    /\ CarriedBy(s, p)
    /\ Multiplexed(s) =>
          \E m \in Range(msg.signals) :
             /\ m.mux /\ CarriedBy(m, p)
             /\ TrueNumber(m, p, m.signed) = s.muxValue

-----------------------------------------------------------------------------
(* The log: its frames in the order of the file.                           *)
Entry(col, i, default) == IF i \in DOMAIN col THEN col[i] ELSE default

TrueFrame(g, i) ==
    LET data == ColumnOf(g, "DataBytes")[i]
        len  == Entry(ColumnOf(g, "DataLength"), i, Len(data))
    IN [key |-> [bus |-> Entry(ColumnOf(g, "BusChannel"), i, 0),
                 id  |-> ColumnOf(g, "ID")[i],
                 ext |-> Entry(ColumnOf(g, "IDE"), i, 0) # 0],
        payload |-> IF len < 0 THEN data ELSE SubSeq(data, 1, Min({len, Len(data)})),
        time |-> Entry(g.times, i, 0)]

TrueFrames ==
    FlattenSeq([n \in DOMAIN BusFrameGroups |->
        LET g == BusFrameGroups[n]
        IN [i \in DOMAIN ColumnOf(g, "ID") \intersect DOMAIN ColumnOf(g, "DataBytes")
              |-> TrueFrame(g, i)]])

(* The message for a frame: that of the first database which has one, for  *)
(* the frame's kind of identifier or else for the other kind (dbc.go:113). *)
Keyed(db, id, ext) == {m \in DOMAIN db.msgs : db.msgs[m].key = <<id, ext>>}
Known(db, key) ==
    IF Keyed(db, key.id, key.ext) # {} THEN Keyed(db, key.id, key.ext)
    ELSE Keyed(db, key.id, ~key.ext)

FirstKnowing(key) == Min({Len(dbs) + 1} \union {d \in DOMAIN dbs : Known(dbs[d], key) # {}})

(* An extended frame that a database knows by a standard identifier only.  *)
ExtendedByStandard(key) ==
    key.ext /\ \E d \in DOMAIN dbs : /\ Keyed(dbs[d], key.id, TRUE) = {}
                                     /\ Keyed(dbs[d], key.id, FALSE) # {}

(* The samples of signal n of a message.                                   *)
TrueSamples(frames, key, msg, n) ==
    LET s == msg.signals[n]
        own == SelectSeq(frames, LAMBDA f : f.key = key /\ AppearsIn(msg, s, f.payload))
    IN [time |-> [i \in DOMAIN own |-> own[i].time],
        vals |-> [i \in DOMAIN own |-> TruePhysical(s, own[i].payload)],
        strs |-> IF s.table = NoTable THEN <<>>
                 ELSE [i \in DOMAIN own |-> TrueText(s, own[i].payload)]]

(* The results for the frames of a key are the signals of its message.     *)
Projected(frames, key) ==
    LET got == {o \in Range(out) : o.key = key}
        d   == FirstKnowing(key)
    IN IF d > Len(dbs) THEN got = {}
       ELSE LET msg == dbs[d].msgs[Max(Known(dbs[d], key))]
            IN \A n \in {m \in DOMAIN msg.signals :
                            ExtendedMux(msg) => ~Multiplexed(msg.signals[m])} :
                 LET want == TrueSamples(frames, key, msg, n)
                     mine == {o \in got : o.sig.def = msg.signals[n]}
                 IN IF want.vals = <<>> THEN mine = {}
                    ELSE /\ Cardinality(mine) = 1
                         /\ \A o \in mine : /\ o.sig.time = want.time
                                            /\ o.sig.vals = want.vals
                                            /\ o.sig.strs = want.strs

(* Each signal that DecodeBus returns has exactly the samples of the       *)
(* frames it appears in, in the order of the log, with times, values and   *)
(* texts aligned and the value the database's bit numbering gives; and     *)
(* every signal that appears in some frame is returned, once, under the    *)
(* frame's bus and identifier.  This holds for frames of any length, over  *)
(* several groups with and without length, bus and IDE columns, and        *)
(* whatever keys were looked up before (bus.go: lookup, decode, signals).  *)
(* Nothing is said of the results for extended frames that a database has  *)
(* as standard ones (see IdOnlyMatch).                                     *)
SignalsAreProjections ==
    res = "ok" =>
        LET frames == TrueFrames
            keys   == {f.key : f \in Range(frames)}
        IN /\ {o.key : o \in Range(out)} \subseteq keys
           /\ \A key \in keys : ExtendedByStandard(key) \/ Projected(frames, key)

(* An identifier that a database has for the other kind of frame only is   *)
(* matched all the same, "or vice versa" (dbc.go:113-115).  The code falls *)
(* back for standard frames only and gives nothing for extended ones; no   *)
(* run has this property.                                                  *)
IdOnlyMatch ==
    res = "ok" =>
        LET frames == TrueFrames
        IN \A key \in {f.key : f \in Range(frames)} : Projected(frames, key)
=============================================================================
