---------------------------- MODULE ChannelReads ----------------------------
(***************************************************************************)
(* What a caller gets from a channel beyond its stored numbers: the        *)
(* conversion of a column (Conversion) and the samples of a reduction of   *)
(* the group (reduction.go).                                               *)
(*                                                                         *)
(* A reduction [cycles, flags, stored] announces cycles records, says      *)
(* whether invalidation bytes follow the sub-records, and has stored bytes *)
(* in its data section.  A record of it is three records of the group side *)
(* by side: means, minima, maxima.                                         *)
(*                                                                         *)
(* Neither reads the streams of ColumnStorage, so both are tried on the    *)
(* group without data only.                                                *)
(***************************************************************************)
EXTENDS ColumnStorage, Conversion

CONSTANTS
    Rules,         \* files with a rule at address Rule
    Rule,
    RawColumns,    \* columns as they are extracted: [kind, vals]
    Reductions,    \* reductions of the group
    RedByte(_, _), \* byte b of the reduction record k
    Fields,        \* fields of the group, Master among them
    Master,
    MaxRange       \* bound on the ranges of reduction reads

VARIABLES
    sig,   \* the last column that was converted
    red    \* the last reduction that was read

allVars == <<vars, sig, red>>

NoSignal == [done |-> FALSE]

ReadsInit == Init /\ sig = NoSignal /\ red = NoSignal

Fresh == chain = <<>> /\ status = "walking" /\ ~sig.done /\ ~red.done

-----------------------------------------------------------------------------
(* Channel.read of a stored channel, and of a virtual one.                 *)

IntInput(raw) == raw.kind = "int"

ReadSignal(file, raw) ==
    LET c == CompileAt(file, Rule, IntInput(raw), 0)
    IN IF c = Failed THEN [kind |-> "error", vals |-> <<>>]
       ELSE ApplyConversion(Extracted(raw, c), c)

ReadVirtual(file, raw) ==
    LET c == CompileAt(file, Rule, IntInput(raw), 0)
    IN IF c = Failed THEN [kind |-> "error", vals |-> <<>>]
       ELSE ConvertVirtual(raw.vals, c)

Convert(file, raw) ==
    /\ \/ sig' = [done |-> TRUE, virtual |-> FALSE, file |-> file, raw |-> raw,
                  got |-> ReadSignal(file, raw)]
       \/ /\ raw.kind \in {"int", "real"}
          /\ sig' = [done |-> TRUE, virtual |-> TRUE, file |-> file, raw |-> raw,
                     got |-> ReadVirtual(file, raw)]
    /\ UNCHANGED <<vars, red>>

-----------------------------------------------------------------------------
(* Reduction.Read.                                                         *)

RedSize(r) == 3 * RecSize + (IF r.flags THEN InvalSize ELSE 0)

RedRecord(r, k) == [b \in 1..RedSize(r) |-> RedByte(k, b)]

(* resolveRange; -1 asks for everything.                                   *)
Resolved(from, count, total) ==
    IF count < 0 \/ from + count > total THEN total - from ELSE count

(* Mutation: the flags are looked for behind the first sub-record.         *)
SubFlagInFirst(r, spec, k) ==
    r.flags /\ spec.inval >= 0 /\
    InvalidBit(SubSeq(RedRecord(r, k), RecSize + 1, RedSize(r)), spec.inval)

SubFlag(r, spec, k) ==
    r.flags /\ spec.inval >= 0 /\
    InvalidBit(SubSeq(RedRecord(r, k), 3 * RecSize + 1, RedSize(r)), spec.inval)

SubSpec(spec, sub) == [spec EXCEPT !.byte = @ + sub * RecSize]

SubFails(r, spec, sub, from, count) ==
    LET n == Resolved(from, count, r.cycles)
    IN \/ from > r.cycles
       \/ from + n > r.stored \div RedSize(r)
       \/ n > 0 /\ ~FieldFits(SubSpec(spec, sub), RedSize(r))

ReadSub(r, spec, sub, from, count) ==
    LET n == Resolved(from, count, r.cycles)
    IN [vals    |-> [s \in 1..n |-> ValueOf(RedRecord(r, from + s - 1), SubSpec(spec, sub))],
        invalid |-> {s \in 1..n : SubFlag(r, spec, from + s - 1)}]

(* The three sub-records, and the means of the master as the time.  The    *)
(* master itself gets its means when they come as float64.                 *)
ReduceFails(r, spec, from, count) ==
    \/ \E sub \in 0..2 : SubFails(r, spec, sub, from, count)
    \/ spec # Master /\ SubFails(r, Master, 0, from, count)

ReadReduction(r, spec, from, count, float) ==
    /\ LET fails == ReduceFails(r, spec, from, count)
       IN red' = [done |-> TRUE, ok |-> ~fails, r |-> r, spec |-> spec,
                  from |-> from, count |-> count, float |-> float,
                  sub  |-> IF fails THEN <<>>
                           ELSE [q \in 1..3 |-> ReadSub(r, spec, q - 1, from, count)],
                  time |-> IF fails \/ (spec = Master /\ ~float) THEN <<>>
                           ELSE ReadSub(r, Master, 0, from, count).vals]
    /\ UNCHANGED <<vars, sig>>

ReadsNext ==
    \/ ~sig.done /\ ~red.done /\ Next /\ UNCHANGED <<sig, red>>
    \/ Fresh /\ \E file \in Rules, raw \in RawColumns : Convert(file, raw)
    \/ Fresh /\ \E r \in Reductions, spec \in Fields, from \in 0..MaxRange,
                   count \in -1..MaxRange, float \in BOOLEAN :
                      ReadReduction(r, spec, from, count, float)

ReadsSpec == ReadsInit /\ [][ReadsNext]_allVars

-----------------------------------------------------------------------------
(* What a rule means, said of one value and without compiling it.          *)

RefsOf(file, a) == {b \in Range(file[a].refs) : b # 0}

NestedIn(file, a) == {b \in RefsOf(file, a) : file[b].id = "CC"}

(* The rules n levels below the one of the channel.                        *)
RulesAt(file, n) ==
    LET at[m \in 0..n] == IF m = 0 THEN {Rule}
                          ELSE UNION {NestedIn(file, a) : a \in at[m - 1]}
    IN at[n]

RulesOf(file) == UNION {RulesAt(file, n) : n \in 0..MaxConversionDepth}

TooFew(cc) ==
    LET v == Len(cc.vals)  r == Len(cc.refs)
    IN CASE cc.type = "linear"               -> v < 2
         [] cc.type = "rational"             -> v < 6
         [] cc.type \in {"tab", "interp"}    -> v < 2
         [] cc.type = "rangeToValue"         -> v % 3 = 0
         [] cc.type = "valueToText"          -> r <= v
         [] cc.type = "rangeToText"          -> r <= v \div 2
         [] cc.type = "textToValue"          -> v <= r
         [] cc.type = "bitfieldToText"       -> r < v
         [] OTHER                            -> FALSE

Broken(file) ==
    \/ \E a \in RulesOf(file) :
          TooFew(file[a]) \/ \E b \in RefsOf(file, a) : file[b].id \notin {"TX", "CC"}
    \/ RulesAt(file, MaxConversionDepth + 1) # {}

OneToOne(cc) ==
    \/ cc.type = "identity"
    \/ cc.type = "linear" /\ SubSeq(cc.vals, 1, 2) = <<0, 1>>
    \/ cc.type = "rational" /\ SubSeq(cc.vals, 1, 6) = <<0, 1, 0, 0, 0, 1>>

(* A table refers to a 1:1 rule: Compile takes it for an empty text.       *)
RefersToOneToOne(file) ==
    \E n \in 1..MaxConversionDepth : \E a \in RulesAt(file, n) : OneToOne(file[a])

TableTypes == {"valueToText", "rangeToText"}

DefaultOf(cc) ==
    cc.refs[1 + (IF cc.type = "valueToText" THEN Len(cc.vals) ELSE Len(cc.vals) \div 2)]

(* The block gives numbers: a rule for numbers, or a table of error codes  *)
(* whose default gives numbers.                                            *)
RECURSIVE GivesNumbers(_, _)
GivesNumbers(file, a) ==
    /\ a # 0 /\ file[a].id = "CC"
    /\ file[a].type \notin {"textToText", "bitfieldToText"}
    /\ file[a].type \in TableTypes => GivesNumbers(file, DefaultOf(file[a]))

(* The value of a table of numbers: at a key, at the edge, on the line     *)
(* between the neighbours, or at the nearest key, the lower of two.        *)
TrueTab(cc, x) ==
    LET Keys == {cc.vals[2 * k - 1] : k \in 1..(Len(cc.vals) \div 2)}
        at(k) == CHOOSE v \in {cc.vals[2 * j] : j \in {h \in 1..(Len(cc.vals) \div 2) :
                                   cc.vals[2 * h - 1] = k}} : TRUE
        dist(k) == IF k > x THEN k - x ELSE x - k
        lo == Max({k \in Keys : k <= x})
        hi == Min({k \in Keys : k >= x})
    IN IF {k \in Keys : k <= x} = {} THEN Num(at(Min(Keys)))
       ELSE IF {k \in Keys : k >= x} = {} THEN Num(at(Max(Keys)))
       ELSE IF cc.type = "interp" /\ lo # hi
       THEN Quot(at(lo) * (hi - x) + at(hi) * (x - lo), hi - lo)
       ELSE Num(at(IF dist(lo) <= dist(hi) THEN lo ELSE hi))

Within(lo, hi, x, intIn) == x \in lo..hi /\ (x = hi => intIn)

(* The entries of a table of keys or ranges that x belongs to.             *)
Entries(cc, x, intIn) ==
    CASE cc.type = "valueToText"  -> {j \in DOMAIN cc.vals : cc.vals[j] = x}
      [] cc.type = "rangeToText"  -> {j \in 1..(Len(cc.vals) \div 2) :
                                        Within(cc.vals[2 * j - 1], cc.vals[2 * j], x, intIn)}
      [] cc.type = "rangeToValue" -> {j \in 1..(Len(cc.vals) \div 3) :
                                        Within(cc.vals[3 * j - 2], cc.vals[3 * j - 1], x, intIn)}

(* The text that block a gives for x; a number is its rendering.           *)
RECURSIVE Meaning(_, _, _, _)
Meaning(file, a, x, intIn) ==
    IF a = 0 THEN EmptyText
    ELSE IF file[a].id = "TX" THEN file[a].text
    ELSE LET cc == file[a]
             v  == cc.vals
             es == Entries(cc, x, intIn)
         IN CASE cc.type = "linear"   -> Rendered(Num(v[1] + v[2] * x))
              [] cc.type = "rational" -> Rendered(Quot(v[1] * x^2 + v[2] * x + v[3],
                                                       v[4] * x^2 + v[5] * x + v[6]))
              [] cc.type \in {"tab", "interp"} -> Rendered(TrueTab(cc, x))
              [] cc.type = "rangeToValue" ->
                   Rendered(Num(IF es = {} THEN Last(v) ELSE v[3 * Min(es)]))
              [] cc.type \in TableTypes ->
                   LET b == IF es = {} THEN DefaultOf(cc) ELSE cc.refs[Min(es)]
                   IN IF GivesNumbers(file, a) /\ ~GivesNumbers(file, b) THEN Rendered(NaN)
                      ELSE Meaning(file, b, x, intIn)
              [] cc.type = "bitfieldToText" ->
                   LET part(j) == Meaning(file, cc.refs[j], x & v[j], intIn)
                       some == SelectSeq([j \in DOMAIN v |-> part(j)], LAMBDA p : p # EmptyText)
                   IN FlattenSeq([j \in DOMAIN some |->
                                    IF j = 1 THEN some[j] ELSE Separator \o some[j]])
              [] OTHER -> Rendered(Num(x))

(* The number or text that a rule for texts gives: that of the last entry. *)
TrueFromText(cc, texts, s) ==
    LET es == {j \in DOMAIN texts : texts[j] = s}
    IN Num(IF es = {} THEN cc.vals[Len(texts) + 1] ELSE cc.vals[Max(es)])

TrueTextToText(texts, s) ==
    LET es  == {j \in DOMAIN texts : j % 2 = 1 /\ j < Len(texts) /\ texts[j] = s}
        def == Len(texts) % 2 = 1 /\ Last(texts) # EmptyText
    IN IF es # {} THEN texts[Max(es) + 1] ELSE IF def THEN Last(texts) ELSE s

TextsOf(file, cc) ==
    [r \in DOMAIN cc.refs |->
        IF cc.refs[r] = 0 \/ file[cc.refs[r]].id # "TX" THEN EmptyText
        ELSE file[cc.refs[r]].text]

MakesText(file) ==
    file[Rule].type \in TableTypes \union {"bitfieldToText"} /\ ~GivesNumbers(file, Rule)

(* The rule cannot take what the channel holds.                            *)
WrongInput(file, raw) ==
    \/ raw.kind \in {"int", "real"} /\ file[Rule].type = "textToText"
    \/ raw.kind = "text" /\ MakesText(file)

(* What sample s of the result is to be.                                   *)
TrueSample(file, raw, s) ==
    LET cc == file[Rule]
        x  == raw.vals[s]
    IN CASE raw.kind \in {"int", "real"} -> Meaning(file, Rule, x, raw.kind = "int")
         [] raw.kind = "text" /\ cc.type = "textToValue" ->
              Rendered(TrueFromText(cc, TextsOf(file, cc), x))
         [] raw.kind = "text" /\ cc.type = "textToText" ->
              TrueTextToText(TextsOf(file, cc), x)
         [] OTHER -> x

(* The result has a sample for each raw one, and it is what it is to be.   *)
SamplesRight ==
    LET got == sig.got
        shown(s) == IF got.kind \in {"int", "float"} THEN Rendered(got.vals[s])
                    ELSE got.vals[s]
    IN /\ DOMAIN got.vals = DOMAIN sig.raw.vals
       /\ \A s \in DOMAIN got.vals : shown(s) = TrueSample(sig.file, sig.raw, s)

(* Rules that go with the channel: for its kind of values, and none that   *)
(* makes texts on a virtual channel.                                       *)
RuleFits ==
    ~WrongInput(sig.file, sig.raw) /\ ~(sig.virtual /\ MakesText(sig.file))

(* A column that is read with a conversion holds for every sample what the *)
(* rule means for it: keys, ranges (closed for integers, half open for     *)
(* reals), defaults, nested rules down to the allowed depth, joined bit    *)
(* fields, and NaN for the error codes of a table that gives numbers       *)
(* (conversion.go: Compile, read.go: applyConversion).  A rule is refused  *)
(* exactly when one of its blocks is broken or nested too deeply.          *)
(* Nothing is said, one way or the other, where the code does not do what  *)
(* it says of itself: of rules that do not fit the channel (NeverPanics,   *)
(* TextRulesGiveTexts) and that refer to a 1:1 rule (OneToOneIsARule).     *)
ConvertedRight ==
    sig.done =>
        /\ sig.got.kind = "error" <=> Broken(sig.file)
        /\ (~Broken(sig.file) /\ ~RefersToOneToOne(sig.file) /\ RuleFits) => SamplesRight

(* The three properties that follow are what the repository says, and the  *)
(* code breaks each of them; no run has them.                              *)

(* No panics on malformed files (README.md:14); a rule for the other kind  *)
(* of channel makes applyConversion call a function that is nil.           *)
NeverPanics == sig.done => sig.got # Panic

(* Textual results become strings (read.go:65); readVirtual applies the    *)
(* numeric side of a rule only and returns the raw numbers.                *)
TextRulesGiveTexts ==
    (sig.done /\ ~Broken(sig.file) /\ ~WrongInput(sig.file, sig.raw)
       /\ sig.raw.kind \in {"int", "real"} /\ MakesText(sig.file)) =>
        sig.got.kind = "text"

(* A table may refer to any rule, 1:1 ones included; Compile makes nothing *)
(* of a 1:1 rule, and renderRef takes it for an empty text.                *)
OneToOneIsARule ==
    (sig.done /\ ~Broken(sig.file) /\ RuleFits) => SamplesRight

-----------------------------------------------------------------------------
(* Bit q of a field that starts at a byte of a reduction record.           *)
RedBit(spec, byte, k, q) ==
    LET b == IF spec.bigE THEN byte + FieldBytes(spec) - q \div 8
             ELSE byte + q \div 8 + 1
    IN (RedByte(k, b) \div 2^(q % 8)) % 2

RedValue(spec, sub, k) ==
    LET weight(q) == IF spec.signed /\ q = spec.count - 1 THEN -(2^q) ELSE 2^q
        byte == sub * RecSize + spec.byte
    IN MapThenSumSet(LAMBDA q : RedBit(spec, byte, k, spec.bit + q) * weight(q),
                     0..spec.count - 1)

(* The intervals that a read asks for.                                     *)
Asked(rd) ==
    LET last == IF rd.count < 0 THEN rd.r.cycles
                ELSE Min({rd.from + rd.count, rd.r.cycles})
    IN {k \in 0..rd.r.cycles - 1 : rd.from <= k /\ k < last}

(* Mean, Min and Max of a reduction have one sample for each interval that *)
(* was asked for and is announced; each is the number the writer stored in *)
(* its sub-record for that interval, flagged invalid exactly when the      *)
(* reduction has flags and the channel's is set, and the time of all three *)
(* is the master's mean of the same interval (reduction.go: Read, readSub).*)
(* The read fails only when intervals are missing from the data or the     *)
(* range starts behind the last one.  Fields that do not fit a record of   *)
(* the group are left out: they reach into the next sub-record.            *)
ReducedReadBack ==
    (red.done /\ FieldFits(red.spec, RecSize)) =>
        IF ~red.ok
        THEN \/ red.from > red.r.cycles
             \/ \E k \in Asked(red) : (k + 1) * RedSize(red.r) > red.r.stored
             \/ Asked(red) = {} /\ red.from * RedSize(red.r) > red.r.stored
        ELSE \A q \in 1..3 :
               LET sub == red.sub[q]
               IN /\ Len(sub.vals) = Cardinality(Asked(red))
                  /\ \A s \in DOMAIN sub.vals :
                        LET k == red.from + s - 1
                        IN /\ sub.vals[s] = RedValue(red.spec, q - 1, k)
                           /\ (red.spec # Master \/ red.float) =>
                                 red.time[s] = RedValue(Master, 0, k)
                           /\ (s \in sub.invalid) <=>
                                 /\ red.r.flags /\ red.spec.inval \in 0..8 * InvalSize - 1
                                 /\ (RedByte(k, 3 * RecSize + red.spec.inval \div 8 + 1)
                                       \div 2^(red.spec.inval % 8)) % 2 = 1
=============================================================================
