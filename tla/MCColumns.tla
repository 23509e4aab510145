------------------------------ MODULE MCColumns ------------------------------
(* Files and channels for the run of column storage.                       *)
EXTENDS ChannelReads, TLC

RecPattern(k, b) == (k * 67 + b * 41 + k * b * 13) % 256
InvPattern(k, b) == (k * k * 37 + k * 89 + b * 101) % 256

(* Blocks of ns[1], ns[2], ... samples one after the other.                *)
InARow(ns, di) ==
    [b \in DOMAIN ns |->
        [from |-> MapThenSumSet(LAMBDA a : ns[a], 1..b - 1), n |-> ns[b],
         ok |-> TRUE, di |-> di[b]]]

List(equal, inval, blocks) ==
    [ok |-> TRUE, equal |-> equal, inval |-> inval, blocks |-> blocks]

(* The blocks spread over two lists, the first with c of them.             *)
TwoLists(equal, blocks, c, flags) ==
    <<List(equal, flags[1], SubSeq(blocks, 1, c)),
      List(equal, flags[2], SubSeq(blocks, c + 1, Len(blocks)))>>

(* Equal sample counts with a shorter last block; offsets with blocks of   *)
(* different sizes, empty ones among them; and offsets in any order.       *)
Layouts(di) ==
    {<<2, InARow(<<2, 2, 1>>, di)>>}
    \union {<<0, InARow(ns, di)>> : ns \in {<<2, 1, 2>>, <<1, 0, 2>>}}
    \union {<<0, Reverse(InARow(<<1, 2, 1>>, di))>>}

Flags == {<<TRUE, TRUE>>, <<TRUE, FALSE>>, <<FALSE, TRUE>>, <<FALSE, FALSE>>}

SoundFiles ==
    UNION {{TwoLists(l[1], l[2], c, flags) : c \in {1, 3}, flags \in Flags,
                                             l \in Layouts(di)} :
           di \in [1..3 -> {"DI", "none"}]}

AllThere == <<"DI", "DI", "DI">>

DamagedFiles ==
    LET f == TwoLists(2, InARow(<<2, 2, 1>>, AllThere), 2, <<TRUE, TRUE>>)
    IN {[f EXCEPT ![1].blocks[2].ok = FALSE],
        [f EXCEPT ![2].blocks[1].di = "bad"],
        [f EXCEPT ![2].ok = FALSE]}

(* A sample is missing between two blocks.                                 *)
HoleFile == <<List(0, TRUE, <<[from |-> 0, n |-> 1, ok |-> TRUE, di |-> "DI"],
                              [from |-> 2, n |-> 1, ok |-> TRUE, di |-> "none"]>>)>>

AllFiles == SoundFiles \union DamagedFiles \union {HoleFile, <<>>}

Scalar(spec) == [spec |-> spec, arr |-> [levels |-> <<>>, below |-> FALSE]]

Array(spec, levels, below) ==
    [spec |-> spec, arr |-> [levels |-> levels, below |-> below]]

(* Records of 4 bytes, 2 invalidation bytes, words of 16 bits.             *)
SomeChannels == {
    Scalar(Field(0, 3, 7, FALSE, FALSE, 0)),    \* across two bytes
    Scalar(Field(1, 2, 11, TRUE, TRUE, 9)),     \* big-endian, signed
    Scalar(Field(1, 0, 16, FALSE, TRUE, -1)),   \* loaded directly, a whole word
    Scalar(Field(0, 4, 16, FALSE, FALSE, 3)),   \* wider than a word
    Scalar(Field(3, 0, 16, TRUE, FALSE, 17)),   \* ends behind the record
    \* nested arrays, flags across two bytes
    Array(Field(0, 0, 8, FALSE, FALSE, 5),
          <<Level(<<2>>, 2, 2), Level(<<2>>, 1, 1)>>, FALSE),
    \* a matrix whose second row lies behind the record
    Array(Field(2, 1, 6, TRUE, TRUE, -1), <<Level(<<2, 2>>, 1, 0)>>, FALSE),
    \* not expanded: a structure below, an empty dimension, too many elements
    Array(Field(0, 0, 8, FALSE, FALSE, -1), <<Level(<<2>>, 1, 0)>>, TRUE),
    Array(Field(0, 0, 8, FALSE, FALSE, -1), <<Level(<<2, 0>>, 1, 0)>>, FALSE),
    Array(Field(0, 0, 4, FALSE, FALSE, -1), <<Level(<<5>>, 1, 0)>>, FALSE)}

-----------------------------------------------------------------------------
(* Rules, as far as their tables differ for the values 0..4.               *)
TX(text) == [id |-> "TX", text |-> text]
CC(type, vals, refs) == [id |-> "CC", type |-> type, vals |-> vals, refs |-> refs]

TheRule == 100

(* Texts, and rules that others refer to: among them a table of numbers    *)
(* with an error code, one of texts, a 1:1 rule, one that is too short,    *)
(* one that refers to itself, and something that is no rule.               *)
SharedBlocks ==
    (1 :> TX(TxWord("a"))) @@ (2 :> TX(TxWord("b"))) @@ (3 :> TX(EmptyText)) @@
    (4 :> CC("linear", <<1, 2>>, <<>>)) @@
    (5 :> CC("valueToText", <<1>>, <<2, 4>>)) @@
    (6 :> CC("rangeToText", <<1, 3>>, <<1, 0>>)) @@
    (7 :> CC("linear", <<0, 1>>, <<>>)) @@
    (8 :> CC("linear", <<2>>, <<>>)) @@
    (9 :> CC("valueToText", <<2>>, <<9, 1>>)) @@
    (10 :> [id |-> "DT"]) @@
    (11 :> CC("textToValue", <<1>>, <<>>)) @@
    (12 :> CC("valueToText", <<0>>, <<1, 6>>)) @@
    (13 :> CC("valueToText", <<0>>, <<1, 12>>))

Ascending == {<<k>> : k \in 1..2} \union
             {<<k1, k2>> : k1 \in 0..1, k2 \in 2..4} \union {<<0, 1, 4>>, <<1, 3, 4>>}

TabOf(keys) == FlattenSeq([k \in DOMAIN keys |-> <<keys[k], 7 - k * k>>])

SomeRefs == {0, 1, 3, 4, 5, 6, 7, 8, 9, 10, 11, 12, 13}

RuleBlocks ==
    {CC("identity", <<>>, <<>>), CC("textToText", <<>>, <<>>)}
    \union {CC("linear", v, <<>>) : v \in {<<>>, <<0, 1>>, <<3, -2>>}}
    \union {CC("rational", v, <<>>) : v \in {<<0, 1, 0, 0, 0, 1>>, <<1, 0, 2, 0, 1, -1>>,
                                             <<0, 1, -1, 0, 1, -1>>, <<1>>}}
    \union {CC(t, TabOf(keys), <<>>) : t \in {"tab", "interp"}, keys \in Ascending \union {<<>>}}
    \union {CC("rangeToValue", v, <<>>) :
                v \in {<<5>>, <<1, 3, 8>>, <<1, 3, 8, 9>>, <<2, 3, 7, 1, 4, 8, 9>>}}
    \union {CC("valueToText", <<1>>, <<r, d>>) : r \in SomeRefs, d \in SomeRefs}
    \union {CC("valueToText", <<2, 1, 2>>, <<1, r, 2, 3>>) : r \in {2, 4}}
    \union {CC("rangeToText", <<1, 3, 2, 4>>, <<r, s, d>>) : r \in {1, 5}, s \in {2, 4}, d \in SomeRefs}
    \union {CC("rangeToText", <<1, 3>>, <<1>>), CC("valueToText", <<1, 2>>, <<1, 2>>)}
    \union {CC("textToValue", v, refs) : v \in {<<5>>, <<5, 6, 7>>}, refs \in {<<>>, <<1, 1>>, <<1, 3>>}}
    \union {CC("textToText", <<>>, refs) :
                refs \in {<<1, 2>>, <<1, 2, 1, 3>>, <<1, 2, 3>>, <<2, 1, 2>>, <<4, 2, 1>>}}
    \union {CC("bitfieldToText", <<1, 6>>, <<r, s>>) : r \in {1, 5, 6}, s \in SomeRefs}
    \union {CC("bitfieldToText", <<1, 6>>, <<1>>)}

SomeRules == {(TheRule :> b) @@ SharedBlocks : b \in RuleBlocks}

SomeRawColumns ==
    {[kind |-> k, vals |-> <<0, 1, 2, 3, 4>>] : k \in {"int", "real"}}
    \union {[kind |-> "text", vals |-> <<TxWord("a"), EmptyText, TxWord("b")>>],
            [kind |-> "bytes", vals |-> <<<<"raw">>>>], [kind |-> "text", vals |-> <<>>]}

(* Reductions: too little data, as much as announced, more; with flags.    *)
SomeReductions ==
    {[cycles |-> c, flags |-> f, stored |-> st] : c \in {0, 2, 3}, f \in BOOLEAN,
                                                  st \in {0, 13, 28, 43, 60}}

RedPattern(k, b) == (k * 71 + b * 43 + k * b * 17) % 256

TheMaster == Field(0, 0, 16, FALSE, TRUE, -1)

SomeFields == {TheMaster, Field(1, 2, 11, TRUE, TRUE, 9), Field(0, 3, 7, FALSE, FALSE, 0),
               Field(2, 0, 16, TRUE, FALSE, 17), Field(3, 0, 16, TRUE, FALSE, 3)}
=============================================================================
