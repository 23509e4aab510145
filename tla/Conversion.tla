---------------------------- MODULE Conversion ----------------------------
(***************************************************************************)
(* Conversion rules: the blocks of a rule are resolved and compiled once   *)
(* for a channel (read.go: compileConversion, internal/conversion), and    *)
(* then applied to whole columns (read.go: applyConversion).               *)
(*                                                                         *)
(* A file is a function from addresses to blocks: a text [id, text], a     *)
(* rule [id, type, vals, refs] whose refs are addresses (0: none), or      *)
(* something else.  A text is a sequence of parts, a part being a word of  *)
(* a TX block, a number that was rendered, or the separator of bit fields. *)
(* Raw values and parameters are integers; results are quotients in lowest *)
(* terms, with the denominator 0 for what float64 calls NaN or infinite.   *)
(* Algebraic formulas are left out (a rule of that type has type           *)
(* "algebraic" and does not compile here), as are NaN inputs.              *)
(***************************************************************************)
EXTENDS Integers, Sequences, SequencesExt, FiniteSetsExt, Bitwise

CONSTANT MaxConversionDepth   \* maxConversionDepth: 16

ASSUME DepthAssumption == MaxConversionDepth \in Nat

-----------------------------------------------------------------------------
(* Numbers and texts.                                                      *)

Sign(n) == IF n > 0 THEN 1 ELSE IF n < 0 THEN -1 ELSE 0

CommonDivisor(m, n) == Max({d \in 1..Max({m, n}) : m % d = 0 /\ n % d = 0})

Quot(n, d) ==
    IF d = 0 THEN [n |-> Sign(n), d |-> 0]
    ELSE LET g == CommonDivisor(n * Sign(n), d * Sign(d))
         IN [n |-> (Sign(d) * n) \div g, d |-> (Sign(d) * d) \div g]

Num(n) == [n |-> n, d |-> 1]
NaN == [n |-> 0, d |-> 0]

EmptyText == <<>>
TxWord(w) == <<<<"word", w>>>>
Rendered(q) == <<<<"number", q.n, q.d>>>>   \* fmt.Sprintf("%v", q)
Separator == <<<<"or">>>>

-----------------------------------------------------------------------------
(* Compile.  Out says which of the four functions of a Conversion is set:  *)
(* "num" numeric, "text" toText, "fromText", "textText"; a rule that is    *)
(* 1:1 compiles to Nil, and Failed stands for an error.                    *)

Nil == [out |-> "nil"]
Failed == [out |-> "failed"]

Conv(out, cc, refs, intIn) ==
    [out |-> out, type |-> cc.type, vals |-> cc.vals, refs |-> refs, intIn |-> intIn]

Textual(c) == c.out \in {"text", "textText"}
TextInput(c) == c.out \in {"fromText", "textText"}   \* types 9 and 10

NumericDominant(def) == def.conv # Nil /\ ~Textual(def.conv)

TableOut(def) == IF NumericDominant(def) THEN "num" ELSE "text"

Compile(cc, refs, intIn) ==
    LET n == Len(cc.vals)
        made(out) == Conv(out, cc, refs, intIn)
        needs(ok, c) == IF ok THEN c ELSE Failed
    IN CASE cc.type = "identity" -> Nil
         [] cc.type = "linear" ->
              needs(n >= 2, IF SubSeq(cc.vals, 1, 2) = <<0, 1>> THEN Nil ELSE made("num"))
         [] cc.type = "rational" ->
              needs(n >= 6, IF SubSeq(cc.vals, 1, 6) = <<0, 1, 0, 0, 0, 1>> THEN Nil
                            ELSE made("num"))
         [] cc.type \in {"tab", "interp"} -> needs(n >= 2, made("num"))
         [] cc.type = "rangeToValue" -> needs(n >= 3 * (n \div 3) + 1, made("num"))
         [] cc.type = "valueToText" ->
              IF Len(refs) < n + 1 THEN Failed ELSE made(TableOut(refs[n + 1]))
         [] cc.type = "rangeToText" ->
              IF Len(refs) < n \div 2 + 1 THEN Failed
              ELSE made(TableOut(refs[n \div 2 + 1]))
         [] cc.type = "textToValue" -> needs(n >= Len(refs) + 1, made("fromText"))
         [] cc.type = "textToText" -> made("textText")
         [] cc.type = "bitfieldToText" -> needs(Len(refs) >= n, made("text"))
         [] OTHER -> Failed

NoRef == [text |-> EmptyText, conv |-> Nil]

(* compileConversion: references are resolved first, nested rules to the   *)
(* depth that is allowed.                                                  *)
RECURSIVE CompileAt(_, _, _, _)
CompileAt(file, addr, intIn, depth) ==
    IF addr = 0 THEN Nil
    ELSE IF depth > MaxConversionDepth THEN Failed
    ELSE LET cc == file[addr]
             resolve(a) ==
                 CASE a = 0              -> NoRef
                   [] file[a].id = "TX"  -> [NoRef EXCEPT !.text = file[a].text]
                   [] file[a].id = "CC"  ->
                        [NoRef EXCEPT !.conv = CompileAt(file, a, intIn, depth + 1)]
                   [] OTHER              -> [NoRef EXCEPT !.conv = Failed]
             refs == [r \in DOMAIN cc.refs |-> resolve(cc.refs[r])]
         IN IF \E r \in DOMAIN refs : refs[r].conv = Failed THEN Failed
            ELSE Compile(cc, refs, intIn)

-----------------------------------------------------------------------------
(* What a compiled rule makes of one value.                                *)

Key(c, k) == c.vals[2 * k - 1]
Val(c, k) == c.vals[2 * k]

(* tabLookup: the search finds the first key that is not below x.          *)
TabLookup(c, x) ==
    LET n == Len(c.vals) \div 2
        at == Min({k \in 1..n : Key(c, k) >= x} \union {n + 1})
    IN IF x <= Key(c, 1) THEN Num(Val(c, 1))
       ELSE IF x >= Key(c, n) THEN Num(Val(c, n))
       ELSE IF Key(c, at) = x THEN Num(Val(c, at))
       ELSE IF c.type = "interp"
       THEN LET k0 == Key(c, at - 1)  k1 == Key(c, at)
                v0 == Val(c, at - 1)  v1 == Val(c, at)
            IN Quot(v0 * (k1 - k0) + (v1 - v0) * (x - k0), k1 - k0)
       ELSE IF x - Key(c, at - 1) <= Key(c, at) - x THEN Num(Val(c, at - 1))
       ELSE Num(Val(c, at))

(* Mutation: the upper bound of a range is part of it for real inputs too. *)
InRangeClosed(c, lo, hi, x) == lo <= x /\ x <= hi

InRange(c, lo, hi, x) == lo <= x /\ (x < hi \/ (c.intIn /\ x = hi))

(* rangeTable.find: the first of n ranges, width values apart; 0: none.    *)
FindRange(c, n, width, x) ==
    LET hits == {j \in 1..n : InRange(c, c.vals[width * (j - 1) + 1],
                                         c.vals[width * (j - 1) + 2], x)}
    IN IF hits = {} THEN 0 ELSE Min(hits)

(* The reference that a value-to-text or range-to-text table gives.        *)
Chosen(c, x) ==
    IF c.type = "valueToText"
    THEN LET hits == {j \in DOMAIN c.vals : c.vals[j] = x}
         IN IF hits = {} THEN c.refs[Len(c.vals) + 1] ELSE c.refs[Min(hits)]
    ELSE LET n == Len(c.vals) \div 2
             j == FindRange(c, n, 2, x)
         IN IF j = 0 THEN c.refs[n + 1] ELSE c.refs[j]

(* convertOne and the numeric functions; renderNumericRef for tables.      *)
RECURSIVE ConvertOne(_, _)
ConvertOne(c, x) ==
    IF c.out # "num" THEN Num(x)
    ELSE CASE c.type = "linear" -> Num(c.vals[2] * x + c.vals[1])
           [] c.type = "rational" ->
                Quot(c.vals[1] * x * x + c.vals[2] * x + c.vals[3],
                     c.vals[4] * x * x + c.vals[5] * x + c.vals[6])
           [] c.type \in {"tab", "interp"} -> TabLookup(c, x)
           [] c.type = "rangeToValue" ->
                LET n == Len(c.vals) \div 3
                    j == FindRange(c, n, 3, x)
                IN Num(IF j = 0 THEN c.vals[3 * n + 1] ELSE c.vals[3 * j])
           [] OTHER ->
                LET r == Chosen(c, x)
                IN IF NumericDominant(r) THEN ConvertOne(r.conv, x) ELSE NaN

Joined(s, part) ==
    IF part = EmptyText THEN s
    ELSE IF s = EmptyText THEN part ELSE s \o Separator \o part

(* renderRef and stringOne.                                                *)
RECURSIVE RenderRef(_, _)
RenderRef(r, x) ==
    IF r.conv = Nil THEN r.text
    ELSE IF r.conv.out # "text" THEN Rendered(ConvertOne(r.conv, x))
    ELSE IF r.conv.type = "bitfieldToText"
    THEN FoldLeft(LAMBDA s, j : Joined(s, RenderRef(r.conv.refs[j], x & r.conv.vals[j])),
                  EmptyText, [j \in DOMAIN r.conv.vals |-> j])
    ELSE RenderRef(Chosen(r.conv, x), x)

StringOne(c, x) == RenderRef([NoRef EXCEPT !.conv = c], x)

(* Of two entries for a text the map keeps the later.                      *)
FromText(c, s) ==
    LET hits == {j \in DOMAIN c.refs : c.refs[j].text = s}
    IN Num(IF hits = {} THEN c.vals[Len(c.refs) + 1] ELSE c.vals[Max(hits)])

TextToText(c, s) ==
    LET n == Len(c.refs) \div 2
        hits == {j \in 1..n : c.refs[2 * j - 1].text = s}
    IN IF hits # {} THEN c.refs[2 * Max(hits)].text
       ELSE IF Len(c.refs) > 2 * n /\ c.refs[2 * n + 1].text # EmptyText
            THEN c.refs[2 * n + 1].text ELSE s

-----------------------------------------------------------------------------
(* Columns [kind, vals].  A raw column is of kind "int", "real", "text" or *)
(* "bytes", a result is of kind "int", "float", "text" or "bytes".         *)

(* columnSpec: a number is widened when a rule is going to be applied.     *)
AsFloat64(kind, c) ==
    \/ kind = "real"
    \/ kind = "int" /\ c # Nil /\ (Textual(c) \/ ~TextInput(c))

Extracted(raw, c) ==
    IF AsFloat64(raw.kind, c) THEN [raw EXCEPT !.kind = "float"] ELSE raw

Panic == [kind |-> "panic", vals |-> <<>>]

ApplyConversion(col, c) ==
    LET each(op(_, _), kind) == [kind |-> kind,
                                 vals |-> [s \in DOMAIN col.vals |-> op(c, col.vals[s])]]
        asis == IF col.kind \in {"int", "float"}
                THEN [col EXCEPT !.vals = [s \in DOMAIN @ |-> Num(@[s])]] ELSE col
    IN CASE c = Nil -> asis
         [] Textual(c) /\ col.kind = "float" ->
              IF c.out = "text" THEN each(StringOne, "text") ELSE Panic
         [] Textual(c) /\ col.kind = "text" ->
              IF c.out = "textText" THEN each(TextToText, "text") ELSE Panic
         [] c.out = "fromText" /\ col.kind = "text" -> each(FromText, "float")
         [] ~Textual(c) /\ col.kind = "float" -> each(ConvertOne, "float")
         [] OTHER -> asis

(* readVirtual: the conversion is applied with Convert only.               *)
ConvertVirtual(vals, c) ==
    [kind |-> "float", vals |-> [s \in DOMAIN vals |-> ConvertOne(c, vals[s])]]
=============================================================================
