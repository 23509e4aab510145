-------------------------------- MODULE Dbc --------------------------------
(***************************************************************************)
(* internal/dbc: the database a DBC text describes (dbc.go) and the bits   *)
(* of a frame a signal is made of (decode.go).                             *)
(*                                                                         *)
(* A text is a sequence of lines [kind, ...]: "BO" a message, "SG" one of  *)
(* its signals, "VAL" a value table, "VALTYPE" a float type, "CM" a        *)
(* comment, "other" anything else.  The regular expressions are not        *)
(* represented: ok says whether a line matches its own.  Names are         *)
(* numbers, in the order of the strings they stand for.                    *)
(***************************************************************************)
EXTENDS Integers, Sequences, SequencesExt, FiniteSetsExt, TLC

CONSTANTS
    ByteBits,   \* bits of a byte: 8
    WordBytes,  \* bytes of a uint64: 8
    ExtFlag     \* ExtendedFlag, the bit above all identifiers: 2^31

ASSUME DbcAssumption ==
    /\ ByteBits \in Nat \ {0} /\ WordBytes \in Nat \ {0} /\ ExtFlag \in Nat \ {0}

WordBits == ByteBits * WordBytes

-----------------------------------------------------------------------------
(* Parse.                                                                  *)

NoTable == <<>>
NoMux == -1

(* A signal as its SG_ line gives it; tables, float types and comments     *)
(* come with later lines.  mux is IsMultiplexer, muxValue is NoMux for a   *)
(* signal that is in every frame.                                          *)
Signal(name, start, len, big, signed, factor, offset, mux, muxValue) ==
    [name |-> name, start |-> start, len |-> len, big |-> big,
     signed |-> signed, factor |-> factor, offset |-> offset, mux |-> mux,
     muxValue |-> muxValue, float |-> FALSE, table |-> NoTable, comment |-> 0]

Multiplexed(s) == s.muxValue >= 0

(* The key of a message: the identifier without the flag, and the flag.    *)
KeyOf(raw) == <<raw % ExtFlag, (raw \div ExtFlag) % 2 = 1>>

(* The parser: the messages in file order, the index of the last one of    *)
(* each key, and the message signals go to (0: none).                      *)
EmptyDatabase == [msgs |-> <<>>, byKey |-> <<>>, cur |-> 0]

(* Mutation: a line that is not a message leaves the current one open.     *)
ParseMessageKeepsOpen(db, l) ==
    IF ~l.ok THEN db
    ELSE LET n == Len(db.msgs) + 1
         IN [msgs  |-> Append(db.msgs, [key |-> KeyOf(l.raw), signals |-> <<>>]),
             byKey |-> (KeyOf(l.raw) :> n) @@ db.byKey,
             cur   |-> n]

ParseMessage(db, l) ==
    IF ~l.ok THEN [db EXCEPT !.cur = 0]
    ELSE LET n == Len(db.msgs) + 1
         IN [msgs  |-> Append(db.msgs, [key |-> KeyOf(l.raw), signals |-> <<>>]),
             byKey |-> (KeyOf(l.raw) :> n) @@ db.byKey,
             cur   |-> n]

ParseSignal(db, l) ==
    IF db.cur = 0 \/ ~l.ok THEN db
    ELSE [db EXCEPT !.msgs[db.cur].signals = Append(@, l.sig)]

(* The message and the first of its signals with the name that a VAL_,     *)
(* SIG_VALTYPE_ or CM_ line speaks of, as far as they have been read.      *)
Named(msg, name) == {i \in DOMAIN msg.signals : msg.signals[i].name = name}

Addressed(db, l) ==
    /\ l.ok /\ KeyOf(l.raw) \in DOMAIN db.byKey
    /\ Named(db.msgs[db.byKey[KeyOf(l.raw)]], l.name) # {}

(* Later pairs of a table replace earlier ones.                            *)
WithPairs(table, pairs) ==
    FoldLeft(LAMBDA t, p : (p[1] :> p[2]) @@ t, table, pairs)

Attribute(sig, l) ==
    CASE l.kind = "VAL"     -> [sig EXCEPT !.table = WithPairs(@, l.pairs)]
      [] l.kind = "VALTYPE" -> [sig EXCEPT !.float = @ \/ l.type \in {1, 2}]
      [] l.kind = "CM"      -> [sig EXCEPT !.comment = l.text]

ApplyToSignal(db, l) ==
    IF ~Addressed(db, l) THEN db
    ELSE LET m == db.byKey[KeyOf(l.raw)]
             i == Min(Named(db.msgs[m], l.name))
         IN [db EXCEPT !.msgs[m].signals[i] = Attribute(@, l)]

ParseLine(db, l) ==
    CASE l.kind = "BO"    -> ParseMessage(db, l)
      [] l.kind = "SG"    -> ParseSignal(db, l)
      [] l.kind = "other" -> [db EXCEPT !.cur = 0]
      [] OTHER            -> ApplyToSignal(db, l)

(* A text without a message is not a database.                             *)
Parse(lines) == FoldLeft(ParseLine, EmptyDatabase, lines)
ParseFails(lines) == Parse(lines).msgs = <<>>

(* Message: a standard identifier that is not found is looked up once more *)
(* as an extended one.                                                     *)
MessageKey(db, id, ext) ==
    IF <<id, ext>> \notin DOMAIN db.byKey /\ ~ext THEN <<id, TRUE>> ELSE <<id, ext>>

HasMessage(db, id, ext) == MessageKey(db, id, ext) \in DOMAIN db.byKey
Message(db, id, ext) == db.msgs[db.byKey[MessageKey(db, id, ext)]]

-----------------------------------------------------------------------------
(* Raw.  p is the payload, a sequence of bytes.                            *)

NoRaw == -1

BytesNeeded(bitOff, len) == (bitOff + len + ByteBits - 1) \div ByteBits

(* leWord, beWord: up to WordBytes bytes, zero-padded.                     *)
ByteOr0(p, i) == IF i < Len(p) THEN p[i + 1] ELSE 0
LeWord(p) ==
    MapThenSumSet(LAMBDA i : ByteOr0(p, i) * 2^(ByteBits * i), 0..(WordBytes - 1))
BeWord(p) ==
    MapThenSumSet(LAMBDA i : ByteOr0(p, i) * 2^(ByteBits * (WordBytes - 1 - i)),
                  0..(WordBytes - 1))

From(p, n) == SubSeq(p, n + 1, Len(p))

RawLittle(s, p) ==
    LET byte   == s.start \div ByteBits
        bitOff == s.start % ByteBits
        v      == LeWord(From(p, byte)) \div 2^bitOff
    IN IF byte + BytesNeeded(bitOff, s.len) > Len(p) THEN NoRaw
       ELSE IF bitOff + s.len > WordBits
            THEN (v + ByteOr0(p, byte + WordBytes) * 2^(WordBits - bitOff)) % 2^s.len
            ELSE v % 2^s.len

(* The position of the most significant bit counted from the top of the    *)
(* first byte.                                                             *)
Msb(s) == ByteBits * (s.start \div ByteBits) + (ByteBits - 1 - (s.start % ByteBits))

(* Mutation: the last byte of a field that is wider than the word where it *)
(* starts is not read.                                                     *)
RawBigWithinWord(s, p) ==
    LET byte   == Msb(s) \div ByteBits
        bitOff == Msb(s) % ByteBits
        shift  == WordBits - bitOff - s.len
        v      == BeWord(From(p, byte))
    IN IF byte + BytesNeeded(bitOff, s.len) > Len(p) THEN NoRaw
       ELSE IF shift >= 0 THEN (v \div 2^shift) % 2^s.len
            ELSE (v * 2^(-shift)) % 2^s.len

RawBig(s, p) ==
    LET byte   == Msb(s) \div ByteBits
        bitOff == Msb(s) % ByteBits
        shift  == WordBits - bitOff - s.len
        v      == BeWord(From(p, byte))
    IN IF byte + BytesNeeded(bitOff, s.len) > Len(p) THEN NoRaw
       ELSE IF shift >= 0 THEN (v \div 2^shift) % 2^s.len
            ELSE (v * 2^(-shift) + ByteOr0(p, byte + WordBytes) \div 2^(ByteBits + shift))
                    % 2^s.len

Raw(s, p) ==
    IF s.len <= 0 \/ s.len > WordBits THEN NoRaw
    ELSE IF s.big THEN RawBig(s, p) ELSE RawLittle(s, p)

SignExtended(raw, len) == IF raw >= 2^(len - 1) THEN raw - 2^len ELSE raw

(* SignedRaw, for value tables and switches: an unsigned value as wide as  *)
(* the word turns negative too.                                            *)
SignedRaw(s, raw) ==
    IF s.len >= WordBits THEN SignExtended(raw, WordBits)
    ELSE IF s.signed THEN SignExtended(raw, s.len) ELSE raw

(* The number that the bits of a float32 or float64 are; any injection     *)
(* does here.                                                              *)
FloatOf(raw) == 2^(WordBits + 1) + raw

PhysicalFromRaw(s, raw) ==
    LET v == IF s.float /\ s.len \in {WordBits \div 2, WordBits}
             THEN FloatOf(raw)
             ELSE IF s.signed THEN SignExtended(raw, s.len) ELSE raw
    IN v * s.factor + s.offset

(* The first signal marked as a switch, whether or not it is multiplexed   *)
(* itself.                                                                 *)
Switches(msg) == {i \in DOMAIN msg.signals : msg.signals[i].mux}

(* MuxValueOf: the set with the switch value, empty without one.           *)
MuxValueOf(msg, p) ==
    IF Switches(msg) = {} THEN {}
    ELSE LET s == msg.signals[Min(Switches(msg))]
         IN IF Raw(s, p) = NoRaw THEN {} ELSE {SignedRaw(s, Raw(s, p))}
=============================================================================
