----------------------------- MODULE BusDecode -----------------------------
(***************************************************************************)
(* bus.go: DecodeBus turns the frames that a file has logged into signals. *)
(*                                                                         *)
(* A call is an input [given, atts, groups]: the texts of the databases it *)
(* is given, the attachments of the file, and its channel groups.  An      *)
(* attachment [dbc, embedded, bad, lines] may be a database, be stored in  *)
(* the file, and be unreadable.  A group [chans, cols, times, bad] has     *)
(* channels <<prefix, suffix>> ("CAN_DataFrame", ".ID"), the columns they  *)
(* hold, and the suffixes of those that cannot be read.  What Channel.Read *)
(* does is in other modules; here it gives the column or an error.         *)
(***************************************************************************)
EXTENDS Dbc

CONSTANT Inputs   \* the calls that are made

VARIABLES
    in,      \* the call
    phase,   \* start, groups, frames, done
    dbs,     \* the databases in use
    gi, fi,  \* frame group and frame that come next
    msgs,    \* busAccumulator.msgs
    res,     \* result of the call: none, ok, error
    out      \* the signals returned

vars == <<in, phase, dbs, gi, fi, msgs, res, out>>

Init ==
    /\ in \in Inputs
    /\ phase = "start" /\ dbs = <<>> /\ gi = 1 /\ fi = 1
    /\ msgs = <<>> /\ res = "none" /\ out = <<>>

Return(result) == phase' = "done" /\ res' = result

-----------------------------------------------------------------------------
(* The databases: the given ones, or those embedded in the file.           *)

ParsedTexts(texts) == [i \in DOMAIN texts |-> Parse(texts[i])]

EmbeddedDatabases == SelectSeq(in.atts, LAMBDA a : a.dbc /\ a.embedded)
Unreadable(a) == a.bad \/ ParseFails(a.lines)

ChooseDatabases ==
    /\ phase = "start"
    /\ LET atts == EmbeddedDatabases
       IN \/ /\ in.given # <<>>
             /\ dbs' = ParsedTexts(in.given) /\ phase' = "groups" /\ UNCHANGED res
          \/ /\ in.given = <<>> /\ atts # <<>>
             /\ \A i \in DOMAIN atts : ~Unreadable(atts[i])
             /\ dbs' = ParsedTexts([i \in DOMAIN atts |-> atts[i].lines])
             /\ phase' = "groups" /\ UNCHANGED res
          \/ /\ in.given = <<>>
             /\ atts = <<>> \/ \E i \in DOMAIN atts : Unreadable(atts[i])
             /\ Return("error") /\ UNCHANGED dbs
    /\ UNCHANGED <<in, gi, fi, msgs, out>>

-----------------------------------------------------------------------------
(* BusFrameGroups: the groups with a structure that has data and an        *)
(* identifier; the first such structure counts.                            *)

NoPrefix == 0

HasChannel(g, prefix, suffix) == <<prefix, suffix>> \in Range(g.chans)

FrameChannels(g) ==
    {i \in DOMAIN g.chans : /\ g.chans[i][2] = "DataBytes"
                            /\ g.chans[i][1] # NoPrefix
                            /\ HasChannel(g, g.chans[i][1], "ID")}

BusFrameGroups == SelectSeq(in.groups, LAMBDA g : FrameChannels(g) # {})

Prefix(g) == g.chans[Min(FrameChannels(g))][1]

(* The column of a channel; a channel the log does not have is no column.  *)
ColumnOf(g, suffix) ==
    IF HasChannel(g, Prefix(g), suffix) THEN g.cols[suffix] ELSE <<>>

Suffixes5 == {"ID", "DataBytes", "DataLength", "BusChannel", "IDE"}

ReadsFail(g) ==
    \E s \in Suffixes5 : s \in g.bad /\ HasChannel(g, Prefix(g), s)

EnterGroup ==
    /\ phase = "groups" /\ gi <= Len(BusFrameGroups)
    /\ IF ReadsFail(BusFrameGroups[gi])
       THEN Return("error") /\ UNCHANGED fi
       ELSE phase' = "frames" /\ fi' = 1 /\ UNCHANGED res
    /\ UNCHANGED <<in, dbs, gi, msgs, out>>

-----------------------------------------------------------------------------
(* addGroup, one frame.                                                    *)

FrameCount(g) == Min({Len(ColumnOf(g, "ID")), Len(ColumnOf(g, "DataBytes"))})

(* The payload is cut to the logged length.                                *)
PayloadOf(g, i) ==
    LET data == ColumnOf(g, "DataBytes")[i]
        lens == ColumnOf(g, "DataLength")
    IN IF i <= Len(lens) /\ lens[i] >= 0 /\ lens[i] < Len(data)
       THEN SubSeq(data, 1, lens[i]) ELSE data

FrameKey(g, i) ==
    [bus |-> IF i <= Len(ColumnOf(g, "BusChannel")) THEN ColumnOf(g, "BusChannel")[i] ELSE 0,
     id  |-> ColumnOf(g, "ID")[i],
     ext |-> i <= Len(ColumnOf(g, "IDE")) /\ ColumnOf(g, "IDE")[i] # 0]

TimeOf(g, i) == IF i <= Len(g.times) THEN g.times[i] ELSE 0

Unknown == [msg |-> <<>>, sigs |-> <<>>]

NewSignal(def) == [def |-> def, time |-> <<>>, vals |-> <<>>, strs |-> <<>>]

(* lookup of a key that has not been seen: the first database that has the *)
(* message decides.  That none has it is remembered as well.               *)
Describing(k) == {d \in DOMAIN dbs : HasMessage(dbs[d], k.id, k.ext)}

Resolve(k) ==
    IF Describing(k) = {} THEN Unknown
    ELSE LET msg == Message(dbs[Min(Describing(k))], k.id, k.ext)
             defs == SelectSeq(msg.signals, LAMBDA s : ~(s.mux /\ Multiplexed(s)))
         IN [msg |-> msg, sigs |-> [i \in DOMAIN defs |-> NewSignal(defs[i])]]

Lookup(k) == IF k \in DOMAIN msgs THEN msgs[k] ELSE Resolve(k)

InFrame(msg, def, p) ==
    /\ Multiplexed(def) => def.muxValue \in MuxValueOf(msg, p)
    /\ Raw(def, p) # NoRaw

(* The text of a value; a value without one gives the empty text, 0.       *)
TextOf(def, raw) ==
    LET v == SignedRaw(def, raw) IN IF v \in DOMAIN def.table THEN def.table[v] ELSE 0

WithSample(s, p, t) ==
    LET raw == Raw(s.def, p)
    IN [s EXCEPT !.time = Append(@, t),
                 !.vals = Append(@, PhysicalFromRaw(s.def, raw)),
                 !.strs = IF s.def.table = NoTable THEN @
                          ELSE Append(@, TextOf(s.def, raw))]

Decode(bm, p, t) ==
    [bm EXCEPT !.sigs = [i \in DOMAIN @ |->
        IF InFrame(bm.msg, @[i].def, p) THEN WithSample(@[i], p, t) ELSE @[i]]]

AddFrame ==
    /\ phase = "frames" /\ fi <= FrameCount(BusFrameGroups[gi])
    /\ LET g == BusFrameGroups[gi]
           k == FrameKey(g, fi)
       IN msgs' = (k :> Decode(Lookup(k), PayloadOf(g, fi), TimeOf(g, fi))) @@ msgs
    /\ fi' = fi + 1
    /\ UNCHANGED <<in, phase, dbs, gi, res, out>>

LeaveGroup ==
    /\ phase = "frames" /\ fi > FrameCount(BusFrameGroups[gi])
    /\ phase' = "groups" /\ gi' = gi + 1
    /\ UNCHANGED <<in, dbs, fi, msgs, res, out>>

-----------------------------------------------------------------------------
(* signals: what has samples, by bus, identifier and name.  The map is     *)
(* walked in any order and the sort is not stable, so signals that compare *)
(* equal come in any order.                                                *)

ResultsOf(k) ==
    {[key |-> k, pos |-> i, sig |-> msgs[k].sigs[i]] :
        i \in {j \in DOMAIN msgs[k].sigs : msgs[k].sigs[j].vals # <<>>}}

Results == UNION {ResultsOf(k) : k \in DOMAIN msgs}

Before(a, b) ==
    IF a.key.bus # b.key.bus THEN a.key.bus < b.key.bus
    ELSE IF a.key.id # b.key.id THEN a.key.id < b.key.id
    ELSE a.sig.def.name < b.sig.def.name

Finish ==
    /\ phase = "groups" /\ gi > Len(BusFrameGroups)
    /\ \E s \in SetToSeqs(Results) :
          /\ \A i, j \in DOMAIN s : i < j => ~Before(s[j], s[i])
          /\ out' = s
    /\ Return("ok")
    /\ UNCHANGED <<in, dbs, gi, fi, msgs>>

Next == ChooseDatabases \/ EnterGroup \/ AddFrame \/ LeaveGroup \/ Finish

Spec == Init /\ [][Next]_vars
=============================================================================
