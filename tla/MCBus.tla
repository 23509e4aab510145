------------------------------- MODULE MCBus -------------------------------
(* Databases and logs for the run of bus decoding: bytes of two bits and   *)
(* words of two bytes, so that three bytes are one more than a word.       *)
EXTENDS BusProps

BO(raw) == [kind |-> "BO", ok |-> TRUE, raw |-> raw]
SG(sig) == [kind |-> "SG", ok |-> TRUE, sig |-> sig]
VAL(raw, name, pairs) ==
    [kind |-> "VAL", ok |-> TRUE, raw |-> raw, name |-> name, pairs |-> pairs]
VALTYPE(raw, name, type) ==
    [kind |-> "VALTYPE", ok |-> TRUE, raw |-> raw, name |-> name, type |-> type]
CM(raw, name, text) ==
    [kind |-> "CM", ok |-> TRUE, raw |-> raw, name |-> name, text |-> text]
Broken(line) == [line EXCEPT !.ok = FALSE]
Other == [kind |-> "other"]

Plain(name, start, len, big, signed) ==
    Signal(name, start, len, big, signed, 2, 1, FALSE, NoMux)
Switch(name, start, len) ==
    Signal(name, start, len, FALSE, FALSE, 1, 0, TRUE, NoMux)
Muxed(name, start, len, value) ==
    Signal(name, start, len, TRUE, FALSE, 1, 0, FALSE, value)
SubSwitch(name, start, len, value) ==
    Signal(name, start, len, FALSE, FALSE, 1, 0, TRUE, value)

Payloads == BoundedSeq(0..3, 3)

(* A group of frames <<id, ide, bus, length, payload>> logged with some of *)
(* the optional columns; time stamps are the positions.                    *)
FrameGroup(frames, optional, bad) ==
    [chans |-> <<<<1, "DataBytes">>, <<1, "ID">>>> \o SetToSeq({<<1, s>> : s \in optional}),
     cols  |-> [ID         |-> [i \in DOMAIN frames |-> frames[i][1]],
                IDE        |-> [i \in DOMAIN frames |-> frames[i][2]],
                BusChannel |-> [i \in DOMAIN frames |-> frames[i][3]],
                DataLength |-> [i \in DOMAIN frames |-> frames[i][4]],
                DataBytes  |-> [i \in DOMAIN frames |-> frames[i][5]]],
     times |-> [i \in DOMAIN frames |-> 10 * i],
     bad   |-> bad]

Call(given, atts, groups) == [given |-> given, atts |-> atts, groups |-> groups]

(* Every signal of up to a word and one bit, in every payload.             *)
OneSignal ==
    {Call(<< <<BO(1), SG(Plain(1, start, len, big, signed))>> >>, <<>>,
          <<FrameGroup(<< <<1, 0, 0, 0, p>> >>, {}, {})>>) :
        start \in 0..5, len \in 0..5, big \in BOOLEAN, signed \in BOOLEAN,
        p \in Payloads}

(* Multiplexed signals, tables for negative values, a float, two messages  *)
(* of one identifier, a signal behind a broken message and behind another  *)
(* section, attributes before and behind what they name.                   *)
MuxText ==
    <<BO(1), SG(Switch(3, 0, 1)), SG(Muxed(2, 1, 2, 0)), SG(Muxed(1, 1, 3, 1)),
      SG(Plain(4, 4, 2, FALSE, TRUE)), VAL(1, 4, << <<-1, 7>>, <<1, 8>>, <<-1, 9>> >>),
      Broken(BO(2)), SG(Plain(5, 0, 2, FALSE, FALSE)),
      BO(ExtFlag + 2), SG(Plain(6, 0, 2, TRUE, FALSE)), VALTYPE(ExtFlag + 2, 6, 1)>>

TwiceText ==
    <<VAL(1, 1, << <<0, 5>> >>), BO(1), SG(Plain(1, 0, 2, FALSE, FALSE)),
      VAL(1, 1, << <<0, 6>> >>), Other, SG(Plain(2, 2, 2, FALSE, FALSE)),
      BO(1), Broken(SG(Plain(3, 0, 1, FALSE, FALSE))), CM(1, 1, 4),
      SG(Plain(1, 3, 2, TRUE, TRUE)), VALTYPE(1, 1, 0), CM(1, 1, 3),
      VAL(1, 1, << <<1, 7>> >>), VAL(1, 2, << <<1, 7>> >>),
      BO(2), SG(Plain(2, 0, 1, FALSE, FALSE))>>

NestedText ==
    <<BO(1), SG(SubSwitch(1, 0, 1, 1)), SG(Switch(2, 1, 1)), SG(Muxed(3, 2, 2, 1))>>

EmptyText == <<Other, SG(Plain(1, 0, 1, FALSE, FALSE)), CM(1, 1, 1)>>

Att(dbc, embedded, bad, lines) ==
    [dbc |-> dbc, embedded |-> embedded, bad |-> bad, lines |-> lines]

SomeFrames ==
    {<<id, ide, bus, len, p>> :
        id \in {1, 2}, ide \in {0, 1}, bus \in {1}, len \in {2},
        p \in {<<1, 2, 3>>, <<2, 3>>}}
    \union {<<1, 0, 2, 3, <<3, 1, 2>>>>, <<3, 0, 1, -1, <<0, 1>>>>, <<1, 0, 1, 0, <<2>>>>}

Optionals == {{}, {"DataLength", "BusChannel", "IDE"}, {"IDE"}, {"DataLength"}}

(* Two groups: the keys of the second have been seen in the first or not.  *)
Logs ==
    {<<FrameGroup(<<f, g>>, o, {}), FrameGroup(<<h>>, o, {})>> :
        f \in SomeFrames, g \in SomeFrames, h \in {<<1, 0, 1, 1, <<1, 3, 0>>>>,
                                                   <<2, 1, 2, 3, <<2, 2, 1>>>>},
        o \in Optionals}

Texts == {<<MuxText>>, <<TwiceText>>, <<MuxText, TwiceText>>, <<NestedText, MuxText>>}

Structured ==
    {Call(t, <<>>, log) : t \in Texts, log \in Logs}

(* Attachments, groups without frames, unreadable columns, columns of      *)
(* different lengths.                                                      *)
OddGroups ==
    LET g == FrameGroup(<< <<1, 0, 1, 2, <<1, 2>>>>, <<2, 1, 1, 2, <<3, 2>>>> >>, {"IDE"}, {})
    IN {<<>>, <<[g EXCEPT !.bad = {"IDE"}]>>, <<[g EXCEPT !.bad = {"BusChannel"}]>>,
        <<g, [g EXCEPT !.bad = {"ID"}]>>,
        <<[g EXCEPT !.chans = << <<0, "DataBytes">>, <<0, "ID">>, <<2, "DataBytes">> >>], g>>,
        <<[g EXCEPT !.chans = << <<2, "DataBytes">>, <<1, "ID">>, <<1, "DataBytes">> >>]>>,
        <<[g EXCEPT !.cols.DataBytes = << <<2, 3>> >>]>>,
        <<[g EXCEPT !.cols.ID = <<1>>, !.cols.IDE = <<>>, !.times = <<>>]>>}

OddCalls ==
    {Call(given, atts, groups) :
        given \in {<<>>, <<MuxText>>},
        atts \in {<<>>, <<Att(TRUE, TRUE, FALSE, MuxText)>>, <<Att(TRUE, FALSE, FALSE, MuxText)>>,
                  <<Att(FALSE, TRUE, TRUE, <<>>), Att(TRUE, TRUE, FALSE, TwiceText)>>,
                  <<Att(TRUE, TRUE, FALSE, TwiceText), Att(TRUE, TRUE, TRUE, MuxText)>>,
                  <<Att(TRUE, TRUE, FALSE, EmptyText)>>},
        groups \in OddGroups}

AllCalls == OneSignal \union Structured \union OddCalls
=============================================================================
