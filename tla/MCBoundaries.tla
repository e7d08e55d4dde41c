---------------------------- MODULE MCBoundaries ----------------------------
(* Texts over the characters that matter to each codec, trees whose names    *)
(* hold delimiters and the reader's own keywords, and clients in pieces.     *)
EXTENDS Boundaries, TLC

Texts(alphabet, n) == UNION {[1..k -> alphabet] : k \in 0..n}
MCChar == {"$", "\n", "x", "t", "a", "k", "%", "+", "&", "=", " ", "2", "5", "6", "B", "D", "3", "1"}
MCBodies == Texts({"$", "t", "x", "a"}, 6)
MCTags == {<<"t">>}
MCKeys == {<<"k">>}
MCStrs == {s \in Texts({"first", "rest"}, 9) : s \in Utf8}
MCByteOf == (<<"2", "5">> :> "%") @@ (<<"2", "B">> :> "+") @@ (<<"2", "6">> :> "&")
            @@ (<<"3", "D">> :> "=") @@ (<<"6", "1">> :> "a")

\* The text in one of its spellings: bold ones escape what they can.
Spelling(c, bold) ==
    IF Escapes(c) # {} /\ (bold \/ c \in Special) THEN CHOOSE s \in Escapes(c) : TRUE
    ELSE IF c = " " THEN <<"+">> ELSE <<c>>
Starts(seqs, gap) ==
    [i \in 1..(Len(seqs) + 1) |-> 1 + FoldSeq(LAMBDA s, n : n + Len(s) + gap, 0, SubSeq(seqs, 1, i - 1))]
Sent(text, bold) ==
    LET seqs == [i \in 1..Len(text) |-> Spelling(text[i], bold)]
    IN  [text |-> text, coded |-> FlattenSeq(seqs), starts |-> Starts(seqs, 0)]
Request(fields) ==
    LET seqs == [i \in 1..Len(fields) |-> FieldText(fields[i])]
        text == FlattenSeq([i \in 1..Len(seqs) |-> IF i = 1 THEN seqs[1] ELSE <<"&">> \o seqs[i]])
    IN  [fields |-> fields, text |-> text, starts |-> Starts(seqs, 1)]

MCField(n, v, bold) == [name |-> Sent(n, bold), value |-> Sent(v, bold), bare |-> FALSE]
MCBare(n) == [name |-> Sent(n, FALSE), value |-> Sent(<<>>, FALSE), bare |-> TRUE]
Texts3 == Texts({"%", "+", "&", " ", "2", "5", "=", "a"}, 3)
SmallFields ==
    {MCField(n, v, bold) : n \in {<<>>, <<"k">>, <<"&">>}, v \in {<<"=">>, <<"a", "%">>}, bold \in BOOLEAN}
    \cup {MCBare(n) : n \in {<<>>, <<"k">>}}
MCRequests ==
    {Request(<<MCField(t, t, b)>>) : t \in Texts3, b \in BOOLEAN}
    \cup {Request(<<MCField(<<"k">>, t, b)>>) : t \in Texts3, b \in BOOLEAN}
    \cup {Request(<<f, g>>) : f, g \in SmallFields}
    \cup {Request(<<f, g, h>>) : f, g, h \in {MCField(n, v, FALSE) : n \in {<<"k">>, <<"=">>}, v \in {<<>>, <<" ">>}}}

Names ==
    { <<"a">>, <<"é", "}", ")">>, <<"<", ">">>,
      <<"{", "RANGEVAR", " ", ":relname", " ", "a">>,
      <<":stmt", " ", "{", "INSERTSTMT">> }

\* Names that do not read back, and one that does.
OddNames ==
    { <<"a">>, <<":relname">>, <<"a", ":ctename">>, <<"a", "\r", "b">>, <<"a", "\f">>,
      <<"a", "\"", "b">> }

Schemas(names) == {Null} \cup {<<n>> : n \in names}
MCRelations == [schema : Schemas(Names), name : Names]
OddRelations == [schema : Schemas(OddNames), name : OddNames]
MCCtes == [name : Names, query : {"SELECTSTMT", "DELETESTMT"}]
Select(tables, calls, ctes, literal, into) ==
    [kind |-> "SELECTSTMT", from |-> tables, calls |-> calls, ctes |-> ctes,
     literal |-> literal, into |-> into]
Plain == Select(<<>>, <<>>, <<>>, <<"a">>, FALSE)
AtMostOne(S) == {<<>>} \cup {<<x>> : x \in S}

MCTrees ==
    {<<>>, <<Plain, Plain>>, <<[Plain EXCEPT !.kind = "UPDATESTMT"]>>}
    \cup {<<Select(<<r>>, <<f>>, <<[name |-> <<"a">>, query |-> "DELETESTMT"]>>, <<"a">>, FALSE)>> :
              r \in OddRelations, f \in {g \in OddRelations : g.schema # Null}}
    \cup {<<Select(<<r>>, <<r>>, <<[name |-> n, query |-> "SELECTSTMT"]>>, n, FALSE)>> :
              r \in OddRelations, n \in OddNames}
    \cup {<<Select(<<r>>, fs, <<>>, n, FALSE)>> :
              r \in MCRelations, fs \in AtMostOne(MCRelations), n \in Names}
    \cup {<<Select(rs, <<>>, cs, <<"a">>, i), Plain>> :
              rs \in AtMostOne(MCRelations), cs \in AtMostOne(MCCtes), i \in BOOLEAN}
    \cup {<<Select(<<q, r>>, <<>>, cs, <<"a">>, FALSE)>> :
              q \in MCRelations, r \in MCRelations, cs \in AtMostOne(MCCtes)}
=============================================================================
