---------------------------- MODULE SqlAnalysis ----------------------------
(* What analyze_dump (src/src/sql_parser.rs) reads from the text in which    *)
(* PostgreSQL writes a parse tree, against the tree itself. The text is a    *)
(* sequence of lexemes: delimiters, the keywords that are searched for, and  *)
(* the characters of names. A character of several bytes is one lexeme.      *)
EXTENDS Naturals, Sequences, SequencesExt

Null == <<"<", ">">>
Unread == [ok |-> FALSE]

-----------------------------------------------------------------------------
(* nodeToString: outToken escapes some characters anywhere and a few more at *)
(* the front of a name.                                                      *)

Escaped == {" ", "\n", "\t", "(", ")", "{", "}", "\\"}

OutToken(name) ==
    FlattenSeq([i \in 1..Len(name) |->
        IF name[i] \in Escaped \/ (i = 1 /\ name[i] \in {"<", "\""})
        THEN <<"\\", name[i]>> ELSE <<name[i]>>])

OutName(name) == IF name = Null THEN Null ELSE OutToken(name[1])
OutString(name) == <<"\"">> \o OutToken(name) \o <<"\"">>
Field(key, text) == <<" ", key, " ">> \o text
Node(tag, fields) == <<"{", tag>> \o fields \o <<"}">>
Listed(nodes) == <<"(">> \o FlattenSeq(nodes) \o <<")">>
Optional(list) == IF list = <<>> THEN Null ELSE Listed(list)

\* A name that may be missing is Null or <<name>>.
OutRelation(r) ==
    Node("RANGEVAR", Field(":schemaname", OutName(r.schema)) \o Field(":relname", OutToken(r.name))
                     \o Field(":alias", Null))

OutCall(f) ==
    Node("FUNCCALL", Field(":funcname",
        Listed((IF f.schema = Null THEN <<>> ELSE <<OutString(f.schema[1])>>)
               \o <<OutString(f.name)>>)))

OutCte(c) ==
    Node("COMMONTABLEEXPR", Field(":ctename", OutToken(c.name))
                            \o Field(":ctequery", Node(c.query, Field(":relation", Null))))

OutStatement(s) ==
    Node(s.kind,
         Field(":targetList", Optional([i \in 1..Len(s.calls) |-> OutCall(s.calls[i])]))
      \o Field(":val", OutString(s.literal))
      \o Field(":intoClause", IF s.into THEN Node("INTOCLAUSE", Field(":rel", Null)) ELSE Null)
      \o Field(":fromClause", Optional([i \in 1..Len(s.from) |-> OutRelation(s.from[i])]))
      \o Field(":withClause", Optional([i \in 1..Len(s.ctes) |-> OutCte(s.ctes[i])])))

\* raw_parse_dump: nothing for text that never reaches the parser.
RawParseDump(t) ==
    IF t = <<>> THEN <<>>
    ELSE Listed([i \in 1..Len(t) |-> Node("RAWSTMT", Field(":stmt", OutStatement(t[i])))])

-----------------------------------------------------------------------------
(* analyze_dump and its helpers.                                             *)

From(s, i) == SubSeq(s, i, Len(s))
Matches(s, i, word) ==
    i + Len(word) - 1 <= Len(s) /\ SubSeq(s, i, i + Len(word) - 1) = word
Found(s, word) == {i \in 1..Len(s) : Matches(s, i, word)}

\* The rest of the text after each occurrence of a word, in order.
After(s, word) ==
    LET at == SetToSortSeq(Found(s, word), LAMBDA i, j : i < j)
    IN [k \in 1..Len(at) |-> From(s, at[k] + Len(word))]

\* The unescaped characters that end a token: every ASCII whitespace.
Delimiters == {" ", "\n", "\t", "\r", "\f", "(", ")", "{", "}"}

\* Mutant: an escape ends the token.
RECURSIVE TokenUnescaped(_)
TokenUnescaped(s) ==
    CASE s = <<>> \/ Head(s) \in Delimiters \cup {"\\"} -> <<>>
      [] OTHER -> <<Head(s)>> \o TokenUnescaped(Tail(s))

RECURSIVE Token(_)
Token(s) ==
    CASE s = <<>> -> <<>>
      [] Head(s) = "\\" -> IF Len(s) = 1 THEN <<>> ELSE <<s[2]>> \o Token(From(s, 3))
      [] Head(s) \in Delimiters -> <<>>
      [] OTHER -> <<Head(s)>> \o Token(Tail(s))

\* read_token
ReadToken(s) ==
    CASE Matches(s, 1, Null) -> Null
      [] Matches(s, 1, <<"\"", "\"">>) -> << <<>> >>
      [] OTHER -> << Token(s) >>

RECURSIVE BodyLength(_, _, _, _, _)
BodyLength(s, i, depth, open, close) ==
    CASE i > Len(s) -> Len(s)
      [] s[i] = "\\" -> BodyLength(s, i + 2, depth, open, close)
      [] s[i] = open -> BodyLength(s, i + 1, depth + 1, open, close)
      [] s[i] = close -> IF depth = 0 THEN i - 1 ELSE BodyLength(s, i + 1, depth - 1, open, close)
      [] OTHER -> BodyLength(s, i + 1, depth, open, close)

NodeBody(s) == SubSeq(s, 1, BodyLength(s, 1, 0, "{", "}"))
ParenBody(s) == SubSeq(s, 1, BodyLength(s, 1, 0, "(", ")"))

\* quoted_strings: inside says whether the scan is between two quotes.
RECURSIVE Quoted(_, _, _)
Quoted(s, inside, text) ==
    CASE s = <<>> -> IF inside THEN <<text>> ELSE <<>>
      [] ~inside -> Quoted(Tail(s), Head(s) = "\"", <<>>)
      [] Head(s) = "\"" -> <<text>> \o Quoted(Tail(s), FALSE, <<>>)
      [] Head(s) = "\\" /\ Len(s) > 1 -> Quoted(From(s, 3), TRUE, Append(text, s[2]))
      [] OTHER -> Quoted(Tail(s), TRUE, Append(text, Head(s)))

QuotedStrings(s) == Quoted(s, FALSE, <<>>)

\* field: the first occurrence decides.
FieldOf(body, key) ==
    LET rest == After(body, <<key, " ">>)
    IN IF rest = <<>> THEN Null ELSE ReadToken(rest[1])

StatementKinds(d) ==
    LET bodies == [i \in 1..Len(After(d, <<"{", "RAWSTMT">>)) |->
                        After(NodeBody(After(d, <<"{", "RAWSTMT">>)[i]), <<":stmt", " ", "{">>)]
        found == SelectSeq(bodies, LAMBDA b : b # <<>>)
    IN [i \in 1..Len(found) |-> Head(found[i][1])]

\* Null stands for a field that was not found; such a relation is left out.
Relations(d) ==
    LET bodies == [i \in 1..Len(After(d, <<"{", "RANGEVAR", " ">>)) |->
                        NodeBody(After(d, <<"{", "RANGEVAR", " ">>)[i])]
        named == SelectSeq(bodies, LAMBDA b : FieldOf(b, ":relname") # Null)
    IN [i \in 1..Len(named) |-> [schema |-> FieldOf(named[i], ":schemaname"),
                                 name |-> FieldOf(named[i], ":relname")[1]]]

Ctes(d) ==
    LET tokens == [i \in 1..Len(After(d, <<":ctename", " ">>)) |->
                        ReadToken(After(d, <<":ctename", " ">>)[i])]
        names == SelectSeq(tokens, LAMBDA t : t # Null)
    IN [i \in 1..Len(names) |-> names[i][1]]

\* The last string is the name, the one before it the schema.
Functions(d) ==
    LET lists == [i \in 1..Len(After(d, <<":funcname", " ", "(">>)) |->
                        QuotedStrings(ParenBody(After(d, <<":funcname", " ", "(">>)[i]))]
        named == SelectSeq(lists, LAMBDA p : p # <<>>)
    IN [i \in 1..Len(named) |->
            LET p == named[i] IN
            [name |-> p[Len(p)],
             schema |-> IF Len(p) = 1 THEN Null ELSE <<p[Len(p) - 1]>>]]

DmlTags == {"INSERTSTMT", "UPDATESTMT", "DELETESTMT", "MERGESTMT"}

Writes(d) ==
    \/ Found(d, <<":intoClause", " ", "{">>) # {}
    \/ \E tag \in DmlTags : Found(d, <<"{", tag>>) # {}

AnalyzeDump(d) ==
    IF d = <<>> THEN Unread
    ELSE [ok |-> TRUE,
          statements |-> Len(StatementKinds(d)),
          kind |-> IF StatementKinds(d) = <<"SELECTSTMT">> THEN "select" ELSE "other",
          writes |-> Writes(d),
          relations |-> Relations(d), functions |-> Functions(d), ctes |-> Ctes(d)]
=============================================================================
