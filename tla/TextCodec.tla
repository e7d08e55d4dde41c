----------------------------- MODULE TextCodec -----------------------------
(* The conversions that carry foreign text across a boundary: dollar_quote   *)
(* (src/src/function_exec.rs), query_param and percent_decode (web.rs),      *)
(* parse_form_body (http_protocol.rs) and truncate_utf8 (lib.rs), each       *)
(* against what its reader or its writer on the other side means.  A turn of *)
(* a loop is a step.  Text is a sequence of characters; for percent_decode a *)
(* character is a byte, for truncate_utf8 a byte begins a character or not.  *)
EXTENDS Naturals, Sequences

CONSTANTS
    Char,           \* characters
    Bodies,         \* texts that are quoted
    Tags,           \* "body_" and the clock, in hex
    Strs,           \* texts that are truncated
    Limits,         \* the limits they are truncated to
    ByteOf,         \* the byte for two characters that from_str_radix accepts
    Requests,       \* what clients send as a query or a form
    Keys            \* the keys that the handlers ask for

-----------------------------------------------------------------------------
(* What a client sends: names and values, each character in one of its       *)
(* spellings, as name=value or alone, with & between.  starts says where in  *)
(* the text each character's spelling, or each field, begins.                *)

Special == {"%", "+", "&", "=", " "}
Escapes(c) == {<<"%">> \o h : h \in {g \in DOMAIN ByteOf : ByteOf[g] = c}}
Spellings(c) ==
    Escapes(c) \cup (IF c \in Special THEN {} ELSE {<<c>>})
               \cup (IF c = " " THEN {<<"+">>} ELSE {})

Spelled(w) ==
    /\ w.text \in Seq(Char) /\ w.coded \in Seq(Char)
    /\ w.starts \in [1..(Len(w.text) + 1) -> 1..(Len(w.coded) + 1)]
    /\ w.starts[1] = 1 /\ w.starts[Len(w.text) + 1] = Len(w.coded) + 1
    /\ \A i \in 1..Len(w.text) :
          SubSeq(w.coded, w.starts[i], w.starts[i + 1] - 1) \in Spellings(w.text[i])

FieldText(f) == IF f.bare THEN f.name.coded ELSE f.name.coded \o <<"=">> \o f.value.coded

Joined(r) ==
    /\ Len(r.fields) \in Nat \ {0} /\ r.text \in Seq(Char)
    /\ r.starts \in [1..(Len(r.fields) + 1) -> 1..(Len(r.text) + 2)]
    /\ r.starts[1] = 1 /\ r.starts[Len(r.fields) + 1] = Len(r.text) + 2
    /\ \A i \in 1..Len(r.fields) :
          /\ Spelled(r.fields[i].name) /\ Spelled(r.fields[i].value)
          /\ r.fields[i].bare \in BOOLEAN
          /\ r.starts[i] < r.starts[i + 1]
          /\ SubSeq(r.text, r.starts[i], r.starts[i + 1] - 2) = FieldText(r.fields[i])
          /\ i > 1 => r.text[r.starts[i] - 1] = "&"

\* A character takes at most four bytes, and a text begins with one.
Utf8 ==
    {s \in Seq({"first", "rest"}) :
        /\ s # <<>> => s[1] = "first"
        /\ \A i \in 1..Len(s) : \E j \in i..(i + 3) : j > Len(s) \/ s[j] = "first"}

ASSUME CodecAssumption ==
    /\ Special \cup {"$", "\n", "x"} \subseteq Char
    /\ Bodies \subseteq Seq(Char) /\ Tags \subseteq Seq(Char \ {"$", "\n"})
    /\ Strs \subseteq Utf8 /\ Limits \subseteq Nat /\ Keys \subseteq Seq(Char)
    /\ ByteOf \in [DOMAIN ByteOf -> Char]
    /\ \A h \in DOMAIN ByteOf : h \in Seq(Char \ {"&", "="}) /\ Len(h) = 2
    /\ \A r \in Requests : Joined(r)

-----------------------------------------------------------------------------
VARIABLES
    step,       \* where the conversion is: a loop, or "done"
    input,      \* what it was given
    output,     \* the tag, the cut or the map so far, in the end the result
    from,       \* where split('&') finds the next piece
    part,       \* name and value of the piece in hand, as split_once cut it
    at, out,    \* the decoder's index and what it has pushed
    name        \* the name of the piece, decoded

codecVars == <<step, input, output, from, part, at, out, name>>
splitVars == <<from, part, at, out, name>>

Inputs ==
    [kind : {"quote"}, body : Bodies, tag : Tags]
    \cup [kind : {"truncate"}, str : Strs, max : Limits]
    \cup [kind : {"query"}, sent : Requests, key : Keys]
    \cup [kind : {"form"}, sent : Requests]

CodecInit ==
    /\ input \in Inputs
    /\ step = input.kind /\ output = <<>>
    /\ from = 1 /\ part = [name |-> <<>>, value |-> <<>>]
    /\ at = 1 /\ out = <<>> /\ name = <<>>

Has(text, c) == \E i \in 1..Len(text) : text[i] = c
First(text, c, i) ==
    CHOOSE j \in i..Len(text) : text[j] = c /\ \A k \in i..(j - 1) : text[k] # c

-----------------------------------------------------------------------------
(* dollar_quote.                                                             *)

\* Does word occur in text at i, and where first.
Occurs(word, text, i) ==
    i + Len(word) - 1 <= Len(text) /\ \A k \in 1..Len(word) : text[i + k - 1] = word[k]
FirstAt(word, text, i) ==
    CHOOSE j \in i..Len(text) :
        Occurs(word, text, j) /\ \A k \in i..(j - 1) : ~Occurs(word, text, k)

Delimiter(tag) == <<"$">> \o tag \o <<"$">>
Clashes(body, tag) == \E i \in 1..Len(body) : Occurs(Delimiter(tag), body, i)

\* Mutant: no line breaks between the delimiters and the body.
DollarQuoteTight(body, tag) == Delimiter(tag) \o body \o Delimiter(tag)
DollarQuote(body, tag) == Delimiter(tag) \o <<"\n">> \o body \o <<"\n">> \o Delimiter(tag)

\* PostgreSQL's scanner: the first dollar-delimited word opens the string and
\* its next occurrence closes it.
ReadQuoted(text) ==
    LET tag == Delimiter(SubSeq(text, 2, First(text, "$", 2) - 1))
        end == FirstAt(tag, text, Len(tag) + 1)
    IN  [string |-> SubSeq(text, Len(tag) + 1, end - 1),
         rest |-> SubSeq(text, end + Len(tag), Len(text))]

FirstTag ==
    /\ step = "quote"
    /\ output' = input.tag /\ step' = "tag"
    /\ UNCHANGED <<input, splitVars>>

PushX ==
    /\ step = "tag" /\ Clashes(input.body, output)
    /\ output' = Append(output, "x")
    /\ UNCHANGED <<step, input, splitVars>>

Quote ==
    /\ step = "tag" /\ ~Clashes(input.body, output)
    /\ output' = ReadQuoted(DollarQuote(input.body, output)) /\ step' = "done"
    /\ UNCHANGED <<input, splitVars>>

-----------------------------------------------------------------------------
(* truncate_utf8.                                                            *)

Boundary(str, n) == n = 0 \/ n = Len(str) \/ (n < Len(str) /\ str[n + 1] = "first")

Truncate ==
    /\ step = "truncate"
    /\ IF Len(input.str) <= input.max
       THEN output' = Len(input.str) /\ step' = "done"
       ELSE output' = input.max /\ step' = "cut"
    /\ UNCHANGED <<input, splitVars>>

\* Mutant: the character at the limit is kept whole.
StepForward ==
    /\ step = "cut" /\ output > 0 /\ ~Boundary(input.str, output)
    /\ output' = output + 1
    /\ UNCHANGED <<step, input, splitVars>>

StepBack ==
    /\ step = "cut" /\ output > 0 /\ ~Boundary(input.str, output)
    /\ output' = output - 1
    /\ UNCHANGED <<step, input, splitVars>>

Cut ==
    /\ step = "cut" /\ ~(output > 0 /\ ~Boundary(input.str, output))
    /\ step' = "done"
    /\ UNCHANGED <<input, output, splitVars>>

-----------------------------------------------------------------------------
(* query_param and parse_form_body.                                          *)

PieceEnd(text, i) ==
    IF \E j \in i..Len(text) : text[j] = "&" THEN First(text, "&", i) - 1 ELSE Len(text)

Pair(piece) ==
    LET cut == First(piece, "=", 1)
    IN  [name |-> SubSeq(piece, 1, cut - 1), value |-> SubSeq(piece, cut + 1, Len(piece))]

\* query_param looks for the first pair with the key and decodes its value; the
\* form decoder takes every pair and decodes both.
NextPiece ==
    /\ step \in {"query", "form"} /\ from <= Len(input.sent.text) + 1
    /\ LET end == PieceEnd(input.sent.text, from)
           piece == SubSeq(input.sent.text, from, end)
       IN  /\ from' = end + 2
           /\ IF Has(piece, "=") /\ (step = "query" => Pair(piece).name = input.key)
              THEN part' = Pair(piece) /\ step' = IF step = "query" THEN "value" ELSE "name"
              ELSE UNCHANGED <<part, step>>
    /\ UNCHANGED <<input, output, at, out, name>>

NoMorePieces ==
    /\ step \in {"query", "form"} /\ from > Len(input.sent.text) + 1
    /\ output' = IF step = "query" THEN "none" ELSE output
    /\ step' = "done"
    /\ UNCHANGED <<input, splitVars>>

\* percent_decode, and the same loop in parse_form_body.
Coded == IF step = "name" THEN part.name ELSE part.value

Decode ==
    /\ step \in {"name", "value"} /\ at <= Len(Coded)
    /\ LET hex == SubSeq(Coded, at + 1, at + 2)
       IN  IF Coded[at] = "%" /\ at + 2 <= Len(Coded) /\ hex \in DOMAIN ByteOf
           THEN out' = Append(out, ByteOf[hex]) /\ at' = at + 3
           ELSE out' = Append(out, IF Coded[at] = "+" THEN " " ELSE Coded[at]) /\ at' = at + 1
    /\ UNCHANGED <<step, input, output, from, part, name>>

NameDecoded ==
    /\ step = "name" /\ at > Len(part.name)
    /\ name' = out /\ step' = "value" /\ at' = 1 /\ out' = <<>>
    /\ UNCHANGED <<input, output, from, part>>

\* A map keeps the last value of a name.
Put(map, k, v) == [n \in DOMAIN map \cup {k} |-> IF n = k THEN v ELSE map[n]]

ValueDecoded ==
    /\ step = "value" /\ at > Len(part.value)
    /\ IF input.kind = "query"
       THEN output' = out /\ step' = "done"
       ELSE output' = Put(output, name, out) /\ step' = "form"
    /\ at' = 1 /\ out' = <<>>
    /\ UNCHANGED <<input, from, part, name>>

-----------------------------------------------------------------------------
CodecNext ==
    \/ FirstTag \/ PushX \/ Quote
    \/ Truncate \/ StepBack \/ Cut
    \/ NextPiece \/ NoMorePieces \/ Decode \/ NameDecoded \/ ValueDecoded

CodecSpec == CodecInit /\ [][CodecNext]_codecVars

Done(kind) == step = "done" /\ input.kind = kind

\* Whatever a function's body holds, dollars and copies of the tag included,
\* PostgreSQL reads the quoted text as that body between two line breaks and
\* nothing is left over for it to parse as SQL.
QuotedReadsBack ==
    Done("quote") => output = [string |-> <<"\n">> \o input.body \o <<"\n">>, rest |-> <<>>]

Match(i) ==
    LET f == input.sent.fields[i] IN ~f.bare /\ f.name.coded = input.key
Named(k, i) ==
    LET f == input.sent.fields[i] IN ~f.bare /\ f.name.text = k

\* The handler gets the value of the first field sent under the key, as it was
\* before it was sent, whatever separators and escapes it or its neighbours
\* hold, and nothing if there is no such field.
QueryReadsBack ==
    Done("query") =>
        LET n == Len(input.sent.fields)
        IN  \/ output = "none" /\ \A i \in 1..n : ~Match(i)
            \/ \E i \in 1..n : /\ Match(i) /\ \A j \in 1..(i - 1) : ~Match(j)
                               /\ output = input.sent.fields[i].value.text

\* The decoded form has exactly the names that were sent with a value, and for
\* each the value that was sent last.
FormReadsBack ==
    Done("form") =>
        LET n == Len(input.sent.fields)
        IN  \A k \in DOMAIN output \cup {input.sent.fields[i].name.text : i \in 1..n} :
                IF k \in DOMAIN output
                THEN \E i \in 1..n : /\ Named(k, i) /\ \A j \in (i + 1)..n : ~Named(k, j)
                                     /\ output[k] = input.sent.fields[i].value.text
                ELSE \A i \in 1..n : ~Named(k, i)

\* All three: what is handed over is what was meant, whatever it contains.
TextReadsBack == QuotedReadsBack /\ QueryReadsBack /\ FormReadsBack

\* A truncated text is cut at a character boundary, within the limit, no longer
\* cut would be, and no more than three bytes are lost to it.
TruncatedWell ==
    Done("truncate") =>
        /\ output <= input.max /\ Boundary(input.str, output)
        /\ \A n \in (output + 1)..input.max : ~Boundary(input.str, n)
        /\ output + 3 >= input.max \/ output = Len(input.str)
=============================================================================
