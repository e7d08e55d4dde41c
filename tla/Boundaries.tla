----------------------------- MODULE Boundaries -----------------------------
(* The places where foreign text enters or leaves the extension: a           *)
(* conversion (TextCodec), the read of a request (RequestRead) or, below,    *)
(* the analysis of a statement (SqlAnalysis).  One of them is at work, the   *)
(* others are not.                                                           *)
EXTENDS TextCodec, RequestRead, SqlAnalysis

CONSTANT Trees      \* the parse trees that are analysed

VARIABLES tree, facts
analysisVars == <<tree, facts>>
vars == <<codecVars, readVars, analysisVars>>

Pending == [pending |-> TRUE]

NoConversion ==
    /\ step = "off" /\ input = [kind |-> "off"] /\ output = <<>>
    /\ from = 1 /\ part = [name |-> <<>>, value |-> <<>>]
    /\ at = 1 /\ out = <<>> /\ name = <<>>
NoReader == reader = "off" /\ elapsed = 0 /\ data = 0 /\ length = 0 /\ shut = FALSE
NoAnalysis == tree = <<>> /\ facts = <<>>

Init ==
    \/ CodecInit /\ NoReader /\ NoAnalysis
    \/ NoConversion /\ ReadInit /\ NoAnalysis
    \/ NoConversion /\ NoReader /\ tree \in Trees /\ facts = Pending

\* analyze_sql: parse, then read the dump.
Analyze ==
    /\ facts = Pending
    /\ facts' = AnalyzeDump(RawParseDump(tree))
    /\ UNCHANGED tree

Next ==
    \/ CodecNext /\ UNCHANGED <<readVars, analysisVars>>
    \/ ReadNext /\ UNCHANGED <<codecVars, analysisVars>>
    \/ Analyze /\ UNCHANGED <<codecVars, readVars>>

Spec == Init /\ [][Next]_vars

-----------------------------------------------------------------------------
(* The reference for the analysis: the same facts, from the tree.            *)

All(component(_)) == FlattenSeq([i \in 1..Len(tree) |-> component(tree[i])])

TreeWrites ==
    \E i \in DOMAIN tree :
        \/ tree[i].into \/ tree[i].kind \in DmlTags
        \/ \E j \in DOMAIN tree[i].ctes : tree[i].ctes[j].query \in DmlTags

TreeRelations == All(LAMBDA s : s.from)
TreeFunctions == All(LAMBDA s : s.calls)
TreeCtes == [i \in 1..Len(All(LAMBDA s : s.ctes)) |-> All(LAMBDA s : s.ctes)[i].name]

\* The names of the tree; literals are not among them.
TreeNames ==
    {TreeCtes[i] : i \in DOMAIN TreeCtes}
    \cup UNION {{r.name} \cup (IF r.schema = Null THEN {} ELSE {r.schema[1]}) :
                    r \in Range(TreeRelations \o TreeFunctions)}

\* Names in which the reader finds no delimiter that the writer left as it was,
\* and no field.
ReadsBack(n) ==
    /\ Range(n) \cap {"\r", "\f", "\""} = {}
    /\ Last(n) \notin {":schemaname", ":relname", ":ctename"}

Analysed == facts \notin {<<>>, Pending} /\ facts.ok

NamesExact ==
    /\ facts.relations = TreeRelations
    /\ facts.functions = TreeFunctions
    /\ facts.ctes = TreeCtes

\* Whatever names and literals hold, no statement that writes, at any depth, is
\* reported as reading only, and no statement, relation, function or CTE is
\* missed: "a string literal can never be mistaken for a table". Each is
\* reported with its own name and schema if the names of the statement read
\* back, even where they hold delimiters or the words that the reader looks for.
AnalysisExact ==
    Analysed =>
        /\ TreeWrites => facts.writes
        /\ facts.statements = Len(tree)
        /\ facts.kind = "select" <=> Len(tree) = 1 /\ tree[1].kind = "SELECTSTMT"
        /\ Len(facts.relations) = Len(TreeRelations)
        /\ Len(facts.functions) = Len(TreeFunctions)
        /\ Len(facts.ctes) >= Len(TreeCtes)
        /\ (\A n \in TreeNames : ReadsBack(n)) => NamesExact

\* Does not hold (README, Disagreements): the names are exact whatever they hold.
AllNamesExact == Analysed => NamesExact
=============================================================================
