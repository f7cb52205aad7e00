----------------------------- MODULE MCPrefilter -----------------------------
(* The pre-filter with the keywords of small patterns, for TLC.            *)
EXTENDS KeywordPrefilter

MCStatic ==
    << [check |-> <<"A", "B", "B">>, keyword |-> <<"A", "B", "B">>],
       [check |-> <<"A", "B">>, keyword |-> <<"A", "B">>] >>

a == Literal("a")
b == Literal("b")

Items == {a, b, Literal("="), Optional("b"), Twice("a"), Class("a", "b"), Digit,
          Either(<<"a", "b">>, <<"b">>)}

\* Every pattern of up to three items, and some that go on after a literal,
\* alone in their rules files.
Small == UNION {[1..n -> Items] : n \in 1..3} \cup {<<b, a, i, b>> : i \in Items}
Alone == {[items |-> s, anyCase |-> FALSE] : s \in Small}

\* Patterns that meet in a rules file: a known keyword and one that it begins,
\* an equal keyword, one of their own, none, and no regex.
Meeting == {
    [items |-> <<a, b, b>>, anyCase |-> FALSE],
    [items |-> <<a, b, Digit>>, anyCase |-> FALSE],
    [items |-> <<a, b, Class("a", "b")>>, anyCase |-> TRUE],
    [items |-> <<b, a, Dot>>, anyCase |-> TRUE],
    [items |-> <<Class("a", "b"), Dot, b>>, anyCase |-> FALSE],
    [items |-> <<a, Class("a", "b")>>, anyCase |-> FALSE],
    [items |-> <<a, b, Unclosed>>, anyCase |-> FALSE] }

MCPatterns == Alone \cup Meeting
MCRulesets == {<<p>> : p \in Alone} \cup UNION {[1..n -> Meeting] : n \in 0..3}

\* Rules whose literals are in an alternation.
Alternations ==
    {<<[items |-> <<Either(<<"a", "b">>, <<"b">>), i>>, anyCase |-> FALSE]>> : i \in Items}

Bytes == {<<"xFF">>}
MCTexts == Bytes \cup [1..3 -> {"a", "b", "A", "1"}]
               \cup {<<"b", "a", c, "b">> : c \in {"a", "1", "="}}
               \cup {<<"b", "A", ".", "b">>, <<"a", "=", "b">>, <<"A", "B", "B">>}

Table == [p \in MCPatterns |-> ExtractKeyword(Written(p))]
Found == [p \in MCPatterns |-> {t \in MCTexts \ Bytes : FindsIn(p, t)}]

MCKeywordOf(p) == Table[p]
MCCompiles(p) == IsRegex(p)
MCIsUtf8(t) == t \notin Bytes
MCOccurs(k, t) == OccursIn(k, t)
MCMatches(p, t) == t \in Found[p]
=============================================================================
