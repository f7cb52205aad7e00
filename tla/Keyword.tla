------------------------------- MODULE Keyword -------------------------------
(***************************************************************************)
(* Scanner::extract_keyword (src/src/scanner.rs): the literal by which the *)
(* pre-filter recognises the files that a pattern may match.  Against it,  *)
(* what the pattern matches: a pattern is built from items, which are      *)
(* written as characters for the code and as the words they match for the  *)
(* definition of the regex.                                                *)
(*                                                                         *)
(* Characters are ASCII.  MinLength is 3 in the code.                      *)
(***************************************************************************)
EXTENDS Naturals, Sequences

CONSTANTS
    MinLength,  \* least length of a keyword
    Static,     \* static_patterns: a sequence of [check, keyword]
    None        \* no keyword

Lower(c) == IF c = "A" THEN "a" ELSE IF c = "B" THEN "b" ELSE c

Lowered(s) == [i \in DOMAIN s |-> Lower(s[i])]

\* Some part of s is w.
HasPart(s, w) ==
    \E i \in 0..(Len(s) - Len(w)) : SubSeq(s, i + 1, i + Len(w)) = w

-----------------------------------------------------------------------------
(* The code.                                                               *)

\* ascii_case_insensitive(true)
OccursIn(keyword, text) == HasPart(Lowered(text), Lowered(keyword))

ClassEscapes == {"s", "S", "d", "D", "w", "W", "b", "B"}
Brackets == {"\\", "[", "]", "(", ")"}
Operators == {"+", "*", "?", "{", "}", "|", "^", "$"}
Literals == {"a", "b", "A", "B", "i", "1", "2", "d", "_", "-", ".", ":", "/"}

\* The loop's keyword is long enough to stop.
Enough(st) == Len(st.keyword) >= MinLength

\* Variant: goes on.
StopNot(st) == st

\* The break of '[', '(' and of a character that is in no keyword.
Stop(st) == [st EXCEPT !.done = Enough(st)]
Push(st, c) == [st EXCEPT !.keyword = Append(@, c)]

\* Stops with what there is, or starts again with nothing.
StopOrClear(st) ==
    IF Enough(st) THEN [st EXCEPT !.done = TRUE] ELSE [st EXCEPT !.keyword = <<>>]

\* A character that means itself: the last two arms of the match.
Plainly(st, c) ==
    IF st.inClass \/ st.inGroup THEN st
    ELSE IF c \in Literals THEN Push(st, c) ELSE Stop(st)

\* One character of the pattern.
Feed(st, c) ==
    IF st.inEscape
    THEN [(IF c \in ClassEscapes THEN StopOrClear(st) ELSE Push(st, c))
             EXCEPT !.inEscape = FALSE]
    ELSE CASE c = "\\" -> [st EXCEPT !.inEscape = TRUE]
           [] c = "[" -> [Stop(st) EXCEPT !.inClass = TRUE]
           [] c = "]" -> [st EXCEPT !.inClass = FALSE]
           [] c = "(" -> [Stop(st) EXCEPT !.inGroup = TRUE]
           [] c = ")" -> [st EXCEPT !.inGroup = FALSE]
           [] c \in Operators -> StopOrClear(st)
           [] c \notin Operators \cup Brackets -> Plainly(st, c)

Start == [keyword |-> <<>>, inEscape |-> FALSE, inClass |-> FALSE,
          inGroup |-> FALSE, done |-> FALSE]

\* One turn of the loop, if it has not stopped, and the state after each.
Turn(st, c) == IF st.done THEN st ELSE Feed(st, c)
Loop(pattern) ==
    LET after[n \in 0..Len(pattern)] ==
            IF n = 0 THEN Start ELSE Turn(after[n - 1], pattern[n])
    IN after

\* The fallback: the first literal sequence.
FirstLiteral(pattern) ==
    LET end == Loop(pattern)[Len(pattern)]
    IN IF Enough(end) THEN end.keyword ELSE None

\* The entries of static_patterns whose check the pattern contains.
StaticHits(pattern) ==
    {i \in DOMAIN Static : HasPart(Lowered(pattern), Lowered(Static[i].check))}

ExtractKeyword(pattern) ==
    IF StaticHits(pattern) # {}
    THEN LET first == CHOOSE i \in StaticHits(pattern) :
                          \A j \in StaticHits(pattern) : i <= j
         IN Static[first].keyword
    ELSE FirstLiteral(pattern)

-----------------------------------------------------------------------------
(* Patterns, as what they match.                                           *)

Literal(c) == [chars |-> <<c>>, words |-> {<<c>>}]
Dot == [chars |-> <<"\\", ".">>, words |-> {<<".">>}]
Optional(c) == [chars |-> <<c, "?">>, words |-> {<<>>, <<c>>}]
Twice(c) == [chars |-> <<c, "{", "1", ",", "2", "}">>, words |-> {<<c>>, <<c, c>>}]
Class(c, d) == [chars |-> <<"[", c, d, "]">>, words |-> {<<c>>, <<d>>}]
Digit == [chars |-> <<"\\", "d">>, words |-> {<<"1">>, <<"2">>}]
Either(v, w) == [chars |-> <<"(">> \o v \o <<"|">> \o w \o <<")">>, words |-> {v, w}]
\* An open group, no regex.
Unclosed == [chars |-> <<"(">>, words |-> {}]

\* "=" and "," stand for the characters that are in no keyword.
Letters == Literals \cup {"="}
Chars == Letters \cup {","} \cup Operators \cup Brackets
Word == Seq(Chars)

IsItem(item) ==
    \/ item \in {Dot, Digit, Unclosed}
    \/ \E c \in Letters : item \in {Literal(c), Optional(c), Twice(c)}
    \/ \E c, d \in Letters : item = Class(c, d)
    \/ \E v, w \in item.words : item = Either(v, w)

IsPattern(p) ==
    /\ p \in [items: Seq([chars: Word, words: SUBSET Word]), anyCase: BOOLEAN]
    /\ \A i \in DOMAIN p.items : IsItem(p.items[i])

\* (?i) is in front of a pattern that has anyCase.
Flag(p) == IF p.anyCase THEN <<"(", "?", "i", ")">> ELSE <<>>

\* The characters of a pattern, up to each item.
Spelling(p) ==
    LET upTo[n \in 0..Len(p.items)] ==
            IF n = 0 THEN Flag(p) ELSE upTo[n - 1] \o p.items[n].chars
    IN upTo
Written(p) == Spelling(p)[Len(p.items)]

\* The words a pattern matches, up to each item; anyCase matches them whatever
\* the case.
Matching(p) ==
    LET upTo[n \in 0..Len(p.items)] ==
            IF n = 0 THEN {<<>>}
            ELSE {v \o w : v \in upTo[n - 1], w \in p.items[n].words}
    IN upTo
WordsOf(p) == Matching(p)[Len(p.items)]

IsRegex(p) == \A i \in DOMAIN p.items : p.items[i] # Unclosed

FindsIn(p, text) ==
    \E w \in WordsOf(p) :
        IF p.anyCase THEN HasPart(Lowered(text), Lowered(w)) ELSE HasPart(text, w)

\* What the pattern begins with, up to the first item that is no literal.
Plain == {Literal(c) : c \in Literals} \cup {Dot}
LetterOf(item) == (CHOOSE w \in item.words : TRUE)[1]
LeadLen(p) ==
    LET ends == {n \in 0..Len(p.items) : \A i \in 1..n : p.items[i] \in Plain}
    IN CHOOSE n \in ends : \A m \in ends : m <= n
Lead(p) == [i \in 1..LeadLen(p) |-> LetterOf(p.items[i])]

\* The pattern begins with a literal that makes a keyword, none of it can be
\* left out, and a known keyword is only in it.
Prefixed(p) ==
    /\ LeadLen(p) >= MinLength
    /\ LeadLen(p) < Len(p.items) => <<>> \notin p.items[LeadLen(p) + 1].words
    /\ \A i \in StaticHits(Written(p)) :
          HasPart(Lowered(Lead(p)), Lowered(Static[i].keyword))
=============================================================================
