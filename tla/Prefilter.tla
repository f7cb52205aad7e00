------------------------------ MODULE Prefilter ------------------------------
(***************************************************************************)
(* Scanner::new and Scanner::scan (src/src/scanner.rs): the tables of the  *)
(* keyword pre-filter are built rule by rule; a file is then scanned in    *)
(* two phases, keywords nominate rules and nominated rules run their       *)
(* regex.  Which keyword a pattern has (module Keyword), which keywords    *)
(* occur in a text and which patterns match it are parameters.             *)
(*                                                                         *)
(* A scan only reads the scanner, so that files scanned in parallel are    *)
(* files scanned one after the other.  Indices start at 1.                 *)
(***************************************************************************)
EXTENDS Naturals, Sequences

CONSTANTS
    Patterns,      \* regexes
    Rulesets,      \* rules files: sequences of patterns
    Texts,         \* contents of files
    NoText,        \* nothing scanned yet
    NoKeyword,     \* None
    KeywordOf(_),  \* extract_keyword
    Compiles(_),   \* Regex::new succeeds
    IsUtf8(_),     \* str::from_utf8 succeeds
    Occurs(_, _),  \* a keyword occurs in a text, whatever the case
    Matches(_, _)  \* a pattern's regex finds something in a text

ASSUME PrefilterAssumption ==
    /\ Rulesets \subseteq Seq(Patterns)
    /\ NoText \notin Texts

VARIABLES
    ruleset,         \* the rules file
    rules,           \* the rules new has not looked at yet
    compiled,        \* Scanner.rules
    keywords,        \* Scanner.keywords
    patternToRules,  \* Scanner.pattern_to_rules
    alwaysRules,     \* Scanner.always_rules
    phase,           \* new, ready, match (phase 1 of scan), run (phase 2)
    text,            \* the file that is scanned, or was last
    reported,        \* the keywords the automaton has reported
    nominated,       \* the rules with nominated[i] = true
    next,            \* the rule phase 2 looks at
    vulns            \* the rules that reported, in order

tables == <<ruleset, rules, compiled, keywords, patternToRules, alwaysRules>>
scan == <<text, reported, nominated, next, vulns>>
vars == <<tables, phase, scan>>

Keywords == {KeywordOf(p) : p \in Patterns} \ {NoKeyword}

TypeOK ==
    /\ ruleset \in Seq(Patterns)
    /\ rules \in Seq(Patterns)
    /\ compiled \in Seq(Patterns)
    /\ keywords \in Seq(Keywords)
    /\ patternToRules \in Seq(SUBSET Nat)
    /\ alwaysRules \in SUBSET Nat
    /\ phase \in {"new", "ready", "match", "run"}
    /\ text \in Texts \cup {NoText}
    /\ reported \in SUBSET Nat
    /\ nominated \in SUBSET Nat
    /\ next \in Nat
    /\ vulns \in Seq(Nat)

Init ==
    /\ ruleset \in Rulesets
    /\ rules = ruleset
    /\ compiled = <<>>
    /\ keywords = <<>>
    /\ patternToRules = <<>>
    /\ alwaysRules = {}
    /\ phase = "new"
    /\ text = NoText
    /\ reported = {}
    /\ nominated = {}
    /\ next = 1
    /\ vulns = <<>>

-----------------------------------------------------------------------------
(* Scanner::new.                                                           *)

\* A pattern that is no regex: the rule gets no index.
SkipRule ==
    /\ phase = "new" /\ rules # <<>>
    /\ ~Compiles(Head(rules))
    /\ rules' = Tail(rules)
    /\ UNCHANGED <<ruleset, compiled, keywords, patternToRules, alwaysRules, phase, scan>>

\* The next rule compiles and gets the next index.
Compile ==
    /\ phase = "new" /\ rules # <<>>
    /\ Compiles(Head(rules))
    /\ rules' = Tail(rules)
    /\ compiled' = Append(compiled, Head(rules))
    /\ UNCHANGED <<ruleset, phase, scan>>

\* Variant: a keyword nominates only the first rule that has it.
ShareKeywordFirstOnly ==
    /\ Compile
    /\ \E k \in DOMAIN keywords :
        /\ keywords[k] = KeywordOf(Head(rules))
        /\ patternToRules[k] # {}
    /\ UNCHANGED <<keywords, patternToRules, alwaysRules>>

\* The rule's keyword is there already.
ShareKeyword ==
    /\ Compile
    /\ \E k \in DOMAIN keywords :
        /\ keywords[k] = KeywordOf(Head(rules))
        /\ patternToRules' =
               [patternToRules EXCEPT ![k] = @ \cup {Len(compiled) + 1}]
    /\ UNCHANGED <<keywords, alwaysRules>>

\* The rule brings a keyword of its own.
AddKeyword ==
    /\ Compile
    /\ KeywordOf(Head(rules)) # NoKeyword
    /\ \A k \in DOMAIN keywords : keywords[k] # KeywordOf(Head(rules))
    /\ keywords' = Append(keywords, KeywordOf(Head(rules)))
    /\ patternToRules' = Append(patternToRules, {Len(compiled) + 1})
    /\ UNCHANGED alwaysRules

\* The rule has no keyword.
AlwaysRun ==
    /\ Compile
    /\ KeywordOf(Head(rules)) = NoKeyword
    /\ alwaysRules' = alwaysRules \cup {Len(compiled) + 1}
    /\ UNCHANGED <<keywords, patternToRules>>

Build ==
    /\ phase = "new" /\ rules = <<>>
    /\ phase' = "ready"
    /\ UNCHANGED <<tables, scan>>

-----------------------------------------------------------------------------
(* Scanner::scan.                                                          *)

\* A file that is no UTF-8 reports nothing.
SkipText(t) ==
    /\ phase = "ready"
    /\ ~IsUtf8(t)
    /\ text' = t
    /\ vulns' = <<>>
    /\ UNCHANGED <<tables, phase, reported, nominated, next>>

Open(t) ==
    /\ phase = "ready"
    /\ IsUtf8(t)
    /\ phase' = "match"
    /\ text' = t
    /\ reported' = {}
    /\ nominated' = alwaysRules
    /\ next' = 1
    /\ vulns' = <<>>
    /\ UNCHANGED tables

\* Variant: matches do not overlap, a keyword hides those that it begins.
HitsNotOverlapping ==
    {k \in DOMAIN keywords :
        /\ Occurs(keywords[k], text)
        /\ \A j \in DOMAIN keywords \ {k} :
            ~ /\ Len(keywords[j]) < Len(keywords[k])
              /\ keywords[j] = SubSeq(keywords[k], 1, Len(keywords[j]))}

\* What find_overlapping_iter yields: every keyword that occurs.
Hits == {k \in DOMAIN keywords : Occurs(keywords[k], text)}

Nominate(k) ==
    /\ phase = "match"
    /\ k \in Hits \ reported
    /\ reported' = reported \cup {k}
    /\ nominated' = nominated \cup patternToRules[k]
    /\ UNCHANGED <<tables, phase, text, next, vulns>>

EndPhase1 ==
    /\ phase = "match"
    /\ Hits \subseteq reported
    /\ phase' = "run"
    /\ UNCHANGED <<tables, scan>>

\* A rule that was not nominated, or whose regex finds nothing.
PassRule ==
    /\ phase = "run" /\ next \in DOMAIN compiled
    /\ next \notin nominated \/ ~Matches(compiled[next], text)
    /\ next' = next + 1
    /\ UNCHANGED <<tables, phase, text, reported, nominated, vulns>>

RunRule ==
    /\ phase = "run" /\ next \in DOMAIN compiled
    /\ next \in nominated /\ Matches(compiled[next], text)
    /\ vulns' = Append(vulns, next)
    /\ next' = next + 1
    /\ UNCHANGED <<tables, phase, text, reported, nominated>>

EndScan ==
    /\ phase = "run" /\ next \notin DOMAIN compiled
    /\ phase' = "ready"
    /\ UNCHANGED <<tables, scan>>

Next ==
    \/ SkipRule \/ ShareKeyword \/ AddKeyword \/ AlwaysRun \/ Build
    \/ \E t \in Texts : SkipText(t) \/ Open(t)
    \/ \E k \in DOMAIN keywords : Nominate(k)
    \/ EndPhase1 \/ PassRule \/ RunRule \/ EndScan

Spec == Init /\ [][Next]_vars

-----------------------------------------------------------------------------
(* Properties.                                                             *)

Elements(s) == {s[i] : i \in DOMAIN s}

\* Pattern p has no keyword, or one that is in text t.
Reachable(p, t) == KeywordOf(p) = NoKeyword \/ Occurs(KeywordOf(p), t)

Scanned == phase = "ready" /\ text # NoText /\ IsUtf8(text)

\* When a file is scanned, a rule of the rules file that compiles has reported
\* if and only if its regex finds something and its keyword is there: whatever
\* the other rules of the file are, which keywords they share with it or hide
\* behind one another, and what else was scanned before (scanner.rs:52-60).
RuleAlone ==
    Scanned =>
        \A p \in Elements(ruleset) :
            Compiles(p) =>
                (Matches(p, text) /\ Reachable(p, text)
                    <=> \E a \in DOMAIN vulns : compiled[vulns[a]] = p)

\* What the comment on extract_keyword says (scanner.rs:131-134): a rule has a
\* keyword only if every match contains it, so that no match is missed.
KeywordIsGuaranteed ==
    Scanned =>
        \A p \in Elements(ruleset) :
            Compiles(p) /\ Matches(p, text) => Reachable(p, text)

\* What a scan reports is in the order of the rules file, one rule after the
\* other (scanner.rs:293).
RuleOrder ==
    \A a, b \in DOMAIN vulns : a < b => vulns[a] < vulns[b]

\* Each keyword has one entry, and that entry every rule that has the keyword;
\* the rules without one are the always rules.
TablesFollowRules ==
    /\ Len(patternToRules) = Len(keywords)
    /\ \A j, k \in DOMAIN keywords : keywords[j] = keywords[k] => j = k
    /\ \A k \in DOMAIN keywords :
        patternToRules[k] = {i \in DOMAIN compiled : KeywordOf(compiled[i]) = keywords[k]}
    /\ alwaysRules = {i \in DOMAIN compiled : KeywordOf(compiled[i]) = NoKeyword}
    /\ \A i \in DOMAIN compiled :
        KeywordOf(compiled[i]) \in Elements(keywords) \cup {NoKeyword}

\* No rule of the file that compiles gets lost, and none is made up.
RulesAreKept ==
    /\ \A p \in Elements(ruleset) :
        Compiles(p) => p \in Elements(compiled) \cup Elements(rules)
    /\ Elements(compiled) \cup Elements(rules) \subseteq Elements(ruleset)
    /\ \A p \in Elements(compiled) : Compiles(p)
    /\ phase # "new" => rules = <<>>

\* Phase 1 nominates what the reported keywords ask for.
NominationFollowsReports ==
    phase \in {"match", "run"} =>
        /\ IsUtf8(text) /\ text # NoText
        /\ reported \subseteq Hits
        /\ phase = "run" => reported = Hits
        /\ next >= 1
        /\ phase = "match" => next = 1
        /\ nominated \subseteq DOMAIN compiled
        /\ \A i \in DOMAIN compiled :
            i \in nominated <=>
                i \in alwaysRules \/ \E k \in reported : i \in patternToRules[k]

\* Phase 2 has run the nominated rules up to next.
ReportsAreRules ==
    /\ phase \in {"new", "match"} => vulns = <<>>
    /\ phase = "new" => text = NoText
    /\ phase = "run" =>
        Elements(vulns) = {i \in nominated : i < next /\ Matches(compiled[i], text)}
    /\ phase = "ready" /\ text # NoText /\ IsUtf8(text) =>
        Elements(vulns) = {i \in DOMAIN compiled :
                              Matches(compiled[i], text) /\ Reachable(compiled[i], text)}
    /\ \A a \in DOMAIN vulns : phase = "run" => vulns[a] < next

\* What holds of every state, and of every step from a state where it holds.
IInv ==
    /\ TypeOK
    /\ TablesFollowRules
    /\ RulesAreKept
    /\ NominationFollowsReports
    /\ ReportsAreRules
    /\ RuleOrder
=============================================================================
