-------------------------- MODULE KeywordPrefilter --------------------------
(***************************************************************************)
(* Prefilter with the keywords of extract_keyword, for patterns built from *)
(* the items of Keyword.                                                   *)
(***************************************************************************)
EXTENDS Prefilter, Keyword

ASSUME KeywordAssumption ==
    /\ MinLength \in Nat \ {0}
    /\ Static \in Seq([check: Word, keyword: Word])
    /\ None = NoKeyword
    /\ \A p \in Patterns : IsPattern(p) /\ KeywordOf(p) = ExtractKeyword(Written(p))
    /\ \A t \in Texts : IsUtf8(t) =>
        /\ t \in Word
        /\ \A k \in Keywords : Occurs(k, t) = OccursIn(k, t)
        /\ \A p \in Patterns : Matches(p, t) => FindsIn(p, t)

\* A rule that begins with a long enough literal never misses a match, be it
\* written in another case, or its keyword one of the known ones
\* (scanner.rs:131-134).
PrefixedRulesFire ==
    Scanned =>
        \A p \in Elements(ruleset) :
            Compiles(p) /\ Prefixed(p) /\ Matches(p, text) =>
                \E i \in DOMAIN vulns : compiled[vulns[i]] = p
=============================================================================
