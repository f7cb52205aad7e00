--------------------------- MODULE PrefilterProofs ---------------------------
(***************************************************************************)
(* Theorems about the keyword pre-filter, for any rules, keywords, texts;  *)
(* and for the keywords of extract_keyword, that a rule which begins with  *)
(* a literal misses nothing, for any pattern built from the items of       *)
(* Keyword.                                                                *)
(***************************************************************************)
EXTENDS KeywordPrefilter, WellFoundedInduction, TLAPS

\* The tables start empty and nothing was scanned.
LEMMA InitInv == Init => IInv
  <1> SUFFICES ASSUME Init
               PROVE  IInv
    OBVIOUS
  <1>1. TypeOK
    BY PrefilterAssumption DEF Init, TypeOK
  <1>2. TablesFollowRules
    BY DEF Init, TablesFollowRules, Elements
  <1>3. RulesAreKept
    BY DEF Init, RulesAreKept, Elements
  <1>4. NominationFollowsReports /\ ReportsAreRules /\ RuleOrder
    BY DEF Init, NominationFollowsReports, ReportsAreRules, RuleOrder, Elements
  <1>5. QED
    BY <1>1, <1>2, <1>3, <1>4 DEF IInv

\* The rule at the head of the list leaves it.
LEMMA HeadAndTail ==
    ASSUME NEW s \in Seq(Patterns), s # <<>>
    PROVE  /\ Head(s) \in Patterns
           /\ Tail(s) \in Seq(Patterns)
           /\ Elements(s) = {Head(s)} \cup Elements(Tail(s))
  <1>1. Head(s) \in Patterns /\ Tail(s) \in Seq(Patterns) /\ Head(s) = s[1]
    OBVIOUS
  <1>2. ASSUME NEW i \in DOMAIN s, i # 1
        PROVE  i - 1 \in DOMAIN Tail(s) /\ Tail(s)[i - 1] = s[i]
    BY <1>2
  <1>3. ASSUME NEW i \in DOMAIN Tail(s)
        PROVE  i + 1 \in DOMAIN s /\ Tail(s)[i] = s[i + 1]
    OBVIOUS
  <1>4. Elements(s) \subseteq {Head(s)} \cup Elements(Tail(s))
    BY <1>1, <1>2 DEF Elements
  <1>5. 1 \in DOMAIN s
    OBVIOUS
  <1>6. {Head(s)} \cup Elements(Tail(s)) \subseteq Elements(s)
    BY <1>1, <1>3, <1>5 DEF Elements
  <1>7. QED
    BY <1>1, <1>4, <1>6

\* Appending leaves what there was in its place.
LEMMA Appended ==
    ASSUME NEW S, NEW s \in Seq(S), NEW e \in S
    PROVE  /\ Append(s, e) \in Seq(S)
           /\ Len(Append(s, e)) = Len(s) + 1
           /\ DOMAIN Append(s, e) = DOMAIN s \cup {Len(s) + 1}
           /\ Len(s) + 1 \notin DOMAIN s
           /\ \A i \in DOMAIN s : Append(s, e)[i] = s[i]
           /\ Append(s, e)[Len(s) + 1] = e
           /\ Elements(Append(s, e)) = Elements(s) \cup {e}
  <1>1. /\ Append(s, e) \in Seq(S)
        /\ Len(Append(s, e)) = Len(s) + 1
        /\ \A i \in DOMAIN s : Append(s, e)[i] = s[i]
        /\ Append(s, e)[Len(s) + 1] = e
    OBVIOUS
  <1>2. /\ DOMAIN Append(s, e) = DOMAIN s \cup {Len(s) + 1}
        /\ Len(s) + 1 \notin DOMAIN s
    <2>1. DOMAIN s = 1..Len(s) /\ Len(s) \in Nat
      OBVIOUS
    <2>2. DOMAIN Append(s, e) = 1..(Len(s) + 1)
      OBVIOUS
    <2>3. QED
      BY <2>1, <2>2
  <1>3. Elements(Append(s, e)) = Elements(s) \cup {e}
    BY <1>1, <1>2, Zenon DEF Elements
  <1>4. QED
    BY <1>1, <1>2, <1>3

-----------------------------------------------------------------------------
(* Scanner::new.                                                           *)

\* While the tables are built nothing is scanned.
LEMMA NewScansNothing ==
    ASSUME IInv, phase = "new", UNCHANGED <<phase, scan>>
    PROVE  NominationFollowsReports' /\ ReportsAreRules' /\ RuleOrder'
  BY DEF IInv, NominationFollowsReports, ReportsAreRules, RuleOrder, Elements, scan

LEMMA SkipKeeps == IInv /\ SkipRule => IInv'
  <1> SUFFICES ASSUME IInv, SkipRule
               PROVE  IInv'
    OBVIOUS
  <1>1. rules \in Seq(Patterns)
    BY DEF IInv, TypeOK
  <1>2. /\ Tail(rules) \in Seq(Patterns)
        /\ Elements(rules) = {Head(rules)} \cup Elements(rules')
    BY <1>1, HeadAndTail DEF SkipRule
  <1>3. TypeOK'
    BY <1>2 DEF IInv, TypeOK, SkipRule, scan
  <1>4. TablesFollowRules'
    BY DEF IInv, TablesFollowRules, SkipRule, Elements
  <1>5. RulesAreKept'
    <2>1. /\ ruleset' = ruleset /\ compiled' = compiled /\ phase' = "new"
          /\ ~Compiles(Head(rules))
          /\ Elements(ruleset') = Elements(ruleset)
          /\ Elements(compiled') = Elements(compiled)
      BY DEF SkipRule, Elements
    <2>2. QED
      BY <1>2, <2>1, Zenon DEF IInv, RulesAreKept
  <1>6. QED
    BY <1>3, <1>4, <1>5, NewScansNothing DEF IInv, SkipRule

\* What a rule that compiles does, whatever keyword it has.
LEMMA CompileFacts ==
    ASSUME IInv, Compile
    PROVE  /\ rules' \in Seq(Patterns)
           /\ compiled' \in Seq(Patterns)
           /\ Head(rules) \in Patterns
           /\ DOMAIN compiled' = DOMAIN compiled \cup {Len(compiled) + 1}
           /\ Len(compiled) + 1 \in Nat \ DOMAIN compiled
           /\ \A i \in DOMAIN compiled : compiled'[i] = compiled[i]
           /\ compiled'[Len(compiled) + 1] = Head(rules)
           /\ RulesAreKept'
           /\ NominationFollowsReports' /\ ReportsAreRules' /\ RuleOrder'
  <1>1. rules \in Seq(Patterns) /\ compiled \in Seq(Patterns)
    BY DEF IInv, TypeOK
  <1>2. /\ Head(rules) \in Patterns
        /\ rules' \in Seq(Patterns)
        /\ Elements(rules) = {Head(rules)} \cup Elements(rules')
    BY <1>1, HeadAndTail DEF Compile
  <1>3. compiled' = Append(compiled, Head(rules))
    BY DEF Compile
  <1>4. /\ compiled' \in Seq(Patterns)
        /\ DOMAIN compiled' = DOMAIN compiled \cup {Len(compiled) + 1}
        /\ Len(compiled) + 1 \notin DOMAIN compiled
        /\ \A i \in DOMAIN compiled : compiled'[i] = compiled[i]
        /\ compiled'[Len(compiled) + 1] = Head(rules)
        /\ Elements(compiled') = Elements(compiled) \cup {Head(rules)}
    BY <1>1, <1>2, <1>3, Appended
  <1>5. Len(compiled) + 1 \in Nat
    BY <1>1
  <1>6. RulesAreKept'
    <2>1. /\ Elements(ruleset') = Elements(ruleset) /\ phase' = "new"
          /\ Compiles(Head(rules))
      BY DEF Compile, Elements
    <2>2. QED
      BY <1>2, <1>4, <2>1, Zenon DEF IInv, RulesAreKept
  <1>7. NominationFollowsReports' /\ ReportsAreRules' /\ RuleOrder'
    BY NewScansNothing DEF Compile
  <1>8. QED
    BY <1>2, <1>4, <1>5, <1>6, <1>7

LEMMA ShareKeeps == IInv /\ ShareKeyword => IInv'
  <1> SUFFICES ASSUME IInv, ShareKeyword
               PROVE  IInv'
    OBVIOUS
  <1> DEFINE new == Len(compiled) + 1
             r == Head(rules)
  <1>1. PICK k \in DOMAIN keywords :
           /\ keywords[k] = KeywordOf(r)
           /\ patternToRules' = [patternToRules EXCEPT ![k] = @ \cup {new}]
    BY DEF ShareKeyword
  <1>2. Compile /\ keywords' = keywords /\ alwaysRules' = alwaysRules
    BY DEF ShareKeyword
  <1>3. /\ rules' \in Seq(Patterns) /\ compiled' \in Seq(Patterns)
        /\ DOMAIN compiled' = DOMAIN compiled \cup {new}
        /\ new \in Nat \ DOMAIN compiled
        /\ \A i \in DOMAIN compiled : compiled'[i] = compiled[i]
        /\ compiled'[new] = r
        /\ RulesAreKept'
        /\ NominationFollowsReports' /\ ReportsAreRules' /\ RuleOrder'
    BY <1>2, CompileFacts
  <1> HIDE DEF new, r
  <1>4. /\ patternToRules \in Seq(SUBSET Nat) /\ keywords \in Seq(Keywords)
        /\ Len(patternToRules) = Len(keywords)
    BY DEF IInv, TypeOK, TablesFollowRules
  <1>5. DOMAIN patternToRules = DOMAIN keywords
    BY <1>4
  <1>6. /\ patternToRules' \in Seq(SUBSET Nat)
        /\ Len(patternToRules') = Len(keywords)
        /\ patternToRules'[k] = patternToRules[k] \cup {new}
        /\ \A j \in DOMAIN keywords \ {k} : patternToRules'[j] = patternToRules[j]
    <2>1. patternToRules[k] \cup {new} \in SUBSET Nat
      BY <1>3, <1>4, <1>5
    <2>2. QED
      BY <1>1, <1>4, <1>5, <2>1
  <1>7. TypeOK'
    BY <1>2, <1>3, <1>6 DEF IInv, TypeOK, Compile, scan
  <1>8. keywords[k] # NoKeyword
    BY <1>4 DEF Keywords
  <1>9. TablesFollowRules'
    <2>1. \A j, l \in DOMAIN keywords' : keywords'[j] = keywords'[l] => j = l
      BY <1>2 DEF IInv, TablesFollowRules
    <2>2. ASSUME NEW j \in DOMAIN keywords'
          PROVE  patternToRules'[j] =
                   {i \in DOMAIN compiled' : KeywordOf(compiled'[i]) = keywords'[j]}
      <3>1. patternToRules[j] =
              {i \in DOMAIN compiled : KeywordOf(compiled[i]) = keywords[j]}
        BY <1>2 DEF IInv, TablesFollowRules
      <3>2. {i \in DOMAIN compiled' : KeywordOf(compiled'[i]) = keywords'[j]}
              = {i \in DOMAIN compiled : KeywordOf(compiled[i]) = keywords[j]}
                  \cup {i \in {new} : KeywordOf(r) = keywords[j]}
        BY <1>2, <1>3, Zenon
      <3>3. KeywordOf(r) = keywords[j] <=> j = k
        BY <1>1, <1>2 DEF IInv, TablesFollowRules
      <3>4. QED
        BY <1>2, <1>6, <3>1, <3>2, <3>3
    <2>3. alwaysRules' =
            {i \in DOMAIN compiled' : KeywordOf(compiled'[i]) = NoKeyword}
      <3>1. alwaysRules = {i \in DOMAIN compiled : KeywordOf(compiled[i]) = NoKeyword}
        BY DEF IInv, TablesFollowRules
      <3>2. QED
        BY <1>1, <1>2, <1>3, <1>8, <3>1
    <2>4. ASSUME NEW i \in DOMAIN compiled'
          PROVE  KeywordOf(compiled'[i]) \in Elements(keywords') \cup {NoKeyword}
      <3>1. CASE i = new
        BY <1>1, <1>2, <1>3, <3>1 DEF Elements
      <3>2. CASE i \in DOMAIN compiled
        BY <1>2, <1>3, <3>2 DEF IInv, TablesFollowRules, Elements
      <3>3. QED
        BY <1>3, <3>1, <3>2
    <2>5. QED
      BY <1>2, <1>6, <2>1, <2>2, <2>3, <2>4 DEF TablesFollowRules
  <1>10. QED
    BY <1>3, <1>7, <1>9 DEF IInv

LEMMA AddKeeps == IInv /\ AddKeyword => IInv'
  <1> SUFFICES ASSUME IInv, AddKeyword
               PROVE  IInv'
    OBVIOUS
  <1> DEFINE new == Len(compiled) + 1
             r == Head(rules)
             kw == KeywordOf(r)
             id == Len(keywords) + 1
  <1>1. /\ Compile /\ kw # NoKeyword /\ alwaysRules' = alwaysRules
        /\ \A k \in DOMAIN keywords : keywords[k] # kw
        /\ keywords' = Append(keywords, kw)
        /\ patternToRules' = Append(patternToRules, {new})
    BY DEF AddKeyword
  <1>2. /\ rules' \in Seq(Patterns) /\ compiled' \in Seq(Patterns)
        /\ r \in Patterns
        /\ DOMAIN compiled' = DOMAIN compiled \cup {new}
        /\ new \in Nat \ DOMAIN compiled
        /\ \A i \in DOMAIN compiled : compiled'[i] = compiled[i]
        /\ compiled'[new] = r
        /\ RulesAreKept'
        /\ NominationFollowsReports' /\ ReportsAreRules' /\ RuleOrder'
    BY <1>1, CompileFacts
  <1> HIDE DEF new, r
  <1>3. /\ patternToRules \in Seq(SUBSET Nat) /\ keywords \in Seq(Keywords)
        /\ Len(patternToRules) = Len(keywords)
        /\ kw \in Keywords /\ {new} \in SUBSET Nat
    BY <1>1, <1>2 DEF IInv, TypeOK, TablesFollowRules, Keywords
  <1> HIDE DEF kw, id
  <1>4. /\ keywords' \in Seq(Keywords) /\ Len(keywords') = Len(keywords) + 1
        /\ DOMAIN keywords' = DOMAIN keywords \cup {id}
        /\ id \notin DOMAIN keywords
        /\ \A k \in DOMAIN keywords : keywords'[k] = keywords[k]
        /\ keywords'[id] = kw
        /\ Elements(keywords') = Elements(keywords) \cup {kw}
    BY <1>1, <1>3, Appended DEF id
  <1>5. /\ patternToRules' \in Seq(SUBSET Nat)
        /\ Len(patternToRules') = Len(keywords) + 1
        /\ \A k \in DOMAIN keywords : patternToRules'[k] = patternToRules[k]
        /\ patternToRules'[id] = {new}
    <2>1. DOMAIN patternToRules = DOMAIN keywords
      BY <1>3
    <2>2. QED
      BY <1>1, <1>3, <2>1, Appended DEF id
  <1>6. TypeOK'
    BY <1>1, <1>2, <1>4, <1>5 DEF IInv, TypeOK, Compile, scan
  <1>7. TablesFollowRules'
    <2>1. \A j, l \in DOMAIN keywords' : keywords'[j] = keywords'[l] => j = l
      <3> SUFFICES ASSUME NEW j \in DOMAIN keywords', NEW l \in DOMAIN keywords',
                          keywords'[j] = keywords'[l]
                   PROVE  j = l
        OBVIOUS
      <3>1. CASE j \in DOMAIN keywords /\ l \in DOMAIN keywords
        <4>1. keywords[j] = keywords[l]
          BY <1>4, <3>1
        <4>2. QED
          BY <3>1, <4>1 DEF IInv, TablesFollowRules
      <3>2. CASE j = id \/ l = id
        BY <1>1, <1>4, <3>2
      <3>3. QED
        BY <1>4, <3>1, <3>2
    <2>2. \A i \in DOMAIN compiled : KeywordOf(compiled[i]) # kw
      <3>1. \A i \in DOMAIN compiled :
              KeywordOf(compiled[i]) \in Elements(keywords) \cup {NoKeyword}
        BY DEF IInv, TablesFollowRules
      <3>2. kw \notin Elements(keywords)
        BY <1>1, Zenon DEF Elements
      <3>3. QED
        BY <1>1, <3>1, <3>2
    <2>3. ASSUME NEW j \in DOMAIN keywords'
          PROVE  patternToRules'[j] =
                   {i \in DOMAIN compiled' : KeywordOf(compiled'[i]) = keywords'[j]}
      <3>1. KeywordOf(r) = kw
        BY DEF kw
      <3>2. CASE j = id
        BY <1>2, <1>4, <1>5, <2>2, <3>1, <3>2
      <3>3. CASE j \in DOMAIN keywords
        <4>1. patternToRules[j] =
                {i \in DOMAIN compiled : KeywordOf(compiled[i]) = keywords[j]}
          BY <3>3 DEF IInv, TablesFollowRules
        <4>2. keywords'[j] = keywords[j] /\ keywords[j] # kw
              /\ patternToRules'[j] = patternToRules[j]
          BY <1>1, <1>4, <1>5, <3>3
        <4>3. QED
          BY <1>2, <3>1, <4>1, <4>2
      <3>4. QED
        BY <1>4, <3>2, <3>3
    <2>4. alwaysRules' =
            {i \in DOMAIN compiled' : KeywordOf(compiled'[i]) = NoKeyword}
      <3>1. alwaysRules = {i \in DOMAIN compiled : KeywordOf(compiled[i]) = NoKeyword}
        BY DEF IInv, TablesFollowRules
      <3>2. QED
        BY <1>1, <1>2, <3>1 DEF kw
    <2>5. ASSUME NEW i \in DOMAIN compiled'
          PROVE  KeywordOf(compiled'[i]) \in Elements(keywords') \cup {NoKeyword}
      <3>1. CASE i = new
        BY <1>2, <1>4, <3>1 DEF kw
      <3>2. CASE i \in DOMAIN compiled
        BY <1>2, <1>4, <3>2 DEF IInv, TablesFollowRules
      <3>3. QED
        BY <1>2, <3>1, <3>2
    <2>6. QED
      BY <1>4, <1>5, <2>1, <2>3, <2>4, <2>5 DEF TablesFollowRules
  <1>8. QED
    BY <1>2, <1>6, <1>7 DEF IInv

LEMMA AlwaysKeeps == IInv /\ AlwaysRun => IInv'
  <1> SUFFICES ASSUME IInv, AlwaysRun
               PROVE  IInv'
    OBVIOUS
  <1> DEFINE new == Len(compiled) + 1
             r == Head(rules)
  <1>1. /\ Compile /\ KeywordOf(r) = NoKeyword
        /\ alwaysRules' = alwaysRules \cup {new}
        /\ keywords' = keywords /\ patternToRules' = patternToRules
    BY DEF AlwaysRun
  <1>2. /\ rules' \in Seq(Patterns) /\ compiled' \in Seq(Patterns)
        /\ DOMAIN compiled' = DOMAIN compiled \cup {new}
        /\ new \in Nat \ DOMAIN compiled
        /\ \A i \in DOMAIN compiled : compiled'[i] = compiled[i]
        /\ compiled'[new] = r
        /\ RulesAreKept'
        /\ NominationFollowsReports' /\ ReportsAreRules' /\ RuleOrder'
    BY <1>1, CompileFacts
  <1> HIDE DEF new, r
  <1>3. TypeOK'
    BY <1>1, <1>2 DEF IInv, TypeOK, Compile, scan
  <1>4. \A k \in DOMAIN keywords : keywords[k] # NoKeyword
    BY DEF IInv, TypeOK, Keywords
  <1>5. TablesFollowRules'
    <2>1. ASSUME NEW j \in DOMAIN keywords
          PROVE  patternToRules[j] =
                   {i \in DOMAIN compiled' : KeywordOf(compiled'[i]) = keywords[j]}
      <3>1. patternToRules[j] =
              {i \in DOMAIN compiled : KeywordOf(compiled[i]) = keywords[j]}
        BY DEF IInv, TablesFollowRules
      <3>2. QED
        BY <1>1, <1>2, <1>4, <3>1
    <2>2. alwaysRules' =
            {i \in DOMAIN compiled' : KeywordOf(compiled'[i]) = NoKeyword}
      <3>1. alwaysRules = {i \in DOMAIN compiled : KeywordOf(compiled[i]) = NoKeyword}
        BY DEF IInv, TablesFollowRules
      <3>2. QED
        BY <1>1, <1>2, <3>1
    <2>3. \A i \in DOMAIN compiled' :
            KeywordOf(compiled'[i]) \in Elements(keywords) \cup {NoKeyword}
      BY <1>1, <1>2 DEF IInv, TablesFollowRules
    <2>4. Elements(keywords') = Elements(keywords)
      BY <1>1 DEF Elements
    <2>5. QED
      BY <1>1, <2>1, <2>2, <2>3, <2>4 DEF IInv, TablesFollowRules
  <1>6. QED
    BY <1>2, <1>3, <1>5 DEF IInv

LEMMA BuildKeeps == IInv /\ Build => IInv'
  <1> SUFFICES ASSUME IInv, Build
               PROVE  IInv'
    OBVIOUS
  <1>1. TypeOK'
    BY DEF IInv, TypeOK, Build, tables, scan
  <1>2. TablesFollowRules'
    BY DEF IInv, Build, TablesFollowRules, Elements, tables
  <1>3. RulesAreKept'
    BY DEF IInv, Build, RulesAreKept, Elements, tables
  <1>4. NominationFollowsReports' /\ ReportsAreRules' /\ RuleOrder'
    BY DEF IInv, NominationFollowsReports, ReportsAreRules, RuleOrder, Build, Elements,
           scan
  <1>5. QED
    BY <1>1, <1>2, <1>3, <1>4 DEF IInv

-----------------------------------------------------------------------------
(* Scanner::scan.                                                          *)

\* A scan leaves the tables.
LEMMA ScanKeepsTables ==
    ASSUME IInv, phase # "new", phase' # "new", UNCHANGED tables
    PROVE  TablesFollowRules' /\ RulesAreKept'
  <1>1. TablesFollowRules'
    BY DEF IInv, TablesFollowRules, Elements, tables
  <1>2. RulesAreKept'
    BY DEF IInv, RulesAreKept, Elements, tables
  <1>3. QED
    BY <1>1, <1>2

LEMMA OpenKeeps ==
    ASSUME IInv, NEW t \in Texts, SkipText(t) \/ Open(t)
    PROVE  IInv'
  <1>1. TypeOK'
    <2>1. CASE SkipText(t)
      BY <2>1 DEF IInv, TypeOK, SkipText, tables
    <2>2. CASE Open(t)
      BY <2>2 DEF IInv, TypeOK, Open, tables
    <2>3. QED
      BY <2>1, <2>2
  <1>2. TablesFollowRules' /\ RulesAreKept'
    BY ScanKeepsTables DEF SkipText, Open
  <1>3. CASE SkipText(t)
    <2>1. NominationFollowsReports' /\ ReportsAreRules' /\ RuleOrder'
      BY <1>3 DEF SkipText, NominationFollowsReports, ReportsAreRules, RuleOrder,
                  Elements
    <2>2. QED
      BY <1>1, <1>2, <2>1 DEF IInv
  <1>4. CASE Open(t)
    <2>1. NominationFollowsReports'
      <3>1. alwaysRules \subseteq DOMAIN compiled
        BY DEF IInv, TablesFollowRules
      <3>2. QED
        BY <1>4, <3>1, PrefilterAssumption DEF Open, NominationFollowsReports, tables
    <2>2. ReportsAreRules' /\ RuleOrder'
      BY <1>4 DEF Open, ReportsAreRules, RuleOrder, Elements
    <2>3. QED
      BY <1>1, <1>2, <2>1, <2>2 DEF IInv
  <1>5. QED
    BY <1>3, <1>4

LEMMA NominateKeeps ==
    ASSUME IInv, NEW k \in DOMAIN keywords, Nominate(k)
    PROVE  IInv'
  <1>1. patternToRules[k] \in SUBSET Nat /\ k \in Nat
    BY DEF IInv, TypeOK, TablesFollowRules
  <1>2. TypeOK'
    BY <1>1 DEF IInv, TypeOK, Nominate, tables
  <1>3. TablesFollowRules' /\ RulesAreKept'
    BY ScanKeepsTables DEF Nominate
  <1>4. NominationFollowsReports'
    <2>1. Hits' = Hits
      BY DEF Nominate, Hits, tables
    <2>2. /\ IsUtf8(text) /\ text # NoText /\ reported \subseteq Hits /\ next = 1
          /\ nominated \subseteq DOMAIN compiled
          /\ \A i \in DOMAIN compiled :
              i \in nominated <=>
                i \in alwaysRules \/ \E j \in reported : i \in patternToRules[j]
      BY DEF IInv, NominationFollowsReports, Nominate
    <2>3. /\ nominated' = nominated \cup patternToRules[k]
          /\ reported' = reported \cup {k} /\ k \in Hits
          /\ phase' = "match" /\ text' = text /\ next' = next /\ compiled' = compiled
          /\ patternToRules' = patternToRules /\ alwaysRules' = alwaysRules
      BY DEF Nominate, tables
    <2>4. patternToRules[k] \subseteq DOMAIN compiled
      BY DEF IInv, TablesFollowRules
    <2>5. \A i \in DOMAIN compiled' :
            i \in nominated' <=>
              i \in alwaysRules' \/ \E j \in reported' : i \in patternToRules'[j]
      BY <2>2, <2>3
    <2>6. QED
      BY <2>1, <2>2, <2>3, <2>4, <2>5 DEF NominationFollowsReports
  <1>5. ReportsAreRules' /\ RuleOrder'
    BY DEF IInv, Nominate, ReportsAreRules, RuleOrder, Elements
  <1>6. QED
    BY <1>2, <1>3, <1>4, <1>5 DEF IInv

\* The nominated rules are compiled ones, and after phase 1 they are those
\* that can be reached.
LEMMA NominatedAreRules ==
    ASSUME IInv, phase \in {"match", "run"}
    PROVE  /\ nominated \subseteq DOMAIN compiled
           /\ reported = Hits =>
                nominated = {i \in DOMAIN compiled : Reachable(compiled[i], text)}
  <1>1. /\ nominated \subseteq DOMAIN compiled
        /\ \A i \in DOMAIN compiled :
              i \in nominated <=>
                i \in alwaysRules \/ \E k \in reported : i \in patternToRules[k]
        /\ reported \subseteq Hits /\ Hits \subseteq DOMAIN keywords
    BY DEF IInv, NominationFollowsReports, Hits
  <1>2. /\ alwaysRules = {i \in DOMAIN compiled : KeywordOf(compiled[i]) = NoKeyword}
        /\ \A k \in DOMAIN keywords : patternToRules[k] =
                {i \in DOMAIN compiled : KeywordOf(compiled[i]) = keywords[k]}
        /\ \A i \in DOMAIN compiled :
                KeywordOf(compiled[i]) \in Elements(keywords) \cup {NoKeyword}
    BY DEF IInv, TablesFollowRules
  <1>3. nominated \subseteq DOMAIN compiled
    BY <1>1, <1>2
  <1>4. ASSUME reported = Hits, NEW i \in DOMAIN compiled
        PROVE  i \in nominated <=> Reachable(compiled[i], text)
    <2>1. CASE KeywordOf(compiled[i]) = NoKeyword
      BY <1>1, <1>2, <2>1 DEF Reachable
    <2>2. CASE KeywordOf(compiled[i]) # NoKeyword
      <3>1. i \notin alwaysRules
        BY <1>2, <2>2
      <3>2. i \in nominated <=> \E k \in Hits : i \in patternToRules[k]
        BY <1>1, <1>4, <3>1
      <3>3. \A k \in Hits : i \in patternToRules[k] <=>
                              KeywordOf(compiled[i]) = keywords[k]
        BY <1>1, <1>2, <1>4
      <3>4. PICK k \in DOMAIN keywords : keywords[k] = KeywordOf(compiled[i])
        BY <1>2, <1>4, <2>2 DEF Elements
      <3>5. QED
        BY <2>2, <3>2, <3>3, <3>4 DEF Reachable, Hits
    <2>3. QED
      BY <2>1, <2>2
  <1>5. QED
    BY <1>3, <1>4

LEMMA EndPhase1Keeps == IInv /\ EndPhase1 => IInv'
  <1> SUFFICES ASSUME IInv, EndPhase1
               PROVE  IInv'
    OBVIOUS
  <1>1. TypeOK'
    BY DEF IInv, TypeOK, EndPhase1, tables, scan
  <1>2. TablesFollowRules' /\ RulesAreKept'
    BY ScanKeepsTables DEF EndPhase1
  <1>3. NominationFollowsReports'
    BY DEF IInv, EndPhase1, NominationFollowsReports, Hits, tables, scan
  <1>4. ReportsAreRules' /\ RuleOrder'
    <2>1. vulns = <<>> /\ next = 1 /\ vulns' = vulns /\ next' = next
          /\ nominated' = nominated /\ phase' = "run"
      BY DEF IInv, ReportsAreRules, NominationFollowsReports, EndPhase1, scan
    <2>2. \A i \in nominated : i \in Nat /\ i >= 1
      <3>1. DOMAIN compiled = 1..Len(compiled) /\ Len(compiled) \in Nat
        BY DEF IInv, TypeOK
      <3>2. nominated \subseteq DOMAIN compiled
        BY NominatedAreRules DEF EndPhase1
      <3>3. QED
        BY <3>1, <3>2
    <2>3. {i \in nominated : i < 1 /\ Matches(compiled'[i], text')} = {}
      BY <2>2
    <2>4. Elements(vulns') = {}
      BY <2>1 DEF Elements
    <2>5. ReportsAreRules'
      BY <2>1, <2>3, <2>4 DEF ReportsAreRules
    <2>6. QED
      BY <2>1, <2>5 DEF RuleOrder
  <1>5. QED
    BY <1>1, <1>2, <1>3, <1>4 DEF IInv

LEMMA PassKeeps == IInv /\ PassRule => IInv'
  <1> SUFFICES ASSUME IInv, PassRule
               PROVE  IInv'
    OBVIOUS
  <1>1. TypeOK'
    BY DEF IInv, TypeOK, PassRule, tables
  <1>2. TablesFollowRules' /\ RulesAreKept'
    BY ScanKeepsTables DEF PassRule
  <1>3. NominationFollowsReports'
    <2>1. next \in Nat /\ next' = next + 1 /\ phase = "run" /\ phase' = "run"
      BY DEF IInv, TypeOK, PassRule
    <2>2. UNCHANGED <<tables, text, reported, nominated>>
      BY DEF PassRule
    <2>3. Hits' = Hits
      BY <2>2 DEF Hits, tables
    <2>4. QED
      BY <2>1, <2>2, <2>3 DEF IInv, NominationFollowsReports, tables
  <1>4. ReportsAreRules'
    <2>1. /\ Elements(vulns) = {i \in nominated : i < next /\ Matches(compiled[i], text)}
          /\ next \in Nat /\ nominated \subseteq Nat
          /\ \A a \in DOMAIN vulns : vulns[a] < next /\ vulns[a] \in Nat
      BY DEF IInv, TypeOK, ReportsAreRules, PassRule
    <2>2. /\ next' = next + 1 /\ phase' = "run"
          /\ vulns' = vulns /\ nominated' = nominated /\ text' = text
          /\ compiled' = compiled
          /\ next \notin nominated \/ ~Matches(compiled[next], text)
          /\ Elements(vulns') = Elements(vulns)
      BY DEF PassRule, tables, Elements
    <2>3. \A i \in nominated : i < next + 1 <=> i < next \/ i = next
      BY <2>1
    <2>4. Elements(vulns') =
            {i \in nominated' : i < next' /\ Matches(compiled'[i], text')}
      BY <2>1, <2>2, <2>3
    <2>5. \A a \in DOMAIN vulns' : vulns'[a] < next'
      BY <2>1, <2>2
    <2>6. QED
      BY <2>2, <2>4, <2>5 DEF ReportsAreRules
  <1>5. RuleOrder'
    BY DEF IInv, PassRule, RuleOrder
  <1>6. QED
    BY <1>1, <1>2, <1>3, <1>4, <1>5 DEF IInv

LEMMA RunKeeps == IInv /\ RunRule => IInv'
  <1> SUFFICES ASSUME IInv, RunRule
               PROVE  IInv'
    OBVIOUS
  <1>1. vulns \in Seq(Nat) /\ next \in Nat
    BY DEF IInv, TypeOK
  <1>2. /\ vulns' \in Seq(Nat)
        /\ DOMAIN vulns' = DOMAIN vulns \cup {Len(vulns) + 1}
        /\ Len(vulns) + 1 \notin DOMAIN vulns
        /\ \A a \in DOMAIN vulns : vulns'[a] = vulns[a]
        /\ vulns'[Len(vulns) + 1] = next
        /\ Elements(vulns') = Elements(vulns) \cup {next}
    <2>1. vulns' = Append(vulns, next)
      BY DEF RunRule
    <2>2. QED
      BY <1>1, <2>1, Appended
  <1>3. TypeOK'
    <2>1. UNCHANGED <<tables, phase, text, reported, nominated>> /\ next' \in Nat
      BY <1>1 DEF RunRule
    <2>2. QED
      BY <1>2, <2>1 DEF IInv, TypeOK, tables
  <1>4. TablesFollowRules' /\ RulesAreKept'
    <2>1. phase = "run" /\ phase' = phase /\ UNCHANGED tables
      BY DEF RunRule
    <2>2. QED
      BY <2>1, ScanKeepsTables
  <1>5. NominationFollowsReports'
    <2>1. next \in Nat /\ next' = next + 1 /\ phase = "run" /\ phase' = "run"
      BY DEF IInv, TypeOK, RunRule
    <2>2. UNCHANGED <<tables, text, reported, nominated>>
      BY DEF RunRule
    <2>3. Hits' = Hits
      BY <2>2 DEF Hits, tables
    <2>4. QED
      BY <2>1, <2>2, <2>3 DEF IInv, NominationFollowsReports, tables
  <1>6. /\ Elements(vulns) = {i \in nominated : i < next /\ Matches(compiled[i], text)}
        /\ nominated \subseteq Nat
        /\ \A a \in DOMAIN vulns : vulns[a] < next /\ vulns[a] \in Nat
    BY DEF IInv, TypeOK, ReportsAreRules, RunRule
  <1>7. ReportsAreRules'
    <2>1. /\ next' = next + 1 /\ phase' = "run"
          /\ nominated' = nominated /\ text' = text /\ compiled' = compiled
          /\ next \in nominated /\ Matches(compiled[next], text)
      BY DEF RunRule, tables
    <2>2. \A i \in nominated : i < next + 1 <=> i < next \/ i = next
      BY <1>1, <1>6
    <2>3. Elements(vulns') =
            {i \in nominated' : i < next' /\ Matches(compiled'[i], text')}
      BY <1>2, <1>6, <2>1, <2>2
    <2>4. \A a \in DOMAIN vulns' : vulns'[a] < next'
      BY <1>1, <1>2, <1>6, <2>1
    <2>5. QED
      BY <2>1, <2>3, <2>4 DEF ReportsAreRules
  <1>8. RuleOrder'
    <2> SUFFICES ASSUME NEW i \in DOMAIN vulns', NEW j \in DOMAIN vulns', i < j
                 PROVE  vulns'[i] < vulns'[j]
      BY DEF RuleOrder
    <2>1. i \in DOMAIN vulns
      <3>1. DOMAIN vulns = 1..Len(vulns) /\ Len(vulns) \in Nat
        BY <1>1
      <3>2. QED
        BY <1>2, <3>1
    <2>2. CASE j \in DOMAIN vulns
      BY <1>2, <2>1, <2>2 DEF IInv, RuleOrder
    <2>3. CASE j = Len(vulns) + 1
      BY <1>2, <1>6, <2>1, <2>3
    <2>4. QED
      BY <1>2, <2>2, <2>3
  <1>9. QED
    BY <1>3, <1>4, <1>5, <1>7, <1>8 DEF IInv

LEMMA EndScanKeeps == IInv /\ EndScan => IInv'
  <1> SUFFICES ASSUME IInv, EndScan
               PROVE  IInv'
    OBVIOUS
  <1>1. TypeOK'
    BY DEF IInv, TypeOK, EndScan, tables, scan
  <1>2. TablesFollowRules' /\ RulesAreKept'
    BY ScanKeepsTables DEF EndScan
  <1>3. NominationFollowsReports' /\ RuleOrder'
    BY DEF IInv, EndScan, NominationFollowsReports, RuleOrder, scan
  <1>4. ReportsAreRules'
    <2>1. nominated = {i \in DOMAIN compiled : Reachable(compiled[i], text)}
      BY NominatedAreRules DEF IInv, EndScan, NominationFollowsReports
    <2>2. \A i \in DOMAIN compiled : i < next
      <3>1. /\ DOMAIN compiled = 1..Len(compiled) /\ Len(compiled) \in Nat
            /\ next \in Nat /\ next \notin DOMAIN compiled
        BY DEF IInv, TypeOK, EndScan
      <3>2. next >= 1
        BY DEF IInv, NominationFollowsReports, EndScan
      <3>3. QED
        BY <3>1, <3>2
    <2>3. Elements(vulns) = {i \in nominated : i < next /\ Matches(compiled[i], text)}
      BY DEF IInv, ReportsAreRules, EndScan
    <2>4. Elements(vulns) =
            {i \in DOMAIN compiled : Matches(compiled[i], text)
                                       /\ Reachable(compiled[i], text)}
      BY <2>1, <2>2, <2>3
    <2>5. /\ phase' = "ready" /\ vulns' = vulns /\ text' = text /\ compiled' = compiled
          /\ Elements(vulns') = Elements(vulns)
      BY DEF EndScan, tables, scan, Elements
    <2>6. QED
      BY <2>4, <2>5 DEF ReportsAreRules, Reachable
  <1>5. QED
    BY <1>1, <1>2, <1>3, <1>4 DEF IInv

-----------------------------------------------------------------------------

LEMMA StutterKeeps == IInv /\ UNCHANGED vars => IInv'
  <1> SUFFICES ASSUME IInv, UNCHANGED vars
               PROVE  IInv'
    OBVIOUS
  <1> USE DEF vars, tables, scan
  <1>1. TypeOK'
    BY DEF IInv, TypeOK
  <1>2. TablesFollowRules'
    BY DEF IInv, TablesFollowRules, Elements
  <1>3. RulesAreKept'
    BY DEF IInv, RulesAreKept, Elements
  <1>4. NominationFollowsReports'
    BY DEF IInv, NominationFollowsReports, Hits
  <1>5. ReportsAreRules' /\ RuleOrder'
    BY DEF IInv, ReportsAreRules, RuleOrder, Elements, Reachable
  <1>6. QED
    BY <1>1, <1>2, <1>3, <1>4, <1>5 DEF IInv

LEMMA NextKeeps == IInv /\ [Next]_vars => IInv'
  BY SkipKeeps, ShareKeeps, AddKeeps, AlwaysKeeps, BuildKeeps, OpenKeeps, NominateKeeps,
     EndPhase1Keeps, PassKeeps, RunKeeps, EndScanKeeps, StutterKeeps
     DEF Next

THEOREM InvHolds == Spec => []IInv
  BY InitInv, NextKeeps, PTL DEF Spec

\* What a scan reports of one rule does not depend on the other rules
\* (scanner.rs:52-60): the tables and both phases lose nothing.
LEMMA RuleAloneFollows == IInv => RuleAlone
  <1> SUFFICES ASSUME IInv, Scanned, NEW p \in Elements(ruleset), Compiles(p)
               PROVE  Matches(p, text) /\ Reachable(p, text)
                        <=> \E a \in DOMAIN vulns : compiled[vulns[a]] = p
    BY DEF RuleAlone
  <1>1. Elements(vulns) = {i \in DOMAIN compiled :
                              Matches(compiled[i], text) /\ Reachable(compiled[i], text)}
    BY DEF IInv, ReportsAreRules, Scanned
  <1>2. p \in Elements(compiled)
    <2>1. rules = <<>>
      BY DEF IInv, RulesAreKept, Scanned
    <2>2. Elements(rules) = {}
      BY <2>1 DEF Elements
    <2>3. QED
      BY <2>2 DEF IInv, RulesAreKept
  <1>3. PICK i \in DOMAIN compiled : compiled[i] = p
    BY <1>2 DEF Elements
  <1>4. ASSUME Matches(p, text), Reachable(p, text)
        PROVE  \E a \in DOMAIN vulns : compiled[vulns[a]] = p
    <2>1. i \in Elements(vulns)
      BY <1>1, <1>3, <1>4
    <2>2. QED
      BY <1>3, <2>1 DEF Elements
  <1>5. ASSUME NEW a \in DOMAIN vulns, compiled[vulns[a]] = p
        PROVE  Matches(p, text) /\ Reachable(p, text)
    <2>1. vulns[a] \in Elements(vulns)
      BY DEF Elements
    <2>2. QED
      BY <1>1, <1>5, <2>1
  <1>6. QED
    BY <1>4, <1>5

THEOREM RulesDoNotInterfere == Spec => []RuleAlone
  BY InvHolds, RuleAloneFollows, PTL

\* If every keyword is in every text that its pattern matches, as the comment on
\* extract_keyword wants it, every rule that finds something has reported.
THEOREM SoundKeywordsMissNothing ==
    ASSUME \A p \in Patterns, t \in Texts : Matches(p, t) => Reachable(p, t)
    PROVE  Spec => [](Scanned => \A p \in Elements(ruleset) :
                          Compiles(p) /\ Matches(p, text) =>
                              \E a \in DOMAIN vulns : compiled[vulns[a]] = p)
  <1>1. IInv => (Scanned => \A p \in Elements(ruleset) :
                    Compiles(p) /\ Matches(p, text) =>
                        \E a \in DOMAIN vulns : compiled[vulns[a]] = p)
    <2> SUFFICES ASSUME IInv, Scanned, NEW p \in Elements(ruleset), Compiles(p),
                        Matches(p, text)
                 PROVE  \E a \in DOMAIN vulns : compiled[vulns[a]] = p
      OBVIOUS
    <2>1. text \in Texts /\ p \in Patterns
      BY DEF IInv, TypeOK, Scanned, Elements
    <2>2. QED
      BY <2>1, RuleAloneFollows DEF RuleAlone
  <1>2. QED
    BY <1>1, InvHolds, PTL

\* Reports are in the order of the rules.
THEOREM ReportsAreOrdered == Spec => []RuleOrder
  <1>1. IInv => RuleOrder
    BY DEF IInv
  <1>2. QED
    BY <1>1, InvHolds, PTL

-----------------------------------------------------------------------------
(* Induction and recursion up to a number, with sets for predicates.       *)

\* A set of numbers has a least one, a bounded one a greatest.
LEMMA LeastExists ==
    ASSUME NEW S, S \subseteq Nat, S # {}
    PROVE  \E x \in S : \A y \in S : x <= y
  <1>1. PICK x \in S : \A y \in S : <<y, x>> \notin OpToRel(<, Nat)
    BY WFMin, NatLessThanWellFounded, Zenon
  <1>2. \A y \in S : ~(y < x)
    BY <1>1, Zenon DEF OpToRel
  <1>3. QED
    BY <1>2

LEMMA GreatestExists ==
    ASSUME NEW N \in Nat, NEW S, S \subseteq 0..N, S # {}
    PROVE  \E x \in S : \A y \in S : y <= x
  <1> DEFINE T == {N - i : i \in S}
  <1>1. \A i \in S : i \in 0..N /\ N - i \in Nat
    OBVIOUS
  <1>2. T \subseteq Nat /\ T # {}
    BY <1>1
  <1>3. PICK t \in T : \A u \in T : t <= u
    <2> HIDE DEF T
    <2>1. QED
      BY <1>2, LeastExists
  <1>4. PICK x \in S : t = N - x
    OBVIOUS
  <1>5. ASSUME NEW y \in S
        PROVE  y <= x
    <2>1. N - x <= N - y
      BY <1>3, <1>4
    <2>2. QED
      BY <1>1, <2>1
  <1>6. QED
    BY <1>5

\* What holds of 0 and goes from each number to the next holds of all; G is
\* the set of the numbers of which it holds.
LEMMA Induction ==
    ASSUME NEW N \in Nat, NEW G, 0 \in G, \A n \in 1..N : n - 1 \in G => n \in G
    PROVE  \A n \in 0..N : n \in G
  <1> DEFINE B == {n \in 0..N : n \notin G}
  <1> SUFFICES ASSUME B # {}
               PROVE  FALSE
    OBVIOUS
  <1>1. PICK n \in B : \A m \in B : n <= m
    <2>1. B \subseteq Nat
      OBVIOUS
    <2> HIDE DEF B
    <2>2. QED
      BY <2>1, LeastExists
  <1>2. n \in 1..N /\ n - 1 \in 0..N /\ ~(n <= n - 1)
    OBVIOUS
  <1>3. n - 1 \in G
    BY <1>1, <1>2
  <1>4. QED
    BY <1>2, <1>3

(* f starts with a and goes on with g.                                     *)
Follows(f, N, a, g) == f[0] = a /\ \A n \in 1..N : f[n] = g[n][f[n - 1]]

\* Whatever the step g, there is a function that follows it.
LEMMA RecursionExists ==
    ASSUME NEW N \in Nat, NEW S, NEW a \in S, NEW g \in [1..N -> [S -> S]]
    PROVE  \E f \in [0..N -> S] : Follows(f, N, a, g)
  <1> DEFINE G == {m \in 0..N : \E f \in [0..m -> S] : Follows(f, m, a, g)}
  <1>1. 0 \in G
    <2> DEFINE f == [i \in 0..0 |-> a]
    <2>1. f \in [0..0 -> S] /\ Follows(f, 0, a, g)
      BY DEF Follows
    <2> HIDE DEF f
    <2>2. QED
      BY <2>1
  <1>2. ASSUME NEW m \in 1..N, m - 1 \in G
        PROVE  m \in G
    <2>1. PICK f \in [0..(m - 1) -> S] : Follows(f, m - 1, a, g)
      BY <1>2
    <2> DEFINE e == [i \in 0..m |-> IF i = m THEN g[m][f[m - 1]] ELSE f[i]]
    <2>2. f[m - 1] \in S /\ g[m][f[m - 1]] \in S
      OBVIOUS
    <2>3. /\ e \in [0..m -> S]
          /\ e[m] = g[m][f[m - 1]]
          /\ \A i \in 0..(m - 1) : e[i] = f[i]
      BY <2>2
    <2> HIDE DEF e
    <2>4. ASSUME NEW n \in 1..m
          PROVE  e[n] = g[n][e[n - 1]]
      <3>1. CASE n = m
        <4>1. n - 1 = m - 1 /\ n - 1 \in 0..(m - 1)
          BY <3>1
        <4>2. e[n - 1] = f[m - 1]
          BY <2>3, <4>1
        <4>3. QED
          BY <2>3, <3>1, <4>2
      <3>2. CASE n # m
        <4>1. n \in 1..(m - 1) /\ n \in 0..(m - 1) /\ n - 1 \in 0..(m - 1)
          BY <3>2
        <4>2. QED
          BY <2>1, <2>3, <4>1 DEF Follows
      <3>3. QED
        BY <3>1, <3>2
    <2>5. e[0] = a
      BY <2>1, <2>3 DEF Follows
    <2>6. Follows(e, m, a, g)
      BY <2>4, <2>5 DEF Follows
    <2>7. QED
      BY <2>3, <2>6
  <1>3. N \in G
    <2> HIDE DEF G
    <2>1. \A n \in 0..N : n \in G
      BY <1>1, <1>2, Induction
    <2>2. QED
      BY <2>1
  <1>4. QED
    BY <1>3

-----------------------------------------------------------------------------
(* Sequences of characters.                                                *)

\* What v \o w is made of.
LEMMA Concat ==
    ASSUME NEW v \in Word, NEW w \in Word
    PROVE  /\ v \o w \in Word
           /\ Len(v \o w) = Len(v) + Len(w) /\ Len(v) \in Nat /\ Len(w) \in Nat
           /\ \A i \in 1..Len(v) : (v \o w)[i] = v[i]
           /\ \A i \in 1..Len(w) : (v \o w)[Len(v) + i] = w[i]
  BY DEF Word

(* s begins with w.                                                        *)
Begins(s, w) == Len(w) <= Len(s) /\ \A i \in 1..Len(w) : s[i] = w[i]

(* s has w after its first k characters.                                   *)
After(s, k, w) == /\ k \in Nat /\ k + Len(w) <= Len(s)
                  /\ \A i \in 1..Len(w) : s[k + i] = w[i]

\* What begins with v \o w begins with v, and has w after it.
LEMMA BeginsConcat ==
    ASSUME NEW s \in Word, NEW v \in Word, NEW w \in Word, Begins(s, v \o w)
    PROVE  Begins(s, v)
  <1>1. \A i \in 1..Len(v) : i \in 1..Len(v \o w)
    BY Concat
  <1>2. Len(v) <= Len(s)
    <2>1. Len(s) \in Nat /\ Len(v \o w) <= Len(s)
      BY DEF Begins, Word
    <2>2. QED
      BY <2>1, Concat
  <1>3. \A i \in 1..Len(v) : s[i] = v[i]
    BY <1>1, Concat DEF Begins
  <1>4. QED
    BY <1>2, <1>3 DEF Begins

LEMMA BeginsAfter ==
    ASSUME NEW s \in Word, NEW v \in Word, NEW w \in Word, Begins(s, v \o w)
    PROVE  After(s, Len(v), w)
  <1>1. \A i \in 1..Len(w) : Len(v) + i \in 1..Len(v \o w)
    BY Concat
  <1>2. QED
    BY <1>1, Concat DEF Begins, After

(* A part of s begins somewhere.                                           *)
LEMMA PartIs ==
    ASSUME NEW s \in Word, NEW w \in Word
    PROVE  HasPart(s, w) <=>
               \E i \in Nat : /\ i + Len(w) <= Len(s)
                              /\ \A j \in 1..Len(w) : s[i + j] = w[j]
  <1> USE DEF Word
  <1>0. Len(s) \in Nat /\ Len(w) \in Nat
    OBVIOUS
  <1>1. ASSUME NEW i \in Nat, i + Len(w) <= Len(s)
        PROVE  /\ i \in 0..(Len(s) - Len(w))
               /\ SubSeq(s, i + 1, i + Len(w)) \in Word
               /\ Len(SubSeq(s, i + 1, i + Len(w))) = Len(w)
               /\ \A j \in 1..Len(w) : SubSeq(s, i + 1, i + Len(w))[j] = s[i + j]
    <2>1. i \in 0..(Len(s) - Len(w)) /\ i + 1 \in Int /\ i + Len(w) \in Int
      BY <1>0, <1>1
    <2>2. \A j \in (i + 1)..(i + Len(w)) : j \in 1..Len(s) /\ s[j] \in Chars
      BY <1>0, <1>1
    <2> DEFINE sub == SubSeq(s, i + 1, i + Len(w))
    <2>3. /\ sub = [j \in 1..((i + Len(w) + 1) - (i + 1)) |-> s[(i + 1) + j - 1]]
          /\ (i + Len(w) + 1) - (i + 1) = Len(w)
      BY <1>0, <2>1
    <2>4. \A j \in 1..Len(w) : (i + 1) + j - 1 = i + j /\ s[i + j] \in Chars
      BY <1>0, <2>1, <2>2
    <2> HIDE DEF sub
    <2>5. sub = [j \in 1..Len(w) |-> s[i + j]]
      BY <1>0, <2>3, <2>4
    <2>6. sub \in Seq(Chars) /\ Len(sub) = Len(w) /\ \A j \in 1..Len(w) : sub[j] = s[i + j]
      BY <1>0, <2>4, <2>5
    <2>7. QED
      BY <2>1, <2>6 DEF sub
  <1>2. ASSUME NEW i \in 0..(Len(s) - Len(w)), SubSeq(s, i + 1, i + Len(w)) = w
        PROVE  \A j \in 1..Len(w) : s[i + j] = w[j]
    BY <1>0, <1>1, <1>2
  <1>3. ASSUME NEW i \in Nat, i + Len(w) <= Len(s), \A j \in 1..Len(w) : s[i + j] = w[j]
        PROVE  SubSeq(s, i + 1, i + Len(w)) = w
    BY <1>0, <1>1, <1>3
  <1>4. ASSUME HasPart(s, w)
        PROVE  \E i \in Nat : /\ i + Len(w) <= Len(s)
                              /\ \A j \in 1..Len(w) : s[i + j] = w[j]
    <2>1. PICK i \in 0..(Len(s) - Len(w)) : SubSeq(s, i + 1, i + Len(w)) = w
      BY <1>4 DEF HasPart
    <2>2. i \in Nat /\ i + Len(w) <= Len(s)
      BY <1>0
    <2>3. \A j \in 1..Len(w) : s[i + j] = w[j]
      BY <1>2, <2>1
    <2>4. QED
      BY <2>2, <2>3
  <1>5. ASSUME NEW i \in Nat, i + Len(w) <= Len(s), \A j \in 1..Len(w) : s[i + j] = w[j]
        PROVE  HasPart(s, w)
    BY <1>1, <1>3, <1>5 DEF HasPart
  <1>6. QED
    BY <1>4, <1>5

\* A beginning is a part; parts of parts are parts.
LEMMA BeginningIsPart ==
    ASSUME NEW s \in Word, NEW w \in Word, Begins(s, w)
    PROVE  HasPart(s, w)
  <1>1. 0 + Len(w) <= Len(s) /\ \A j \in 1..Len(w) : s[0 + j] = w[j]
    BY DEF Begins, Word
  <1>2. QED
    BY <1>1, PartIs

LEMMA PartOfPart ==
    ASSUME NEW s \in Word, NEW v \in Word, NEW w \in Word, HasPart(s, v), HasPart(v, w)
    PROVE  HasPart(s, w)
  <1>0. Len(s) \in Nat /\ Len(v) \in Nat /\ Len(w) \in Nat
    BY DEF Word
  <1>1. PICK i \in Nat : i + Len(v) <= Len(s) /\ \A j \in 1..Len(v) : s[i + j] = v[j]
    BY PartIs
  <1>2. PICK k \in Nat : k + Len(w) <= Len(v) /\ \A j \in 1..Len(w) : v[k + j] = w[j]
    BY PartIs
  <1>3. i + k \in Nat /\ (i + k) + Len(w) <= Len(s)
    BY <1>0, <1>1, <1>2
  <1>4. ASSUME NEW j \in 1..Len(w)
        PROVE  s[(i + k) + j] = w[j]
    <2>1. k + j \in 1..Len(v) /\ i + (k + j) = (i + k) + j
      BY <1>0, <1>2
    <2>2. s[i + (k + j)] = v[k + j]
      BY <1>1, <2>1
    <2>3. QED
      BY <1>2, <2>1, <2>2
  <1>5. QED
    BY <1>3, <1>4, PartIs

\* Lowered changes letter by letter, so that it keeps parts.
LEMMA LoweredIs ==
    ASSUME NEW s \in Word
    PROVE  /\ Lowered(s) \in Word /\ Len(Lowered(s)) = Len(s)
           /\ \A i \in 1..Len(s) : Lowered(s)[i] = Lower(s[i])
  <1>1. \A c \in Chars : Lower(c) \in Chars
    BY DEF Lower, Chars, Letters, Literals
  <1>2. DOMAIN s = 1..Len(s) /\ Len(s) \in Nat /\ \A i \in 1..Len(s) : s[i] \in Chars
    BY DEF Word
  <1>3. Lowered(s) = [i \in 1..Len(s) |-> Lower(s[i])]
    BY <1>2 DEF Lowered
  <1>4. \A i \in 1..Len(s) : Lower(s[i]) \in Chars
    BY <1>1, <1>2
  <1>5. QED
    BY <1>2, <1>3, <1>4 DEF Word

LEMMA LoweredPart ==
    ASSUME NEW s \in Word, NEW w \in Word, HasPart(s, w)
    PROVE  HasPart(Lowered(s), Lowered(w))
  <1>0. Len(s) \in Nat /\ Len(w) \in Nat
    BY DEF Word
  <1>1. PICK i \in Nat : i + Len(w) <= Len(s) /\ \A j \in 1..Len(w) : s[i + j] = w[j]
    BY PartIs
  <1>2. ASSUME NEW j \in 1..Len(w)
        PROVE  Lowered(s)[i + j] = Lowered(w)[j]
    <2>1. i + j \in 1..Len(s)
      BY <1>0, <1>1
    <2>2. QED
      BY <1>1, <2>1, LoweredIs
  <1>3. /\ Lowered(s) \in Word /\ Len(Lowered(s)) = Len(s)
        /\ Lowered(w) \in Word /\ Len(Lowered(w)) = Len(w)
    BY LoweredIs
  <1>4. i + Len(Lowered(w)) <= Len(Lowered(s))
    BY <1>1, <1>3
  <1>5. \A j \in 1..Len(Lowered(w)) : Lowered(s)[i + j] = Lowered(w)[j]
    BY <1>2, <1>3
  <1>6. QED
    BY <1>3, <1>4, <1>5, PartIs

-----------------------------------------------------------------------------
(* The recursive functions of Keyword.                                     *)

State == [keyword: Word, inEscape: BOOLEAN, inClass: BOOLEAN, inGroup: BOOLEAN,
          done: BOOLEAN]

\* A turn of the loop leads from states to states.
LEMMA TurnType ==
    ASSUME NEW st \in State, NEW c \in Chars
    PROVE  Turn(st, c) \in State
  <1>1. Stop(st) \in State /\ StopOrClear(st) \in State /\ Push(st, c) \in State
    <2>1. Append(st.keyword, c) \in Word /\ <<>> \in Word /\ Enough(st) \in BOOLEAN
      BY DEF State, Word, Enough
    <2> HIDE DEF Word
    <2>2. QED
      BY <2>1 DEF State, Stop, StopOrClear, Push
  <1>2. Plainly(st, c) \in State
    BY <1>1 DEF Plainly
  <1>3. ASSUME NEW s \in State, NEW b \in BOOLEAN
        PROVE  /\ [s EXCEPT !.inEscape = b] \in State
               /\ [s EXCEPT !.inClass = b] \in State
               /\ [s EXCEPT !.inGroup = b] \in State
    BY DEF State
  <1>4. Feed(st, c) \in State
    <2>1. CASE st.inEscape
      BY <1>1, <1>3, <2>1 DEF Feed
    <2>2. CASE ~st.inEscape
      <3>1. Chars = Operators \cup Brackets \cup (Chars \ (Operators \cup Brackets))
        BY DEF Chars
      <3>2. Operators \cap Brackets = {}
        BY DEF Operators, Brackets
      <3>3. CASE c \in Brackets
        BY <1>1, <1>3, <2>2, <3>2, <3>3 DEF Feed, Brackets
      <3>4. CASE c \notin Brackets
        <4>1. c \notin {"\\", "[", "]", "(", ")"}
          BY <3>4 DEF Brackets
        <4>2. QED
          BY <1>1, <1>2, <2>2, <3>4, <4>1 DEF Feed
      <3>5. QED
        BY <3>3, <3>4
    <2>3. QED
      BY <2>1, <2>2
  <1>5. QED
    BY <1>4 DEF Turn

\* The loop (scanner.rs:204-257) takes one turn for each character.
LEMMA LoopIs ==
    ASSUME NEW pattern \in Word
    PROVE  /\ Loop(pattern) \in [0..Len(pattern) -> State]
           /\ Loop(pattern)[0] = Start
           /\ \A n \in 1..Len(pattern) :
                Loop(pattern)[n] = Turn(Loop(pattern)[n - 1], pattern[n])
  <1> DEFINE N == Len(pattern)
             g == [n \in 1..N |-> [st \in State |-> Turn(st, pattern[n])]]
             F(f) == [n \in 0..N |-> IF n = 0 THEN Start ELSE Turn(f[n - 1], pattern[n])]
  <1>1. N \in Nat /\ \A n \in 1..N : pattern[n] \in Chars
    BY DEF Word
  <1>2. Start \in State
    BY DEF Start, State, Word
  <1>3. g \in [1..N -> [State -> State]]
    BY <1>1, TurnType
  <1>4. PICK f \in [0..N -> State] : Follows(f, N, Start, g)
    <2> HIDE DEF g, N, F
    <2>1. QED
      BY <1>1, <1>2, <1>3, RecursionExists
  <1>5. f[0] = Start /\ \A n \in 1..N : f[n] = Turn(f[n - 1], pattern[n])
    <2>1. ASSUME NEW n \in 1..N
          PROVE  f[n] = Turn(f[n - 1], pattern[n])
      <3>1. f[n - 1] \in State
        BY <1>1
      <3>2. g[n][f[n - 1]] = Turn(f[n - 1], pattern[n])
        BY <3>1
      <3>3. QED
        BY <1>4, <3>2 DEF Follows
    <2>2. QED
      BY <1>4, <2>1 DEF Follows
  <1>6. f = F(f)
    <2>1. \A n \in 0..N : f[n] = IF n = 0 THEN Start ELSE Turn(f[n - 1], pattern[n])
      BY <1>1, <1>5
    <2>2. QED
      BY <2>1
  <1>7. Loop(pattern) = CHOOSE after : after = F(after)
    BY DEF Loop
  <1> HIDE DEF F
  <1>8. Loop(pattern) = F(Loop(pattern))
    BY <1>6, <1>7
  <1> USE DEF F
  <1>9. /\ DOMAIN Loop(pattern) = 0..N
        /\ \A n \in 0..N : Loop(pattern)[n] =
             IF n = 0 THEN Start ELSE Turn(Loop(pattern)[n - 1], pattern[n])
    <2> DEFINE L == Loop(pattern)
    <2>1. L = [n \in 0..N |-> IF n = 0 THEN Start ELSE Turn(L[n - 1], pattern[n])]
      BY <1>8
    <2> HIDE DEF L, N
    <2>2. /\ DOMAIN L = 0..N
          /\ \A n \in 0..N : L[n] = IF n = 0 THEN Start ELSE Turn(L[n - 1], pattern[n])
      BY <2>1
    <2>3. QED
      BY <2>2 DEF L, N
  <1>10. \A n \in 1..N : Loop(pattern)[n] = Turn(Loop(pattern)[n - 1], pattern[n])
    <2>1. \A n \in 1..N : n \in 0..N /\ n # 0
      BY <1>1
    <2>2. QED
      BY <1>9, <2>1
  <1>11. \A n \in 0..N : Loop(pattern)[n] \in State
    <2> DEFINE G == {n \in 0..N : Loop(pattern)[n] \in State}
    <2>1. 0 \in G
      BY <1>1, <1>2, <1>9
    <2>2. ASSUME NEW n \in 1..N, n - 1 \in G
          PROVE  n \in G
      BY <1>1, <1>10, <2>2, TurnType
    <2> HIDE DEF G, N
    <2>3. \A n \in 0..N : n \in G
      BY <1>1, <2>1, <2>2, Induction
    <2>4. QED
      BY <2>3 DEF G
  <1>12. Loop(pattern)[0] = Start
    BY <1>1, <1>9
  <1>13. Loop(pattern) \in [0..N -> State]
    <2>1. Loop(pattern) = [n \in 0..N |-> Loop(pattern)[n]]
      BY <1>8
    <2> HIDE DEF F, N
    <2>2. QED
      BY <1>11, <2>1
  <1>14. QED
    BY <1>10, <1>12, <1>13

\* What IsPattern says of each item.
LEMMA ItemsAre ==
    ASSUME NEW p, IsPattern(p)
    PROVE  /\ Len(p.items) \in Nat /\ p.anyCase \in BOOLEAN
           /\ \A n \in 1..Len(p.items) : /\ p.items[n].chars \in Word
                                         /\ p.items[n].words \subseteq Word
                                         /\ IsItem(p.items[n])
  <1> DEFINE I == [chars: Word, words: SUBSET Word]
  <1>1. p.items \in Seq(I) /\ p.anyCase \in BOOLEAN
    BY DEF IsPattern
  <1>2. \A n \in 1..Len(p.items) : p.items[n] \in I /\ IsItem(p.items[n])
    <2>1. DOMAIN p.items = 1..Len(p.items)
      BY <1>1
    <2>2. \A n \in 1..Len(p.items) : p.items[n] \in I
      <3> HIDE DEF I
      <3>1. QED
        BY <1>1
    <2>3. \A n \in 1..Len(p.items) : IsItem(p.items[n])
      BY <2>1 DEF IsPattern
    <2>4. QED
      BY <2>2, <2>3
  <1>3. QED
    BY <1>1, <1>2

LEMMA FlagIs == ASSUME NEW p, IsPattern(p) PROVE Flag(p) \in Word
  <1>1. {"(", "?", "i", ")"} \subseteq Chars
    BY DEF Chars, Letters, Literals, Operators, Brackets
  <1>2. QED
    BY <1>1 DEF Flag, Word

\* What is written grows item by item.
LEMMA SpellingIs ==
    ASSUME NEW p, IsPattern(p)
    PROVE  /\ Spelling(p) \in [0..Len(p.items) -> Word]
           /\ Spelling(p)[0] = Flag(p)
           /\ \A n \in 1..Len(p.items) :
                Spelling(p)[n] = Spelling(p)[n - 1] \o p.items[n].chars
  <1> DEFINE N == Len(p.items)
             g == [n \in 1..N |-> [w \in Word |-> w \o p.items[n].chars]]
             F(f) == [n \in 0..N |-> IF n = 0 THEN Flag(p) ELSE f[n - 1] \o p.items[n].chars]
  <1>1. N \in Nat /\ \A n \in 1..N : p.items[n].chars \in Word
    BY ItemsAre
  <1>2. Flag(p) \in Word
    BY FlagIs
  <1>3. g \in [1..N -> [Word -> Word]]
    BY <1>1, Concat
  <1>4. PICK f \in [0..N -> Word] : Follows(f, N, Flag(p), g)
    <2> HIDE DEF g, N, F
    <2>1. QED
      BY <1>1, <1>2, <1>3, RecursionExists
  <1>5. f[0] = Flag(p) /\ \A n \in 1..N : f[n] = f[n - 1] \o p.items[n].chars
    <2>1. ASSUME NEW n \in 1..N
          PROVE  f[n] = f[n - 1] \o p.items[n].chars
      <3>1. f[n - 1] \in Word
        BY <1>1
      <3>2. g[n][f[n - 1]] = f[n - 1] \o p.items[n].chars
        BY <3>1
      <3>3. QED
        BY <1>4, <3>2 DEF Follows
    <2>2. QED
      BY <1>4, <2>1 DEF Follows
  <1>6. f = F(f)
    <2>1. \A n \in 0..N : f[n] = IF n = 0 THEN Flag(p) ELSE f[n - 1] \o p.items[n].chars
      <3>1. \A n \in 0..N : n # 0 => n \in 1..N
        BY <1>1
      <3> HIDE DEF N
      <3>2. QED
        BY <1>5, <3>1
    <2>2. QED
      BY <2>1
  <1>7. Spelling(p) = CHOOSE upTo : upTo = F(upTo)
    BY DEF Spelling
  <1> HIDE DEF F
  <1>8. Spelling(p) = F(Spelling(p))
    BY <1>6, <1>7
  <1> DEFINE L == Spelling(p)
  <1>9. L = [n \in 0..N |-> IF n = 0 THEN Flag(p) ELSE L[n - 1] \o p.items[n].chars]
    BY <1>8 DEF F
  <1> HIDE DEF L, N
  <1>10. /\ L = [n \in 0..N |-> L[n]]
         /\ \A n \in 0..N : L[n] = IF n = 0 THEN Flag(p) ELSE L[n - 1] \o p.items[n].chars
    BY <1>9
  <1>11. L[0] = Flag(p) /\ \A n \in 1..N : L[n] = L[n - 1] \o p.items[n].chars
    <2>1. \A n \in 1..N : n \in 0..N /\ n # 0
      BY <1>1
    <2>2. QED
      BY <1>1, <1>10, <2>1
  <1>12. \A n \in 0..N : L[n] \in Word
    <2> DEFINE G == {n \in 0..N : L[n] \in Word}
    <2>1. 0 \in G
      BY <1>1, <1>2, <1>11
    <2>2. ASSUME NEW n \in 1..N, n - 1 \in G
          PROVE  n \in G
      <3>1. n \in 0..N /\ L[n - 1] \in Word
        BY <1>1, <2>2
      <3>2. L[n] \in Word
        BY <1>1, <1>11, <3>1, Concat
      <3>3. QED
        BY <3>1, <3>2
    <2> HIDE DEF G
    <2>3. \A n \in 0..N : n \in G
      BY <1>1, <2>1, <2>2, Induction
    <2>4. QED
      BY <2>3 DEF G
  <1>13. L \in [0..N -> Word]
    BY <1>10, <1>12
  <1>14. QED
    BY <1>11, <1>13 DEF L, N

(* u is a word of V and a word of W.                                       *)
Joined(u, V, W) == \E v \in V, w \in W : u = v \o w

\* Each word of n items is one of n - 1 items and one of the next.
LEMMA MatchingIs ==
    ASSUME NEW p, IsPattern(p)
    PROVE  /\ Matching(p) \in [0..Len(p.items) -> SUBSET Word]
           /\ Matching(p)[0] = {<<>>}
           /\ \A n \in 1..Len(p.items) :
                \A u \in Matching(p)[n] : Joined(u, Matching(p)[n - 1], p.items[n].words)
  <1> DEFINE N == Len(p.items)
             Both(V, W) == {v \o w : v \in V, w \in W}
             g == [n \in 1..N |-> [V \in SUBSET Word |-> Both(V, p.items[n].words)]]
             F(f) == [n \in 0..N |->
                         IF n = 0 THEN {<<>>} ELSE Both(f[n - 1], p.items[n].words)]
  <1>1. N \in Nat /\ \A n \in 1..N : p.items[n].words \in SUBSET Word
    BY ItemsAre
  <1>2. {<<>>} \in SUBSET Word
    BY DEF Word
  <1>3. \A V, W \in SUBSET Word : Both(V, W) \in SUBSET Word
    <2>1. ASSUME NEW V \in SUBSET Word, NEW W \in SUBSET Word, NEW u \in Both(V, W)
          PROVE  u \in Word
      <3>1. PICK v \in V, w \in W : u = v \o w
        OBVIOUS
      <3>2. v \in Word /\ w \in Word
        OBVIOUS
      <3>3. QED
        BY <3>1, <3>2, Concat
    <2> HIDE DEF Both
    <2>2. QED
      BY <2>1
  <1> HIDE DEF Both
  <1>4. g \in [1..N -> [SUBSET Word -> SUBSET Word]]
    BY <1>1, <1>3
  <1>5. PICK f \in [0..N -> SUBSET Word] : Follows(f, N, {<<>>}, g)
    <2> HIDE DEF g, N, F
    <2>1. QED
      BY <1>1, <1>2, <1>4, RecursionExists
  <1>6. f[0] = {<<>>} /\ \A n \in 1..N : f[n] = Both(f[n - 1], p.items[n].words)
    <2>1. ASSUME NEW n \in 1..N
          PROVE  f[n] = Both(f[n - 1], p.items[n].words)
      <3>1. f[n - 1] \in SUBSET Word
        BY <1>1
      <3>2. g[n][f[n - 1]] = Both(f[n - 1], p.items[n].words)
        BY <3>1
      <3>3. QED
        BY <1>5, <3>2 DEF Follows
    <2>2. QED
      BY <1>5, <2>1 DEF Follows
  <1>7. f = F(f)
    <2>1. \A n \in 0..N : f[n] = IF n = 0 THEN {<<>>} ELSE Both(f[n - 1], p.items[n].words)
      <3>1. \A n \in 0..N : n # 0 => n \in 1..N
        BY <1>1
      <3> HIDE DEF N
      <3>2. QED
        BY <1>6, <3>1
    <2>2. QED
      BY <2>1
  <1>8. Matching(p) = CHOOSE upTo : upTo = F(upTo)
    BY DEF Matching, Both
  <1> HIDE DEF F
  <1>9. Matching(p) = F(Matching(p))
    BY <1>7, <1>8
  <1> DEFINE L == Matching(p)
  <1>10. L = [n \in 0..N |-> IF n = 0 THEN {<<>>} ELSE Both(L[n - 1], p.items[n].words)]
    BY <1>9 DEF F
  <1> HIDE DEF L, N
  <1>11. /\ L = [n \in 0..N |-> L[n]]
         /\ \A n \in 0..N : L[n] = IF n = 0 THEN {<<>>} ELSE Both(L[n - 1], p.items[n].words)
    BY <1>10
  <1>12. L[0] = {<<>>} /\ \A n \in 1..N : L[n] = Both(L[n - 1], p.items[n].words)
    <2>1. 0 \in 0..N /\ \A n \in 1..N : n \in 0..N /\ n # 0
      BY <1>1
    <2>2. L[0] = {<<>>}
      BY <1>11, <2>1
    <2>3. \A n \in 1..N : L[n] = Both(L[n - 1], p.items[n].words)
      BY <1>11, <2>1
    <2>4. QED
      BY <2>2, <2>3
  <1>13. \A n \in 0..N : L[n] \in SUBSET Word
    <2> DEFINE G == {n \in 0..N : L[n] \in SUBSET Word}
    <2>1. 0 \in G
      BY <1>1, <1>2, <1>12
    <2>2. ASSUME NEW n \in 1..N, n - 1 \in G
          PROVE  n \in G
      <3>1. n \in 0..N /\ L[n - 1] \in SUBSET Word
        BY <1>1, <2>2
      <3>2. L[n] \in SUBSET Word
        BY <1>1, <1>3, <1>12, <3>1
      <3>3. QED
        BY <3>1, <3>2
    <2> HIDE DEF G
    <2>3. \A n \in 0..N : n \in G
      BY <1>1, <2>1, <2>2, Induction
    <2>4. QED
      BY <2>3 DEF G
  <1>14. L \in [0..N -> SUBSET Word]
    BY <1>11, <1>13
  <1>15. ASSUME NEW n \in 1..N, NEW u \in L[n]
         PROVE  Joined(u, L[n - 1], p.items[n].words)
    <2>1. u \in Both(L[n - 1], p.items[n].words)
      BY <1>12
    <2>2. ASSUME NEW V, NEW W, u \in Both(V, W)
          PROVE  Joined(u, V, W)
      BY <2>2 DEF Both, Joined
    <2>3. QED
      BY <2>1, <2>2
  <1>16. QED
    <2>1. L \in [0..N -> SUBSET Word] /\ L[0] = {<<>>}
      BY <1>12, <1>14
    <2>2. \A n \in 1..N : \A u \in L[n] : Joined(u, L[n - 1], p.items[n].words)
      BY <1>15
    <2>3. QED
      BY <2>1, <2>2, Zenon DEF L, N

-----------------------------------------------------------------------------
(* The loop on the literals that a pattern begins with.                    *)

\* A literal item has one letter, which is all it matches.
LEMMA PlainIs ==
    ASSUME NEW item \in Plain
    PROVE  /\ LetterOf(item) \in Literals
           /\ item.words = {<<LetterOf(item)>>}
           /\ \/ item.chars = <<LetterOf(item)>>
              \/ item.chars = <<"\\", ".">> /\ LetterOf(item) = "."
  <1>1. ASSUME NEW c, item.words = {<<c>>}
        PROVE  LetterOf(item) = c
    <2>1. (CHOOSE w \in item.words : TRUE) = <<c>>
      BY <1>1
    <2>2. LetterOf(item) = <<c>>[1]
      BY <2>1, Zenon DEF LetterOf
    <2>3. QED
      BY <2>2
  <1>2. CASE item = Dot
    <2>1. item.words = {<<".">>} /\ item.chars = <<"\\", ".">>
      BY <1>2 DEF Dot
    <2>2. QED
      BY <1>1, <2>1 DEF Literals
  <1>3. CASE item # Dot
    <2>1. PICK c \in Literals : item = Literal(c)
      BY <1>3 DEF Plain
    <2>2. item.words = {<<c>>} /\ item.chars = <<c>>
      BY <2>1 DEF Literal
    <2>3. QED
      BY <1>1, <2>2
  <1>4. QED
    BY <1>2, <1>3

\* The lead ends at the first item that is no literal.
LEMMA LeadIs ==
    ASSUME NEW p, IsPattern(p)
    PROVE  /\ LeadLen(p) \in 0..Len(p.items)
           /\ \A i \in 1..LeadLen(p) : p.items[i] \in Plain
           /\ LeadLen(p) < Len(p.items) => p.items[LeadLen(p) + 1] \notin Plain
  <1> DEFINE N == Len(p.items)
             ends == {n \in 0..N : \A i \in 1..n : p.items[i] \in Plain}
  <1>1. N \in Nat
    BY ItemsAre
  <1>2. 0 \in ends
    BY <1>1
  <1>3. \E n \in ends : \A m \in ends : m <= n
    <2>1. ends \subseteq 0..N
      OBVIOUS
    <2> HIDE DEF ends, N
    <2>2. QED
      BY <1>1, <1>2, <2>1, GreatestExists
  <1>4. LeadLen(p) = CHOOSE n \in ends : \A m \in ends : m <= n
    BY DEF LeadLen
  <1>5. LeadLen(p) \in ends /\ \A m \in ends : m <= LeadLen(p)
    <2> HIDE DEF ends, N
    <2>1. QED
      BY <1>3, <1>4, Zenon
  <1>6. ASSUME LeadLen(p) < N, p.items[LeadLen(p) + 1] \in Plain
        PROVE  FALSE
    <2>1. LeadLen(p) + 1 \in 0..N
      BY <1>1, <1>5, <1>6
    <2>2. \A i \in 1..(LeadLen(p) + 1) : i = LeadLen(p) + 1 \/ i \in 1..LeadLen(p)
      BY <1>1, <1>5
    <2>3. LeadLen(p) + 1 \in ends
      BY <1>5, <1>6, <2>1, <2>2
    <2>4. LeadLen(p) + 1 <= LeadLen(p)
      BY <1>5, <2>3
    <2>5. QED
      BY <1>1, <1>5, <2>4
  <1>7. QED
    BY <1>5, <1>6

(* The first n letters.                                                    *)
LeadUpTo(p, n) == [i \in 1..n |-> LetterOf(p.items[i])]

\* The first n letters are n letters, and grow by one.
LEMMA LeadUpToIs ==
    ASSUME NEW p, IsPattern(p), NEW n \in 0..LeadLen(p)
    PROVE  /\ LeadUpTo(p, n) \in Word /\ Len(LeadUpTo(p, n)) = n
           /\ \A i \in 1..n : LeadUpTo(p, n)[i] = LetterOf(p.items[i])
  <1>1. n \in Nat /\ \A i \in 1..n : i \in 1..LeadLen(p)
    BY LeadIs, ItemsAre
  <1>2. \A i \in 1..n : LetterOf(p.items[i]) \in Chars
    BY <1>1, LeadIs, PlainIs DEF Chars, Letters
  <1>3. QED
    BY <1>1, <1>2 DEF LeadUpTo, Word

LEMMA LeadGrows ==
    ASSUME NEW p, IsPattern(p), NEW n \in 1..LeadLen(p)
    PROVE  LeadUpTo(p, n) = Append(LeadUpTo(p, n - 1), LetterOf(p.items[n]))
  <1>0. n \in Nat /\ n - 1 \in 0..LeadLen(p) /\ n \in 0..LeadLen(p)
    BY LeadIs, ItemsAre
  <1> DEFINE s == LeadUpTo(p, n - 1)
  <1>1. s \in Seq(Chars) /\ Len(s) = n - 1
        /\ \A i \in 1..(n - 1) : s[i] = LetterOf(p.items[i])
    BY <1>0, LeadUpToIs DEF Word
  <1> HIDE DEF s
  <1>2. Append(s, LetterOf(p.items[n])) =
          [i \in 1..n |-> IF i = n THEN LetterOf(p.items[n]) ELSE s[i]]
    BY <1>0, <1>1
  <1>3. \A i \in 1..n : i # n => i \in 1..(n - 1)
    BY <1>0
  <1>4. \A i \in 1..n : LetterOf(p.items[i]) = IF i = n THEN LetterOf(p.items[n]) ELSE s[i]
    BY <1>1, <1>3
  <1>5. QED
    BY <1>2, <1>4 DEF LeadUpTo, s

(* What is written begins with what is written up to an item.              *)
LEMMA WrittenBegins ==
    ASSUME NEW p, IsPattern(p)
    PROVE  /\ Written(p) \in Word
           /\ \A n \in 0..Len(p.items) : Begins(Written(p), Spelling(p)[n])
  <1> DEFINE N == Len(p.items)
             sp == Spelling(p)
             G == {k \in 0..N : Begins(sp[N], sp[N - k])}
  <1>1. /\ N \in Nat
        /\ \A n \in 0..N : sp[n] \in Word
        /\ \A n \in 1..N : sp[n] = sp[n - 1] \o p.items[n].chars /\ p.items[n].chars \in Word
    BY ItemsAre, SpellingIs
  <1> HIDE DEF N, sp
  <1>2. 0 \in G
    <2>1. 0 \in 0..N /\ N - 0 = N
      BY <1>1
    <2>2. Len(sp[N]) \in Nat
      BY <1>1 DEF Word
    <2>3. QED
      BY <2>1, <2>2 DEF Begins
  <1>3. ASSUME NEW k \in 1..N, k - 1 \in G
        PROVE  k \in G
    <2>1. /\ k \in 0..N /\ N - k \in 0..N /\ N - (k - 1) \in 1..N
          /\ (N - (k - 1)) - 1 = N - k /\ N \in 0..N
      BY <1>1
    <2>2. sp[N - (k - 1)] = sp[N - k] \o p.items[N - (k - 1)].chars
      BY <1>1, <2>1
    <2>3. Begins(sp[N], sp[N - (k - 1)])
      BY <1>3
    <2>4. sp[N] \in Word /\ sp[N - k] \in Word /\ p.items[N - (k - 1)].chars \in Word
      BY <1>1, <2>1
    <2>5. Begins(sp[N], sp[N - k])
      BY <2>2, <2>3, <2>4, BeginsConcat, Zenon
    <2>6. QED
      BY <2>1, <2>5
  <1>4. \A k \in 0..N : Begins(sp[N], sp[N - k])
    <2>1. \A k \in 0..N : k \in G
      <3> HIDE DEF G
      <3>1. QED
        BY <1>1, <1>2, <1>3, Induction
    <2>2. QED
      BY <2>1
  <1>5. ASSUME NEW n \in 0..N
        PROVE  Begins(sp[N], sp[n])
    <2>1. N - n \in 0..N /\ N - (N - n) = n
      BY <1>1
    <2>2. QED
      BY <1>4, <2>1
  <1>6. sp[N] \in Word
    BY <1>1
  <1>7. QED
    BY <1>5, <1>6 DEF Written, N, sp

\* The characters of an item come after those of the items before it.
LEMMA ItemIsWritten ==
    ASSUME NEW p, IsPattern(p), NEW n \in 1..Len(p.items)
    PROVE  /\ After(Written(p), Len(Spelling(p)[n - 1]), p.items[n].chars)
           /\ Len(Spelling(p)[n]) = Len(Spelling(p)[n - 1]) + Len(p.items[n].chars)
  <1>1. n \in 0..Len(p.items) /\ n - 1 \in 0..Len(p.items)
    BY ItemsAre
  <1>2. /\ Spelling(p)[n] = Spelling(p)[n - 1] \o p.items[n].chars
        /\ Spelling(p)[n - 1] \in Word /\ p.items[n].chars \in Word
    BY <1>1, SpellingIs, ItemsAre
  <1>3. Begins(Written(p), Spelling(p)[n]) /\ Written(p) \in Word
    BY <1>1, WrittenBegins
  <1>4. After(Written(p), Len(Spelling(p)[n - 1]), p.items[n].chars)
    BY <1>2, <1>3, BeginsAfter
  <1>5. Len(Spelling(p)[n]) = Len(Spelling(p)[n - 1]) + Len(p.items[n].chars)
    BY <1>2, Concat
  <1>6. QED
    BY <1>4, <1>5

(* The loop has keyword w and is outside of everything, or in an escape;   *)
(* it is in a class or group with no keyword yet; or it has stopped.       *)
Idle(st) == st \in State /\ ~st.done /\ ~st.inEscape
Outside(st, w) == Idle(st) /\ ~st.inClass /\ ~st.inGroup /\ st.keyword = w
Escaped(st, w) ==
    st \in State /\ ~st.done /\ st.inEscape /\ ~st.inClass /\ ~st.inGroup /\ st.keyword = w
Grouped(st) == Idle(st) /\ ~st.inClass /\ st.inGroup /\ st.keyword = <<>>
Stopped(st, w) == st \in State /\ st.done /\ st.keyword = w
Long(w) == Len(w) >= MinLength

\* break and keyword.clear() (scanner.rs:214-219, 242-247).
LEMMA StopIs ==
    ASSUME NEW st \in State, NEW w \in Word, Outside(st, w)
    PROVE  /\ Stop(st) \in State /\ StopOrClear(st) \in State
           /\ Stop(st).keyword = w
           /\ Stop(st).done <=> Long(w)
           /\ ~Stop(st).inEscape /\ ~Stop(st).inClass /\ ~Stop(st).inGroup
           /\ Long(w) => StopOrClear(st).done /\ StopOrClear(st).keyword = w
  <1>1. st.keyword = w /\ Enough(st) \in BOOLEAN /\ (Enough(st) <=> Long(w))
    BY DEF Enough, Long, Outside
  <1>2. <<>> \in Word
    BY DEF Word
  <1>3. QED
    BY <1>1, <1>2 DEF Stop, StopOrClear, State, Outside, Idle

\* The last arms of the match (scanner.rs:248-255).
LEMMA LetterTurn ==
    ASSUME NEW st \in State, NEW w \in Word, Outside(st, w), NEW c \in Letters
    PROVE  /\ c \in Literals => Outside(Turn(st, c), Append(w, c))
           /\ Long(w) /\ c \notin Literals => Stopped(Turn(st, c), w)
  <1>1. c \notin Operators \cup Brackets /\ c \notin {"\\", "[", "]", "(", ")"}
    BY DEF Letters, Literals, Operators, Brackets
  <1>2. Turn(st, c) = Plainly(st, c)
    BY <1>1 DEF Turn, Feed, Outside, Idle
  <1>3. Plainly(st, c) = IF c \in Literals THEN Push(st, c) ELSE Stop(st)
    BY DEF Plainly, Outside, Idle
  <1>4. Outside(Push(st, c), Append(w, c))
    <2>1. Append(st.keyword, c) \in Word
      <3>1. c \in Chars /\ st.keyword \in Word
        BY DEF State, Chars
      <3>2. QED
        BY <3>1 DEF Word
    <2>2. QED
      BY <2>1 DEF Push, Outside, Idle, State
  <1>5. QED
    BY <1>2, <1>3, <1>4, StopIs DEF Stopped

\* An escape begins, and its character is pushed or stops (scanner.rs:211-227).
LEMMA EscapeTurn ==
    ASSUME NEW st \in State, NEW w \in Word, Outside(st, w)
    PROVE  Escaped(Turn(st, "\\"), w)
  <1>1. Turn(st, "\\") = [st EXCEPT !.inEscape = TRUE]
    <2>1. "\\" \notin Operators
      BY DEF Operators
    <2>2. QED
      BY <2>1 DEF Turn, Feed, Outside, Idle, Brackets
  <1>2. QED
    BY <1>1 DEF Outside, Idle, Escaped, State

LEMMA EscapedTurn ==
    ASSUME NEW st \in State, NEW w \in Word, Escaped(st, w)
    PROVE  /\ Outside(Turn(st, "."), Append(w, "."))
           /\ Long(w) => Stopped(Turn(st, "d"), w)
  <1>1. Turn(st, ".") = [Push(st, ".") EXCEPT !.inEscape = FALSE]
    BY DEF Turn, Feed, Escaped, ClassEscapes
  <1>2. Turn(st, "d") = [StopOrClear(st) EXCEPT !.inEscape = FALSE]
    BY DEF Turn, Feed, Escaped, ClassEscapes
  <1>3. Append(st.keyword, ".") \in Word
    <2>1. "." \in Chars /\ st.keyword \in Word
      BY DEF State, Chars, Letters, Literals
    <2>2. QED
      BY <2>1 DEF Word
  <1>4. /\ Push(st, ".") \in State /\ Push(st, ".").keyword = Append(w, ".")
        /\ ~Push(st, ".").inClass /\ ~Push(st, ".").inGroup /\ ~Push(st, ".").done
    BY <1>3 DEF Push, State, Escaped
  <1>5. ASSUME Long(w)
        PROVE  /\ StopOrClear(st) \in State /\ StopOrClear(st).keyword = w
               /\ StopOrClear(st).done
    BY <1>5 DEF StopOrClear, Enough, Long, State, Escaped
  <1>6. ASSUME NEW t \in State
        PROVE  LET u == [t EXCEPT !.inEscape = FALSE]
               IN  /\ u \in State /\ ~u.inEscape /\ u.keyword = t.keyword
                   /\ u.inClass = t.inClass /\ u.inGroup = t.inGroup /\ u.done = t.done
    BY DEF State
  <1>7. Outside(Turn(st, "."), Append(w, "."))
    BY <1>1, <1>4, <1>6 DEF Outside, Idle
  <1>8. Long(w) => Stopped(Turn(st, "d"), w)
    BY <1>2, <1>5, <1>6 DEF Stopped
  <1>9. QED
    BY <1>7, <1>8

(* What comes after a literal that is long enough stops the loop.          *)
LEMMA StoppingTurn ==
    ASSUME NEW st \in State, NEW w \in Word, Outside(st, w), Long(w),
           NEW c \in Operators \cup {"[", "("}
    PROVE  Stopped(Turn(st, c), w)
  <1>1. CASE c \in Operators
    <2>1. c \notin {"\\", "[", "]", "(", ")"}
      BY <1>1 DEF Operators
    <2>2. Turn(st, c) = StopOrClear(st)
      BY <1>1, <2>1 DEF Turn, Feed, Outside, Idle
    <2>3. QED
      BY <2>2, StopIs DEF Stopped
  <1>2. CASE c \in {"[", "("}
    <2>1. Turn(st, c) = [Stop(st) EXCEPT !.inClass = TRUE]
          \/ Turn(st, c) = [Stop(st) EXCEPT !.inGroup = TRUE]
      BY <1>2 DEF Turn, Feed, Outside, Idle, Operators, Brackets
    <2>2. ASSUME NEW t \in State, t.done, t.keyword = w
          PROVE  Stopped([t EXCEPT !.inClass = TRUE], w) /\ Stopped([t EXCEPT !.inGroup = TRUE], w)
      BY <2>2 DEF State, Stopped
    <2>3. QED
      BY <2>1, <2>2, StopIs
  <1>3. QED
    BY <1>1, <1>2

\* After the break nothing changes.
LEMMA StoppedTurn ==
    ASSUME NEW st, NEW w, Stopped(st, w), NEW c
    PROVE  Stopped(Turn(st, c), w)
  BY DEF Stopped, Turn

\* In a group nothing is pushed (scanner.rs:235-248).
LEMMA GroupTurns ==
    ASSUME NEW st \in State
    PROVE  /\ Outside(st, <<>>) => Grouped(Turn(st, "("))
           /\ Grouped(st) => /\ Grouped(Turn(st, "?")) /\ Grouped(Turn(st, "i"))
                             /\ Outside(Turn(st, ")"), <<>>)
  <1>0. <<>> \in Word /\ ~Long(<<>>)
    BY KeywordAssumption DEF Word, Long
  <1>1. ASSUME Outside(st, <<>>)
        PROVE  Grouped(Turn(st, "("))
    <2>1. Turn(st, "(") = [Stop(st) EXCEPT !.inGroup = TRUE]
      BY <1>1 DEF Turn, Feed, Outside, Idle, Operators, Brackets
    <2>2. /\ Stop(st) \in State /\ Stop(st).keyword = <<>> /\ ~Stop(st).done
          /\ ~Stop(st).inEscape /\ ~Stop(st).inClass
      BY <1>0, <1>1, StopIs
    <2>3. QED
      BY <2>1, <2>2 DEF Grouped, Idle, State
  <1>2. ASSUME Grouped(st)
        PROVE  /\ Grouped(Turn(st, "?")) /\ Grouped(Turn(st, "i"))
               /\ Outside(Turn(st, ")"), <<>>)
    <2>1. /\ "?" \in Operators /\ "?" \notin Brackets
          /\ "i" \notin Operators \cup Brackets /\ ")" \notin Operators
      BY DEF Operators, Brackets
    <2>2. Turn(st, "?") = StopOrClear(st)
      BY <1>2, <2>1 DEF Turn, Feed, Grouped, Idle, Brackets
    <2>3. Turn(st, "i") = st
      BY <1>2, <2>1 DEF Turn, Feed, Plainly, Grouped, Idle, Brackets
    <2>4. Turn(st, ")") = [st EXCEPT !.inGroup = FALSE]
      BY <1>2, <2>1 DEF Turn, Feed, Grouped, Idle, Brackets
    <2>5. Grouped(StopOrClear(st))
      BY <1>0, <1>2 DEF StopOrClear, Enough, Long, Grouped, Idle, State
    <2>6. Outside([st EXCEPT !.inGroup = FALSE], <<>>)
      BY <1>2 DEF Grouped, Outside, Idle, State
    <2>7. QED
      BY <1>2, <2>2, <2>3, <2>4, <2>5, <2>6
  <1>3. QED
    BY <1>1, <1>2

\* The loop on a word that s has after k characters.
LEMMA LoopAfter ==
    ASSUME NEW s \in Word, NEW k \in Nat, NEW w \in Word, After(s, k, w), NEW i \in 1..Len(w)
    PROVE  /\ Loop(s)[k + i] = Turn(Loop(s)[(k + i) - 1], w[i])
           /\ k + i \in 0..Len(s) /\ (k + i) - 1 \in 0..Len(s)
  <1>1. Len(w) \in Nat /\ Len(s) \in Nat /\ k + Len(w) <= Len(s) /\ s[k + i] = w[i]
    BY DEF After, Word
  <1>2. k + i \in 1..Len(s) /\ k + i \in 0..Len(s) /\ (k + i) - 1 \in 0..Len(s)
    BY <1>1
  <1>3. QED
    BY <1>1, <1>2, LoopIs

\* A literal item pushes its letter.
LEMMA PlainTurns ==
    ASSUME NEW s \in Word, NEW k \in Nat, NEW item \in Plain, item.chars \in Word,
           After(s, k, item.chars), NEW w \in Word, Outside(Loop(s)[k], w)
    PROVE  Outside(Loop(s)[k + Len(item.chars)], Append(w, LetterOf(item)))
  <1> DEFINE c == LetterOf(item)
  <1>1. /\ c \in Literals
        /\ item.chars = <<c>> \/ (item.chars = <<"\\", ".">> /\ c = ".")
    BY PlainIs
  <1>2. /\ Loop(s)[k] \in State
        /\ \A i \in 1..Len(item.chars) :
             Loop(s)[k + i] = Turn(Loop(s)[(k + i) - 1], item.chars[i])
    BY LoopAfter DEF Outside, Idle
  <1> HIDE DEF c
  <1>3. CASE item.chars = <<c>>
    <2>1. Len(item.chars) = 1 /\ item.chars[1] = c /\ (k + 1) - 1 = k /\ 1 \in 1..1
      BY <1>3
    <2>2. Loop(s)[k + 1] = Turn(Loop(s)[k], c)
      BY <1>2, <2>1
    <2>3. c \in Letters
      BY <1>1 DEF Letters
    <2>4. QED
      BY <1>1, <1>2, <2>1, <2>2, <2>3, LetterTurn DEF c
  <1>4. CASE item.chars = <<"\\", ".">> /\ c = "."
    <2>1. /\ Len(item.chars) = 2 /\ item.chars[1] = "\\" /\ item.chars[2] = "."
          /\ (k + 1) - 1 = k /\ (k + 2) - 1 = k + 1 /\ 1 \in 1..2 /\ 2 \in 1..2
      BY <1>4
    <2>2. \A i \in 1..2 : Loop(s)[k + i] = Turn(Loop(s)[(k + i) - 1], item.chars[i])
      BY <1>2, <2>1
    <2>3. /\ Loop(s)[k + 1] = Turn(Loop(s)[k], "\\")
          /\ Loop(s)[k + 2] = Turn(Loop(s)[k + 1], ".")
      BY <2>1, <2>2
    <2>4. Escaped(Loop(s)[k + 1], w)
      BY <1>2, <2>3, EscapeTurn
    <2>5. Loop(s)[k + 1] \in State
      BY <2>4 DEF Escaped
    <2>6. QED
      BY <1>4, <2>1, <2>3, <2>4, <2>5, EscapedTurn DEF c
  <1>5. QED
    BY <1>1, <1>3, <1>4

(* (?i) leaves nothing behind.                                             *)
LEMMA FlagTurns ==
    ASSUME NEW p, IsPattern(p)
    PROVE  Outside(Loop(Written(p))[Len(Flag(p))], <<>>)
  <1> DEFINE s == Written(p)
  <1>1. s \in Word /\ Begins(s, Flag(p)) /\ Flag(p) \in Word
    <2>1. 0 \in 0..Len(p.items)
      BY ItemsAre
    <2>2. QED
      BY <2>1, WrittenBegins, SpellingIs, FlagIs
  <1> HIDE DEF s
  <1>2. After(s, 0, Flag(p))
    BY <1>1 DEF Begins, After, Word
  <1>3. Loop(s)[0] = Start /\ Outside(Start, <<>>)
    BY <1>1, LoopIs DEF Start, Outside, Idle, State, Word
  <1>4. CASE ~p.anyCase
    <2>1. Flag(p) = <<>>
      BY <1>4 DEF Flag
    <2>2. QED
      BY <1>3, <2>1 DEF s
  <1>5. CASE p.anyCase
    <2>1. Flag(p) = <<"(", "?", "i", ")">>
      BY <1>5 DEF Flag
    <2>2. /\ Len(Flag(p)) = 4 /\ 1 \in 1..4 /\ 2 \in 1..4 /\ 3 \in 1..4 /\ 4 \in 1..4
          /\ Flag(p)[1] = "(" /\ Flag(p)[2] = "?" /\ Flag(p)[3] = "i" /\ Flag(p)[4] = ")"
      BY <2>1
    <2>3. /\ Loop(s)[1] = Turn(Loop(s)[0], "(")
          /\ Loop(s)[2] = Turn(Loop(s)[1], "?")
          /\ Loop(s)[3] = Turn(Loop(s)[2], "i")
          /\ Loop(s)[4] = Turn(Loop(s)[3], ")")
      <3>1. \A i \in 1..4 : Loop(s)[0 + i] = Turn(Loop(s)[(0 + i) - 1], Flag(p)[i])
        BY <1>1, <1>2, <2>2, LoopAfter
      <3>2. QED
        BY <2>2, <3>1
    <2>4. Grouped(Loop(s)[1])
      BY <1>3, <2>3, GroupTurns DEF Outside, Idle
    <2>5. Grouped(Loop(s)[2])
      BY <2>3, <2>4, GroupTurns DEF Grouped, Idle
    <2>6. Grouped(Loop(s)[3])
      BY <2>3, <2>5, GroupTurns DEF Grouped, Idle
    <2>7. Outside(Loop(s)[4], <<>>)
      BY <2>3, <2>6, GroupTurns DEF Grouped, Idle
    <2>8. QED
      BY <2>2, <2>7 DEF s
  <1>6. QED
    BY <1>4, <1>5, ItemsAre

\* After n literals the keyword is their letters.
LEMMA LoopLead ==
    ASSUME NEW p, IsPattern(p), NEW n \in 0..LeadLen(p)
    PROVE  Outside(Loop(Written(p))[Len(Spelling(p)[n])], LeadUpTo(p, n))
  <1> DEFINE L == LeadLen(p)
             There(m) == Outside(Loop(Written(p))[Len(Spelling(p)[m])], LeadUpTo(p, m))
             G == {m \in 0..L : There(m)}
  <1>1. L \in Nat /\ L <= Len(p.items) /\ Len(p.items) \in Nat /\ Written(p) \in Word
    BY LeadIs, ItemsAre, WrittenBegins
  <1>2. There(0)
    <2>1. LeadUpTo(p, 0) = <<>>
      BY DEF LeadUpTo
    <2>2. QED
      BY <2>1, SpellingIs, FlagTurns
  <1>3. ASSUME NEW m \in 1..L, There(m - 1)
        PROVE  There(m)
    <2> DEFINE k == Len(Spelling(p)[m - 1])
               item == p.items[m]
               w == LeadUpTo(p, m - 1)
    <2>1. m \in 1..Len(p.items) /\ m - 1 \in 0..L
      BY <1>1
    <2>2. item \in Plain /\ item.chars \in Word
      BY <2>1, LeadIs, ItemsAre
    <2>3. w \in Word
      BY <2>1, LeadUpToIs
    <2>4. LeadUpTo(p, m) = Append(w, LetterOf(item))
      BY LeadGrows
    <2>5. After(Written(p), k, item.chars) /\ Len(Spelling(p)[m]) = k + Len(item.chars)
      BY <2>1, ItemIsWritten
    <2>6. k \in Nat
      BY <2>5 DEF After
    <2>7. Outside(Loop(Written(p))[k], w)
      BY <1>3
    <2> HIDE DEF k, item, w
    <2>8. Outside(Loop(Written(p))[k + Len(item.chars)], Append(w, LetterOf(item)))
      BY <1>1, <2>2, <2>3, <2>5, <2>6, <2>7, PlainTurns
    <2>9. QED
      BY <2>4, <2>5, <2>8
  <1> HIDE DEF There
  <1>4. \A m \in 0..L : m \in G
    <2>1. 0 \in G
      BY <1>1, <1>2
    <2>2. \A m \in 1..L : m - 1 \in G => m \in G
      BY <1>1, <1>3
    <2> HIDE DEF G, L
    <2>3. QED
      BY <1>1, <2>1, <2>2, Induction
  <1>5. QED
    BY <1>4 DEF There

LEMMA StaysStopped ==
    ASSUME NEW s \in Word, NEW k \in 0..Len(s), NEW w, Stopped(Loop(s)[k], w)
    PROVE  Stopped(Loop(s)[Len(s)], w)
  <1> DEFINE N == Len(s) - k
             G == {j \in 0..N : Stopped(Loop(s)[k + j], w)}
  <1>1. Len(s) \in Nat /\ N \in Nat /\ k + N = Len(s) /\ k + 0 = k
    BY DEF Word
  <1>2. 0 \in G
    BY <1>1
  <1>3. ASSUME NEW j \in 1..N, j - 1 \in G
        PROVE  j \in G
    <2>1. k + j \in 1..Len(s) /\ (k + j) - 1 = k + (j - 1) /\ j \in 0..N
      BY <1>1
    <2>2. Loop(s)[k + j] = Turn(Loop(s)[(k + j) - 1], s[k + j])
      BY <2>1, LoopIs
    <2>3. Stopped(Loop(s)[k + j], w)
      BY <1>3, <2>1, <2>2, StoppedTurn
    <2>4. QED
      BY <2>1, <2>3
  <1>4. \A j \in 0..N : j \in G
    <2> HIDE DEF G, N
    <2>1. QED
      BY <1>1, <1>2, <1>3, Induction
  <1>5. QED
    BY <1>1, <1>4

(* An item that is no literal and cannot be left out stops the loop; only  *)
(* Twice adds a character before.                                          *)
LEMMA NextItem ==
    ASSUME NEW s \in Word, NEW k \in Nat, NEW item, IsItem(item), item \notin Plain,
           item.chars \in Word, item.words \subseteq Word, <<>> \notin item.words,
           After(s, k, item.chars), NEW w \in Word, Long(w), Outside(Loop(s)[k], w)
    PROVE  \E i \in 1..Len(item.chars) :
               \/ Stopped(Loop(s)[k + i], w)
               \/ \E c \in Literals : item = Twice(c) /\ Stopped(Loop(s)[k + i], Append(w, c))
  <1>1. /\ Loop(s)[k] \in State
        /\ \A i \in 1..Len(item.chars) :
             Loop(s)[k + i] = Turn(Loop(s)[(k + i) - 1], item.chars[i])
    BY LoopAfter DEF Outside, Idle
  <1>2. ASSUME 1 \in 1..Len(item.chars)
        PROVE  Loop(s)[k + 1] = Turn(Loop(s)[k], item.chars[1])
    <2>1. (k + 1) - 1 = k
      OBVIOUS
    <2>2. QED
      BY <1>1, <1>2, <2>1
  <1>3. ASSUME 2 \in 1..Len(item.chars)
        PROVE  Loop(s)[k + 2] = Turn(Loop(s)[k + 1], item.chars[2])
    <2>1. (k + 2) - 1 = k + 1
      OBVIOUS
    <2>2. QED
      BY <1>1, <1>3, <2>1
  <1>4. ASSUME 1 \in 1..Len(item.chars), item.chars[1] \in Operators \cup {"[", "("}
        PROVE  1 \in 1..Len(item.chars) /\ Stopped(Loop(s)[k + 1], w)
    BY <1>1, <1>2, <1>4, StoppingTurn
  <1>5. CASE item = Digit
    <2>1. item.chars = <<"\\", "d">>
      BY <1>5 DEF Digit
    <2>2. /\ 1 \in 1..Len(item.chars) /\ 2 \in 1..Len(item.chars)
          /\ item.chars[1] = "\\" /\ item.chars[2] = "d"
      BY <2>1
    <2>3. Escaped(Loop(s)[k + 1], w)
      BY <1>1, <1>2, <2>2, EscapeTurn
    <2>4. Stopped(Loop(s)[k + 2], w)
      <3>1. Loop(s)[k + 1] \in State
        BY <2>3 DEF Escaped
      <3>2. QED
        BY <1>3, <2>2, <2>3, <3>1, EscapedTurn
    <2>5. QED
      BY <2>2, <2>4
  <1>6. CASE item = Unclosed
    <2>1. item.chars = <<"(">>
      BY <1>6 DEF Unclosed
    <2>2. 1 \in 1..Len(item.chars) /\ item.chars[1] = "("
      BY <2>1
    <2>3. QED
      BY <1>4, <2>2
  <1>7. ASSUME NEW c \in Letters, NEW d \in Letters, item = Class(c, d)
        PROVE  1 \in 1..Len(item.chars) /\ Stopped(Loop(s)[k + 1], w)
    <2>1. item.chars = <<"[", c, d, "]">>
      BY <1>7 DEF Class
    <2>2. 1 \in 1..Len(item.chars) /\ item.chars[1] = "["
      BY <2>1
    <2>3. QED
      BY <1>4, <2>2
  <1>8. ASSUME NEW v \in item.words, NEW u \in item.words, item = Either(v, u)
        PROVE  1 \in 1..Len(item.chars) /\ Stopped(Loop(s)[k + 1], w)
    <2>1. item.chars = <<"(">> \o v \o <<"|">> \o u \o <<")">>
      BY <1>8 DEF Either
    <2>2. v \in Seq(Chars) /\ u \in Seq(Chars)
      BY DEF Word
    <2>3. {"(", "|", ")"} \subseteq Chars
      BY DEF Chars, Operators, Brackets
    <2>4. 1 \in 1..Len(item.chars) /\ item.chars[1] = "("
      <3> DEFINE a == <<"(">> \o v
                 b == a \o <<"|">>
                 e == b \o u
      <3>1. a \in Seq(Chars) /\ Len(a) >= 1 /\ a[1] = "("
        BY <2>2, <2>3
      <3> HIDE DEF a
      <3>2. b \in Seq(Chars) /\ Len(b) >= 1 /\ b[1] = "("
        BY <2>3, <3>1
      <3> HIDE DEF b
      <3>3. e \in Seq(Chars) /\ Len(e) >= 1 /\ e[1] = "("
        BY <2>2, <3>2
      <3> HIDE DEF e
      <3>4. Len(e \o <<")">>) >= 1 /\ (e \o <<")">>)[1] = "(" /\ Len(e \o <<")">>) \in Nat
        BY <2>3, <3>3
      <3>5. item.chars = e \o <<")">>
        BY <2>1 DEF a, b, e
      <3>6. QED
        BY <3>4, <3>5
    <2>5. QED
      BY <1>4, <2>4
  <1>9. ASSUME NEW c \in Letters, item = Literal(c)
        PROVE  1 \in 1..Len(item.chars) /\ Stopped(Loop(s)[k + 1], w)
    <2>1. c \notin Literals
      BY <1>9 DEF Plain
    <2>2. item.chars = <<c>>
      BY <1>9 DEF Literal
    <2>3. 1 \in 1..Len(item.chars) /\ item.chars[1] = c
      BY <2>2
    <2>4. QED
      BY <1>1, <1>2, <2>1, <2>3, LetterTurn
  <1>10. ASSUME NEW c \in Letters, item = Optional(c)
         PROVE  FALSE
    BY <1>10 DEF Optional
  <1>11. ASSUME NEW c \in Letters, item = Twice(c)
         PROVE  \/ 1 \in 1..Len(item.chars) /\ Stopped(Loop(s)[k + 1], w)
                \/ /\ 2 \in 1..Len(item.chars) /\ c \in Literals
                   /\ Stopped(Loop(s)[k + 2], Append(w, c))
    <2>1. item.chars = <<c, "{", "1", ",", "2", "}">>
      BY <1>11 DEF Twice
    <2>2. /\ 1 \in 1..Len(item.chars) /\ 2 \in 1..Len(item.chars)
          /\ item.chars[1] = c /\ item.chars[2] = "{"
      <3>1. \A x : /\ Len(<<c, "{", "1", ",", "2", x>>) = 6
                   /\ <<c, "{", "1", ",", "2", x>>[1] = c
                   /\ <<c, "{", "1", ",", "2", x>>[2] = "{"
        OBVIOUS
      <3>2. Len(item.chars) = 6 /\ item.chars[1] = c /\ item.chars[2] = "{"
        BY <2>1, <3>1
      <3>3. 1 \in 1..Len(item.chars) /\ 2 \in 1..Len(item.chars)
        <4>1. Len(item.chars) = 6
          BY <3>2
        <4>2. 1 \in 1..6 /\ 2 \in 1..6
          OBVIOUS
        <4>3. QED
          BY <4>1, <4>2
      <3>4. QED
        BY <3>2, <3>3
    <2>3. CASE c \notin Literals
      BY <1>1, <1>2, <2>2, <2>3, LetterTurn
    <2>4. CASE c \in Literals
      <3>1. Outside(Loop(s)[k + 1], Append(w, c))
        BY <1>1, <1>2, <2>2, <2>4, LetterTurn
      <3>2. Loop(s)[k + 1] \in State
        BY <3>1 DEF Outside, Idle
      <3>3. Append(w, c) \in Word /\ Long(Append(w, c))
        <4>1. c \in Chars
          BY DEF Chars
        <4>2. Len(Append(w, c)) = Len(w) + 1 /\ Len(w) \in Nat /\ Append(w, c) \in Word
          BY <4>1 DEF Word
        <4>3. QED
          BY <4>2, KeywordAssumption DEF Long
      <3>4. "{" \in Operators
        BY DEF Operators
      <3>5. Stopped(Loop(s)[k + 2], Append(w, c))
        BY <1>3, <2>2, <3>1, <3>2, <3>3, <3>4, StoppingTurn
      <3>6. QED
        BY <2>2, <2>4, <3>5
    <2>5. QED
      BY <2>3, <2>4
  <1>12. item # Dot
    BY DEF Plain
  <1>13. CASE \E c \in Letters : item \in {Literal(c), Optional(c), Twice(c)}
    BY <1>9, <1>10, <1>11, <1>13
  <1>14. CASE \E c, d \in Letters : item = Class(c, d)
    BY <1>7, <1>14
  <1>15. CASE \E v, u \in item.words : item = Either(v, u)
    BY <1>8, <1>15
  <1>16. QED
    BY <1>5, <1>6, <1>12, <1>13, <1>14, <1>15 DEF IsItem

(* The keyword is the literal that the pattern begins with, or that and    *)
(* the first character of a Twice.                                         *)
LEMMA FirstLiteralIs ==
    ASSUME NEW p, IsPattern(p), LeadLen(p) >= MinLength,
           LeadLen(p) < Len(p.items) => <<>> \notin p.items[LeadLen(p) + 1].words
    PROVE  \/ FirstLiteral(Written(p)) = Lead(p)
           \/ /\ LeadLen(p) < Len(p.items)
              /\ \E c \in Literals : /\ p.items[LeadLen(p) + 1] = Twice(c)
                                     /\ FirstLiteral(Written(p)) = Append(Lead(p), c)
  <1> DEFINE s == Written(p)
             L == LeadLen(p)
             N == Len(p.items)
             k == Len(Spelling(p)[L])
             w == Lead(p)
             item == p.items[L + 1]
  <1>1. L \in 0..N /\ N \in Nat /\ L \in 0..L
    BY LeadIs, ItemsAre
  <1>2. s \in Word
    BY WrittenBegins
  <1>3. w \in Word /\ Len(w) = L /\ Outside(Loop(s)[k], w)
    <2>1. w = LeadUpTo(p, L)
      BY DEF Lead, LeadUpTo
    <2>2. QED
      BY <1>1, <2>1, LeadUpToIs, LoopLead
  <1>4. Long(w)
    BY <1>1, <1>3 DEF Long
  <1>5. ASSUME NEW v \in Word, Stopped(Loop(s)[Len(s)], v) \/ Outside(Loop(s)[Len(s)], v), Long(v)
        PROVE  FirstLiteral(s) = v
    BY <1>5 DEF FirstLiteral, Enough, Stopped, Outside, Long
  <1>6. CASE L = N
    <2>1. k = Len(s)
      BY <1>6 DEF Written
    <2>2. QED
      BY <1>3, <1>4, <1>5, <2>1
  <1>7. CASE L # N
    <2>1. L < N /\ L + 1 \in 1..N /\ (L + 1) - 1 = L
      BY <1>1, <1>7
    <2>2. item \notin Plain /\ <<>> \notin item.words
      BY <2>1, LeadIs
    <2>3. IsItem(item) /\ item.chars \in Word /\ item.words \subseteq Word
      BY <2>1, ItemsAre
    <2>4. After(s, k, item.chars)
      BY <2>1, ItemIsWritten
    <2>5. k \in Nat
      BY <2>4 DEF After
    <2> HIDE DEF s, L, N, k, w, item
    <2>6. PICK i \in 1..Len(item.chars) :
               \/ Stopped(Loop(s)[k + i], w)
               \/ \E c \in Literals : item = Twice(c) /\ Stopped(Loop(s)[k + i], Append(w, c))
      BY <1>2, <1>3, <1>4, <2>2, <2>3, <2>4, <2>5, NextItem
    <2>7. k + i \in 0..Len(s)
      BY <1>2, <2>3, <2>4, <2>5, LoopAfter
    <2>8. CASE Stopped(Loop(s)[k + i], w)
      <3>1. FirstLiteral(s) = w
        BY <1>2, <1>3, <1>4, <1>5, <2>7, <2>8, StaysStopped
      <3>2. QED
        BY <3>1 DEF s, w
    <2>9. ASSUME NEW c \in Literals, item = Twice(c), Stopped(Loop(s)[k + i], Append(w, c))
          PROVE  FirstLiteral(s) = Append(w, c)
      <3>1. c \in Chars
        BY DEF Chars, Letters
      <3>2. Len(Append(w, c)) = Len(w) + 1 /\ Len(w) \in Nat /\ Append(w, c) \in Word
        BY <1>3, <3>1 DEF Word
      <3>3. Long(Append(w, c))
        BY <1>4, <3>2, KeywordAssumption DEF Long
      <3>4. QED
        BY <1>2, <1>5, <2>7, <2>9, <3>2, <3>3, StaysStopped
    <2>10. CASE \E c \in Literals : item = Twice(c) /\ Stopped(Loop(s)[k + i], Append(w, c))
      <3>1. PICK c \in Literals : item = Twice(c) /\ Stopped(Loop(s)[k + i], Append(w, c))
        BY <2>10
      <3>2. FirstLiteral(s) = Append(w, c)
        BY <2>9, <3>1
      <3>3. QED
        BY <2>1, <3>1, <3>2 DEF s, L, N, w, item
    <2>11. QED
      BY <2>6, <2>8, <2>10
  <1>8. QED
    BY <1>6, <1>7

-----------------------------------------------------------------------------
(* What a pattern matches begins with the same literal.                    *)

\* The first n literals match only their letters.
LEMMA LeadIsMatched ==
    ASSUME NEW p, IsPattern(p), NEW n \in 0..LeadLen(p), NEW u \in Matching(p)[n]
    PROVE  u = LeadUpTo(p, n)
  <1> DEFINE L == LeadLen(p)
             Only(m) == \A x \in Matching(p)[m] : x = LeadUpTo(p, m)
             G == {m \in 0..L : Only(m)}
  <1>1. L \in Nat /\ L <= Len(p.items) /\ Len(p.items) \in Nat
    BY LeadIs, ItemsAre
  <1>2. Only(0)
    <2>1. LeadUpTo(p, 0) = <<>>
      BY DEF LeadUpTo
    <2>2. QED
      BY <2>1, MatchingIs
  <1>3. ASSUME NEW m \in 1..L, Only(m - 1)
        PROVE  Only(m)
    <2> SUFFICES ASSUME NEW x \in Matching(p)[m]
                 PROVE  x = LeadUpTo(p, m)
      OBVIOUS
    <2>1. m \in 1..Len(p.items) /\ m - 1 \in 0..L
      BY <1>1
    <2>2. PICK v \in Matching(p)[m - 1], w \in p.items[m].words : x = v \o w
      <3>1. Joined(x, Matching(p)[m - 1], p.items[m].words)
        BY <2>1, MatchingIs
      <3>2. QED
        BY <3>1 DEF Joined
    <2>3. v = LeadUpTo(p, m - 1) /\ v \in Word
      BY <1>3, <2>1, LeadUpToIs
    <2>4. w = <<LetterOf(p.items[m])>> /\ LetterOf(p.items[m]) \in Literals
      BY LeadIs, PlainIs
    <2>5. ASSUME NEW c \in Literals
          PROVE  v \o <<c>> = Append(v, c)
      <3>1. v \in Seq(Chars) /\ c \in Chars
        BY <2>3 DEF Word, Chars, Letters
      <3>2. QED
        BY <3>1
    <2>6. QED
      BY <2>2, <2>3, <2>4, <2>5, LeadGrows
  <1> HIDE DEF Only
  <1>4. \A m \in 0..L : m \in G
    <2>1. 0 \in G
      BY <1>1, <1>2
    <2>2. \A m \in 1..L : m - 1 \in G => m \in G
      BY <1>1, <1>3
    <2> HIDE DEF G, L
    <2>3. QED
      BY <1>1, <2>1, <2>2, Induction
  <1>5. QED
    BY <1>4 DEF Only

(* What all words begin with stays there.                                  *)
LEMMA BeginningStays ==
    ASSUME NEW p, IsPattern(p), NEW n \in 0..Len(p.items), NEW w \in Word,
           \A u \in Matching(p)[n] : Begins(u, w)
    PROVE  \A u \in WordsOf(p) : u \in Word /\ Begins(u, w)
  <1> DEFINE K == Len(p.items) - n
             All(m) == \A u \in Matching(p)[m] : u \in Word /\ Begins(u, w)
             G == {j \in 0..K : All(n + j)}
  <1>1. Len(p.items) \in Nat /\ K \in Nat /\ n + K = Len(p.items) /\ n + 0 = n
    BY ItemsAre
  <1>2. All(n)
    BY MatchingIs
  <1>3. ASSUME NEW j \in 1..K, All(n + (j - 1))
        PROVE  All(n + j)
    <2> SUFFICES ASSUME NEW u \in Matching(p)[n + j]
                 PROVE  u \in Word /\ Begins(u, w)
      OBVIOUS
    <2>1. n + j \in 1..Len(p.items) /\ (n + j) - 1 = n + (j - 1)
      BY <1>1
    <2>2. PICK v \in Matching(p)[n + (j - 1)], x \in p.items[n + j].words : u = v \o x
      <3>1. Joined(u, Matching(p)[(n + j) - 1], p.items[n + j].words)
        BY <2>1, MatchingIs
      <3>2. Matching(p)[(n + j) - 1] = Matching(p)[n + (j - 1)]
        BY <2>1
      <3>3. QED
        BY <3>1, <3>2 DEF Joined
    <2>3. v \in Word /\ Begins(v, w) /\ x \in Word
      BY <1>3, <2>1, ItemsAre
    <2>4. Begins(v \o x, w)
      <3>1. Len(w) <= Len(v) /\ Len(w) \in Nat /\ \A i \in 1..Len(w) : v[i] = w[i]
        BY <2>3 DEF Begins, Word
      <3>2. /\ Len(v \o x) >= Len(v) /\ Len(v) \in Nat /\ Len(v \o x) \in Nat
            /\ \A i \in 1..Len(v) : (v \o x)[i] = v[i]
        BY <2>3, Concat
      <3>3. \A i \in 1..Len(w) : i \in 1..Len(v)
        BY <3>1, <3>2
      <3>4. QED
        BY <3>1, <3>2, <3>3 DEF Begins
    <2>5. QED
      BY <2>2, <2>3, <2>4, Concat
  <1> HIDE DEF All
  <1>4. \A j \in 0..K : j \in G
    <2>1. 0 \in G
      BY <1>1, <1>2
    <2>2. \A j \in 1..K : j - 1 \in G => j \in G
      BY <1>1, <1>3
    <2> HIDE DEF G, K
    <2>3. QED
      BY <1>1, <2>1, <2>2, Induction
  <1>5. All(Len(p.items))
    <2>1. K \in 0..K
      BY <1>1
    <2>2. All(n + K)
      BY <1>4, <2>1
    <2>3. QED
      BY <1>1, <2>2
  <1>6. QED
    BY <1>5 DEF All, WordsOf

-----------------------------------------------------------------------------
(* The keyword of a prefixed pattern is in all that it matches.            *)

(* The keyword is in the literal, or all words begin with it.              *)
LEMMA KeywordIsIn ==
    ASSUME NEW p, IsPattern(p), Prefixed(p), NEW w \in WordsOf(p)
    PROVE  /\ ExtractKeyword(Written(p)) \in Word /\ w \in Word
           /\ HasPart(Lowered(w), Lowered(ExtractKeyword(Written(p))))
  <1> DEFINE L == LeadLen(p)
             N == Len(p.items)
             kw == ExtractKeyword(Written(p))
  <1>1. L \in 0..N /\ N \in Nat /\ L \in 0..L
    BY LeadIs, ItemsAre
  <1>2. Lead(p) = LeadUpTo(p, L) /\ Lead(p) \in Word /\ Len(Lead(p)) = L
    <2>1. Lead(p) = LeadUpTo(p, L)
      BY DEF Lead, LeadUpTo
    <2>2. QED
      BY <1>1, <2>1, LeadUpToIs
  <1>3. \A u \in Matching(p)[L] : u = Lead(p)
    BY <1>1, <1>2, LeadIsMatched
  <1>4. w \in Word /\ Begins(w, Lead(p))
    <2>1. \A u \in Matching(p)[L] : Begins(u, Lead(p))
      <3>1. Begins(Lead(p), Lead(p))
        BY <1>1, <1>2 DEF Begins
      <3>2. QED
        BY <1>3, <3>1
    <2>2. QED
      BY <1>1, <1>2, <2>1, BeginningStays
  <1> HIDE DEF L, N
  <1>5. ASSUME NEW v \in Word, Begins(w, v)
        PROVE  HasPart(Lowered(w), Lowered(v))
    BY <1>4, <1>5, BeginningIsPart, LoweredPart
  <1>6. CASE StaticHits(Written(p)) # {}
    <2> DEFINE S == StaticHits(Written(p))
               first == CHOOSE i \in S : \A j \in S : i <= j
    <2>1. kw = Static[first].keyword
      BY <1>6 DEF ExtractKeyword
    <2>2. S \subseteq DOMAIN Static /\ DOMAIN Static \subseteq Nat
          /\ \A i \in DOMAIN Static : Static[i].keyword \in Word
      <3> DEFINE E == [check: Word, keyword: Word]
      <3>1. Static \in Seq(E)
        BY KeywordAssumption
      <3>2. \A i \in DOMAIN Static : Static[i] \in E
        <4> HIDE DEF E
        <4>1. QED
          BY <3>1
      <3>3. DOMAIN Static \subseteq Nat
        <4> HIDE DEF E
        <4>1. QED
          BY <3>1
      <3>4. QED
        BY <3>2, <3>3 DEF StaticHits
    <2>3. \E i \in S : \A j \in S : i <= j
      <3>1. S \subseteq Nat /\ S # {}
        BY <1>6, <2>2
      <3> HIDE DEF S
      <3>2. QED
        BY <3>1, LeastExists
    <2>4. first \in S
      <3> HIDE DEF S
      <3>1. QED
        BY <2>3
    <2> HIDE DEF first, S, kw
    <2>5. kw \in Word /\ HasPart(Lowered(Lead(p)), Lowered(kw))
      BY <2>1, <2>2, <2>4 DEF Prefixed, S
    <2>6. HasPart(Lowered(w), Lowered(Lead(p)))
      BY <1>2, <1>4, <1>5
    <2>7. Lowered(w) \in Word /\ Lowered(Lead(p)) \in Word /\ Lowered(kw) \in Word
      BY <1>2, <1>4, <2>5, LoweredIs
    <2>8. HasPart(Lowered(w), Lowered(kw))
      BY <2>5, <2>6, <2>7, PartOfPart
    <2>9. QED
      BY <1>4, <2>5, <2>8 DEF kw
  <1>7. CASE StaticHits(Written(p)) = {}
    <2>1. kw = FirstLiteral(Written(p))
      BY <1>7 DEF ExtractKeyword
    <2>2. \/ kw = Lead(p)
          \/ /\ L < N
             /\ \E c \in Literals : p.items[L + 1] = Twice(c) /\ kw = Append(Lead(p), c)
      BY <2>1, FirstLiteralIs DEF Prefixed, L, N
    <2> HIDE DEF kw
    <2>3. CASE kw = Lead(p)
      BY <1>2, <1>4, <1>5, <2>3 DEF kw
    <2>4. ASSUME L < N, NEW c \in Literals, p.items[L + 1] = Twice(c), kw = Append(Lead(p), c)
          PROVE  kw \in Word /\ Begins(w, kw)
      <3>1. c \in Chars /\ Lead(p) \in Seq(Chars)
        BY <1>2 DEF Chars, Letters, Word
      <3>2. /\ kw \in Word /\ Len(kw) = L + 1 /\ kw[L + 1] = c
            /\ \A i \in 1..L : kw[i] = Lead(p)[i]
        BY <1>1, <1>2, <2>4, <3>1 DEF Word
      <3>3. L + 1 \in 1..N /\ (L + 1) - 1 = L /\ L + 1 \in 0..N
        BY <1>1, <2>4
      <3>4. ASSUME NEW u \in Matching(p)[L + 1]
            PROVE  Begins(u, kw)
        <4>1. Joined(u, Matching(p)[L], p.items[L + 1].words)
          BY <3>3, MatchingIs DEF N
        <4>2. PICK v \in Matching(p)[L], x \in p.items[L + 1].words : u = v \o x
          BY <4>1 DEF Joined
        <4>3. x \in {<<c>>, <<c, c>>} /\ v = Lead(p)
          <5>1. Twice(c).words = {<<c>>, <<c, c>>}
            BY DEF Twice
          <5>2. x \in Twice(c).words
            BY <2>4, <4>2
          <5>3. v = Lead(p)
            BY <1>3, <4>2
          <5>4. QED
            BY <5>1, <5>2, <5>3
        <4>4. x \in Word /\ Len(x) >= 1 /\ x[1] = c
          <5>1. CASE x = <<c>>
            BY <3>1, <5>1 DEF Word
          <5>2. CASE x = <<c, c>>
            BY <3>1, <5>2 DEF Word
          <5>3. QED
            BY <4>3, <5>1, <5>2
        <4>5. /\ Len(u) >= L + 1 /\ u[L + 1] = c
              /\ \A i \in 1..L : u[i] = Lead(p)[i]
          <5>1. u = Lead(p) \o x
            BY <4>2, <4>3
          <5>2. /\ Len(u) = L + Len(x) /\ Len(x) \in Nat
                /\ \A i \in 1..L : u[i] = Lead(p)[i]
                /\ \A i \in 1..Len(x) : u[L + i] = x[i]
            BY <1>2, <4>4, <5>1, Concat
          <5>3. 1 \in 1..Len(x)
            BY <4>4, <5>2
          <5>4. QED
            BY <1>1, <4>4, <5>2, <5>3
        <4>6. \A i \in 1..(L + 1) : i = L + 1 \/ i \in 1..L
          BY <1>1
        <4>7. QED
          BY <3>2, <4>5, <4>6 DEF Begins
      <3>5. QED
        BY <3>2, <3>3, <3>4, BeginningStays DEF N
    <2>5. QED
      BY <1>4, <1>5, <2>2, <2>3, <2>4 DEF kw
  <1>8. QED
    BY <1>6, <1>7

\* So the automaton reports the keyword in every text that the pattern matches.
LEMMA PrefixedIsReachable ==
    ASSUME NEW p \in Patterns, NEW t \in Texts, IsUtf8(t), Prefixed(p), Matches(p, t)
    PROVE  Reachable(p, t)
  <1> DEFINE kw == KeywordOf(p)
  <1>1. /\ IsPattern(p) /\ kw = ExtractKeyword(Written(p))
        /\ t \in Word /\ FindsIn(p, t)
        /\ \A k \in Keywords : Occurs(k, t) = OccursIn(k, t)
    BY KeywordAssumption
  <1>2. PICK w \in WordsOf(p) :
            IF p.anyCase THEN HasPart(Lowered(t), Lowered(w)) ELSE HasPart(t, w)
    BY <1>1 DEF FindsIn
  <1>3. kw \in Word /\ w \in Word /\ HasPart(Lowered(w), Lowered(kw))
    BY <1>1, KeywordIsIn
  <1>4. HasPart(Lowered(t), Lowered(w))
    BY <1>1, <1>2, <1>3, LoweredPart
  <1>5. OccursIn(kw, t)
    <2>1. Lowered(t) \in Word /\ Lowered(w) \in Word /\ Lowered(kw) \in Word
      BY <1>1, <1>3, LoweredIs
    <2>2. QED
      BY <1>3, <1>4, <2>1, PartOfPart DEF OccursIn
  <1>6. kw # NoKeyword => kw \in Keywords
    BY DEF Keywords
  <1>7. QED
    BY <1>1, <1>5, <1>6 DEF Reachable

\* A rule that begins with a long enough literal never misses a match, be it
\* written in another case, or its keyword one of the known ones
\* (scanner.rs:131-134): its keyword is in every text that it matches, so that
\* phase 1 nominates it.
THEOREM LiteralsMissNothing == Spec => []PrefixedRulesFire
  <1>1. IInv => PrefixedRulesFire
    <2> SUFFICES ASSUME IInv, Scanned, NEW p \in Elements(ruleset), Compiles(p),
                        Prefixed(p), Matches(p, text)
                 PROVE  \E i \in DOMAIN vulns : compiled[vulns[i]] = p
      BY DEF PrefixedRulesFire
    <2>1. text \in Texts /\ IsUtf8(text) /\ p \in Patterns
      BY DEF IInv, TypeOK, Scanned, Elements
    <2>2. Reachable(p, text)
      BY <2>1, PrefixedIsReachable
    <2>3. QED
      BY <2>2, RuleAloneFollows DEF RuleAlone
  <1>2. QED
    BY <1>1, InvHolds, PTL
=============================================================================
