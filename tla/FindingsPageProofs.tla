------------------------- MODULE FindingsPageProofs --------------------------
(***************************************************************************)
(* Proofs about the findings page: that the table on display is that of the *)
(* controls, that triaged rows are fresh, that a page after the first is    *)
(* not empty without a cause, and that the list implements RemoteView.      *)
(***************************************************************************)
EXTENDS FindingsPage, FiniteSetTheorems, TLAPS

\* The inductive invariant, in parts.
ListTyping ==
    /\ want \in Wants
    /\ fetches \in Nat
    /\ sent \subseteq Requests /\ answered \subseteq Answers
    /\ data \in Answers
    /\ refetch \in BOOLEAN

Typing ==
    /\ ListTyping
    /\ rows \in [Ids -> Statuses]
    /\ mounted \in BOOLEAN
    /\ clicks \in Nat
    /\ typed \in Texts
    /\ unseen \in BOOLEAN /\ astray \in BOOLEAN
    /\ triages \subseteq Triages

\* A page that is not on screen has asked for nothing; one that is has.
Presence ==
    /\ mounted <=> fetches > 0
    /\ ~mounted => want = FirstWant /\ sent = {} /\ answered = {} /\ data = NoData
                   /\ timer = FALSE /\ refetch = FALSE /\ unseen = FALSE
    /\ \A t \in triages : (t.done => t.live) /\ (t.live => mounted)

\* Requests are numbered in the order in which they were sent.
Numbering ==
    /\ \A r \in sent \cup answered : r.no \in 1..fetches
    /\ data.no \in 0..fetches
    /\ data.no = 0 => data = NoData
    /\ \A r, q \in sent : r.no = q.no => r = q
    /\ \A r, q \in answered : r.no = q.no => r = q
    /\ \A r \in sent, q \in answered : r.no # q.no

\* The last request, unless it is a refetch, is for what the controls show.
Asking == ~refetch => \A r \in sent \cup answered \cup {data} : r.no = fetches => r.params = want

\* An answer to the last request that missed nothing agrees with the rows.
Agreement ==
    ~unseen /\ (\A t \in triages : t.live => ~t.done) =>
        \A a \in answered \cup {data} :
            a.no = fetches => \A i \in DOMAIN a.items : a.items[i] = rows[i]

\* While no row has moved and no pager gone astray, every page asked for exists
\* and every answer is a full account of its page.
MatchedBy(w, f) == {i \in FoundBy[w.search] : /\ w.status \in {"all", f[i]}
                                              /\ w.risk \in {"all", Impact[i]}}
InRange(w, f) == w.page <= Pages(Cardinality(MatchedBy(w, f)))
Account(a, f) ==
    LET n == Cardinality(MatchedBy(a.params, f))
    IN  a.pages = Pages(n) /\ Cardinality(DOMAIN a.items) = RowsOn(a.params.page, n)
Paging ==
    ~astray =>
        /\ InRange(want, rows)
        /\ \A r \in sent \cup answered \cup triages : InRange(r.params, rows)
        /\ \A a \in answered : Account(a, rows)
        /\ data # NoData => InRange(data.params, rows) /\ Account(data, rows)
-----------------------------------------------------------------------------
(* What a step can be, seen from the list, the rows and the triages. *)

Quiet ==
    /\ UNCHANGED <<rows, mounted, triages, want, listVars, unseen, astray>>
    /\ mounted \/ timer' = timer

\* A new choice goes to its first page, or by one page back or on.
SameFilters(v, w) == v.status = w.status /\ v.risk = w.risk /\ v.search = w.search
Turned ==
    /\ SameFilters(want', want)
    /\ \/ want'.page < want.page
       \/ want'.page = want.page + 1 /\ want.page < data.pages /\ (astray' \/ ~OlderTable)
Chosen ==
    /\ mounted
    /\ want' \in Wants /\ want' # want
    /\ want'.page = 1 \/ Turned
    /\ Fetch(want', FALSE)
    /\ UNCHANGED <<rows, mounted, triages>>
    /\ astray => astray'

Patched ==
    /\ mounted
    /\ \E t \in Triages : ~t.done /\ t.params = want /\ triages' = triages \cup {t}
    /\ UNCHANGED <<rows, mounted, want, listVars, unseen, astray>>

Event ==
    \/ Quiet \/ Chosen \/ Patched
    \/ FindingsExecute
    \/ \E a \in answered : ListAnswer(a)
    \/ \E r \in sent \cup answered : ListFail(r)
    \/ \E r \in triages : TriageAnswer(r) \/ TriageFail(r)
    \/ FindingsOthers \/ FindingsMount \/ FindingsUnmount

LEMMA WantsAreRecords ==
    ASSUME NEW w \in Wants
    PROVE  /\ w.page \in Nat \ {0} /\ w.status \in StatusChoices /\ w.risk \in RiskChoices
           /\ w.search \in Texts /\ w.column \in Columns /\ w.order \in {"asc", "desc"}
BY DEF Wants

\* What the controls may ask for is a choice of page, filters and order.
LEMMA FirstPageIsWant ==
    ASSUME NEW w \in Wants
    PROVE  FirstPage(w) \in Wants
BY DEF FirstPage, Wants

LEMMA ChoicesAreWants ==
    ASSUME want \in Wants
    PROVE  /\ \A s \in StatusChoices : [want EXCEPT !.status = s] \in Wants
           /\ \A k \in RiskChoices : [want EXCEPT !.risk = k] \in Wants
           /\ \A t \in Texts : [want EXCEPT !.search = t] \in Wants
           /\ \A p \in Nat \ {0} : [want EXCEPT !.page = p] \in Wants
BY DEF Wants

LEMMA SortedByIsWant ==
    ASSUME want \in Wants, NEW c \in Columns
    PROVE  SortedBy(c) \in Wants
<1>1. CASE want.column = c
  <2>1. Flipped(want.order) \in {"asc", "desc"}
    BY DEF Flipped
  <2> QED
    BY <1>1, <2>1 DEF SortedBy, Wants
<1>2. CASE want.column # c
  <2> DEFINE w == [want EXCEPT !.column = c]
  <2>1. w \in Wants
    BY DEF Wants
  <2>2. [w EXCEPT !.order = "desc"] \in Wants
    BY <2>1 DEF Wants
  <2> QED
    BY <1>2, <2>2 DEF SortedBy
<1> QED
  BY <1>1, <1>2

LEMMA FirstWantIsWant == FirstWant \in Wants
BY FindingsAssumption DEF FirstWant, Wants

LEMMA ItemsAreFunctions ==
    ASSUME NEW f \in Items
    PROVE  DOMAIN f \subseteq Ids /\ \A i \in DOMAIN f : f[i] \in Statuses
BY DEF Items

LEMMA PartsOfRowsAreItems ==
    ASSUME rows \in [Ids -> Statuses], NEW S \in SUBSET Ids
    PROVE  [i \in S |-> rows[i]] \in Items
<1>1. [i \in S |-> rows[i]] \in [S -> Statuses]
  OBVIOUS
<1> QED
  BY <1>1 DEF Items

LEMMA NoDataIsAnswer == NoData \in Answers /\ DOMAIN NoData.items = {}
<1>1. NoData.items \in [{} -> Statuses]
  BY DEF NoData
<1>2. NoData.items \in Items
  BY <1>1 DEF Items
<1> QED
  BY <1>2, FirstWantIsWant DEF NoData, Answers

LEMMA AnswersAreRecords ==
    ASSUME NEW a \in Answers
    PROVE  a.no \in Nat /\ a.params \in Wants /\ a.items \in Items /\ a.pages \in Nat
BY DEF Answers

\* Every row the server can list is a finding of the organization, and its
\* page one that the row count has.
LEMMA MatchingIsFinite ==
    ASSUME NEW w \in Wants
    PROVE  Matching(w) \subseteq Ids /\ IsFiniteSet(Matching(w)) /\ Cardinality(Matching(w)) \in Nat
<1>1. w.search \in Texts
  BY DEF Wants
<1>2. Matching(w) \subseteq Ids
  BY <1>1, FindingsAssumption DEF Matching
<1>3. IsFiniteSet(Matching(w))
  BY <1>2, FS_Subset, FindingsAssumption
<1> QED
  BY <1>2, <1>3, FS_CardinalityType

LEMMA PagesType ==
    ASSUME NEW n \in Nat
    PROVE  Pages(n) \in Nat \ {0}
<1>1. PageSize \in Nat \ {0}
  BY FindingsAssumption
<1>2. CASE n > 0
  <2>1. (n + PageSize - 1) \div PageSize \in Nat \ {0}
    BY <1>1, <1>2
  <2> QED
    BY <2>1, <1>2 DEF Pages
<1>3. CASE n = 0
  BY <1>3 DEF Pages
<1> QED
  BY <1>2, <1>3

LEMMA PageIsNotEmpty ==
    ASSUME NEW n \in Nat, NEW p \in Nat, p > 1, p <= Pages(n)
    PROVE  RowsOn(p, n) > 0
<1>1. PageSize \in Nat \ {0}
  BY FindingsAssumption
<1>2. n # 0 /\ p <= (n + PageSize - 1) \div PageSize
  BY DEF Pages
<1> DEFINE q == (n + PageSize - 1) \div PageSize
<1>3. q \in Nat /\ q * PageSize <= n + PageSize - 1
  BY <1>1, <1>2
<1> HIDE DEF q
<1>4. (p - 1) * PageSize <= (q - 1) * PageSize
  BY <1>1, <1>2, <1>3 DEF q
<1>5. (q - 1) * PageSize = q * PageSize - PageSize
  BY <1>1, <1>3
<1>6. (p - 1) * PageSize \in Int /\ q * PageSize \in Int
  BY <1>1, <1>3
<1>7. n - (p - 1) * PageSize > 0
  BY <1>1, <1>3, <1>4, <1>5, <1>6
<1> QED
  BY <1>1, <1>6, <1>7 DEF RowsOn
-----------------------------------------------------------------------------
(* Every step is one of these. *)

LEMMA AdoptIsEvent ==
    ASSUME NEW w \in Wants, mounted, Adopt(w), astray => astray', astray' \in BOOLEAN, astray \in BOOLEAN,
           w = want => astray' = astray,
           w.page = 1 \/ (want' = w => Turned)
    PROVE  Quiet \/ Chosen
<1>1. want' = w /\ UNCHANGED <<rows, mounted, triages>>
  BY DEF Adopt, serverVars
<1>2. CASE w = want
  <2>1. UNCHANGED <<listVars, unseen>>
    BY <1>2 DEF Adopt
  <2> QED
    BY <1>1, <1>2, <2>1 DEF Quiet
<1>3. CASE w # want
  <2>1. Fetch(want', FALSE)
    BY <1>1, <1>3 DEF Adopt
  <2> QED
    BY <1>1, <1>3, <2>1 DEF Chosen
<1> QED
  BY <1>2, <1>3

LEMMA PatchIsEvent ==
    ASSUME Typing, mounted, NEW i \in DOMAIN data.items, NEW to \in Statuses, Patch(i, to)
    PROVE  Patched
<1> DEFINE t == [click |-> clicks, id |-> i, to |-> to, params |-> want, done |-> FALSE, live |-> TRUE]
<1>1. i \in Ids
  BY AnswersAreRecords, ItemsAreFunctions DEF Typing, ListTyping
<1>2. t \in Triages /\ ~t.done /\ t.params = want
  BY <1>1 DEF Typing, ListTyping, Triages
<1>3. triages' = triages \cup {t}
  BY DEF Patch
<1>4. UNCHANGED <<rows, mounted, want, listVars, unseen, astray>>
  BY DEF Patch, controls, serverVars
<1> HIDE DEF t
<1> QED
  BY <1>2, <1>3, <1>4 DEF Patched

LEMMA StepsAreEvents ==
    ASSUME Typing, Presence, FindingsNext
    PROVE  Event
<1>0. want \in Wants /\ astray \in BOOLEAN
  BY DEF Typing, ListTyping
<1>a. ASSUME NEW w \in Wants, mounted, Adopt(FirstPage(w)), UNCHANGED astray PROVE Event
  <2>1. FirstPage(w) \in Wants /\ FirstPage(w).page = 1
    BY FirstPageIsWant DEF FirstPage, Wants
  <2> QED
    BY <1>0, <1>a, <2>1, AdoptIsEvent DEF Event
<1>1. ASSUME NEW s \in StatusChoices, ChooseStatus(s) PROVE Event
  BY <1>1, <1>0, <1>a, ChoicesAreWants DEF ChooseStatus, Click
<1>2. ASSUME NEW k \in RiskChoices, ChooseRisk(k) PROVE Event
  BY <1>2, <1>0, <1>a, ChoicesAreWants DEF ChooseRisk, Click
<1>3. ASSUME NEW c \in Columns, ToggleSort(c) PROVE Event
  BY <1>3, <1>0, <1>a, SortedByIsWant DEF ToggleSort, Click
<1>4. ASSUME PreviousPage PROVE Event
  <2> DEFINE w == [want EXCEPT !.page = @ - 1]
  <2>1. w \in Wants /\ w.page < want.page /\ SameFilters(w, want)
    BY <1>4, <1>0 DEF PreviousPage, Wants, SameFilters
  <2>2. mounted /\ Adopt(w) /\ UNCHANGED astray
    BY <1>4 DEF PreviousPage, Click
  <2> HIDE DEF w
  <2> QED
    BY <1>0, <2>1, <2>2, AdoptIsEvent DEF Event, Turned
<1>5. ASSUME NextPage PROVE Event
  <2> DEFINE w == [want EXCEPT !.page = @ + 1]
  <2>1. w \in Wants /\ w.page = want.page + 1 /\ w # want /\ SameFilters(w, want)
    BY <1>0 DEF Wants, SameFilters
  <2>2. mounted /\ Adopt(w) /\ want.page < data.pages /\ astray' = (astray \/ OlderTable)
    BY <1>5 DEF NextPage, Click
  <2>3. astray' \in BOOLEAN /\ (astray => astray') /\ (astray' \/ ~OlderTable)
    BY <1>0, <2>2 DEF OlderTable
  <2> HIDE DEF w
  <2> QED
    BY <1>0, <2>1, <2>2, <2>3, AdoptIsEvent DEF Event, Turned
<1>6. ASSUME Debounce PROVE Event
  <2>1. [want EXCEPT !.search = typed] \in Wants
    BY <1>0, ChoicesAreWants DEF Typing
  <2>2. mounted
    BY <1>6 DEF Debounce, Presence
  <2> QED
    BY <1>6, <1>a, <2>1, <2>2 DEF Debounce
<1>7. ASSUME NEW t \in Texts, Type(t) PROVE Event
  BY <1>7 DEF Type, Click, serverVars, Quiet, Event
<1>8. ASSUME NEW i \in DOMAIN data.items, ToggleRemediation(i) PROVE Event
  BY <1>8 DEF ToggleRemediation, Click, controls, serverVars, Quiet, Event
<1>9. ASSUME NEW i \in DOMAIN data.items, Reactivate(i) PROVE Event
  BY <1>9, PatchIsEvent DEF Reactivate, Click, Statuses, Event
<1>10. ASSUME NEW i \in DOMAIN data.items, Rotate(i) PROVE Event
  BY <1>10, PatchIsEvent DEF Rotate, Click, Statuses, Event
<1>11. ASSUME NEW i \in DOMAIN data.items, NEW to \in Statuses, Dismiss(i, to) PROVE Event
  BY <1>11, PatchIsEvent DEF Dismiss, Click, Event
<1>12. ASSUME PanelAnswer PROVE Event
  BY <1>12 DEF PanelAnswer, controls, serverVars, Quiet, Event
<1> QED
  BY <1>1, <1>2, <1>3, <1>4, <1>5, <1>6, <1>7, <1>8, <1>9, <1>10, <1>11, <1>12
  DEF FindingsNext, FindingsInput, FindingsAnswer, Event
-----------------------------------------------------------------------------
(* Types. *)

LEMMA FetchTyping ==
    ASSUME ListTyping, NEW w \in Wants, NEW b \in BOOLEAN, Fetch(w, b)
    PROVE  /\ fetches' \in Nat
           /\ sent' \subseteq Requests /\ answered' \subseteq Answers
           /\ data' \in Answers
           /\ refetch' \in BOOLEAN
<1>1. [no |-> fetches + 1, params |-> w] \in Requests
  BY DEF ListTyping, Requests
<1> QED
  BY <1>1 DEF Fetch, ListTyping

LEMMA ListedAreItems ==
    ASSUME rows \in [Ids -> Statuses], NEW w \in Wants, NEW l \in Listed(w)
    PROVE  /\ l.items \in Items
           /\ l.pages = Pages(Cardinality(Matching(w)))
           /\ DOMAIN l.items \subseteq Ids
           /\ Cardinality(DOMAIN l.items) = RowsOn(w.page, Cardinality(Matching(w)))
           /\ \A i \in DOMAIN l.items : l.items[i] = rows[i]
<1> DEFINE n == Cardinality(Matching(w))
<1>1. PICK S \in SUBSET Matching(w) :
          Cardinality(S) = RowsOn(w.page, n) /\ l = [items |-> [i \in S |-> rows[i]], pages |-> Pages(n)]
  BY DEF Listed
<1>2. S \in SUBSET Ids
  BY MatchingIsFinite
<1>3. DOMAIN l.items = S /\ l.pages = Pages(n) /\ \A i \in S : l.items[i] = rows[i]
  BY <1>1
<1>4. l.items \in Items
  BY <1>1, <1>2, PartsOfRowsAreItems
<1> QED
  BY <1>1, <1>2, <1>3, <1>4

LEMMA AnswerIsTyped ==
    ASSUME rows \in [Ids -> Statuses], NEW r \in Requests, NEW l \in Listed(r.params)
    PROVE  [no |-> r.no, params |-> r.params, items |-> l.items, pages |-> l.pages] \in Answers
<1>1. r.params \in Wants /\ r.no \in Nat
  BY DEF Requests
<1>2. l.pages \in Nat
  BY <1>1, ListedAreItems, MatchingIsFinite, PagesType
<1> QED
  BY <1>1, <1>2, ListedAreItems DEF Answers

LEMMA ListTypingStep ==
    ASSUME Typing, Presence, FindingsNext
    PROVE  ListTyping'
<1>0. ListTyping /\ rows \in [Ids -> Statuses]
  BY DEF Typing
<1>1. CASE Quiet \/ Patched
  BY <1>0, <1>1 DEF Quiet, Patched, ListTyping, listVars
<1>2. CASE Chosen
  BY <1>0, <1>2, FetchTyping DEF Chosen, ListTyping
<1>3. ASSUME NEW r \in sent, ListExecute(r) PROVE ListTyping'
  <2>1. r \in Requests
    BY <1>0 DEF ListTyping
  <2>2. answered' \subseteq Answers
    BY <1>0, <1>3, <2>1, AnswerIsTyped DEF ListExecute, ListTyping
  <2>3. UNCHANGED <<want, fetches, data, refetch>> /\ sent' \subseteq sent
    BY <1>3 DEF ListExecute, controls
  <2> QED
    BY <1>0, <2>2, <2>3 DEF ListTyping
<1>4. ASSUME NEW r \in triages, TriageExecute(r) \/ TriageFail(r) PROVE ListTyping'
  BY <1>0, <1>4 DEF TriageExecute, TriageFail, controls, listVars, ListTyping
<1>5. ASSUME NEW a \in answered, ListAnswer(a) PROVE ListTyping'
  BY <1>0, <1>5 DEF ListAnswer, ListTyping, controls
<1>6. ASSUME NEW r \in sent \cup answered, ListFail(r) PROVE ListTyping'
  BY <1>0, <1>6 DEF ListFail, ListTyping, controls
<1>7. ASSUME NEW r \in triages, TriageAnswer(r) PROVE ListTyping'
  <2>1. r.params \in Wants
    BY DEF Typing, Triages
  <2>2. Fetch(r.params, TRUE) /\ UNCHANGED want
    BY <1>7 DEF TriageAnswer, controls
  <2> QED
    BY <1>0, <2>1, <2>2, FetchTyping DEF ListTyping
<1>8. ASSUME FindingsOthers PROVE ListTyping'
  BY <1>0, <1>8 DEF FindingsOthers, OtherChange, controls, listVars, ListTyping
<1>9. ASSUME FindingsMount PROVE ListTyping'
  BY <1>0, <1>9, FirstWantIsWant, FetchTyping DEF FindingsMount, ListTyping
<1>10. ASSUME FindingsUnmount PROVE ListTyping'
  BY <1>10, FirstWantIsWant, NoDataIsAnswer DEF FindingsUnmount, ListTyping
<1> QED
  BY StepsAreEvents, <1>1, <1>2, <1>3, <1>4, <1>5, <1>6, <1>7, <1>8, <1>9, <1>10
  DEF Event, FindingsExecute

LEMMA AdoptKeeps ==
    ASSUME NEW w, Adopt(w)
    PROVE  /\ UNCHANGED <<rows, mounted, triages>>
           /\ (unseen' = unseen \/ unseen' = FALSE)
BY DEF Adopt, Fetch, serverVars

LEMMA AdoptTyping ==
    ASSUME Typing, ListTyping', NEW w, Adopt(w),
           (clicks' = clicks - 1 /\ clicks > 0) \/ clicks' = clicks,
           UNCHANGED typed, astray' \in BOOLEAN
    PROVE  Typing'
<1>1. UNCHANGED <<rows, mounted, triages>>
  BY AdoptKeeps
<1>2. unseen' = unseen \/ unseen' = FALSE
  BY AdoptKeeps
<1>3. unseen' \in BOOLEAN
  BY <1>2 DEF Typing
<1>4. clicks' \in Nat
  BY DEF Typing
<1> QED
  BY <1>1, <1>3, <1>4 DEF Typing

LEMMA PatchTyping ==
    ASSUME Typing, NEW i \in DOMAIN data.items, NEW to \in Statuses, Patch(i, to), Click
    PROVE  Typing'
<1>1. i \in Ids
  BY AnswersAreRecords, ItemsAreFunctions DEF Typing, ListTyping
<1>2. [click |-> clicks, id |-> i, to |-> to, params |-> want, done |-> FALSE, live |-> TRUE] \in Triages
  BY <1>1 DEF Typing, ListTyping, Triages
<1>3. triages' \subseteq Triages
  BY <1>2 DEF Patch, Typing
<1>4. UNCHANGED <<rows, mounted, typed, unseen, astray>> /\ clicks' \in Nat
  BY DEF Patch, Click, controls, serverVars, Typing
<1>5. ListTyping'
  BY DEF Patch, controls, listVars, Typing, ListTyping
<1> QED
  BY <1>3, <1>4, <1>5 DEF Typing

LEMMA TypingStep ==
    ASSUME Typing, Presence, [FindingsNext]_findingsVars
    PROVE  Typing'
<1> SUFFICES ASSUME FindingsNext PROVE Typing'
  BY DEF findingsVars, serverVars, controls, listVars, Typing, ListTyping
<1>0. ListTyping'
  BY ListTypingStep
<1>1. ASSUME NEW s \in StatusChoices, ChooseStatus(s) PROVE Typing'
  <2>1. UNCHANGED <<typed, astray>> /\ clicks > 0 /\ clicks' = clicks - 1
    BY <1>1 DEF ChooseStatus, Click
  <2>2. \E w : Adopt(w)
    BY <1>1 DEF ChooseStatus
  <2> QED
    BY <1>0, <2>1, <2>2, AdoptTyping DEF Typing
<1>2. ASSUME NEW k \in RiskChoices, ChooseRisk(k) PROVE Typing'
  <2>1. UNCHANGED <<typed, astray>> /\ clicks > 0 /\ clicks' = clicks - 1
    BY <1>2 DEF ChooseRisk, Click
  <2>2. \E w : Adopt(w)
    BY <1>2 DEF ChooseRisk
  <2> QED
    BY <1>0, <2>1, <2>2, AdoptTyping DEF Typing
<1>3. ASSUME NEW c \in Columns, ToggleSort(c) PROVE Typing'
  <2>1. UNCHANGED <<typed, astray>> /\ clicks > 0 /\ clicks' = clicks - 1
    BY <1>3 DEF ToggleSort, Click
  <2>2. \E w : Adopt(w)
    BY <1>3 DEF ToggleSort
  <2> QED
    BY <1>0, <2>1, <2>2, AdoptTyping DEF Typing
<1>4. ASSUME PreviousPage PROVE Typing'
  <2>1. UNCHANGED <<typed, astray>> /\ clicks > 0 /\ clicks' = clicks - 1
    BY <1>4 DEF PreviousPage, Click
  <2>2. \E w : Adopt(w)
    BY <1>4 DEF PreviousPage
  <2> QED
    BY <1>0, <2>1, <2>2, AdoptTyping DEF Typing
<1>5. ASSUME NextPage PROVE Typing'
  <2>1. astray' \in BOOLEAN
    BY <1>5 DEF NextPage, OlderTable, Typing
  <2>2. UNCHANGED typed /\ clicks > 0 /\ clicks' = clicks - 1
    BY <1>5 DEF NextPage, Click
  <2>3. \E w : Adopt(w)
    BY <1>5 DEF NextPage
  <2> QED
    BY <1>0, <2>1, <2>2, <2>3, AdoptTyping
<1>6. ASSUME Debounce PROVE Typing'
  <2>1. UNCHANGED <<clicks, typed, astray>>
    BY <1>6 DEF Debounce
  <2>2. \E w : Adopt(w)
    BY <1>6 DEF Debounce
  <2> QED
    BY <1>0, <2>1, <2>2, AdoptTyping DEF Typing
<1>7. ASSUME NEW t \in Texts, Type(t) PROVE Typing'
  BY <1>0, <1>7 DEF Type, Click, serverVars, Typing
<1>8. ASSUME NEW i \in DOMAIN data.items, ToggleRemediation(i) PROVE Typing'
  BY <1>0, <1>8 DEF ToggleRemediation, Click, serverVars, controls, Typing
<1>9. ASSUME NEW i \in DOMAIN data.items, Reactivate(i) PROVE Typing'
  BY <1>9, PatchTyping DEF Reactivate, Statuses
<1>10. ASSUME NEW i \in DOMAIN data.items, Rotate(i) PROVE Typing'
  BY <1>10, PatchTyping DEF Rotate, Statuses
<1>11. ASSUME NEW i \in DOMAIN data.items, NEW to \in Statuses, Dismiss(i, to) PROVE Typing'
  BY <1>11, PatchTyping DEF Dismiss
<1>12. ASSUME NEW r \in sent, ListExecute(r) PROVE Typing'
  BY <1>0, <1>12 DEF ListExecute, serverVars, controls, Typing
<1>13. ASSUME NEW a \in answered, ListAnswer(a) PROVE Typing'
  BY <1>0, <1>13 DEF ListAnswer, serverVars, controls, Typing
<1>14. ASSUME NEW r \in sent \cup answered, ListFail(r) PROVE Typing'
  BY <1>0, <1>14 DEF ListFail, serverVars, controls, Typing
<1>15. ASSUME NEW r \in triages, TriageExecute(r) PROVE Typing'
  <2>1. r \in Triages
    BY DEF Typing
  <2>2. [r EXCEPT !.done = TRUE] \in Triages /\ r.id \in Ids /\ r.to \in Statuses /\ r.live \in BOOLEAN
    BY <2>1 DEF Triages
  <2>3. triages' \subseteq Triages
    BY <1>15, <2>2 DEF TriageExecute, Typing
  <2>4. rows' \in [Ids -> Statuses]
    BY <1>15, <2>2 DEF TriageExecute, Typing
  <2>5. unseen' \in BOOLEAN /\ astray' \in BOOLEAN
    BY <1>15, <2>2 DEF TriageExecute, Typing
  <2> QED
    BY <1>0, <1>15, <2>3, <2>4, <2>5 DEF TriageExecute, controls, Typing
<1>16. ASSUME NEW r \in triages, TriageAnswer(r) PROVE Typing'
  BY <1>0, <1>16 DEF TriageAnswer, Fetch, serverVars, controls, Typing
<1>17. ASSUME NEW r \in triages, TriageFail(r) PROVE Typing'
  <2>1. unseen' \in BOOLEAN
    BY <1>17 DEF TriageFail, Typing, Triages
  <2> QED
    BY <1>0, <1>17, <2>1 DEF TriageFail, serverVars, controls, Typing
<1>18. ASSUME PanelAnswer PROVE Typing'
  BY <1>0, <1>18 DEF PanelAnswer, serverVars, controls, Typing
<1>19. ASSUME NEW i \in Ids, NEW s \in OtherStatuses, OtherChange(i, s) PROVE Typing'
  <2>1. rows' \in [Ids -> Statuses]
    BY <1>19, FindingsAssumption DEF OtherChange, Typing
  <2> QED
    BY <1>0, <1>19, <2>1 DEF OtherChange, controls, Typing
<1>20. ASSUME FindingsMount PROVE Typing'
  BY <1>0, <1>20 DEF FindingsMount, Fetch, serverVars, Typing
<1>21. ASSUME FindingsUnmount PROVE Typing'
  <2>1. \A r \in Triages : Retired(r) \in Triages
    <3> SUFFICES ASSUME NEW r \in Triages PROVE Retired(r) \in Triages
      OBVIOUS
    <3>1. [r EXCEPT !.live = FALSE] \in Triages
      BY DEF Triages
    <3> QED
      BY <3>1, FirstWantIsWant DEF Retired, Triages
  <2>2. triages' \subseteq Triages
    BY <1>21, <2>1 DEF FindingsUnmount, Typing
  <2>3. typed' \in Texts
    BY <1>21, FindingsAssumption DEF FindingsUnmount
  <2> QED
    BY <1>0, <1>21, <2>2, <2>3 DEF FindingsUnmount, serverVars, Typing
<1> QED
  BY <1>1, <1>2, <1>3, <1>4, <1>5, <1>6, <1>7, <1>8, <1>9, <1>10, <1>11, <1>12, <1>13,
     <1>14, <1>15, <1>16, <1>17, <1>18, <1>19, <1>20, <1>21
  DEF FindingsNext, FindingsInput, FindingsExecute, FindingsAnswer, FindingsOthers
-----------------------------------------------------------------------------
(* Presence, numbering and what the last request asks for. *)

LEMMA PresenceStep ==
    ASSUME Typing, Presence, [FindingsNext]_findingsVars
    PROVE  Presence'
<1>s. CASE UNCHANGED findingsVars
  <2>1. UNCHANGED <<mounted, fetches, want, sent, answered, data, timer, refetch, unseen, triages>>
    BY <1>s DEF findingsVars, controls, listVars
  <2> QED
    BY <2>1 DEF Presence
<1> SUFFICES ASSUME FindingsNext PROVE Presence'
  BY <1>s
<1>0. fetches \in Nat /\ mounted \in BOOLEAN /\ triages \subseteq Triages
  BY DEF Typing, ListTyping
<1>1. CASE Quiet
  BY <1>1 DEF Quiet, listVars, Presence
<1>2. CASE Chosen
  BY <1>0, <1>2 DEF Chosen, Fetch, Presence
<1>3. CASE Patched
  BY <1>3 DEF Patched, listVars, Presence
<1>4. ASSUME NEW r \in sent, ListExecute(r) PROVE Presence'
  BY <1>0, <1>4 DEF ListExecute, controls, Presence
<1>5. ASSUME NEW r \in triages, TriageExecute(r) PROVE Presence'
  <2>1. r \in Triages
    BY <1>0
  <2>2. /\ [r EXCEPT !.done = TRUE].live = r.live
        /\ [r EXCEPT !.done = TRUE].done
    BY <2>1 DEF Triages
  <2>3. \A t \in triages' : (t.done => t.live) /\ (t.live => mounted)
    BY <1>5, <2>2 DEF TriageExecute, Presence
  <2>4. ~mounted => unseen' = FALSE
    BY <1>5 DEF TriageExecute, Presence
  <2> QED
    BY <1>5, <2>3, <2>4 DEF TriageExecute, controls, listVars, Presence
<1>6. ASSUME NEW a \in answered, ListAnswer(a) PROVE Presence'
  BY <1>0, <1>6 DEF ListAnswer, controls, Presence
<1>7. ASSUME NEW r \in sent \cup answered, ListFail(r) PROVE Presence'
  BY <1>0, <1>7 DEF ListFail, controls, Presence
<1>8. ASSUME NEW r \in triages, TriageAnswer(r) PROVE Presence'
  BY <1>0, <1>8 DEF TriageAnswer, Fetch, controls, Presence
<1>9. ASSUME NEW r \in triages, TriageFail(r) PROVE Presence'
  BY <1>0, <1>9 DEF TriageFail, controls, listVars, Presence
<1>10. ASSUME NEW i \in Ids, NEW s \in OtherStatuses, OtherChange(i, s) PROVE Presence'
  BY <1>0, <1>10 DEF OtherChange, controls, listVars, Presence
<1>11. ASSUME FindingsMount PROVE Presence'
  BY <1>0, <1>11 DEF FindingsMount, Fetch, Presence
<1>12. ASSUME FindingsUnmount PROVE Presence'
  <2>1. \A r \in Triages : Retired(r).live = FALSE /\ Retired(r).done = r.done
    BY DEF Retired, Triages
  <2>2. \A t \in triages' : ~t.done /\ ~t.live
    BY <1>0, <1>12, <2>1 DEF FindingsUnmount
  <2> QED
    BY <1>12, <2>2 DEF FindingsUnmount, Presence
<1> QED
  BY StepsAreEvents, <1>1, <1>2, <1>3, <1>4, <1>5, <1>6, <1>7, <1>8, <1>9, <1>10, <1>11, <1>12
  DEF Event, FindingsExecute, FindingsOthers

\* A request that is sent takes the next number, and none has it before.
LEMMA FetchNumbers ==
    ASSUME Typing, Numbering, NEW w \in Wants, NEW b, Fetch(w, b)
    PROVE  Numbering'
<1> DEFINE q == [no |-> fetches + 1, params |-> w]
<1>1. fetches \in Nat /\ fetches' = fetches + 1 /\ sent' = sent \cup {q} /\ answered' = answered /\ data' = data
  BY DEF Fetch, Typing, ListTyping
<1>2. q.no = fetches + 1
  OBVIOUS
<1> HIDE DEF q
<1>3. \A r \in sent \cup answered : r.no \in 1..fetches
  BY DEF Numbering
<1>4. \A r \in sent \cup answered : r.no # q.no
  BY <1>1, <1>2, <1>3
<1>5. \A r \in sent' \cup answered' : r.no \in 1..fetches'
  BY <1>1, <1>2, <1>3
<1>6. data'.no \in 0..fetches' /\ (data'.no = 0 => data' = NoData)
  BY <1>1 DEF Numbering
<1>7. \A r, p \in sent' : r.no = p.no => r = p
  BY <1>1, <1>4 DEF Numbering
<1>8. \A r \in sent', p \in answered' : r.no # p.no
  BY <1>1, <1>4 DEF Numbering
<1>9. \A r, p \in answered' : r.no = p.no => r = p
  BY <1>1 DEF Numbering
<1> QED
  BY <1>5, <1>6, <1>7, <1>8, <1>9 DEF Numbering

LEMMA NumberingStep ==
    ASSUME Typing, Presence, Numbering, [FindingsNext]_findingsVars
    PROVE  Numbering'
<1> SUFFICES ASSUME FindingsNext PROVE Numbering'
  BY DEF findingsVars, serverVars, controls, listVars, Numbering
<1>0. fetches \in Nat
  BY DEF Typing, ListTyping
<1>1. CASE Quiet \/ Patched
  BY <1>1 DEF Quiet, Patched, listVars, Numbering
<1>2. CASE Chosen
  BY <1>2, FetchNumbers DEF Chosen
<1>3. ASSUME NEW r \in sent, ListExecute(r) PROVE Numbering'
  <2>1. PICK l \in Listed(r.params) : answered' = answered \cup
            {[no |-> r.no, params |-> r.params, items |-> l.items, pages |-> l.pages]}
    BY <1>3 DEF ListExecute
  <2>2. sent' = sent \ {r} /\ UNCHANGED <<fetches, data>>
    BY <1>3 DEF ListExecute
  <2>3. \A p \in answered' : p \in answered \/ p.no = r.no
    BY <2>1
  <2>4. \A p, q \in answered' : p.no = q.no => p = q
    BY <2>1 DEF Numbering
  <2>5. \A p \in sent', q \in answered' : p.no # q.no
    BY <2>2, <2>3 DEF Numbering
  <2>6. \A p \in sent' \cup answered' : p.no \in 1..fetches'
    BY <2>2, <2>3 DEF Numbering
  <2> QED
    BY <2>2, <2>4, <2>5, <2>6 DEF Numbering
<1>4. ASSUME NEW r \in triages, TriageExecute(r) \/ TriageFail(r) PROVE Numbering'
  BY <1>4 DEF TriageExecute, TriageFail, listVars, Numbering
<1>5. ASSUME NEW a \in answered, ListAnswer(a) PROVE Numbering'
  BY <1>0, <1>5 DEF ListAnswer, Numbering
<1>6. ASSUME NEW r \in sent \cup answered, ListFail(r) PROVE Numbering'
  BY <1>0, <1>6 DEF ListFail, Numbering
<1>7. ASSUME NEW r \in triages, TriageAnswer(r) PROVE Numbering'
  <2>1. r.params \in Wants
    BY DEF Typing, Triages
  <2> QED
    BY <1>7, <2>1, FetchNumbers DEF TriageAnswer
<1>8. ASSUME FindingsOthers PROVE Numbering'
  BY <1>8 DEF FindingsOthers, OtherChange, listVars, Numbering
<1>9. ASSUME FindingsMount PROVE Numbering'
  BY <1>9, FetchNumbers, FirstWantIsWant DEF FindingsMount
<1>10. ASSUME FindingsUnmount PROVE Numbering'
  BY <1>10 DEF FindingsUnmount, Numbering, NoData
<1> QED
  BY StepsAreEvents, <1>1, <1>2, <1>3, <1>4, <1>5, <1>6, <1>7, <1>8, <1>9, <1>10
  DEF Event, FindingsExecute

LEMMA AskingStep ==
    ASSUME Typing, Presence, Numbering, Asking, [FindingsNext]_findingsVars
    PROVE  Asking'
<1> SUFFICES ASSUME FindingsNext PROVE Asking'
  BY DEF findingsVars, serverVars, controls, listVars, Asking
<1>0. fetches \in Nat /\ \A r \in sent \cup answered \cup {data} : r.no \in 0..fetches
  BY DEF Typing, ListTyping, Numbering
<1>1. CASE Quiet \/ Patched
  BY <1>1 DEF Quiet, Patched, listVars, Asking
<1>2. CASE Chosen
  BY <1>0, <1>2 DEF Chosen, Fetch, Asking
<1>3. ASSUME NEW r \in sent, ListExecute(r) PROVE Asking'
  <2>1. PICK l \in Listed(r.params) : answered' = answered \cup
            {[no |-> r.no, params |-> r.params, items |-> l.items, pages |-> l.pages]}
    BY <1>3 DEF ListExecute
  <2>2. sent' = sent \ {r} /\ UNCHANGED <<fetches, data, want, refetch>>
    BY <1>3 DEF ListExecute, controls
  <2>3. \A p \in answered' : p \in answered \/ (p.no = r.no /\ p.params = r.params)
    BY <2>1
  <2> QED
    BY <2>2, <2>3 DEF Asking
<1>4. ASSUME NEW r \in triages, TriageExecute(r) \/ TriageFail(r) PROVE Asking'
  BY <1>4 DEF TriageExecute, TriageFail, controls, listVars, Asking
<1>5. ASSUME NEW a \in answered, ListAnswer(a) PROVE Asking'
  BY <1>5 DEF ListAnswer, controls, Asking
<1>6. ASSUME NEW r \in sent \cup answered, ListFail(r) PROVE Asking'
  BY <1>6 DEF ListFail, controls, Asking
<1>7. ASSUME NEW r \in triages, TriageAnswer(r) PROVE Asking'
  BY <1>7 DEF TriageAnswer, Fetch, Asking
<1>8. ASSUME FindingsOthers PROVE Asking'
  BY <1>8 DEF FindingsOthers, OtherChange, controls, listVars, Asking
<1>9. ASSUME FindingsMount PROVE Asking'
  BY <1>0, <1>9 DEF FindingsMount, Fetch, Presence, Asking
<1>10. ASSUME FindingsUnmount PROVE Asking'
  BY <1>10 DEF FindingsUnmount, Asking, NoData
<1> QED
  BY StepsAreEvents, <1>1, <1>2, <1>3, <1>4, <1>5, <1>6, <1>7, <1>8, <1>9, <1>10
  DEF Event, FindingsExecute
-----------------------------------------------------------------------------
(* Fresh rows and full pages. *)

LEMMA AgreementStep ==
    ASSUME Typing, Presence, Numbering, Agreement, [FindingsNext]_findingsVars
    PROVE  Agreement'
<1>s. CASE UNCHANGED findingsVars
  <2>1. UNCHANGED <<rows, unseen, triages, answered, data, fetches>>
    BY <1>s DEF findingsVars, serverVars, listVars
  <2> QED
    BY <2>1 DEF Agreement
<1> SUFFICES ASSUME FindingsNext PROVE Agreement'
  BY <1>s
<1>0. fetches \in Nat /\ \A r \in answered \cup {data} : r.no \in 0..fetches
  BY DEF Typing, ListTyping, Numbering
<1>a. ASSUME NEW w, NEW b, Fetch(w, b) PROVE Agreement'
  BY <1>0, <1>a DEF Fetch, Agreement
<1>b. ~mounted => answered = {} /\ DOMAIN data.items = {}
  BY NoDataIsAnswer DEF Presence
<1>1. CASE Quiet
  BY <1>1 DEF Quiet, listVars, Agreement
<1>2. CASE Chosen
  BY <1>2, <1>a DEF Chosen
<1>3. CASE Patched
  BY <1>3 DEF Patched, listVars, Agreement
<1>4. ASSUME NEW r \in sent, ListExecute(r) PROVE Agreement'
  <2>1. PICK l \in Listed(r.params) : answered' = answered \cup
            {[no |-> r.no, params |-> r.params, items |-> l.items, pages |-> l.pages]}
    BY <1>4 DEF ListExecute
  <2>2. r.params \in Wants /\ rows \in [Ids -> Statuses]
    BY DEF Typing, ListTyping, Requests
  <2>3. \A i \in DOMAIN l.items : l.items[i] = rows[i]
    BY <2>1, <2>2, ListedAreItems
  <2>4. \A p \in answered' : p \in answered \/ p.items = l.items
    BY <2>1
  <2>5. UNCHANGED <<rows, unseen, triages, fetches, data>>
    BY <1>4 DEF ListExecute, serverVars
  <2> QED
    BY <2>3, <2>4, <2>5 DEF Agreement
<1>5. ASSUME NEW r \in triages, TriageExecute(r) PROVE Agreement'
  <2>1. r \in Triages /\ UNCHANGED <<fetches, answered, data>>
    BY <1>5 DEF TriageExecute, listVars, Typing
  <2>2. CASE r.live
    <3>1. [r EXCEPT !.done = TRUE].live /\ [r EXCEPT !.done = TRUE].done
      BY <2>1, <2>2 DEF Triages
    <3>2. [r EXCEPT !.done = TRUE] \in triages'
      BY <1>5, <2>2 DEF TriageExecute
    <3> QED
      BY <3>1, <3>2 DEF Agreement
  <2>3. CASE ~r.live /\ mounted
    BY <1>5, <2>3 DEF TriageExecute, Agreement
  <2>4. CASE ~mounted
    BY <1>b, <2>1, <2>4 DEF Agreement
  <2> QED
    BY <2>2, <2>3, <2>4
<1>6. ASSUME NEW a \in answered, ListAnswer(a) PROVE Agreement'
  <2>1. UNCHANGED <<rows, unseen, triages, fetches>> /\ answered' \subseteq answered /\ data' \in answered
    BY <1>6 DEF ListAnswer, serverVars
  <2> QED
    BY <2>1 DEF Agreement
<1>7. ASSUME NEW r \in sent \cup answered, ListFail(r) PROVE Agreement'
  <2>1. UNCHANGED <<rows, unseen, triages, fetches, data>> /\ answered' \subseteq answered
    BY <1>7 DEF ListFail, serverVars
  <2> QED
    BY <2>1 DEF Agreement
<1>8. ASSUME NEW r \in triages, TriageAnswer(r) PROVE Agreement'
  BY <1>8, <1>a DEF TriageAnswer
<1>9. ASSUME NEW r \in triages, TriageFail(r) PROVE Agreement'
  <2>1. UNCHANGED <<rows, fetches, data, answered>> /\ triages' = triages \ {r} /\ (unseen' <=> unseen \/ r.done)
    BY <1>9 DEF TriageFail, serverVars, listVars, Typing, Triages
  <2> QED
    BY <2>1 DEF Agreement
<1>10. ASSUME NEW i \in Ids, NEW s \in OtherStatuses, OtherChange(i, s) PROVE Agreement'
  <2>1. UNCHANGED <<fetches, answered, data>> /\ unseen' = mounted
    BY <1>10 DEF OtherChange, listVars
  <2> QED
    BY <1>b, <2>1 DEF Agreement
<1>11. ASSUME FindingsMount PROVE Agreement'
  BY <1>11, <1>a DEF FindingsMount
<1>12. ASSUME FindingsUnmount PROVE Agreement'
  BY <1>12, NoDataIsAnswer DEF FindingsUnmount, Agreement
<1> QED
  BY StepsAreEvents, <1>1, <1>2, <1>3, <1>4, <1>5, <1>6, <1>7, <1>8, <1>9, <1>10, <1>11, <1>12
  DEF Event, FindingsExecute, FindingsOthers

LEMMA FirstPagesAreInRange ==
    ASSUME rows \in [Ids -> Statuses], NEW w \in Wants, w.page = 1
    PROVE  InRange(w, rows)
<1>1. Cardinality(MatchedBy(w, rows)) \in Nat
  BY MatchingIsFinite DEF Matching, MatchedBy
<1> QED
  BY <1>1, PagesType DEF InRange

LEMMA PagingStep ==
    ASSUME Typing, Presence, Numbering, Paging, [FindingsNext]_findingsVars
    PROVE  Paging'
<1>s. CASE UNCHANGED findingsVars
  <2>1. UNCHANGED <<rows, astray, want, sent, answered, triages, data>>
    BY <1>s DEF findingsVars, serverVars, controls, listVars
  <2> QED
    BY <2>1 DEF Paging
<1> SUFFICES ASSUME FindingsNext, ~astray' PROVE Paging'
  BY <1>s DEF Paging
<1>0. rows \in [Ids -> Statuses] /\ want \in Wants /\ data \in Answers /\ triages \subseteq Triages
  BY DEF Typing, ListTyping
<1>1. CASE Quiet
  BY <1>1 DEF Quiet, listVars, Paging
<1>2. CASE Chosen
  <2>1. ~astray /\ want' \in Wants /\ UNCHANGED <<rows, triages, answered, data>>
    BY <1>2 DEF Chosen, Fetch
  <2>2. ASSUME want'.page = 1 PROVE InRange(want', rows)
    BY <1>0, <2>1, <2>2, FirstPagesAreInRange
  <2>3. ASSUME Turned PROVE InRange(want', rows)
    <3>1. MatchedBy(want', rows) = MatchedBy(want, rows)
      BY <2>3 DEF Turned, SameFilters, MatchedBy
    <3>2. want.page \in Nat \ {0} /\ want'.page \in Nat \ {0}
      BY <1>0, <2>1 DEF Wants
    <3>3. Pages(Cardinality(MatchedBy(want, rows))) \in Nat
      BY <1>0, MatchingIsFinite, PagesType DEF Matching, MatchedBy
    <3>4. CASE want'.page < want.page
      BY <2>1, <3>1, <3>2, <3>3, <3>4 DEF Paging, InRange
    <3>5. CASE want'.page = want.page + 1 /\ want.page < data.pages /\ ~OlderTable
      <4>1. data.params \in Wants /\ data.pages \in Nat
        BY <1>0, AnswersAreRecords
      <4>2. FirstPage(data.params) = FirstPage(want)
        BY <3>5 DEF OlderTable
      <4>3. SameFilters(data.params, want)
        <5>1. /\ FirstPage(want).status = want.status /\ FirstPage(want).risk = want.risk
              /\ FirstPage(want).search = want.search
          BY <1>0 DEF FirstPage, Wants
        <5>2. /\ FirstPage(data.params).status = data.params.status
              /\ FirstPage(data.params).risk = data.params.risk
              /\ FirstPage(data.params).search = data.params.search
          BY <4>1 DEF FirstPage, Wants
        <5> QED
          BY <4>2, <5>1, <5>2 DEF SameFilters
      <4>4. MatchedBy(data.params, rows) = MatchedBy(want, rows)
        BY <4>3 DEF SameFilters, MatchedBy
      <4>5. data # NoData
        BY <3>2, <3>5, <4>1 DEF NoData
      <4>6. data.pages = Pages(Cardinality(MatchedBy(want, rows)))
        BY <2>1, <4>4, <4>5 DEF Paging, Account
      <4> QED
        BY <3>1, <3>2, <3>3, <3>5, <4>1, <4>6 DEF InRange
    <3> QED
      BY <2>3, <3>4, <3>5 DEF Turned
  <2>4. InRange(want', rows)
    BY <1>2, <2>2, <2>3 DEF Chosen
  <2>5. \A r \in sent' : r \in sent \/ r.params = want'
    BY <1>2 DEF Chosen, Fetch
  <2> QED
    BY <2>1, <2>4, <2>5 DEF Paging
<1>3. CASE Patched
  BY <1>3 DEF Patched, listVars, Paging
<1>4. ASSUME NEW r \in sent, ListExecute(r) PROVE Paging'
  <2>1. PICK l \in Listed(r.params) : answered' = answered \cup
            {[no |-> r.no, params |-> r.params, items |-> l.items, pages |-> l.pages]}
    BY <1>4 DEF ListExecute
  <2> DEFINE a == [no |-> r.no, params |-> r.params, items |-> l.items, pages |-> l.pages]
  <2>2. UNCHANGED <<rows, astray, want, triages, data>> /\ sent' \subseteq sent
    BY <1>4 DEF ListExecute, serverVars, controls
  <2>3. r.params \in Wants
    BY DEF Typing, ListTyping, Requests
  <2>4. a.params = r.params /\ a.items = l.items /\ a.pages = l.pages /\ answered' = answered \cup {a}
    BY <2>1
  <2> HIDE DEF a
  <2>5. Account(a, rows)
    BY <1>0, <2>3, <2>4, ListedAreItems DEF Account, Matching, MatchedBy
  <2> QED
    BY <2>2, <2>4, <2>5 DEF Paging
<1>5. ASSUME NEW r \in triages, TriageExecute(r) PROVE Paging'
  BY <1>5 DEF TriageExecute
<1>6. ASSUME NEW a \in answered, ListAnswer(a) PROVE Paging'
  BY <1>6 DEF ListAnswer, serverVars, controls, Paging
<1>7. ASSUME NEW r \in sent \cup answered, ListFail(r) PROVE Paging'
  BY <1>7 DEF ListFail, serverVars, controls, Paging
<1>8. ASSUME NEW r \in triages, TriageAnswer(r) PROVE Paging'
  <2>1. UNCHANGED <<rows, astray, want, answered, data>> /\ triages' \subseteq triages
    BY <1>8 DEF TriageAnswer, Fetch, serverVars, controls
  <2>2. \A q \in sent' : q \in sent \/ q.params = r.params
    BY <1>8 DEF TriageAnswer, Fetch
  <2> QED
    BY <2>1, <2>2 DEF Paging
<1>9. ASSUME NEW r \in triages, TriageFail(r) PROVE Paging'
  BY <1>9 DEF TriageFail, serverVars, controls, listVars, Paging
<1>10. ASSUME FindingsOthers PROVE Paging'
  BY <1>10 DEF FindingsOthers, OtherChange
<1>11. ASSUME FindingsMount PROVE Paging'
  <2>1. UNCHANGED <<rows, astray, want, triages, answered, data>> /\ want = FirstWant
    BY <1>11 DEF FindingsMount, Fetch, serverVars, Presence
  <2>2. \A q \in sent' : q \in sent \/ q.params = FirstWant
    BY <1>11 DEF FindingsMount, Fetch
  <2> QED
    BY <2>1, <2>2 DEF Paging
<1>12. ASSUME FindingsUnmount PROVE Paging'
  <2>1. FirstWant \in Wants /\ FirstWant.page = 1
    BY FirstWantIsWant DEF FirstWant
  <2>2. InRange(FirstWant, rows)
    BY <1>0, <2>1, FirstPagesAreInRange
  <2>3. \A r \in Triages : Retired(r).params = FirstWant
    BY DEF Retired, Triages
  <2>4. \A t \in triages' : t.params = FirstWant
    BY <1>0, <1>12, <2>3 DEF FindingsUnmount
  <2>5. want' = FirstWant /\ sent' = {} /\ answered' = {} /\ data' = NoData /\ rows' = rows
    BY <1>12 DEF FindingsUnmount, serverVars
  <2> QED
    BY <2>2, <2>4, <2>5 DEF Paging
<1> QED
  BY StepsAreEvents, <1>1, <1>2, <1>3, <1>4, <1>5, <1>6, <1>7, <1>8, <1>9, <1>10, <1>11, <1>12
  DEF Event, FindingsExecute
-----------------------------------------------------------------------------
(* The theorems. *)

IInv == Typing /\ Presence /\ Numbering /\ Asking /\ Agreement /\ Paging

LEMMA InitTyping == FindingsInit => Typing
<1> SUFFICES ASSUME FindingsInit PROVE Typing
  OBVIOUS
<1>1. rows \in [Ids -> Statuses] /\ clicks \in Nat /\ triages = {} /\ astray = FALSE
  BY FindingsAssumption DEF FindingsInit, Statuses
<1>2. /\ mounted = FALSE /\ want = FirstWant /\ typed = NoText /\ fetches = 0 /\ sent = {}
      /\ answered = {} /\ data = NoData /\ refetch = FALSE /\ unseen = FALSE
  BY DEF FindingsInit, Unmounted
<1>3. NoText \in Texts /\ FirstWant \in Wants /\ NoData \in Answers
  BY FindingsAssumption, FirstWantIsWant, NoDataIsAnswer
<1> QED
  BY <1>1, <1>2, <1>3 DEF Typing, ListTyping

LEMMA InitIInv == FindingsInit => IInv
<1> SUFFICES ASSUME FindingsInit PROVE IInv
  OBVIOUS
<1>1. Typing
  BY InitTyping
<1>2. /\ ~mounted /\ want = FirstWant /\ timer = FALSE /\ fetches = 0 /\ sent = {} /\ answered = {}
      /\ data = NoData /\ refetch = FALSE /\ unseen = FALSE /\ triages = {}
  BY DEF FindingsInit, Unmounted
<1>3. Presence
  BY <1>2 DEF Presence
<1>4. Numbering
  BY <1>2 DEF Numbering, NoData
<1>5. Asking
  BY <1>2 DEF Asking, NoData
<1>6. Agreement
  BY <1>2, NoDataIsAnswer DEF Agreement
<1>7. InRange(want, rows)
  <2>1. FirstWant \in Wants /\ FirstWant.page = 1
    BY FirstWantIsWant DEF FirstWant
  <2> QED
    BY <1>1, <1>2, <2>1, FirstPagesAreInRange DEF Typing
<1>8. Paging
  BY <1>2, <1>7 DEF Paging
<1> QED
  BY <1>1, <1>3, <1>4, <1>5, <1>6, <1>8 DEF IInv

LEMMA StepIInv == IInv /\ [FindingsNext]_findingsVars => IInv'
<1> SUFFICES ASSUME IInv, [FindingsNext]_findingsVars PROVE IInv'
  OBVIOUS
<1>1. Typing' /\ Presence' /\ Numbering'
  BY TypingStep, PresenceStep, NumberingStep DEF IInv
<1>2. Asking' /\ Agreement' /\ Paging'
  BY AskingStep, AgreementStep, PagingStep DEF IInv
<1> QED
  BY <1>1, <1>2 DEF IInv

THEOREM FindingsInvariant == FindingsSpec => []IInv
BY InitIInv, StepIInv, PTL DEF FindingsSpec

\* The table on display is that of the controls (page.tsx:229-248).
THEOREM FilterShownHolds == FindingsSpec => []FilterShown
<1>1. IInv => FilterShown
  BY DEF IInv, Asking, FilterShown
<1> QED
  BY <1>1, FindingsInvariant, PTL

\* The rows of the last answer have the status they show (page.tsx:260-264).
THEOREM RowsFreshHolds == FindingsSpec => []RowsFresh
<1>1. IInv => RowsFresh
  BY DEF IInv, Agreement, RowsFresh
<1> QED
  BY <1>1, FindingsInvariant, PTL

\* A page after the first is not empty without a cause (page.tsx:478-490).
THEOREM EmptyPageHasCauseHolds == FindingsSpec => []EmptyPageHasCause
<1>1. IInv => EmptyPageHasCause
  <2> SUFFICES ASSUME IInv, data.params.page > 1, ~astray PROVE data.items # NoData.items
    BY DEF EmptyPageHasCause
  <2>1. data \in Answers /\ rows \in [Ids -> Statuses]
    BY DEF IInv, Typing, ListTyping
  <2>2. data.params \in Wants /\ data.params.page \in Nat
    BY <2>1, AnswersAreRecords, WantsAreRecords
  <2>3. data # NoData
    BY DEF NoData, FirstWant
  <2> DEFINE n == Cardinality(MatchedBy(data.params, rows))
  <2>4. n \in Nat
    BY <2>2, MatchingIsFinite DEF Matching, MatchedBy
  <2>5. data.params.page <= Pages(n) /\ Cardinality(DOMAIN data.items) = RowsOn(data.params.page, n)
    BY <2>3 DEF IInv, Paging, InRange, Account
  <2> HIDE DEF n
  <2>6. Cardinality(DOMAIN data.items) > 0
    BY <2>2, <2>4, <2>5, PageIsNotEmpty
  <2> QED
    BY <2>6, NoDataIsAnswer, FS_EmptySet
<1> QED
  BY <1>1, FindingsInvariant, PTL
-----------------------------------------------------------------------------
(* The list implements a view of a remote resource. *)

LEMMA FetchAsks ==
    ASSUME NEW w, NEW b \in BOOLEAN, Fetch(w, b), b \/ w = want'
    PROVE  Listing!Ask(b) /\ data' = data
<1> DEFINE q == [no |-> fetches + 1, params |-> w]
<1>1. sent' = sent \cup {q} /\ UNCHANGED <<answered, data>> /\ fetches' = fetches + 1 /\ refetch' = b
  BY DEF Fetch
<1>2. q.no = fetches + 1 /\ q.params = w /\ Question(q) = q
  BY DEF Question
<1> HIDE DEF q
<1> DEFINE A == {Question(r) : r \in sent \cup answered}
           B == {Question(r) : r \in sent' \cup answered'}
<1>3. B = A \cup {q}
  BY <1>1, <1>2
<1> HIDE DEF A, B
<1>4. \E r \in B : B = A \cup {r} /\ r.no = fetches + 1 /\ (b \/ r.params = want')
  BY <1>2, <1>3
<1> QED
  BY <1>1, <1>4 DEF Listing!Ask, A, B

\* Numbers tell questions apart: an answer takes one request off the list.
LEMMA QuestionsLeave ==
    ASSUME Numbering, NEW r \in sent \cup answered, NEW S, S = (sent \cup answered) \ {r}
    PROVE  {Question(q) : q \in S} = {Question(q) : q \in sent \cup answered} \ {Question(r)}
<1>1. \A q \in S : q.no # r.no
  BY DEF Numbering
<1>2. \A q \in S : Question(q) # Question(r)
  BY <1>1 DEF Question
<1> QED
  BY <1>2

LEMMA ListingStep ==
    ASSUME IInv, [FindingsNext]_findingsVars
    PROVE  [Listing!Next]_(Listing!viewVars)
<1>a. ASSUME UNCHANGED <<want, listVars>> PROVE UNCHANGED Listing!viewVars
  BY <1>a DEF listVars, Listing!viewVars
<1>s. CASE UNCHANGED findingsVars
  BY <1>s, <1>a DEF findingsVars, controls
<1> SUFFICES ASSUME FindingsNext PROVE Listing!Next \/ UNCHANGED Listing!viewVars
  BY <1>s
<1>0. Typing /\ Presence /\ Numbering /\ fetches \in Nat
  BY DEF IInv, Typing, ListTyping
<1>1. CASE Quiet \/ Patched
  BY <1>1, <1>a DEF Quiet, Patched
<1>2. CASE Chosen
  <2>1. Listing!Ask(FALSE) /\ data' = data
    BY <1>2, FetchAsks DEF Chosen
  <2>2. fetches > 0 /\ want' # want
    BY <1>0, <1>2 DEF Chosen, Presence
  <2> QED
    BY <2>1, <2>2 DEF Listing!Choose, Listing!Next
<1>3. ASSUME NEW r \in sent, ListExecute(r) PROVE UNCHANGED Listing!viewVars
  <2>1. PICK l \in Listed(r.params) : answered' = answered \cup
            {[no |-> r.no, params |-> r.params, items |-> l.items, pages |-> l.pages]}
    BY <1>3 DEF ListExecute
  <2> DEFINE a == [no |-> r.no, params |-> r.params, items |-> l.items, pages |-> l.pages]
  <2>2. Question(a) = Question(r)
    BY DEF Question
  <2>3. sent' \cup answered' = ((sent \ {r}) \cup answered) \cup {a}
    BY <1>3, <2>1 DEF ListExecute
  <2> HIDE DEF a
  <2>4. {Question(q) : q \in sent' \cup answered'} = {Question(q) : q \in sent \cup answered}
    BY <2>2, <2>3
  <2>5. UNCHANGED <<want, fetches, refetch, data>>
    BY <1>3 DEF ListExecute, controls
  <2> QED
    BY <2>4, <2>5 DEF Listing!viewVars
<1>4. ASSUME NEW r \in triages, TriageExecute(r) \/ TriageFail(r) PROVE UNCHANGED Listing!viewVars
  BY <1>4, <1>a DEF TriageExecute, TriageFail, controls
<1>5. ASSUME NEW a \in answered, ListAnswer(a) PROVE Listing!Next
  <2>1. sent' \cup answered' = (sent \cup answered) \ {a}
    BY <1>0, <1>5 DEF ListAnswer, Numbering
  <2>2. {Question(q) : q \in sent' \cup answered'} = {Question(q) : q \in sent \cup answered} \ {Question(a)}
    BY <1>0, <2>1, QuestionsLeave
  <2>3. a # NoData
    BY <1>0 DEF Numbering, NoData
  <2>4. {Question(r) : r \in {data'} \ {NoData}} = {Question(a)}
    BY <1>5, <2>3 DEF ListAnswer
  <2>5. UNCHANGED <<want, fetches, refetch>>
    BY <1>5 DEF ListAnswer, controls
  <2>6. Listing!Answer(Question(a))
    BY <2>2, <2>4, <2>5 DEF Listing!Answer
  <2> QED
    BY <2>6 DEF Listing!Next
<1>6. ASSUME NEW r \in sent \cup answered, ListFail(r) PROVE Listing!Next
  <2>1. sent' \cup answered' = (sent \cup answered) \ {r}
    BY <1>6 DEF ListFail
  <2>2. {Question(q) : q \in sent' \cup answered'} = {Question(q) : q \in sent \cup answered} \ {Question(r)}
    BY <1>0, <2>1, QuestionsLeave
  <2>3. UNCHANGED <<want, fetches, refetch, data>>
    BY <1>6 DEF ListFail, controls
  <2>4. Listing!Fail(Question(r))
    BY <2>2, <2>3 DEF Listing!Fail
  <2> QED
    BY <2>4 DEF Listing!Next
<1>7. ASSUME NEW r \in triages, TriageAnswer(r) PROVE Listing!Next
  <2>1. fetches > 0
    BY <1>0, <1>7 DEF TriageAnswer, Presence
  <2>2. Listing!Ask(TRUE) /\ data' = data
    BY <1>7, FetchAsks DEF TriageAnswer
  <2>3. want' = want
    BY <1>7 DEF TriageAnswer, controls
  <2> QED
    BY <2>1, <2>2, <2>3 DEF Listing!Refetch, Listing!Next
<1>8. ASSUME FindingsOthers PROVE UNCHANGED Listing!viewVars
  BY <1>8, <1>a DEF FindingsOthers, OtherChange, controls
<1>9. ASSUME FindingsMount PROVE Listing!Next
  <2>1. fetches = 0 /\ want' = FirstWant /\ data = NoData
    BY <1>0, <1>9 DEF FindingsMount, Presence
  <2>2. Listing!Ask(FALSE) /\ data' = NoData
    BY <1>9, <2>1, FetchAsks DEF FindingsMount
  <2>3. {Question(r) : r \in {data'} \ {NoData}} = {}
    BY <2>2
  <2> QED
    BY <2>1, <2>2, <2>3 DEF Listing!Open, Listing!Next
<1>10. ASSUME FindingsUnmount PROVE Listing!Next
  BY <1>10 DEF FindingsUnmount, Listing!Close, Listing!Closed, Listing!Next
<1> QED
  BY <1>0, StepsAreEvents, <1>1, <1>2, <1>3, <1>4, <1>5, <1>6, <1>7, <1>8, <1>9, <1>10
  DEF Event, FindingsExecute

\* The list asks once for each choice, and again after a triage: it implements
\* RemoteView (page.tsx:229-264).
THEOREM ListingImplements == FindingsSpec => ListingIsView
<1>1. FindingsInit => Listing!Init
  BY DEF FindingsInit, Unmounted, Listing!Init, Listing!Closed
<1>2. IInv /\ [FindingsNext]_findingsVars => [Listing!Next]_(Listing!viewVars)
  BY ListingStep
<1> QED
  BY <1>1, <1>2, FindingsInvariant, PTL DEF FindingsSpec, ListingIsView, Listing!Spec
=============================================================================
