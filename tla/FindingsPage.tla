---------------------------- MODULE FindingsPage ----------------------------
(***************************************************************************)
(* The findings page of the dashboard (app/findings/page.tsx) against the  *)
(* rows of the server: filters, a debounced search, sorting, pages, the    *)
(* triage of a row and the remediation panel.  Fetches are never cancelled *)
(* and carry no sequence guard: answers, failures, the debounce timer and  *)
(* clicks come in any order.                                               *)
(***************************************************************************)
EXTENDS Integers, FiniteSets

CONSTANTS
    Ids,            \* the findings of the organization
    Impact,         \* the risk impact of each finding
    StatusChoices,  \* the status filters a user may choose
    RiskChoices,    \* the risk filters a user may choose
    Texts,          \* what may be typed into the search box
    FoundBy,        \* the findings each text finds
    Columns,        \* the columns a table can be sorted by
    PageSize,       \* rows per page
    OtherStatuses,  \* what a scanner or another user may make of a row
    MaxClicks,      \* bound: inputs of the user
    MaxOthers       \* bound: changes made by anybody else

Statuses == {"active", "fixed", "ignored", "false_positive", "rotated"}
NoText == ""
AllRisks == RiskChoices \ {"all"}

ASSUME FindingsAssumption ==
    /\ IsFiniteSet(Ids)
    /\ Impact \in [Ids -> AllRisks]
    /\ "all" \in StatusChoices /\ StatusChoices \subseteq Statuses \cup {"all"}
    /\ "all" \in RiskChoices
    /\ NoText \in Texts
    /\ FoundBy \in [Texts -> SUBSET Ids]
    /\ "last_seen" \in Columns
    /\ PageSize \in Nat \ {0}
    /\ OtherStatuses \subseteq Statuses
    /\ MaxClicks \in Nat /\ MaxOthers \in Nat

VARIABLES
    rows,      \* the server: the status of every finding
    others,    \* changes that somebody else may still make
    mounted,   \* the page is on screen
    clicks,    \* inputs the user has left
    want,      \* page, filters, search and sort order of the page
    typed,     \* the text in the search box
    timer,     \* the debounce timer runs
    fetches,   \* list requests sent by this mount
    sent,      \* list requests the server has not executed
    answered,  \* their answers on the way
    data,      \* the answer on display
    loading, failed,
    triages,   \* PATCH requests without an answer
    expanded,  \* the finding whose remediation is open, a set of at most one
    panel,     \* what that panel shows
    refetch,   \* history: the last fetch was one of a triage
    unseen,    \* history: a change the last fetch may have missed
    astray     \* history: a row has moved, or Next went by an older table

controls     == <<want, typed, timer>>
listVars     == <<fetches, sent, answered, data, loading, failed, refetch>>
panelVars    == <<expanded, panel>>
serverVars   == <<rows, others>>
findingsVars == <<serverVars, mounted, clicks, controls, listVars, triages,
                  panelVars, unseen, astray>>
-----------------------------------------------------------------------------
Wants == [page : Nat \ {0}, status : StatusChoices, risk : RiskChoices,
          search : Texts, column : Columns, order : {"asc", "desc"}]
FirstWant == [page |-> 1, status |-> "all", risk |-> "all",
              search |-> NoText, column |-> "last_seen", order |-> "desc"]

FirstPage(w) == [w EXCEPT !.page = 1]

Items    == UNION {[S -> Statuses] : S \in SUBSET Ids}
NoData   == [no |-> 0, params |-> FirstWant,
             items |-> [i \in {} |-> "active"], pages |-> 0]
Requests == [no : Nat, params : Wants]
Answers  == [no : Nat, params : Wants, items : Items, pages : Nat]
Triages  == [click : Nat, id : Ids, to : Statuses, params : Wants,
             done : BOOLEAN, live : BOOLEAN]

\* The page of the server's answer: the rows that match, how many pages they
\* fill, and as many of them as fit (equal sort keys have no order).
Matching(w) == {i \in FoundBy[w.search] : /\ w.status \in {"all", rows[i]}
                                          /\ w.risk \in {"all", Impact[i]}}
Pages(n) == IF n = 0 THEN 1 ELSE (n + PageSize - 1) \div PageSize
RowsOn(page, n) ==
    LET left == n - (page - 1) * PageSize
    IN  IF left < 0 THEN 0 ELSE IF left < PageSize THEN left ELSE PageSize
Listed(w) ==
    LET n == Cardinality(Matching(w))
    IN  {[items |-> [i \in S |-> rows[i]], pages |-> Pages(n)] :
            S \in {T \in SUBSET Matching(w) : Cardinality(T) = RowsOn(w.page, n)}}

\* The panel is rendered in the row of its finding, which the table has only
\* while it does not load; it is mounted anew, and fetches, when it comes back.
PanelShows(l, d, e) == ~l /\ \E i \in e : i \in DOMAIN d.items
PanelAfter(l, d, e) ==
    CASE ~PanelShows(l, d, e) -> {"none"}
      [] PanelShows(l, d, e) /\ ~(PanelShows(loading, data, expanded) /\ e = expanded) -> {"loading"}
      [] PanelShows(l, d, e) /\ PanelShows(loading, data, expanded) /\ e = expanded ->
             {panel} \cup (IF d = data THEN {} ELSE {"loading"})
Repaint == panel' \in PanelAfter(loading', data', expanded')

Fetch(w, again) ==
    /\ fetches' = fetches + 1
    /\ sent' = sent \cup {[no |-> fetches + 1, params |-> w]}
    /\ loading' = TRUE
    /\ failed' = FALSE
    /\ refetch' = again
    /\ unseen' = FALSE
    /\ UNCHANGED <<answered, data>>

\* Variant: sortOrder is missing among the dependencies of fetchFindings.
AdoptUnlessFlipped(w) ==
    /\ want' = w
    /\ IF w = [want EXCEPT !.order = w.order] THEN UNCHANGED <<listVars, unseen>>
                                              ELSE Fetch(w, FALSE)
    /\ UNCHANGED <<expanded, mounted, serverVars, triages>>
    /\ Repaint

\* The effect on fetchFindings, which changes only when one of its parameters does.
Adopt(w) ==
    /\ want' = w
    /\ \/ w = want /\ UNCHANGED <<listVars, unseen>>
       \/ w # want /\ Fetch(w, FALSE)
    /\ UNCHANGED <<expanded, mounted, serverVars, triages>>
    /\ Repaint

Unmounted ==
    /\ mounted = FALSE
    /\ want = FirstWant /\ typed = NoText /\ timer = FALSE
    /\ fetches = 0 /\ sent = {} /\ answered = {} /\ data = NoData
    /\ loading = FALSE /\ failed = FALSE /\ refetch = FALSE
    /\ expanded = {} /\ panel = "none"
    /\ unseen = FALSE

FindingsInit ==
    /\ rows = [i \in Ids |-> "active"]
    /\ others \in 0..MaxOthers
    /\ clicks \in 0..MaxClicks
    /\ Unmounted
    /\ triages = {}
    /\ astray = FALSE
-----------------------------------------------------------------------------
(* What the user does. *)

Click == mounted /\ clicks > 0 /\ clicks' = clicks - 1

\* Variant: the handler fetches by itself, with the parameters of its render.
ChooseStatusStale(s) ==
    /\ Click
    /\ want' = FirstPage([want EXCEPT !.status = s])
    /\ Fetch(want, FALSE)
    /\ UNCHANGED <<expanded, mounted, serverVars, triages, typed, timer, astray>>
    /\ Repaint

ChooseStatus(s) ==
    /\ Click
    /\ Adopt(FirstPage([want EXCEPT !.status = s]))
    /\ UNCHANGED <<typed, timer, astray>>

ChooseRisk(k) ==
    /\ Click
    /\ Adopt(FirstPage([want EXCEPT !.risk = k]))
    /\ UNCHANGED <<typed, timer, astray>>

Flipped(order) == IF order = "asc" THEN "desc" ELSE "asc"
SortedBy(c) ==
    IF want.column = c THEN [want EXCEPT !.order = Flipped(@)]
    ELSE [[want EXCEPT !.column = c] EXCEPT !.order = "desc"]
ToggleSort(c) ==
    /\ Click
    /\ c # "last_seen"
    /\ Adopt(FirstPage(SortedBy(c)))
    /\ UNCHANGED <<typed, timer, astray>>

Type(t) ==
    /\ Click
    /\ t # typed
    /\ typed' = t
    /\ timer' = TRUE
    /\ UNCHANGED <<want, listVars, panelVars, mounted, serverVars, triages, unseen, astray>>

\* The pager goes by the total of the table on display, whatever it was asked for.
PagerShown == data.pages > 1
OlderTable == FirstPage(data.params) # FirstPage(want)

PreviousPage ==
    /\ Click
    /\ PagerShown
    /\ want.page > 1
    /\ Adopt([want EXCEPT !.page = @ - 1])
    /\ UNCHANGED <<typed, timer, astray>>

NextPage ==
    /\ Click
    /\ PagerShown
    /\ want.page < data.pages
    /\ Adopt([want EXCEPT !.page = @ + 1])
    /\ astray' = (astray \/ OlderTable)
    /\ UNCHANGED <<typed, timer>>

TableShown == ~loading

ToggleRemediation(i) ==
    /\ Click
    /\ TableShown
    /\ data.items[i] \in {"active", "fixed"}
    /\ expanded' = IF expanded = {i} THEN {} ELSE {i}
    /\ UNCHANGED <<controls, listVars, mounted, serverVars, triages, unseen, astray>>
    /\ Repaint

Patch(i, to) ==
    /\ triages' = triages \cup {[click |-> clicks, id |-> i, to |-> to, params |-> want,
                                 done |-> FALSE, live |-> TRUE]}
    /\ UNCHANGED <<controls, listVars, panelVars, mounted, serverVars, unseen, astray>>

Dismiss(i, to) ==
    /\ Click
    /\ TableShown
    /\ data.items[i] = "active"
    /\ to \in {"ignored", "false_positive"}
    /\ Patch(i, to)

Reactivate(i) ==
    /\ Click
    /\ TableShown
    /\ data.items[i] \in {"ignored", "false_positive"}
    /\ Patch(i, "active")

Rotate(i) ==
    /\ Click
    /\ panel = "playbook"
    /\ i \in expanded
    /\ data.items[i] = "active"
    /\ Patch(i, "rotated")
-----------------------------------------------------------------------------
(* What the timer, the browser and the server do. *)

\* Variant: a new search stays on the page of the last one.
DebounceInPlace ==
    /\ timer
    /\ timer' = FALSE
    /\ Adopt([want EXCEPT !.search = typed])
    /\ UNCHANGED <<clicks, typed, astray>>

Debounce ==
    /\ timer
    /\ timer' = FALSE
    /\ Adopt(FirstPage([want EXCEPT !.search = typed]))
    /\ UNCHANGED <<clicks, typed, astray>>

ListExecute(r) ==
    /\ sent' = sent \ {r}
    /\ \E l \in Listed(r.params) :
           answered' = answered \cup
               {[no |-> r.no, params |-> r.params, items |-> l.items, pages |-> l.pages]}
    /\ UNCHANGED <<fetches, data, loading, failed, refetch, mounted, clicks, controls, triages,
                   panelVars, serverVars, unseen, astray>>

ListAnswer(a) ==
    /\ answered' = answered \ {a}
    /\ data' = a
    /\ loading' = FALSE
    /\ UNCHANGED <<fetches, sent, failed, refetch, mounted, clicks, controls, triages,
                   expanded, serverVars, unseen, astray>>
    /\ Repaint

\* Variant: setLoading(false) only after an answer, not in the finally block.
ListFailSpinning(r) ==
    /\ r \in sent \/ r \in answered
    /\ sent' = sent \ {r}
    /\ answered' = answered \ {r}
    /\ failed' = TRUE
    /\ UNCHANGED <<fetches, data, loading, refetch, mounted, clicks, controls, triages,
                   panelVars, serverVars, unseen, astray>>

ListFail(r) ==
    /\ r \in sent \/ r \in answered
    /\ sent' = sent \ {r}
    /\ answered' = answered \ {r}
    /\ failed' = TRUE
    /\ loading' = FALSE
    /\ UNCHANGED <<fetches, data, refetch, mounted, clicks, controls, triages,
                   expanded, serverVars, unseen, astray>>
    /\ Repaint

TriageExecute(r) ==
    /\ ~r.done
    /\ rows' = [rows EXCEPT ![r.id] = r.to]
    /\ astray' = TRUE
    /\ triages' = (triages \ {r}) \cup (IF r.live THEN {[r EXCEPT !.done = TRUE]} ELSE {})
    /\ unseen' = (unseen \/ (mounted /\ ~r.live))
    /\ UNCHANGED <<others, mounted, clicks, controls, listVars, panelVars>>

\* Variant: the table is not fetched again.
TriageAnswerQuietly(r) ==
    /\ r.done
    /\ triages' = triages \ {r}
    /\ expanded' = {}
    /\ UNCHANGED <<listVars, unseen, mounted, clicks, controls, serverVars, astray>>
    /\ Repaint

\* handleTriage and onRotated go on: both close the panel and fetch with the
\* parameters of the render in which the button was clicked.
TriageAnswer(r) ==
    /\ r.done
    /\ triages' = triages \ {r}
    /\ expanded' = {}
    /\ Fetch(r.params, TRUE)
    /\ UNCHANGED <<mounted, clicks, controls, serverVars, astray>>
    /\ Repaint

\* Nobody catches the rejection: no message, no refetch.
TriageFail(r) ==
    /\ triages' = triages \ {r}
    /\ unseen' = (unseen \/ r.done)
    /\ UNCHANGED <<mounted, clicks, controls, listVars, panelVars, serverVars, astray>>

PanelAnswer ==
    /\ panel = "loading"
    /\ panel' \in {"playbook", "unavailable"}
    /\ UNCHANGED <<expanded, mounted, clicks, controls, listVars, triages, serverVars, unseen, astray>>

\* A scanner, or another user.
OtherChange(i, s) ==
    /\ others > 0
    /\ others' = others - 1
    /\ rows[i] # s
    /\ rows' = [rows EXCEPT ![i] = s]
    /\ astray' = TRUE
    /\ unseen' = mounted
    /\ UNCHANGED <<mounted, clicks, controls, listVars, triages, panelVars>>

\* Mounting runs every effect: the first fetch, and the debounce timer as well.
FindingsMount ==
    /\ ~mounted
    /\ mounted' = TRUE
    /\ timer' = TRUE
    /\ Fetch(FirstWant, FALSE)
    /\ UNCHANGED <<want, typed, clicks, serverVars, triages, panelVars, astray>>

\* Nothing is aborted; a PATCH that has been sent is still executed.
Retired(r) == [[r EXCEPT !.live = FALSE] EXCEPT !.params = FirstWant]
FindingsUnmount ==
    /\ mounted
    /\ mounted' = FALSE
    /\ want' = FirstWant /\ typed' = NoText /\ timer' = FALSE
    /\ fetches' = 0 /\ sent' = {} /\ answered' = {} /\ data' = NoData
    /\ loading' = FALSE /\ failed' = FALSE /\ refetch' = FALSE
    /\ expanded' = {} /\ panel' = "none"
    /\ unseen' = FALSE
    /\ triages' = {Retired(r) : r \in {t \in triages : ~t.done}}
    /\ UNCHANGED <<clicks, serverVars, astray>>
-----------------------------------------------------------------------------
FindingsInput ==
    \/ \E s \in StatusChoices : ChooseStatus(s)
    \/ \E k \in RiskChoices : ChooseRisk(k)
    \/ \E c \in Columns : ToggleSort(c)
    \/ \E t \in Texts : Type(t)
    \/ PreviousPage \/ NextPage
    \/ \E i \in DOMAIN data.items :
           \/ ToggleRemediation(i) \/ Reactivate(i) \/ Rotate(i)
           \/ \E to \in Statuses : Dismiss(i, to)

FindingsExecute ==
    \/ \E r \in sent : ListExecute(r)
    \/ \E r \in triages : TriageExecute(r)

FindingsAnswer ==
    \/ \E a \in answered : ListAnswer(a)
    \/ \E r \in sent \cup answered : ListFail(r)
    \/ \E r \in triages : TriageAnswer(r) \/ TriageFail(r)
    \/ PanelAnswer

FindingsOthers == \E i \in Ids, s \in OtherStatuses : OtherChange(i, s)

FindingsNext ==
    \/ FindingsInput \/ Debounce \/ FindingsExecute \/ FindingsAnswer \/ FindingsOthers
    \/ FindingsMount \/ FindingsUnmount

FindingsSpec == FindingsInit /\ [][FindingsNext]_findingsVars
-----------------------------------------------------------------------------
(* Properties. *)

\* Whenever the table holds the answer to the last request of the page, and
\* that request was not the refetch of a triage, the table is that of the
\* filters, search, sort order and page on display: no control changes
\* without a fetch (page.tsx:229-248).
FilterShown == data.no = fetches /\ ~refetch => data.params = want

\* A page after the first is only empty if a row has moved since, or Next was
\* pressed over the table of other filters: every control, and the debounce
\* timer, goes back to page 1 (page.tsx:223, 257, 289, 303, 478-490).
EmptyPageHasCause == data.params.page > 1 /\ data.items = NoData.items => astray

\* Once every PATCH that was executed has been answered, the answer to the last
\* request shows each row with the status it has, unless somebody else has
\* changed it or an answer was lost: the refetch of a triage is sent after
\* its answer, whatever is in flight (page.tsx:260-264, 112-115).
RowsFresh ==
    /\ data.no = fetches
    /\ ~unseen
    /\ \A t \in triages : t.live => ~t.done
    => \A i \in DOMAIN data.items : data.items[i] = rows[i]

\* The table is again and again not loading and the search that of the box:
\* no failure and no click leaves the spinner on or the timer unheard
\* (page.tsx:221-244).
FindingsSettle == []<>(~loading /\ want.search = typed)

\* The list of the page implements a view of a remote resource: it asks once
\* for each choice, and again after a triage (page.tsx:229-264).
Question(r) == [no |-> r.no, params |-> r.params]
Listing == INSTANCE RemoteView WITH
    wanted <- want,
    count  <- fetches,
    again  <- refetch,
    asked  <- {Question(r) : r \in sent \cup answered},
    shown  <- {Question(r) : r \in {data} \ {NoData}}
ListingIsView == Listing!Spec
=============================================================================
