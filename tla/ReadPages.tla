----------------------------- MODULE ReadPages ------------------------------
(***************************************************************************)
(* The pages that only read: the home page, which waits for two answers at  *)
(* once (app/page.tsx), the repositories (app/repositories/page.tsx), the   *)
(* analytics, whose trends are fetched anew for every choice of period and  *)
(* days (app/analytics/page.tsx), and the exports, where a report is built  *)
(* on demand (app/exports/page.tsx).                                        *)
(***************************************************************************)
EXTENDS Integers

CONSTANTS
    Periods, Days,  \* what the trends can be grouped by and reach back
    Frameworks,     \* compliance frameworks
    ReadClicks      \* bound: inputs of the user

ASSUME ReadAssumption ==
    "day" \in Periods /\ 30 \in Days /\ "SOC2" \in Frameworks /\ ReadClicks \in Nat

VARIABLES
    readPage,     \* the page of these four that is mounted, or "none"
    readClicks,   \* inputs the user has left
    parts,        \* requests of the mount without an answer, by name
    got,          \* their answers the page has
    readError,
    readLoading,
    range,        \* period and days of the trends
    trendCount, trendAsked,
    trend,        \* the trends on display, a set of at most one
    framework,    \* the framework chosen for the report
    reports,      \* report requests without an answer
    saved         \* the framework of the last file saved, a set of at most one

trendVars == <<range, trendCount, trendAsked, trend>>
exportVars == <<framework, reports, saved>>
readVars  == <<readPage, readClicks, parts, got, readError, readLoading, trendVars, exportVars>>
-----------------------------------------------------------------------------
Ranges == Periods \X Days
ReadPages == {"home", "repositories", "analytics", "exports"}

\* The requests every page sends when it is mounted, trends of the analytics apart.
MountParts(p) ==
    CASE p = "home"         -> {"summary", "trends"}
      [] p = "repositories" -> {"repositories"}
      [] p = "analytics"    -> {"summary"}
      [] p \in {"exports", "none"} -> {}

ReadInit ==
    /\ readPage = "none"
    /\ readClicks \in 0..ReadClicks
    /\ parts = {} /\ got = {} /\ readError = FALSE /\ readLoading = FALSE
    /\ range = <<"day", 30>>
    /\ trendCount = 0 /\ trendAsked = {} /\ trend = {}
    /\ framework = "SOC2" /\ reports = {} /\ saved = {}

\* A page is mounted, in the place of another or of none.
ReadMount(p) ==
    /\ readPage' = p
    /\ parts' = MountParts(p)
    /\ got' = {} /\ readError' = FALSE
    /\ readLoading' = (p \in {"home", "repositories"})
    /\ range' = <<"day", 30>>
    /\ trendCount' = IF p = "analytics" THEN 1 ELSE 0
    /\ trendAsked' = IF p = "analytics" THEN {[no |-> 1, params |-> range']} ELSE {}
    /\ trend' = {}
    /\ framework' = "SOC2" /\ reports' = {} /\ saved' = {}
    /\ UNCHANGED readClicks

ReadUnmount == ReadMount("none")
-----------------------------------------------------------------------------
(* Home and repositories: one settlement of everything that was asked for   *)
(* (Promise.all): all answers are shown at once, or the page is done at the  *)
(* first failure and drops what comes later.  The analytics take each answer *)
(* by itself.                                                                *)

\* Variant: the answers are waited for one by one, whatever became of the others.
SettlesAnyway(q) == readPage = "analytics" \/ parts = {q}

Settles(q) == readPage = "analytics" \/ (parts = {q} /\ ~readError)

PartAnswer(q) ==
    /\ parts' = parts \ {q}
    /\ got' = IF Settles(q) THEN MountParts(readPage) ELSE got
    /\ readLoading' = (readLoading /\ ~Settles(q))
    /\ UNCHANGED <<readPage, readClicks, readError, trendVars, exportVars>>

PartFail(q) ==
    /\ parts' = parts \ {q}
    /\ readError' = TRUE
    /\ readLoading' = FALSE
    /\ UNCHANGED <<readPage, readClicks, got, trendVars, exportVars>>
-----------------------------------------------------------------------------
(* Analytics. *)

ReadClick == readClicks > 0 /\ readClicks' = readClicks - 1

AskTrends ==
    /\ trendCount' = trendCount + 1
    /\ trendAsked' = trendAsked \cup {[no |-> trendCount + 1, params |-> range']}

\* Variant: the period is missing among the dependencies of the effect.
SetRangeUnasked(r) ==
    /\ ReadClick
    /\ readPage = "analytics"
    /\ r # range
    /\ range' = r
    /\ IF r[2] = range[2] THEN UNCHANGED <<trendCount, trendAsked>> ELSE AskTrends
    /\ UNCHANGED <<readPage, parts, got, readError, readLoading, trend, exportVars>>

SetRange(r) ==
    /\ ReadClick
    /\ readPage = "analytics"
    /\ r # range
    /\ range' = r
    /\ AskTrends
    /\ UNCHANGED <<readPage, parts, got, readError, readLoading, trend, exportVars>>

SetPeriod(p) == SetRange(<<p, range[2]>>)
SetDays(d)   == SetRange(<<range[1], d>>)

TrendAnswer(r) ==
    /\ trendAsked' = trendAsked \ {r}
    /\ trend' = {r}
    /\ UNCHANGED <<readPage, readClicks, parts, got, readError, readLoading, range, trendCount, exportVars>>

TrendFail(r) ==
    /\ trendAsked' = trendAsked \ {r}
    /\ readError' = TRUE
    /\ UNCHANGED <<readPage, readClicks, parts, got, readLoading, range, trendCount, trend, exportVars>>
-----------------------------------------------------------------------------
(* Exports.  The CSV button opens an address and changes nothing here. *)

Generating == reports # {}

SetFramework(f) ==
    /\ ReadClick
    /\ readPage = "exports"
    /\ f # framework
    /\ framework' = f
    /\ UNCHANGED <<readPage, parts, got, readError, readLoading, trendVars, reports, saved>>

HandleGeneratePdf ==
    /\ ReadClick
    /\ readPage = "exports"
    /\ ~Generating
    /\ reports' = {framework}
    /\ readError' = FALSE
    /\ UNCHANGED <<readPage, parts, got, readLoading, trendVars, framework, saved>>

\* The file is named for the framework of the render in which the button was clicked.
ReportAnswer(f) ==
    /\ reports' = reports \ {f}
    /\ saved' = {f}
    /\ UNCHANGED <<readPage, readClicks, parts, got, readError, readLoading, trendVars, framework>>

ReportFail(f) ==
    /\ reports' = reports \ {f}
    /\ readError' = TRUE
    /\ UNCHANGED <<readPage, readClicks, parts, got, readLoading, trendVars, framework, saved>>
-----------------------------------------------------------------------------
ReadInput ==
    \/ \E p \in Periods : SetPeriod(p)
    \/ \E d \in Days : SetDays(d)
    \/ \E f \in Frameworks : SetFramework(f)
    \/ HandleGeneratePdf

ReadSuccess ==
    \/ \E q \in parts : PartAnswer(q)
    \/ \E r \in trendAsked : TrendAnswer(r)
    \/ \E f \in reports : ReportAnswer(f)

ReadFailure ==
    \/ \E q \in parts : PartFail(q)
    \/ \E r \in trendAsked : TrendFail(r)
    \/ \E f \in reports : ReportFail(f)

ReadNext ==
    \/ ReadInput \/ ReadSuccess \/ ReadFailure
    \/ \E p \in ReadPages \ {readPage} : ReadMount(p)
    \/ ReadUnmount

ReadSpec == ReadInit /\ [][ReadNext]_readVars
-----------------------------------------------------------------------------
(* Properties. *)

\* The trends of the analytics page implement a view of a remote resource:
\* each choice of period and days is asked for once, and the chart is that of
\* the answer that came last, which need not be the last one asked for
\* (analytics/page.tsx:38-40).
Trends == INSTANCE RemoteView WITH
    wanted <- range, count <- trendCount, again <- FALSE,
    asked <- trendAsked, shown <- trend
TrendsIsView == Trends!Spec

\* The home page shows both of its resources or, with a message, neither; it
\* and the list of repositories stop their spinner at the first failure or the
\* last answer, and "No repositories yet" without a message means there are
\* none (page.tsx:36-44, repositories/page.tsx:15-38).
LoadedWhole ==
    readPage \in {"home", "repositories"} =>
        /\ got # {} => got = MountParts(readPage) /\ ~readError
        /\ readLoading <=> (got = {} /\ ~readError)
=============================================================================
