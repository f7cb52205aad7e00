----------------------------- MODULE Dashboard ------------------------------
(***************************************************************************)
(* The dashboard as one application: the session decides which page is on   *)
(* screen, a page is mounted when the router goes to it and forgotten when  *)
(* it leaves, the user reaches its controls only while signed in, and the   *)
(* server executes its requests only for a session it accepts.  Answers,    *)
(* timers and requests that were sent go on whatever the user does.         *)
(***************************************************************************)
EXTENDS FindingsPage, SettingsTabs, ReadPages, Sidebar, Session

CONSTANT Budgets  \* bound: how the inputs are shared among the components

dashboardVars == <<findingsVars, tabsVars, readVars, sidebarVars, sessionVars>>
-----------------------------------------------------------------------------
ReadPageOf(r) ==
    CASE r = "/"             -> "home"
      [] r = "/repositories" -> "repositories"
      [] r = "/analytics"    -> "analytics"
      [] r = "/exports"      -> "exports"
      [] r \in {"/findings", "/settings", "/login", "none"} -> "none"

\* What becomes of each page when the router goes to another one.
FindingsFollow ==
    \/ route = "/findings" /\ FindingsUnmount
    \/ route' = "/findings" /\ FindingsMount
    \/ "/findings" \notin {route, route'} /\ UNCHANGED findingsVars

ReadFollow ==
    LET p == ReadPageOf(route')
    IN  \/ p \notin {"none", readPage} /\ ReadMount(p)
        \/ p = "none" /\ readPage # "none" /\ ReadUnmount
        \/ p = readPage /\ UNCHANGED readVars

\* The tabs and the sidebar are below the layout, which shows them to a user.
TabsFollow ==
    \/ route' = "/settings" /\ SignedIn' /\ tab = "none" /\ TabsMount
    \/ ~(route' = "/settings" /\ SignedIn') /\ tab # "none" /\ TabsUnmount
    \/ (route' = "/settings" /\ SignedIn' <=> tab # "none") /\ UNCHANGED tabsVars

SidebarFollow ==
    \/ SignedIn' /\ (route' # route \/ ~SignedIn) /\ SidebarMount
    \/ ~SignedIn' /\ provided /\ SidebarUnmount
    \/ (IF SignedIn' THEN route' = route /\ SignedIn ELSE ~provided) /\ UNCHANGED sidebarVars

GoTo ==
    /\ RouteStep
    /\ FindingsFollow /\ ReadFollow /\ TabsFollow /\ SidebarFollow

Stay ==
    /\ QuietStep
    /\ UNCHANGED <<findingsVars, readVars>>
    /\ TabsFollow /\ SidebarFollow
-----------------------------------------------------------------------------
Accepted == Known(cookie)
IsAdmin == user = "admin"

FindingsStep ==
    /\ \/ SignedIn /\ FindingsInput
       \/ Accepted /\ FindingsExecute
       \/ Debounce \/ FindingsAnswer \/ FindingsOthers
    /\ UNCHANGED <<tabsVars, readVars, sidebarVars, sessionVars>>

TabsStep ==
    /\ \/ SignedIn /\ TabsInput(IsAdmin)
       \/ Accepted /\ TabsExecute(role = "admin")
       \/ TabsAnswer
    /\ UNCHANGED <<findingsVars, readVars, sidebarVars, sessionVars>>

ReadStep ==
    /\ \/ SignedIn /\ ReadInput
       \/ Accepted /\ ReadSuccess
       \/ ReadFailure
    /\ UNCHANGED <<findingsVars, tabsVars, sidebarVars, sessionVars>>

WindowStep == SidebarStep /\ UNCHANGED <<findingsVars, tabsVars, readVars, sessionVars>>

Init ==
    /\ FindingsInit /\ TabsInit /\ ReadInit /\ SidebarInit /\ SessionInit
    /\ [findings |-> clicks, others |-> others, tabs |-> tabClicks, reads |-> readClicks,
        sidebar |-> sidebarClicks, session |-> sessionClicks] \in Budgets

Next == GoTo \/ Stay \/ FindingsStep \/ TabsStep \/ ReadStep \/ WindowStep

\* The browser answers or fails every request, a timer fires and effects run;
\* nobody has to click.
ListProgress == \/ \E r \in sent : ListExecute(r)
                \/ \E a \in answered : ListAnswer(a)
                \/ \E r \in sent \cup answered : ListFail(r)
CheckProgress == CheckExecute \/ CheckAnswer \/ CheckFail

Fairness ==
    /\ WF_findingsVars(Debounce)
    /\ WF_findingsVars(ListProgress)
    /\ WF_sessionVars(CheckProgress)
    /\ WF_sessionVars(Redirect)

Spec == Init /\ [][Next]_dashboardVars /\ Fairness
=============================================================================
