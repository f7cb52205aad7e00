--------------------------- MODULE DashboardProofs --------------------------
(***************************************************************************)
(* Proofs about the tabs of the settings, the pages that only read, the     *)
(* sidebar, and the dashboard as a whole: it is a run of each of its parts, *)
(* so that what is proved of a part holds of the dashboard.                 *)
(***************************************************************************)
EXTENDS Dashboard, FindingsPageProofs, SessionProofs

(* The tabs of the settings. *)

TabsTyping ==
    /\ kept \in [Tabs -> Lists]
    /\ tab \in Tabs \cup {"none"}
    /\ loads \in Nat /\ loadSent \subseteq Nat
    /\ list \in Loaded /\ loadAnswered \subseteq Loaded
    /\ tabClicks \in Nat
    /\ changes \subseteq Changes

\* A tab that is on screen has loaded; only it hears of the end of a change.
TabsPresence ==
    /\ tab = "none" <=> loads = 0
    /\ \A c \in changes : (c.done => c.live) /\ (c.live => tab # "none")

LoadsNumbered ==
    /\ loadSent \subseteq 1..loads
    /\ \A a \in loadAnswered : a.no \in 1..loads
    /\ list.no \in 0..loads

\* An answer to the last load that missed nothing is what the server keeps.
LoadsAgree ==
    tab # "none" /\ ~missed /\ (\A c \in changes : c.live => ~c.done) =>
        \A a \in loadAnswered \cup {list} : a.no = loads => a.rows = kept[tab]

TabsInv == TabsTyping /\ TabsPresence /\ LoadsNumbered /\ LoadsAgree

(* The pages that only read. *)

ReadInv ==
    /\ readPage \in ReadPages \cup {"none"}
    /\ trendCount \in Nat
    /\ trendCount > 0 <=> readPage = "analytics"
    /\ readPage # "analytics" => trendAsked = {} /\ trend = {}
    /\ readPage # "exports" => reports = {}
    /\ readPage \in {"home", "repositories"} =>
           /\ got # {} => got = MountParts(readPage) /\ ~readError /\ parts = {}
           /\ readLoading <=> (got = {} /\ ~readError)

(* The sidebar. *)

SidebarInv ==
    /\ open \in BOOLEAN /\ openMobile \in BOOLEAN /\ isMobile \in BOOLEAN /\ narrow \in BOOLEAN
    /\ CookieKeepsState
-----------------------------------------------------------------------------
LEMMA TabsInitHolds == TabsInit => TabsInv
<1> SUFFICES ASSUME TabsInit PROVE TabsInv
  OBVIOUS
<1>1. Empty \in Loaded /\ Empty.no = 0
  BY DEF Empty, Loaded, Lists, Conditions
<1>2. kept \in [Tabs -> Lists]
  BY DEF TabsInit, Lists, Conditions
<1>3. tabClicks \in Nat
  BY TabsAssumption DEF TabsInit
<1>4. TabsTyping
  BY <1>1, <1>2, <1>3 DEF TabsInit, TabsTyping
<1>5. TabsPresence /\ LoadsNumbered /\ LoadsAgree
  BY <1>1 DEF TabsInit, TabsPresence, LoadsNumbered, LoadsAgree
<1> QED
  BY <1>4, <1>5 DEF TabsInv

LEMMA ChangesAreRecords ==
    ASSUME TabsTyping, NEW c \in changes
    PROVE  /\ c \in Changes /\ c.done \in BOOLEAN /\ c.live \in BOOLEAN
           /\ c.tab \in Tabs /\ c.id \in RowIds
           /\ [c EXCEPT !.done = TRUE] \in Changes
           /\ [c EXCEPT !.done = TRUE].done = TRUE /\ [c EXCEPT !.done = TRUE].live = c.live
           /\ [c EXCEPT !.live = FALSE] \in Changes
           /\ [c EXCEPT !.live = FALSE].done = c.done /\ [c EXCEPT !.live = FALSE].live = FALSE
BY DEF TabsTyping, Changes

LEMMA OrphansAreDead ==
    ASSUME TabsTyping
    PROVE  Orphans \subseteq Changes /\ \A c \in Orphans : ~c.done /\ ~c.live
<1> SUFFICES ASSUME NEW o \in Orphans PROVE o \in Changes /\ ~o.done /\ ~o.live
  OBVIOUS
<1>1. PICK d \in changes : ~d.done /\ o = [d EXCEPT !.live = FALSE]
  BY DEF Orphans
<1> QED
  BY <1>1, ChangesAreRecords

LEMMA MountKeeps ==
    ASSUME TabsInv, NEW t \in Tabs, Show(t), tabClicks' \in Nat
    PROVE  TabsInv'
<1> USE DEF TabsInv, Show
<1>1. Empty \in Loaded /\ Empty.no = 0
  BY DEF Empty, Loaded, Lists, Conditions
<1>2. TabsTyping'
  BY <1>1, OrphansAreDead DEF TabsTyping
<1>3. t # "none"
  BY DEF Tabs
<1>4. TabsPresence'
  BY <1>3, OrphansAreDead DEF TabsPresence
<1>5. LoadsNumbered'
  BY <1>1 DEF LoadsNumbered
<1>6. LoadsAgree'
  BY <1>1 DEF LoadsAgree
<1> QED
  BY <1>2, <1>4, <1>5, <1>6

LEMMA UnmountKeeps ==
    ASSUME TabsInv, TabsUnmount
    PROVE  TabsInv'
<1> USE DEF TabsInv, TabsUnmount
<1>1. Empty \in Loaded /\ Empty.no = 0
  BY DEF Empty, Loaded, Lists, Conditions
<1>2. TabsTyping'
  BY <1>1, OrphansAreDead DEF TabsTyping
<1>3. TabsPresence'
  BY OrphansAreDead DEF TabsPresence
<1>4. LoadsNumbered' /\ LoadsAgree'
  BY <1>1 DEF LoadsNumbered, LoadsAgree
<1> QED
  BY <1>2, <1>3, <1>4

\* What the user does: a form is filled in, or a change is sent.
LEMMA TabsInputKeeps ==
    ASSUME TabsInv, NEW isAdmin \in BOOLEAN, TabsInput(isAdmin)
    PROVE  TabsInv'
<1> USE DEF TabsInv
<1>1. ASSUME NEW t \in Tabs, Switch(t) PROVE TabsInv'
  BY <1>1, MountKeeps DEF Switch, TabClick, TabsTyping
<1>2. CASE FillIn
  <2>1. UNCHANGED <<kept, tab, list, loads, loadSent, loadAnswered, changes, missed>> /\ tabClicks' \in Nat
    BY <1>2 DEF FillIn, loadVars, TabClick, TabsTyping
  <2> QED
    BY <2>1 DEF TabsTyping, TabsPresence, LoadsNumbered, LoadsAgree
<1>3. ASSUME NEW kind \in {"create", "delete"}, NEW i \in RowIds, TabClick, Send(kind, i) PROVE TabsInv'
  <2> DEFINE c == [click |-> tabClicks, kind |-> kind, tab |-> tab, id |-> i, done |-> FALSE, live |-> TRUE]
  <2>1. UNCHANGED <<kept, tab, list, loads, loadSent, loadAnswered, missed>> /\ changes' = changes \cup {c}
    BY <1>3 DEF Send, loadVars
  <2>2. tabClicks' \in Nat /\ tabClicks \in Nat /\ tab \in Tabs
    BY <1>3 DEF TabClick, TabsTyping
  <2>3. c \in Changes /\ ~c.done /\ c.live
    BY <2>2 DEF Changes
  <2> HIDE DEF c
  <2>4. TabsTyping'
    BY <2>1, <2>2, <2>3 DEF TabsTyping
  <2>5. TabsPresence'
    BY <1>3, <2>1, <2>3 DEF TabsPresence, TabClick
  <2>6. LoadsNumbered' /\ LoadsAgree'
    BY <2>1, <2>3 DEF LoadsNumbered, LoadsAgree
  <2> QED
    BY <2>4, <2>5, <2>6
<1> QED
  BY <1>1, <1>2, <1>3 DEF TabsInput, TabsOf, HandleCreate, HandleDelete

LEMMA LoadExecuteKeeps ==
    ASSUME TabsInv, NEW n \in loadSent, LoadExecute(n)
    PROVE  TabsInv'
<1> USE DEF TabsInv
<1> DEFINE a == [no |-> n, rows |-> kept[tab]]
<1>0. /\ UNCHANGED <<kept, tab, tabClicks, list, loads, changes, missed>>
      /\ loadSent' = loadSent \ {n} /\ loadAnswered' = loadAnswered \cup {a}
  BY DEF LoadExecute
<1>1. n \in 1..loads /\ loads \in Nat
  BY DEF LoadsNumbered, TabsTyping
<1>2. tab \in Tabs
  BY <1>1 DEF TabsPresence, TabsTyping
<1>3. a \in Loaded /\ a.no = n /\ a.rows = kept[tab]
  BY <1>1, <1>2 DEF Loaded, TabsTyping
<1> HIDE DEF a
<1>4. TabsTyping'
  BY <1>0, <1>3 DEF TabsTyping
<1>5. TabsPresence' /\ LoadsNumbered'
  BY <1>0, <1>1, <1>3 DEF TabsPresence, LoadsNumbered
<1>6. LoadsAgree'
  BY <1>0, <1>3 DEF LoadsAgree
<1> QED
  BY <1>4, <1>5, <1>6

LEMMA LoadEndKeeps ==
    ASSUME TabsInv, LoadFail \/ \E a \in loadAnswered : LoadAnswer(a)
    PROVE  TabsInv'
<1> USE DEF TabsInv
<1>1. /\ UNCHANGED <<kept, tab, tabClicks, loads, changes, missed>>
      /\ loadSent' \subseteq loadSent /\ loadAnswered' \subseteq loadAnswered
      /\ list' \in loadAnswered \cup {list}
  BY DEF LoadFail, LoadAnswer
<1>2. TabsTyping' /\ TabsPresence'
  BY <1>1 DEF TabsTyping, TabsPresence
<1>3. LoadsNumbered'
  BY <1>1 DEF LoadsNumbered, TabsTyping
<1>4. LoadsAgree'
  BY <1>1 DEF LoadsAgree
<1> QED
  BY <1>2, <1>3, <1>4

\* A change that the server executes is one that a load will follow, or one
\* whose tab is gone.
LEMMA ChangeExecuteKeeps ==
    ASSUME TabsInv, NEW c \in changes, ChangeExecute(c)
    PROVE  TabsInv'
<1> USE DEF TabsInv
<1> DEFINE d == [c EXCEPT !.done = TRUE]
           k == IF c.kind = "create" THEN "active" ELSE Removed(c.tab)
           f == [kept[c.tab] EXCEPT ![c.id] = k]
<1>0. /\ UNCHANGED <<tab, tabClicks, list, loads, loadSent, loadAnswered>>
      /\ changes' = (changes \ {c}) \cup (IF c.live THEN {d} ELSE {})
      /\ missed' = (missed \/ (tab # "none" /\ ~c.live))
      /\ kept' = [kept EXCEPT ![c.tab] = f]
  BY DEF ChangeExecute, loadVars
<1>1. d \in Changes /\ d.done /\ d.live = c.live /\ c.tab \in Tabs /\ c.id \in RowIds /\ c.live \in BOOLEAN
  BY ChangesAreRecords
<1>2. k \in Conditions
  BY DEF Removed, Conditions
<1> HIDE DEF d, k
<1>3. f \in Lists
  BY <1>1, <1>2 DEF Lists, TabsTyping
<1> HIDE DEF f
<1>4. kept' \in [Tabs -> Lists]
  BY <1>0, <1>1, <1>3 DEF TabsTyping
<1>5. TabsTyping'
  BY <1>0, <1>1, <1>4 DEF TabsTyping
<1>6. TabsPresence'
  BY <1>0, <1>1 DEF TabsPresence
<1>7. LoadsNumbered'
  BY <1>0 DEF LoadsNumbered
<1>8. LoadsAgree'
  <2>1. CASE c.live
    BY <1>0, <1>1, <2>1 DEF LoadsAgree
  <2>2. CASE ~c.live
    BY <1>0, <2>2 DEF LoadsAgree
  <2> QED
    BY <2>1, <2>2
<1> QED
  BY <1>5, <1>6, <1>7, <1>8

LEMMA ChangeAnswerKeeps ==
    ASSUME TabsInv, NEW c \in changes, ChangeAnswer(c)
    PROVE  TabsInv'
<1> USE DEF TabsInv
<1>0. /\ UNCHANGED <<kept, tab, tabClicks, list, loadAnswered>>
      /\ changes' = changes \ {c} /\ c.done
      /\ loads' = loads + 1 /\ loadSent' = loadSent \cup {loads + 1} /\ missed' = FALSE
  BY DEF ChangeAnswer, Load
<1>1. tab # "none" /\ loads \in Nat
  BY <1>0 DEF TabsPresence, TabsTyping
<1>2. TabsTyping'
  BY <1>0, <1>1 DEF TabsTyping
<1>3. TabsPresence'
  BY <1>0, <1>1 DEF TabsPresence
<1>4. LoadsNumbered'
  BY <1>0, <1>1 DEF LoadsNumbered
<1>5. LoadsAgree'
  BY <1>0, <1>1 DEF LoadsAgree, LoadsNumbered
<1> QED
  BY <1>2, <1>3, <1>4, <1>5

LEMMA ChangeFailKeeps ==
    ASSUME TabsInv, NEW c \in changes, ChangeFail(c)
    PROVE  TabsInv'
<1> USE DEF TabsInv
<1>0. /\ UNCHANGED <<kept, tab, tabClicks, list, loads, loadSent, loadAnswered>>
      /\ changes' = changes \ {c} /\ missed' = (missed \/ c.done)
  BY DEF ChangeFail
<1>1. TabsTyping' /\ TabsPresence' /\ LoadsNumbered'
  BY <1>0 DEF TabsTyping, TabsPresence, LoadsNumbered
<1>2. LoadsAgree'
  BY <1>0 DEF LoadsAgree
<1> QED
  BY <1>1, <1>2

LEMMA TabsStepKeeps == TabsInv /\ [TabsNext]_tabsVars => TabsInv'
<1>1. ASSUME TabsInv, NEW isAdmin \in BOOLEAN, TabsExecute(isAdmin) PROVE TabsInv'
  BY <1>1, LoadExecuteKeeps, ChangeExecuteKeeps DEF TabsExecute
<1>2. ASSUME TabsInv, TabsAnswer PROVE TabsInv'
  BY <1>2, LoadEndKeeps, ChangeAnswerKeeps, ChangeFailKeeps DEF TabsAnswer
<1>3. ASSUME TabsInv, TabsMount PROVE TabsInv'
  <2>1. "webhooks" \in Tabs /\ Show("webhooks") /\ tabClicks' \in Nat
    BY <1>3 DEF TabsMount, Tabs, TabsInv, TabsTyping
  <2> QED
    BY <1>3, <2>1, MountKeeps
<1>4. ASSUME TabsInv, UNCHANGED tabsVars PROVE TabsInv'
  BY <1>4 DEF tabsVars, loadVars, TabsInv, TabsTyping, TabsPresence, LoadsNumbered, LoadsAgree
<1> QED
  BY <1>1, <1>2, <1>3, <1>4, TabsInputKeeps, UnmountKeeps DEF TabsNext

\* Loads are numbered, and the answer to the last one that missed no change is
\* what the server keeps (settings/page.tsx:73-91).
THEOREM TabsInvariant == TabsSpec => []TabsInv
BY TabsInitHolds, TabsStepKeeps, PTL DEF TabsSpec

\* Once every change has been answered, the last load lists the rows of the
\* server (settings/page.tsx:73-91, 169-187, 279-299).
THEOREM RowsListedHolds == TabsSpec => []RowsListed
<1>1. TabsInv => RowsListed
  BY DEF TabsInv, LoadsAgree, RowsListed
<1> QED
  BY <1>1, TabsInvariant, PTL
-----------------------------------------------------------------------------
LEMMA ReadInitHolds == ReadInit => ReadInv
BY DEF ReadInit, ReadInv, MountParts

LEMMA ReadMountKeeps ==
    ASSUME NEW p \in ReadPages \cup {"none"}, ReadMount(p)
    PROVE  ReadInv'
<1>1. readPage' = p /\ readPage' \in ReadPages \cup {"none"}
  BY DEF ReadMount
<1>2. trendCount' \in Nat /\ (trendCount' > 0 <=> p = "analytics")
  BY DEF ReadMount
<1>3. p # "analytics" => trendAsked' = {} /\ trend' = {}
  BY DEF ReadMount
<1>4. reports' = {} /\ got' = {} /\ readError' = FALSE /\ readLoading' = (p \in {"home", "repositories"})
  BY DEF ReadMount
<1> QED
  BY <1>1, <1>2, <1>3, <1>4 DEF ReadInv

LEMMA PartKeeps ==
    ASSUME ReadInv, NEW q \in parts, PartAnswer(q) \/ PartFail(q)
    PROVE  ReadInv'
<1>0. UNCHANGED <<readPage, trendCount, trendAsked, trend, reports>> /\ parts' = parts \ {q}
  BY DEF PartAnswer, PartFail, trendVars, exportVars
<1>1. readPage \in {"home", "repositories"} =>
          /\ got' # {} => got' = MountParts(readPage) /\ ~readError' /\ parts' = {}
          /\ readLoading' <=> (got' = {} /\ ~readError')
  <2> SUFFICES ASSUME readPage \in {"home", "repositories"}
               PROVE  /\ got' # {} => got' = MountParts(readPage) /\ ~readError' /\ parts' = {}
                      /\ readLoading' <=> (got' = {} /\ ~readError')
    OBVIOUS
  <2>1. got = {} /\ (readLoading <=> ~readError)
    BY DEF ReadInv
  <2>2. MountParts(readPage) # {}
    BY DEF MountParts
  <2>3. CASE PartAnswer(q) /\ Settles(q)
    BY <1>0, <2>1, <2>2, <2>3 DEF PartAnswer, Settles
  <2>4. CASE PartAnswer(q) /\ ~Settles(q)
    BY <2>1, <2>4 DEF PartAnswer
  <2>5. CASE PartFail(q)
    BY <2>1, <2>5 DEF PartFail
  <2> QED
    BY <2>3, <2>4, <2>5
<1> QED
  BY <1>0, <1>1 DEF ReadInv

LEMMA TrendStepsKeep ==
    ASSUME ReadInv,
           \/ \E r : SetRange(r)
           \/ \E r \in trendAsked : TrendAnswer(r) \/ TrendFail(r)
    PROVE  ReadInv'
<1>1. readPage = "analytics" /\ UNCHANGED <<readPage, reports>>
  BY DEF SetRange, TrendAnswer, TrendFail, ReadInv, exportVars
<1>2. trendCount' \in Nat /\ trendCount' > 0
  BY <1>1 DEF SetRange, AskTrends, TrendAnswer, TrendFail, ReadInv
<1> QED
  BY <1>1, <1>2 DEF ReadInv

LEMMA ExportStepsKeep ==
    ASSUME ReadInv,
           \/ \E f \in Frameworks : SetFramework(f)
           \/ HandleGeneratePdf
           \/ \E f \in reports : ReportAnswer(f) \/ ReportFail(f)
    PROVE  ReadInv'
<1>1. readPage = "exports" /\ UNCHANGED <<readPage, trendCount, trendAsked, trend>>
  BY DEF SetFramework, HandleGeneratePdf, ReportAnswer, ReportFail, ReadInv, trendVars
<1> QED
  BY <1>1 DEF ReadInv

LEMMA ReadStepKeeps == ReadInv /\ [ReadNext]_readVars => ReadInv'
<1>1. ASSUME ReadInv, ReadInput PROVE ReadInv'
  BY <1>1, TrendStepsKeep, ExportStepsKeep DEF ReadInput, SetPeriod, SetDays
<1>2. ASSUME ReadInv, ReadSuccess \/ ReadFailure PROVE ReadInv'
  BY <1>2, PartKeeps, TrendStepsKeep, ExportStepsKeep DEF ReadSuccess, ReadFailure
<1>3. ASSUME ReadInv, UNCHANGED readVars PROVE ReadInv'
  BY <1>3 DEF readVars, trendVars, exportVars, ReadInv
<1> QED
  BY <1>1, <1>2, <1>3, ReadMountKeeps DEF ReadNext, ReadUnmount

\* Trends are asked for on the analytics page only, and a page that waits for
\* all of its parts has none or all (analytics/page.tsx:28-43, page.tsx:36-44).
THEOREM ReadInvariant == ReadSpec => []ReadInv
BY ReadInitHolds, ReadStepKeeps, PTL DEF ReadSpec

\* The home page shows both of its resources or, with a message, neither, and
\* stops its spinner either way (page.tsx:36-44, repositories/page.tsx:15-38).
THEOREM LoadedWholeHolds == ReadSpec => []LoadedWhole
<1>1. ReadInv => LoadedWhole
  BY DEF ReadInv, LoadedWhole
<1> QED
  BY <1>1, ReadInvariant, PTL

LEMMA AskTrendsAsks ==
    ASSUME AskTrends
    PROVE  Trends!Ask(FALSE)
<1> DEFINE q == [no |-> trendCount + 1, params |-> range']
<1>1. trendCount' = trendCount + 1 /\ trendAsked' = trendAsked \cup {q}
  BY DEF AskTrends
<1>2. q \in trendAsked' /\ q.no = trendCount + 1 /\ q.params = range'
  BY <1>1
<1> HIDE DEF q
<1> QED
  BY <1>1, <1>2 DEF Trends!Ask

LEMMA TrendsStep ==
    ASSUME ReadInv, [ReadNext]_readVars
    PROVE  [Trends!Next]_(Trends!viewVars)
<1>a. ASSUME UNCHANGED trendVars PROVE UNCHANGED Trends!viewVars
  BY <1>a DEF trendVars, Trends!viewVars
<1>1. ASSUME NEW r, SetRange(r) PROVE Trends!Next
  <2>1. trendCount > 0 /\ range' # range /\ trend' = trend
    BY <1>1 DEF SetRange, ReadInv
  <2>2. Trends!Ask(FALSE)
    BY <1>1, AskTrendsAsks DEF SetRange
  <2> QED
    BY <2>1, <2>2 DEF Trends!Choose, Trends!Next
<1>2. ASSUME NEW r \in trendAsked, TrendAnswer(r) PROVE Trends!Next
  BY <1>2 DEF TrendAnswer, Trends!Answer, Trends!Next
<1>3. ASSUME NEW r \in trendAsked, TrendFail(r) PROVE Trends!Next
  BY <1>3 DEF TrendFail, Trends!Fail, Trends!Next
<1>4. ASSUME NEW p \in (ReadPages \ {readPage}) \cup {"none"}, ReadMount(p) PROVE Trends!Next
  <2>1. CASE p = "analytics"
    <3>1. trendCount = 0 /\ trendAsked = {}
      BY <2>1 DEF ReadInv, ReadPages
    <3>2. AskTrends /\ trend' = {}
      BY <1>4, <2>1, <3>1 DEF ReadMount, AskTrends
    <3> QED
      BY <3>1, <3>2, AskTrendsAsks DEF Trends!Open, Trends!Next
  <2>2. CASE p # "analytics"
    BY <1>4, <2>2 DEF ReadMount, Trends!Close, Trends!Closed, Trends!Next
  <2> QED
    BY <2>1, <2>2
<1>5. ASSUME NEW q \in parts, PartAnswer(q) \/ PartFail(q) PROVE UNCHANGED Trends!viewVars
  BY <1>5, <1>a DEF PartAnswer, PartFail
<1>6. ASSUME \/ \E f \in Frameworks : SetFramework(f)
             \/ HandleGeneratePdf
             \/ \E f \in reports : ReportAnswer(f) \/ ReportFail(f)
      PROVE  UNCHANGED Trends!viewVars
  BY <1>6, <1>a DEF SetFramework, HandleGeneratePdf, ReportAnswer, ReportFail
<1>7. CASE UNCHANGED readVars
  BY <1>7, <1>a DEF readVars
<1>8. CASE ReadInput
  BY <1>1, <1>6, <1>8 DEF ReadInput, SetPeriod, SetDays
<1>9. CASE ReadSuccess \/ ReadFailure
  BY <1>2, <1>3, <1>5, <1>6, <1>9 DEF ReadSuccess, ReadFailure
<1> QED
  BY <1>4, <1>7, <1>8, <1>9 DEF ReadNext, ReadUnmount

\* Each choice of period and days is asked for once: the trends implement
\* RemoteView (analytics/page.tsx:38-40).
THEOREM TrendsImplement == ReadSpec => TrendsIsView
<1>1. ReadInit => Trends!Init
  BY DEF ReadInit, Trends!Init, Trends!Closed
<1>2. ReadInv /\ [ReadNext]_readVars => [Trends!Next]_(Trends!viewVars)
  BY TrendsStep
<1> QED
  BY <1>1, <1>2, ReadInvariant, PTL DEF ReadSpec, TrendsIsView, Trends!Spec
-----------------------------------------------------------------------------
LEMMA SidebarInitHolds == SidebarInit => SidebarInv
BY DEF SidebarInit, SidebarInv, CookieKeepsState

LEMMA SidebarStepKeeps == SidebarInv /\ [SidebarNext]_sidebarVars => SidebarInv'
<1> USE DEF SidebarInv, CookieKeepsState
<1>1. ASSUME SidebarInv, Measure \/ Resize \/ DismissSheet PROVE SidebarInv'
  <2>1. UNCHANGED <<provided, open, stateCookie, fresh>>
    BY <1>1 DEF Measure, Resize, DismissSheet
  <2>2. openMobile' \in BOOLEAN /\ isMobile' \in BOOLEAN
    BY <1>1 DEF Measure, Resize, DismissSheet
  <2>3. narrow' \in BOOLEAN
    BY <1>1 DEF Measure, Resize, DismissSheet
  <2> QED
    BY <1>1, <2>1, <2>2, <2>3
<1>2. ASSUME SidebarInv, ToggleSidebar PROVE SidebarInv'
  <2>1. CASE isMobile
    BY <1>2, <2>1 DEF ToggleSidebar
  <2>2. CASE ~isMobile
    BY <1>2, <2>2 DEF ToggleSidebar, SetOpen
  <2> QED
    BY <2>1, <2>2
<1>3. ASSUME SidebarInv, SidebarMount \/ SidebarUnmount PROVE SidebarInv'
  BY <1>3 DEF SidebarMount, SidebarUnmount, Forgotten
<1>4. ASSUME SidebarInv, UNCHANGED sidebarVars PROVE SidebarInv'
  BY <1>4 DEF sidebarVars
<1> QED
  BY <1>1, <1>2, <1>3, <1>4 DEF SidebarNext, SidebarStep

\* Once it was toggled, a sidebar is in the state that the cookie names
\* (sidebar.tsx:70-88).
THEOREM SidebarInvariant == SidebarSpec => []SidebarInv
BY SidebarInitHolds, SidebarStepKeeps, PTL DEF SidebarSpec

\* A toggle of the sidebar is seen at once, on a wide window and on a narrow
\* one (sidebar.tsx:91-93).
THEOREM TogglesAreShown == SidebarSpec => TogglesShow
<1>1. SidebarInv /\ SidebarInv' => [ToggleSidebar /\ isMobile = narrow => SidebarShown' # SidebarShown]_sidebarVars
  <2> SUFFICES ASSUME SidebarInv, SidebarInv', ToggleSidebar, isMobile = narrow
               PROVE  SidebarShown' # SidebarShown
    OBVIOUS
  <2>1. UNCHANGED <<isMobile, narrow>>
    BY DEF ToggleSidebar
  <2>2. CASE isMobile
    BY <2>1, <2>2 DEF SidebarInv, ToggleSidebar, SidebarShown
  <2>3. CASE ~isMobile
    BY <2>1, <2>3 DEF SidebarInv, ToggleSidebar, SetOpen, SidebarShown
  <2> QED
    BY <2>2, <2>3
<1> QED
  BY <1>1, SidebarInvariant, PTL DEF TogglesShow
-----------------------------------------------------------------------------
(* The dashboard is a run of each of its parts. *)

LEMMA RoutesFollow ==
    ASSUME RouteStep
    PROVE  route' \in Routes \cup {"none"}
BY DEF RouteStep, Open, Follow, Leave, Redirect, LoginAnswer, LogoutAnswer, Routes, Protected

LEMMA FindingsPart == Next => [FindingsNext]_findingsVars
<1>1. GoTo => [FindingsNext]_findingsVars
  BY DEF GoTo, FindingsFollow, FindingsNext
<1>2. Stay => UNCHANGED findingsVars
  BY DEF Stay
<1>3. FindingsStep => FindingsNext
  BY DEF FindingsStep, FindingsNext
<1>4. TabsStep \/ ReadStep \/ WindowStep => UNCHANGED findingsVars
  BY DEF TabsStep, ReadStep, WindowStep
<1> QED
  BY <1>1, <1>2, <1>3, <1>4 DEF Next

LEMMA TabsPart == Next => [TabsNext]_tabsVars
<1>1. GoTo \/ Stay => [TabsNext]_tabsVars
  BY DEF GoTo, Stay, TabsFollow, TabsNext
<1>2. TabsStep => TabsNext
  BY DEF TabsStep, TabsNext, IsAdmin
<1>3. FindingsStep \/ ReadStep \/ WindowStep => UNCHANGED tabsVars
  BY DEF FindingsStep, ReadStep, WindowStep
<1> QED
  BY <1>1, <1>2, <1>3 DEF Next

LEMMA ReadPart == Next => [ReadNext]_readVars
<1>1. ASSUME GoTo PROVE [ReadNext]_readVars
  <2> DEFINE p == ReadPageOf(route')
  <2>1. route' \in Routes \cup {"none"}
    BY <1>1, RoutesFollow DEF GoTo
  <2>2. p \in ReadPages \cup {"none"}
    BY <2>1 DEF ReadPageOf, ReadPages, Routes, Protected
  <2>3. \/ p \notin {"none", readPage} /\ ReadMount(p)
        \/ ReadUnmount
        \/ UNCHANGED readVars
    BY <1>1 DEF GoTo, ReadFollow
  <2> HIDE DEF p
  <2> QED
    BY <2>2, <2>3 DEF ReadNext
<1>2. Stay => UNCHANGED readVars
  BY DEF Stay
<1>3. ReadStep => ReadNext
  BY DEF ReadStep, ReadNext
<1>4. FindingsStep \/ TabsStep \/ WindowStep => UNCHANGED readVars
  BY DEF FindingsStep, TabsStep, WindowStep
<1> QED
  BY <1>1, <1>2, <1>3, <1>4 DEF Next

LEMMA SidebarPart == Next => [SidebarNext]_sidebarVars
<1>1. GoTo \/ Stay => [SidebarNext]_sidebarVars
  BY DEF GoTo, Stay, SidebarFollow, SidebarNext
<1>2. WindowStep => SidebarNext
  BY DEF WindowStep, SidebarNext
<1>3. FindingsStep \/ TabsStep \/ ReadStep => UNCHANGED sidebarVars
  BY DEF FindingsStep, TabsStep, ReadStep
<1> QED
  BY <1>1, <1>2, <1>3 DEF Next

LEMMA SessionPart == Next => [SessionNext]_sessionVars
<1>1. GoTo \/ Stay => SessionNext
  BY DEF GoTo, Stay, SessionNext
<1>2. FindingsStep \/ TabsStep \/ ReadStep \/ WindowStep => UNCHANGED sessionVars
  BY DEF FindingsStep, TabsStep, ReadStep, WindowStep
<1> QED
  BY <1>1, <1>2 DEF Next

\* Pages, sidebar and session act on the dashboard as they do by themselves
\* (dashboard-layout.tsx:11-28, auth-context.tsx:22-49).
THEOREM DashboardIsItsParts ==
    Spec => FindingsSpec /\ TabsSpec /\ ReadSpec /\ SidebarSpec /\ SessionSpec
<1>1. Init => FindingsInit /\ TabsInit /\ ReadInit /\ SidebarInit /\ SessionInit
  BY DEF Init
<1>2. UNCHANGED dashboardVars =>
          UNCHANGED findingsVars /\ UNCHANGED tabsVars /\ UNCHANGED readVars
          /\ UNCHANGED sidebarVars /\ UNCHANGED sessionVars
  BY DEF dashboardVars
<1> QED
  BY <1>1, <1>2, FindingsPart, TabsPart, ReadPart, SidebarPart, SessionPart, PTL
  DEF Spec, FindingsSpec, TabsSpec, ReadSpec, SidebarSpec, SessionSpec

\* What the pages promise holds on the dashboard, whoever signs in and out and
\* wherever the user goes meanwhile (findings/page.tsx:209-264,
\* settings/page.tsx:73-91, auth-context.tsx:22-49).
THEOREM DashboardKeepsPromises ==
    Spec => [](FilterShown /\ EmptyPageHasCause /\ RowsFresh /\ RowsListed /\ LoadedWhole
               /\ UserIsSession /\ CookieKeepsState)
<1>1. SidebarInv => CookieKeepsState
  BY DEF SidebarInv
<1> QED
  BY <1>1, DashboardIsItsParts, FilterShownHolds, EmptyPageHasCauseHolds, RowsFreshHolds, RowsListedHolds,
     LoadedWholeHolds, UserIsSessionHolds, SidebarInvariant, PTL
=============================================================================
