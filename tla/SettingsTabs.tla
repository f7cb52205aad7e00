---------------------------- MODULE SettingsTabs ----------------------------
(***************************************************************************)
(* The settings page (app/settings/page.tsx): three tabs of one shape, each *)
(* a list that is loaded when the tab is mounted and again after every      *)
(* change, a form that adds a row and a button that removes one.  Loads and *)
(* changes overlap freely; leaving a tab forgets its state and cancels      *)
(* nothing.                                                                *)
(***************************************************************************)
EXTENDS Integers, FiniteSets

CONSTANTS
    RowIds,     \* webhooks, policies, users
    Stocked,    \* the rows there are at first
    TabClicks   \* bound: inputs of the user

ASSUME TabsAssumption == Stocked \subseteq RowIds /\ TabClicks \in Nat

Tabs == {"webhooks", "policies", "users"}
Conditions == {"absent", "active", "inactive"}
Lists == [RowIds -> Conditions]

VARIABLES
    kept,      \* the server: the rows of every tab
    tab,       \* the tab on screen, or "none"
    tabClicks, \* inputs the user has left
    filled,    \* the required fields of the form are filled in
    list,      \* the answer on display
    loads,     \* list requests sent by this mount
    loadSent, loadAnswered,
    changes,   \* POST and DELETE requests without an answer
    tabError,
    missed     \* history: a change the last load may have missed

loadVars == <<list, loads, loadSent, loadAnswered, tabError>>
tabsVars == <<kept, tab, tabClicks, filled, loadVars, changes, missed>>
-----------------------------------------------------------------------------
Empty == [no |-> 0, rows |-> [i \in RowIds |-> "absent"]]
Loaded == [no : Nat, rows : Lists]
Changes == [click : Nat, kind : {"create", "delete"}, tab : Tabs, id : RowIds,
            done : BOOLEAN, live : BOOLEAN]

\* The list endpoint of users, and every change but a new webhook, is for
\* admins only; the tab of the users and the form and the buttons of the
\* policies are not even shown to others.
TabsOf(isAdmin) == IF isAdmin THEN Tabs ELSE Tabs \ {"users"}
MayEdit(isAdmin) == tab = "webhooks" \/ isAdmin

\* load(): forgets the error and asks for the list.
Load ==
    /\ tabError' = FALSE
    /\ loads' = loads + 1
    /\ loadSent' = loadSent \cup {loads + 1}
    /\ missed' = FALSE
    /\ UNCHANGED <<list, loadAnswered>>

Orphans == {[c EXCEPT !.live = FALSE] : c \in {d \in changes : ~d.done}}

TabsInit ==
    /\ kept = [t \in Tabs |-> [i \in RowIds |-> IF i \in Stocked THEN "active" ELSE "absent"]]
    /\ tab = "none"
    /\ tabClicks \in 0..TabClicks
    /\ filled = FALSE
    /\ list = Empty /\ loads = 0 /\ loadSent = {} /\ loadAnswered = {}
    /\ tabError = FALSE
    /\ changes = {}
    /\ missed = FALSE

\* A tab is mounted: by the page, which opens on the webhooks, or by a click
\* that unmounts another one.
Show(t) ==
    /\ tab' = t
    /\ tab # t
    /\ filled' = FALSE
    /\ list' = Empty /\ loads' = 1 /\ loadSent' = {1} /\ loadAnswered' = {}
    /\ tabError' = FALSE
    /\ changes' = Orphans
    /\ missed' = FALSE
    /\ UNCHANGED kept

TabsMount == tab = "none" /\ Show("webhooks") /\ UNCHANGED tabClicks

TabsUnmount ==
    /\ tab # "none"
    /\ tab' = "none"
    /\ filled' = FALSE
    /\ list' = Empty /\ loads' = 0 /\ loadSent' = {} /\ loadAnswered' = {}
    /\ tabError' = FALSE
    /\ changes' = Orphans
    /\ missed' = FALSE
    /\ UNCHANGED <<kept, tabClicks>>
-----------------------------------------------------------------------------
(* What the user does. *)

TabClick == tab # "none" /\ tabClicks > 0 /\ tabClicks' = tabClicks - 1

Switch(t) == TabClick /\ Show(t)

FillIn ==
    /\ TabClick
    /\ ~filled
    /\ filled' = TRUE
    /\ UNCHANGED <<kept, tab, loadVars, changes, missed>>

Send(kind, i) ==
    /\ changes' = changes \cup {[click |-> tabClicks, kind |-> kind, tab |-> tab, id |-> i,
                                 done |-> FALSE, live |-> TRUE]}
    /\ UNCHANGED <<kept, tab, filled, loadVars, missed>>

\* The button stays enabled, and the form filled, until the answer.
HandleCreate(i) ==
    /\ TabClick
    /\ filled
    /\ Send("create", i)

HandleDelete(i) ==
    /\ TabClick
    /\ list.rows[i] \in (IF tab = "users" THEN {"active"} ELSE {"active", "inactive"})
    /\ Send("delete", i)
-----------------------------------------------------------------------------
(* What the server and the browser do. *)

LoadExecute(n) ==
    /\ loadSent' = loadSent \ {n}
    /\ loadAnswered' = loadAnswered \cup {[no |-> n, rows |-> kept[tab]]}
    /\ UNCHANGED <<kept, tab, tabClicks, filled, list, loads, tabError, changes, missed>>

LoadAnswer(a) ==
    /\ loadAnswered' = loadAnswered \ {a}
    /\ list' = a
    /\ UNCHANGED <<kept, tab, tabClicks, filled, loads, loadSent, tabError, changes, missed>>

LoadFail ==
    /\ \/ \E n \in loadSent : loadSent' = loadSent \ {n} /\ UNCHANGED loadAnswered
       \/ \E a \in loadAnswered : loadAnswered' = loadAnswered \ {a} /\ UNCHANGED loadSent
    /\ tabError' = TRUE
    /\ UNCHANGED <<kept, tab, tabClicks, filled, list, loads, changes, missed>>

\* A new row takes an identifier that is free; a user is only deactivated.
Removed(t) == IF t = "users" THEN "inactive" ELSE "absent"
ChangeExecute(c) ==
    /\ ~c.done
    /\ IF c.kind = "create" THEN kept[c.tab][c.id] = "absent" ELSE kept[c.tab][c.id] # "absent"
    /\ kept' = [kept EXCEPT ![c.tab][c.id] = IF c.kind = "create" THEN "active" ELSE Removed(c.tab)]
    /\ changes' = (changes \ {c}) \cup (IF c.live THEN {[c EXCEPT !.done = TRUE]} ELSE {})
    /\ missed' = (missed \/ (tab # "none" /\ ~c.live))
    /\ UNCHANGED <<tab, tabClicks, filled, loadVars>>

\* Variant: no load after the change.
ChangeAnswerQuietly(c) ==
    /\ c.done
    /\ changes' = changes \ {c}
    /\ filled' = (filled /\ c.kind = "delete")
    /\ UNCHANGED <<kept, tab, tabClicks, loadVars, missed>>

ChangeAnswer(c) ==
    /\ c.done
    /\ changes' = changes \ {c}
    /\ filled' = (filled /\ c.kind = "delete")
    /\ Load
    /\ UNCHANGED <<kept, tab, tabClicks>>

ChangeFail(c) ==
    /\ changes' = changes \ {c}
    /\ tabError' = (tabError \/ c.live)
    /\ missed' = (missed \/ c.done)
    /\ UNCHANGED <<kept, tab, tabClicks, filled, list, loads, loadSent, loadAnswered>>
-----------------------------------------------------------------------------
TabsInput(isAdmin) ==
    \/ \E t \in TabsOf(isAdmin) : Switch(t)
    \/ MayEdit(isAdmin) /\ (FillIn \/ \E i \in RowIds : HandleCreate(i) \/ HandleDelete(i))

TabsExecute(isAdmin) ==
    \/ \E n \in loadSent : (tab = "users" => isAdmin) /\ LoadExecute(n)
    \/ \E c \in changes : /\ isAdmin \/ (c.tab = "webhooks" /\ c.kind = "create")
                          /\ ChangeExecute(c)

TabsAnswer ==
    \/ \E a \in loadAnswered : LoadAnswer(a)
    \/ LoadFail
    \/ \E c \in changes : ChangeAnswer(c) \/ ChangeFail(c)

TabsNext ==
    \/ \E isAdmin \in BOOLEAN : TabsInput(isAdmin) \/ TabsExecute(isAdmin)
    \/ TabsAnswer
    \/ TabsMount \/ TabsUnmount

TabsSpec == TabsInit /\ [][TabsNext]_tabsVars
-----------------------------------------------------------------------------
(* Properties. *)

\* Once every change that was executed has been answered, the answer to the
\* last load lists exactly the rows of the server, unless an answer was lost
\* or the change was sent by a tab that is gone: a change is always followed
\* by a load, which is sent after its answer (page.tsx:73-91, 169-187, 279-299).
RowsListed ==
    /\ list.no = loads
    /\ ~missed
    /\ \A c \in changes : c.live => ~c.done
    => tab = "none" \/ list.rows = kept[tab]
=============================================================================
