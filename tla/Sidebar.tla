------------------------------ MODULE Sidebar -------------------------------
(***************************************************************************)
(* The sidebar (components/ui/sidebar.tsx, hooks/use-mobile.ts): on a wide  *)
(* window it is expanded or collapsed and the choice goes into a cookie, on *)
(* a narrow one it is a sheet over the page.  Every page has a provider of  *)
(* its own, so that going to another page forgets everything but the cookie.*)
(***************************************************************************)
EXTENDS Integers

CONSTANT SidebarClicks  \* bound: toggles, and changes of the window's width

ASSUME SidebarAssumption == SidebarClicks \in Nat

VARIABLES
    provided,     \* a SidebarProvider is mounted
    open,         \* expanded, on a wide window
    openMobile,   \* the sheet is out, on a narrow one
    isMobile,     \* what useIsMobile has measured
    narrow,       \* the window is narrower than the breakpoint
    stateCookie,  \* sidebar_state, a set of at most one
    sidebarClicks,
    fresh         \* history: not toggled since the provider was mounted

sidebarVars == <<provided, open, openMobile, isMobile, narrow, stateCookie, sidebarClicks, fresh>>

SidebarInit ==
    /\ provided = FALSE
    /\ open = TRUE /\ openMobile = FALSE /\ isMobile = FALSE
    /\ narrow \in BOOLEAN
    /\ stateCookie = {}
    /\ sidebarClicks \in 0..SidebarClicks
    /\ narrow => sidebarClicks > 0
    /\ fresh = TRUE

SidebarClick == sidebarClicks > 0 /\ sidebarClicks' = sidebarClicks - 1

Forgotten == open' = TRUE /\ openMobile' = FALSE /\ isMobile' = FALSE /\ fresh' = TRUE

\* defaultOpen is never passed: the cookie is not read.
SidebarMount == provided' = TRUE /\ Forgotten /\ UNCHANGED <<narrow, stateCookie, sidebarClicks>>
SidebarUnmount == provided' = FALSE /\ Forgotten /\ UNCHANGED <<narrow, stateCookie, sidebarClicks>>

\* The effect of useIsMobile, and its listener.
Measure ==
    /\ provided
    /\ isMobile # narrow
    /\ isMobile' = narrow
    /\ UNCHANGED <<provided, open, openMobile, narrow, stateCookie, sidebarClicks, fresh>>

Resize ==
    /\ SidebarClick
    /\ narrow' = ~narrow
    /\ UNCHANGED <<provided, open, openMobile, isMobile, stateCookie, fresh>>

SetOpen(o) ==
    /\ open' = o
    /\ stateCookie' = {o}
    /\ fresh' = FALSE
    /\ UNCHANGED openMobile

\* Variant: the same toggle on a narrow window.
ToggleSidebarWide ==
    /\ SidebarClick
    /\ provided
    /\ SetOpen(~open)
    /\ UNCHANGED <<provided, isMobile, narrow>>

\* The trigger and the keyboard shortcut; the layout has no rail.
ToggleSidebar ==
    /\ SidebarClick
    /\ provided
    /\ IF isMobile THEN openMobile' = ~openMobile /\ UNCHANGED <<open, stateCookie, fresh>>
                   ELSE SetOpen(~open)
    /\ UNCHANGED <<provided, isMobile, narrow>>

\* The sheet is dismissed by a click beside it or the escape key.
DismissSheet ==
    /\ SidebarClick
    /\ provided /\ isMobile /\ openMobile
    /\ openMobile' = FALSE
    /\ UNCHANGED <<provided, open, isMobile, narrow, stateCookie, fresh>>

SidebarShown ==
    CASE isMobile /\ openMobile    -> "sheet"
      [] isMobile /\ ~openMobile   -> "nothing"
      [] ~isMobile /\ narrow       -> "nothing"
      [] ~isMobile /\ ~narrow      -> IF open THEN "expanded" ELSE "collapsed"

SidebarStep == Measure \/ Resize \/ ToggleSidebar \/ DismissSheet

SidebarNext == SidebarStep \/ SidebarMount \/ SidebarUnmount

SidebarSpec == SidebarInit /\ [][SidebarNext]_sidebarVars
-----------------------------------------------------------------------------
(* Properties. *)

\* The cookie and the sidebar differ only after the provider was mounted anew:
\* "This sets the cookie to keep the sidebar state" (sidebar.tsx:85) holds until
\* the next page, which starts expanded whatever the cookie says.
CookieKeepsState == provided /\ ~fresh => stateCookie = {open}

\* Once the width has been measured, a toggle of the sidebar is seen at once.
TogglesShow == [][ToggleSidebar /\ isMobile = narrow => SidebarShown' # SidebarShown]_sidebarVars
=============================================================================
