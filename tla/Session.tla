------------------------------ MODULE Session -------------------------------
(***************************************************************************)
(* Who is signed in: the authentication context of the dashboard            *)
(* (lib/auth-context.tsx), the login page (app/login/page.tsx), the layout  *)
(* that guards every other page (components/dashboard-layout.tsx) and the   *)
(* links and the logout button beside it (components/app-sidebar.tsx),      *)
(* against the sessions of the server and the cookie of the browser.        *)
(***************************************************************************)
EXTENDS Integers

CONSTANTS
    MaxSessions,   \* bound: sessions the server ever issues
    SessionClicks  \* bound: inputs of the user, loads of an address, expiries

ASSUME SessionAssumption == MaxSessions \in Nat \ {0} /\ SessionClicks \in Nat

Protected == {"/", "/findings", "/repositories", "/analytics", "/exports", "/settings"}
Routes == Protected \cup {"/login"}

VARIABLES
    role,      \* the role of the account, "none" while there is no account
    valid,     \* sessions the server accepts
    issued,    \* sessions the server has issued
    cookie,    \* the session the browser sends, 0 for none
    route,     \* the page the router shows, or "none"
    user,      \* AuthContext: the role of the user, or "none"
    checking,  \* AuthContext: loading
    check,     \* the GET /me of the mount
    calls,     \* login, register and logout requests without an answer
    mode, busy, formError,   \* the form of the login page
    sessionClicks,
    blame      \* history: why user may differ from the session of the cookie

serverSession == <<role, valid, issued>>
formVars      == <<mode, busy, formError>>
sessionVars   == <<serverSession, cookie, route, user, checking, check, calls, formVars,
                   sessionClicks, blame>>
-----------------------------------------------------------------------------
Roles == {"admin", "member"}
NoCheck == [stage |-> "none", cookie |-> 0]
Checks == [stage : {"none", "sent", "yes", "no"}, cookie : 0..MaxSessions]
Calls == [kind : {"login", "register", "logout"}, stage : {"sent", "yes", "no"},
          session : 0..MaxSessions, live : BOOLEAN]

Known(s) == s \in valid

\* DashboardLayout shows a page, with links and a logout button, to a user only.
SignedIn == route \in Protected /\ ~checking /\ user # "none"

Blank == mode = "login" /\ busy = FALSE /\ formError = FALSE
BlankForm == mode' = "login" /\ busy' = FALSE /\ formError' = FALSE

Call(kind, s) == calls' = calls \cup {[kind |-> kind, stage |-> "sent", session |-> s, live |-> TRUE]}
Answered(c, stage) == calls' = (calls \ {c}) \cup {[c EXCEPT !.stage = stage]}

SessionInit ==
    /\ role \in Roles \cup {"none"}
    /\ cookie \in {0, 1} /\ issued = cookie
    /\ valid \in SUBSET {cookie} /\ 0 \notin valid
    /\ role = "none" => cookie = 0
    /\ route = "none"
    /\ user = "none" /\ checking = FALSE /\ check = NoCheck
    /\ calls = {}
    /\ Blank
    /\ sessionClicks \in 0..SessionClicks
    /\ blame = "none"

SessionClick == sessionClicks > 0 /\ sessionClicks' = sessionClicks - 1
-----------------------------------------------------------------------------
(* Loading an address starts the application anew: AuthProvider asks who    *)
(* the user is, with the cookie of now.                                     *)

Open(r) ==
    /\ route = "none"
    /\ route' = r
    /\ checking' = TRUE
    /\ check' = [stage |-> "sent", cookie |-> cookie]
    /\ UNCHANGED <<serverSession, cookie, user, calls, formVars, sessionClicks, blame>>

\* A tab that is closed, or reloaded, forgets everything but the cookie, which
\* may have come with the headers of an answer; a logout on its way is still
\* executed.
Leave ==
    /\ SessionClick
    /\ route # "none"
    /\ route' = "none"
    /\ user' = "none" /\ checking' = FALSE /\ check' = NoCheck
    /\ calls' = {[c EXCEPT !.live = FALSE] : c \in {d \in calls : d.kind = "logout" /\ d.stage = "sent"}}
    /\ BlankForm
    /\ blame' = "none"
    /\ cookie' \in {cookie} \cup {c.session : c \in {d \in calls : d.kind = "login" /\ d.stage = "yes"}}
    /\ UNCHANGED serverSession

CheckExecute ==
    /\ check.stage = "sent"
    /\ check' = [check EXCEPT !.stage = IF Known(check.cookie) THEN "yes" ELSE "no"]
    /\ UNCHANGED <<serverSession, cookie, route, user, checking, calls, formVars, sessionClicks, blame>>

\* refresh(): whatever it finds replaces the user, also one who has signed in since.
Checked(found, why) ==
    /\ check' = NoCheck
    /\ user' = found
    /\ checking' = FALSE
    /\ blame' = IF check.cookie # cookie THEN "overtaken" ELSE why
    /\ UNCHANGED <<serverSession, cookie, route, calls, formVars, sessionClicks>>

CheckAnswer ==
    \/ check.stage = "yes" /\ Checked(role, blame)
    \/ check.stage = "no" /\ Checked("none", blame)

\* Variant: the spinner is taken away after an answer only.
CheckFailHangs ==
    /\ check.stage # "none"
    /\ check' = NoCheck
    /\ user' = "none"
    /\ blame' = "network"
    /\ UNCHANGED <<serverSession, cookie, route, checking, calls, formVars, sessionClicks>>

CheckFail == check.stage # "none" /\ Checked("none", "network")
-----------------------------------------------------------------------------
(* The login page. *)

ToggleMode ==
    /\ SessionClick
    /\ route = "/login"
    /\ mode' = IF mode = "login" THEN "setup" ELSE "login"
    /\ UNCHANGED <<serverSession, cookie, route, user, checking, check, calls, busy, formError, blame>>

Submit(kind) ==
    /\ SessionClick
    /\ route = "/login"
    /\ ~busy
    /\ busy' = TRUE
    /\ formError' = FALSE
    /\ Call(kind, 0)
    /\ UNCHANGED <<serverSession, cookie, route, user, checking, check, mode, blame>>

HandleLogin == mode = "login" /\ Submit("login")
HandleSetup == mode = "setup" /\ Submit("register")

\* A wrong password, an unknown account or the rate limiter may refuse a login.
LoginExecute(c) ==
    /\ c.kind = "login" /\ c.stage = "sent"
    /\ \/ /\ role # "none"
          /\ issued < MaxSessions
          /\ issued' = issued + 1
          /\ valid' = valid \cup {issued + 1}
          /\ calls' = (calls \ {c}) \cup {[[c EXCEPT !.stage = "yes"] EXCEPT !.session = issued + 1]}
          /\ UNCHANGED role
       \/ Answered(c, "no") /\ UNCHANGED serverSession
    /\ UNCHANGED <<cookie, route, user, checking, check, formVars, sessionClicks, blame>>

\* login(): the cookie comes with the answer; the context then has a user and
\* the router goes to the home page, which takes the form off the screen.
LoginAnswer(c) ==
    /\ c.kind = "login" /\ c.stage = "yes"
    /\ calls' = calls \ {c}
    /\ cookie' = c.session
    /\ user' = role
    /\ route' = "/"
    /\ BlankForm
    /\ blame' = IF Known(c.session) THEN "none" ELSE "expired"
    /\ UNCHANGED <<serverSession, checking, check, sessionClicks>>

\* The first account is that of an administrator; later the form is refused.
\* (To an administrator whose browser still has a session it opens one more
\* account; only one account is modelled.)
RegisterExecute(c) ==
    /\ c.kind = "register" /\ c.stage = "sent"
    /\ Answered(c, IF role = "none" THEN "yes" ELSE "no")
    /\ role' = IF role = "none" THEN "admin" ELSE role
    /\ UNCHANGED <<valid, issued, cookie, route, user, checking, check, formVars, sessionClicks, blame>>

RegisterAnswer(c) ==
    /\ c.kind = "register" /\ c.stage = "yes"
    /\ calls' = (calls \ {c}) \cup {[c EXCEPT !.kind = "login", !.stage = "sent"]}
    /\ UNCHANGED <<serverSession, cookie, route, user, checking, check, formVars, sessionClicks, blame>>

\* A refusal, or no answer; of an answer that breaks off after its headers the
\* browser keeps the cookie.
SubmitFail(c) ==
    /\ c.kind \in {"login", "register"}
    /\ calls' = calls \ {c}
    /\ busy' = FALSE
    /\ formError' = TRUE
    /\ \/ UNCHANGED <<cookie, blame>>
       \/ c.kind = "login" /\ c.stage = "yes" /\ cookie' = c.session /\ blame' = "network"
    /\ UNCHANGED <<serverSession, route, user, checking, check, mode, sessionClicks>>
-----------------------------------------------------------------------------
(* The layout and its sidebar. *)

\* The effect of DashboardLayout.
Redirect ==
    /\ route \in Protected /\ ~checking /\ user = "none"
    /\ route' = "/login"
    /\ UNCHANGED <<serverSession, cookie, user, checking, check, calls, formVars, sessionClicks, blame>>

Follow(r) ==
    /\ SessionClick
    /\ SignedIn
    /\ r \in Protected \ {route}
    /\ route' = r
    /\ UNCHANGED <<serverSession, cookie, user, checking, check, calls, formVars, blame>>

\* A second click while the first request is on its way adds one that the
\* server refuses: it changes nothing and is not told apart.
Logout ==
    /\ SessionClick
    /\ SignedIn
    /\ Call("logout", cookie)
    /\ UNCHANGED <<serverSession, cookie, route, user, checking, check, formVars, blame>>

LogoutExecute(c) ==
    /\ c.kind = "logout" /\ c.stage = "sent"
    /\ valid' = valid \ {c.session}
    /\ calls' = (calls \ {c}) \cup
           (IF c.live THEN {[c EXCEPT !.stage = IF Known(c.session) THEN "yes" ELSE "no"]} ELSE {})
    /\ blame' = IF c.session = cookie /\ Known(cookie) /\ ~c.live THEN "expired" ELSE blame
    /\ UNCHANGED <<role, issued, cookie, route, user, checking, check, formVars, sessionClicks>>

LogoutAnswer(c) ==
    /\ c.kind = "logout" /\ c.stage = "yes"
    /\ calls' = calls \ {c}
    /\ cookie' = 0
    /\ user' = "none"
    /\ route' = "/login"
    /\ blame' = "none"
    /\ UNCHANGED <<serverSession, checking, check, formVars, sessionClicks>>

\* Variant: the user is forgotten however the request ends.
LogoutFailForgets(c) ==
    /\ c.kind = "logout"
    /\ calls' = calls \ {c}
    /\ user' = "none"
    /\ blame' = IF c.stage = "yes" THEN "network" ELSE blame
    /\ UNCHANGED <<serverSession, cookie, route, checking, check, formVars, sessionClicks>>

\* Nobody catches the rejection: the user stays.
LogoutFail(c) ==
    /\ c.kind = "logout"
    /\ calls' = calls \ {c}
    /\ blame' = IF c.stage = "yes" THEN "network" ELSE blame
    /\ UNCHANGED <<serverSession, cookie, route, user, checking, check, formVars, sessionClicks>>

\* The session times out, its account is deactivated, or another tab logs out.
Expire ==
    /\ SessionClick
    /\ Known(cookie)
    /\ valid' = valid \ {cookie}
    /\ blame' = "expired"
    /\ UNCHANGED <<role, issued, cookie, route, user, checking, check, calls, formVars>>
-----------------------------------------------------------------------------
\* The steps by which another page comes on screen, and all others.
RouteStep ==
    \/ \E r \in Routes : Open(r) \/ Follow(r)
    \/ Leave \/ Redirect
    \/ \E c \in calls : LoginAnswer(c) \/ LogoutAnswer(c)

QuietStep ==
    \/ CheckExecute \/ CheckAnswer \/ CheckFail
    \/ ToggleMode \/ HandleLogin \/ HandleSetup \/ Logout \/ Expire
    \/ \E c \in calls : \/ LoginExecute(c) \/ RegisterExecute(c) \/ RegisterAnswer(c)
                        \/ SubmitFail(c) \/ LogoutExecute(c) \/ LogoutFail(c)

SessionNext == RouteStep \/ QuietStep

SessionSpec == SessionInit /\ [][SessionNext]_sessionVars
-----------------------------------------------------------------------------
(* Properties. *)

\* While nothing is asked of the server, the context has a user exactly if the
\* server accepts the cookie.  Where it does not, an answer was lost, the
\* session ended elsewhere, or the check of the mount came in after a login
\* and replaced its user (auth-context.tsx:22-43).
UserIsSession ==
    route # "none" /\ ~checking /\ calls = {} /\ blame = "none"
        => (user # "none" <=> Known(cookie))

\* Nobody stays before the spinner of a protected page: a visitor is taken to
\* the login form or becomes a user (dashboard-layout.tsx:11-28).
VisitorsMoveOn ==
    (route \in Protected /\ (checking \/ user = "none"))
        ~> (route \notin Protected \/ (~checking /\ user # "none"))
=============================================================================
