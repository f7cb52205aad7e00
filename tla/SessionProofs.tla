--------------------------- MODULE SessionProofs ----------------------------
(***************************************************************************)
(* Proofs about the session of the dashboard: the context has a user        *)
(* exactly if the server accepts the cookie, whatever overlapped.           *)
(***************************************************************************)
EXTENDS Session, TLAPS

\* The inductive invariant, in parts.
CallRecords == [kind : {"login", "register", "logout"}, stage : {"sent", "yes", "no"},
                session : Nat, live : BOOLEAN]

SessionTyping ==
    /\ role \in Roles \cup {"none"}
    /\ issued \in Nat
    /\ valid \subseteq 1..issued
    /\ cookie \in 0..issued
    /\ check \in [stage : {"none", "sent", "yes", "no"}, cookie : 0..issued]
    /\ calls \subseteq CallRecords

\* Only an account has sessions.
SessionsNeedAccount == valid # {} => role # "none"

\* A login that was let in has a session younger than what the mount asked with.
Opened(c) == c.kind = "login" /\ c.stage = "yes"
Logins ==
    \A c \in calls :
        /\ Opened(c) => c.session > check.cookie /\ c.session <= issued /\ role # "none"
        /\ route = "none" => c.kind = "logout"

\* A logout that was executed, whose answer has not come.
LoggingOut == \E c \in calls : c.kind = "logout" /\ c.stage = "yes"

\* What the server found out for the mount stays true of the cookie.
CheckHolds ==
    /\ check.stage = "yes" => check.cookie # 0 /\ role # "none"
    /\ check.stage = "no" /\ check.cookie = cookie => ~Known(cookie)
    /\ check.stage = "yes" /\ check.cookie = cookie /\ blame = "none" => Known(cookie) \/ LoggingOut

UserHolds ==
    route # "none" /\ ~checking /\ blame = "none" => (user # "none" <=> Known(cookie)) \/ LoggingOut

SessionInv == SessionTyping /\ SessionsNeedAccount /\ Logins /\ CheckHolds /\ UserHolds
-----------------------------------------------------------------------------
LEMMA CallsAreRecords ==
    ASSUME calls \subseteq CallRecords, NEW c \in calls
    PROVE  /\ c.kind \in {"login", "register", "logout"} /\ c.stage \in {"sent", "yes", "no"}
           /\ c.session \in Nat /\ c.live \in BOOLEAN
           /\ c = [kind |-> c.kind, stage |-> c.stage, session |-> c.session, live |-> c.live]
BY DEF CallRecords

\* An answered call is the call with its answer.
LEMMA AnsweredIsRecord ==
    ASSUME calls \subseteq CallRecords, NEW c \in calls, NEW stage \in {"yes", "no"}
    PROVE  /\ [c EXCEPT !.stage = stage] \in CallRecords
           /\ [c EXCEPT !.stage = stage].kind = c.kind
           /\ [c EXCEPT !.stage = stage].stage = stage
           /\ [c EXCEPT !.stage = stage].session = c.session
BY DEF CallRecords

LEMMA InitHolds == SessionInit => SessionInv
<1> SUFFICES ASSUME SessionInit PROVE SessionInv
  OBVIOUS
<1>1. SessionTyping
  BY SessionAssumption DEF SessionInit, SessionTyping, NoCheck, Roles
<1>2. SessionsNeedAccount /\ Logins /\ UserHolds
  BY DEF SessionInit, SessionsNeedAccount, Logins, UserHolds
<1>3. CheckHolds
  BY DEF SessionInit, CheckHolds, NoCheck
<1> QED
  BY <1>1, <1>2, <1>3 DEF SessionInv
-----------------------------------------------------------------------------
(* One lemma per step, or per kind of step. *)

\* Steps of the forms and links: what the server knows, the cookie and the
\* mount's question stay, calls are only added and none of them is answered.
LEMMA ClickKeeps ==
    ASSUME SessionInv,
           UNCHANGED <<serverSession, cookie, user, checking, check, blame>>,
           route # "none",
           calls \subseteq calls',
           \A c \in calls' \ calls : c \in CallRecords /\ c.stage = "sent",
           route' # "none"
    PROVE  SessionInv'
<1> USE DEF SessionInv
<1>0. UNCHANGED <<role, valid, issued>>
  BY DEF serverSession
<1>1. SessionTyping'
  BY <1>0 DEF SessionTyping
<1>2. SessionsNeedAccount'
  BY <1>0 DEF SessionsNeedAccount
<1>3. Logins'
  BY <1>0 DEF Logins, Opened
<1>4. LoggingOut => LoggingOut'
  BY DEF LoggingOut
<1>5. CheckHolds'
  BY <1>0, <1>4 DEF CheckHolds, Known
<1>6. UserHolds'
  BY <1>0, <1>4 DEF UserHolds, Known
<1> QED
  BY <1>1, <1>2, <1>3, <1>5, <1>6

LEMMA CallAdds ==
    ASSUME NEW k \in {"login", "register", "logout"}, NEW n \in Nat, Call(k, n)
    PROVE  /\ calls \subseteq calls'
           /\ \A c \in calls' \ calls : c \in CallRecords /\ c.stage = "sent"
<1> DEFINE c == [kind |-> k, stage |-> "sent", session |-> n, live |-> TRUE]
<1>1. c \in CallRecords /\ c.stage = "sent"
  BY DEF CallRecords
<1>2. calls' = calls \cup {c}
  BY DEF Call
<1> HIDE DEF c
<1> QED
  BY <1>1, <1>2

LEMMA ClicksKeep ==
    ASSUME SessionInv,
           ToggleMode \/ HandleLogin \/ HandleSetup \/ Logout \/ Redirect \/ \E r \in Routes : Follow(r)
    PROVE  SessionInv'
<1>1. CASE ToggleMode
  BY <1>1, ClickKeeps DEF ToggleMode
<1>2. ASSUME NEW k \in {"login", "register"}, Submit(k) PROVE SessionInv'
  <2>1. route # "none" /\ route' # "none" /\ Call(k, 0)
    BY <1>2 DEF Submit, formVars
  <2>2. UNCHANGED <<serverSession, cookie, user, checking, check, blame>>
    BY <1>2 DEF Submit
  <2> QED
    BY <2>1, <2>2, CallAdds, ClickKeeps
<1>3. CASE Logout
  <2>1. route # "none" /\ route' # "none"
    BY <1>3 DEF Logout, SignedIn, Protected
  <2>2. UNCHANGED <<serverSession, cookie, user, checking, check, blame>> /\ Call("logout", cookie)
    BY <1>3 DEF Logout
  <2>3. cookie \in Nat
    BY DEF SessionInv, SessionTyping
  <2> QED
    BY <2>1, <2>2, <2>3, CallAdds, ClickKeeps
<1>4. CASE Redirect
  BY <1>4, ClickKeeps DEF Redirect, Protected
<1>5. ASSUME NEW r \in Routes, Follow(r) PROVE SessionInv'
  BY <1>5, ClickKeeps DEF Follow, SignedIn, Protected
<1> QED
  BY <1>1, <1>2, <1>3, <1>4, <1>5 DEF HandleLogin, HandleSetup

LEMMA OpenKeeps ==
    ASSUME SessionInv, NEW r \in Routes, Open(r)
    PROVE  SessionInv'
<1> USE DEF SessionInv, Open, serverSession
<1>1. SessionTyping'
  BY DEF SessionTyping
<1>2. SessionsNeedAccount'
  BY DEF SessionsNeedAccount
<1>3. Logins'
  BY DEF Logins, Opened
<1>4. CheckHolds'
  BY DEF CheckHolds
<1>5. UserHolds'
  BY DEF UserHolds
<1> QED
  BY <1>1, <1>2, <1>3, <1>4, <1>5

LEMMA LeaveKeeps ==
    ASSUME SessionInv, Leave
    PROVE  SessionInv'
<1> USE DEF SessionInv
<1>0. UNCHANGED <<role, valid, issued>> /\ route' = "none" /\ check' = NoCheck
  BY DEF Leave, serverSession
<1>1. \A c \in calls' : c \in CallRecords /\ c.kind = "logout" /\ c.stage = "sent"
  <2>1. \A d \in calls : d.kind = "logout" /\ d.stage = "sent" =>
            LET c == [d EXCEPT !.live = FALSE]
            IN  c \in CallRecords /\ c.kind = "logout" /\ c.stage = "sent"
    BY DEF SessionTyping, CallRecords
  <2> QED
    BY <2>1 DEF Leave
<1>2. cookie' \in 0..issued
  BY DEF Leave, SessionTyping, Logins, Opened, CallRecords
<1>3. SessionTyping'
  BY <1>0, <1>1, <1>2 DEF SessionTyping, NoCheck
<1>4. SessionsNeedAccount' /\ UserHolds'
  BY <1>0 DEF SessionsNeedAccount, UserHolds
<1>5. Logins'
  BY <1>0, <1>1 DEF Logins, Opened
<1>6. CheckHolds'
  BY <1>0 DEF CheckHolds, NoCheck
<1> QED
  BY <1>3, <1>4, <1>5, <1>6

LEMMA CheckExecuteKeeps ==
    ASSUME SessionInv, CheckExecute
    PROVE  SessionInv'
<1> USE DEF SessionInv
<1>0. UNCHANGED <<role, valid, issued, cookie, route, user, checking, calls, blame>>
  BY DEF CheckExecute, serverSession
<1>1. check' \in [stage : {"none", "sent", "yes", "no"}, cookie : 0..issued]
      /\ check'.cookie = check.cookie
      /\ check'.stage = IF Known(check.cookie) THEN "yes" ELSE "no"
  BY DEF CheckExecute, SessionTyping
<1>2. SessionTyping' /\ SessionsNeedAccount'
  BY <1>0, <1>1 DEF SessionTyping, SessionsNeedAccount
<1>3. Logins'
  BY <1>0, <1>1 DEF Logins, Opened
<1>4. Known(check.cookie) => check.cookie # 0 /\ role # "none"
  BY DEF Known, SessionTyping, SessionsNeedAccount
<1>5. CheckHolds'
  BY <1>0, <1>1, <1>4 DEF CheckHolds, Known
<1>6. UserHolds'
  BY <1>0 DEF UserHolds, Known, LoggingOut
<1> QED
  BY <1>2, <1>3, <1>5, <1>6

\* However the mount's question ends, the user it leaves is that of the cookie
\* or somebody is to blame.
LEMMA CheckedKeeps ==
    ASSUME SessionInv, CheckAnswer \/ CheckFail
    PROVE  SessionInv'
<1> USE DEF SessionInv
<1>1. PICK found, why : Checked(found, why)
          /\ \/ check.stage = "yes" /\ found = role /\ why = blame
             \/ check.stage = "no" /\ found = "none" /\ why = blame
             \/ why = "network"
  BY DEF CheckAnswer, CheckFail
<1>0. UNCHANGED <<role, valid, issued, cookie, route, calls>> /\ check' = NoCheck /\ user' = found
      /\ blame' = IF check.cookie # cookie THEN "overtaken" ELSE why
  BY <1>1 DEF Checked, serverSession
<1>2. SessionTyping' /\ SessionsNeedAccount'
  BY <1>0 DEF SessionTyping, SessionsNeedAccount, NoCheck
<1>3. Logins'
  BY <1>0 DEF Logins, Opened, NoCheck, SessionTyping, CallRecords
<1>4. CheckHolds'
  BY <1>0 DEF CheckHolds, NoCheck
<1>5. blame' = "none" => (user' # "none" <=> Known(cookie)) \/ LoggingOut
  BY <1>0, <1>1 DEF CheckHolds
<1>6. UserHolds'
  BY <1>0, <1>5 DEF UserHolds, Known, LoggingOut
<1> QED
  BY <1>2, <1>3, <1>4, <1>6

LEMMA LoginExecuteKeeps ==
    ASSUME SessionInv, NEW c \in calls, LoginExecute(c)
    PROVE  SessionInv'
<1> USE DEF SessionInv
<1>0. UNCHANGED <<role, cookie, route, user, checking, check, blame>> /\ c.kind = "login" /\ c.stage = "sent"
  BY DEF LoginExecute, serverSession
<1>1. CASE /\ role # "none"
           /\ issued' = issued + 1
           /\ valid' = valid \cup {issued + 1}
           /\ calls' = (calls \ {c}) \cup {[[c EXCEPT !.stage = "yes"] EXCEPT !.session = issued + 1]}
  <2> DEFINE d == [[c EXCEPT !.stage = "yes"] EXCEPT !.session = issued + 1]
  <2>1. issued \in Nat /\ cookie \in 0..issued /\ check.cookie \in 0..issued
    BY DEF SessionTyping
  <2>2. d \in CallRecords /\ d.kind = "login" /\ d.stage = "yes" /\ d.session = issued + 1
    <3> DEFINE e == [c EXCEPT !.stage = "yes"]
    <3>1. e \in CallRecords /\ e.kind = "login" /\ e.stage = "yes" /\ d = [e EXCEPT !.session = issued + 1]
      BY <1>0, AnsweredIsRecord DEF SessionTyping
    <3> HIDE DEF d, e
    <3>2. issued + 1 \in Nat
      BY <2>1
    <3> QED
      BY <3>1, <3>2 DEF CallRecords
  <2>3. calls' = (calls \ {c}) \cup {d}
    BY <1>1
  <2> HIDE DEF d
  <2>4. SessionTyping'
    <3>1. calls' \subseteq CallRecords
      BY <2>2, <2>3 DEF SessionTyping
    <3>2. issued' \in Nat /\ valid' \subseteq 1..issued' /\ cookie' \in 0..issued'
      BY <1>0, <1>1, <2>1 DEF SessionTyping
    <3>3. check' \in [stage : {"none", "sent", "yes", "no"}, cookie : 0..issued']
      BY <1>0, <1>1, <2>1 DEF SessionTyping
    <3> QED
      BY <1>0, <3>1, <3>2, <3>3 DEF SessionTyping
  <2>5. SessionsNeedAccount'
    BY <1>0, <1>1 DEF SessionsNeedAccount
  <2>6. Logins'
    <3> SUFFICES ASSUME NEW e \in calls'
                 PROVE  /\ Opened(e) => e.session > check.cookie /\ e.session <= issued' /\ role # "none"
                        /\ route = "none" => e.kind = "logout"
      BY <1>0 DEF Logins, Opened
    <3>1. CASE e = d
      BY <1>0, <1>1, <2>1, <2>2, <3>1 DEF Logins
    <3>2. CASE e \in calls
      <4>1. e.session \in Nat
        BY <3>2 DEF SessionTyping, CallRecords
      <4> QED
        BY <1>1, <2>1, <3>2, <4>1 DEF Logins
    <3> QED
      BY <2>3, <3>1, <3>2
  <2>7. LoggingOut => LoggingOut'
    BY <1>0, <2>3 DEF LoggingOut
  <2>8. Known(cookie)' <=> Known(cookie)
    BY <1>0, <1>1, <2>1 DEF Known
  <2>9. CheckHolds'
    BY <1>0, <2>7, <2>8 DEF CheckHolds
  <2>10. UserHolds'
    BY <1>0, <2>7, <2>8 DEF UserHolds
  <2> QED
    BY <2>4, <2>5, <2>6, <2>9, <2>10
<1>2. CASE Answered(c, "no") /\ UNCHANGED serverSession
  <2> DEFINE d == [c EXCEPT !.stage = "no"]
  <2>1. d \in CallRecords /\ d.stage = "no" /\ d.kind = "login"
    BY <1>0 DEF SessionTyping, CallRecords
  <2>2. calls' = (calls \ {c}) \cup {d} /\ UNCHANGED <<valid, issued>>
    BY <1>2 DEF Answered, serverSession
  <2> HIDE DEF d
  <2>3. SessionTyping' /\ SessionsNeedAccount'
    BY <1>0, <2>1, <2>2 DEF SessionTyping, SessionsNeedAccount
  <2>4. Logins'
    BY <1>0, <2>1, <2>2 DEF Logins, Opened
  <2>5. LoggingOut => LoggingOut'
    BY <1>0, <2>2 DEF LoggingOut
  <2>6. CheckHolds' /\ UserHolds'
    BY <1>0, <2>2, <2>5 DEF CheckHolds, UserHolds, Known
  <2> QED
    BY <2>3, <2>4, <2>6
<1> QED
  BY <1>1, <1>2 DEF LoginExecute
LEMMA LoginAnswerKeeps ==
    ASSUME SessionInv, NEW c \in calls, LoginAnswer(c)
    PROVE  SessionInv'
<1> USE DEF SessionInv
<1>0. /\ UNCHANGED <<role, valid, issued, checking, check>> /\ calls' = calls \ {c}
      /\ cookie' = c.session /\ user' = role /\ route' = "/"
      /\ blame' = IF Known(c.session) THEN "none" ELSE "expired"
  BY DEF LoginAnswer, serverSession
<1>1. c.session > check.cookie /\ c.session <= issued /\ role # "none" /\ c.session \in Nat
  BY DEF LoginAnswer, Logins, Opened, SessionTyping, CallRecords
<1>2. cookie' \in 0..issued
  BY <1>0, <1>1 DEF SessionTyping
<1>3. SessionTyping' /\ SessionsNeedAccount'
  BY <1>0, <1>2 DEF SessionTyping, SessionsNeedAccount
<1>4. Logins'
  BY <1>0 DEF Logins, Opened
<1>5. check.cookie # cookie'
  BY <1>0, <1>1 DEF SessionTyping
<1>6. CheckHolds'
  BY <1>0, <1>5 DEF CheckHolds
<1>7. UserHolds'
  BY <1>0, <1>1 DEF UserHolds, Known
<1> QED
  BY <1>3, <1>4, <1>6, <1>7

LEMMA RegisterKeeps ==
    ASSUME SessionInv, NEW c \in calls, RegisterExecute(c) \/ RegisterAnswer(c)
    PROVE  SessionInv'
<1> USE DEF SessionInv
<1>0. UNCHANGED <<valid, issued, cookie, route, user, checking, check, blame>>
      /\ role' \in Roles \cup {"none"} /\ (role # "none" => role' # "none")
  BY DEF RegisterExecute, RegisterAnswer, serverSession, SessionTyping, Roles
<1>1. PICK d : d \in CallRecords /\ ~Opened(d) /\ d.kind # "logout" /\ calls' = (calls \ {c}) \cup {d}
  <2>1. CASE RegisterExecute(c)
    <3> DEFINE stage == IF role = "none" THEN "yes" ELSE "no"
               d == [c EXCEPT !.stage = stage]
    <3>1. stage \in {"yes", "no"} /\ calls' = (calls \ {c}) \cup {d} /\ c.kind = "register"
      BY <2>1 DEF RegisterExecute, Answered
    <3> HIDE DEF stage
    <3>2. d \in CallRecords /\ d.kind = "register"
      BY <3>1, AnsweredIsRecord DEF SessionTyping
    <3> HIDE DEF d
    <3> QED
      BY <3>1, <3>2 DEF Opened
  <2>2. CASE RegisterAnswer(c)
    <3> DEFINE e == [c EXCEPT !.kind = "login"]
               d == [e EXCEPT !.stage = "sent"]
    <3>1. c \in CallRecords
      BY DEF SessionTyping
    <3>2. e \in CallRecords /\ e.kind = "login"
      BY <3>1 DEF CallRecords
    <3>3. calls' = (calls \ {c}) \cup {d}
      BY <2>2 DEF RegisterAnswer
    <3> HIDE DEF e
    <3>4. d \in CallRecords /\ d.kind = "login" /\ d.stage = "sent"
      BY <3>2 DEF CallRecords
    <3> HIDE DEF d
    <3> QED
      BY <3>3, <3>4 DEF Opened
  <2> QED
    BY <2>1, <2>2
<1>2. c.kind = "register"
  BY DEF RegisterExecute, RegisterAnswer
<1>3. SessionTyping' /\ SessionsNeedAccount'
  BY <1>0, <1>1 DEF SessionTyping, SessionsNeedAccount
<1>4. Logins'
  BY <1>0, <1>1, <1>2 DEF Logins, Opened
<1>5. LoggingOut => LoggingOut'
  BY <1>1, <1>2 DEF LoggingOut
<1>6. CheckHolds' /\ UserHolds'
  BY <1>0, <1>5 DEF CheckHolds, UserHolds, Known
<1> QED
  BY <1>3, <1>4, <1>6

\* A submission that fails may leave the cookie of its answer behind.
LEMMA SubmitFailKeeps ==
    ASSUME SessionInv, NEW c \in calls, SubmitFail(c)
    PROVE  SessionInv'
<1> USE DEF SessionInv
<1>0. /\ UNCHANGED <<role, valid, issued, route, user, checking, check>> /\ calls' = calls \ {c}
      /\ c.kind # "logout"
  BY DEF SubmitFail, serverSession
<1>1. \/ UNCHANGED <<cookie, blame>>
      \/ Opened(c) /\ cookie' = c.session /\ blame' = "network"
  BY DEF SubmitFail, Opened
<1>2. Opened(c) => c.session > check.cookie /\ c.session <= issued /\ c.session \in Nat
  BY DEF Logins, SessionTyping, CallRecords
<1>3. cookie' \in 0..issued
  BY <1>1, <1>2 DEF SessionTyping
<1>4. SessionTyping' /\ SessionsNeedAccount'
  BY <1>0, <1>3 DEF SessionTyping, SessionsNeedAccount
<1>5. Logins'
  BY <1>0 DEF Logins, Opened
<1>6. LoggingOut => LoggingOut'
  BY <1>0 DEF LoggingOut
<1>7. check.cookie \in Nat
  BY DEF SessionTyping
<1>8. CheckHolds'
  BY <1>0, <1>1, <1>2, <1>6, <1>7 DEF CheckHolds, Known
<1>9. UserHolds'
  BY <1>0, <1>1, <1>6 DEF UserHolds, Known
<1> QED
  BY <1>4, <1>5, <1>8, <1>9

LEMMA LogoutExecuteKeeps ==
    ASSUME SessionInv, NEW c \in calls, LogoutExecute(c)
    PROVE  SessionInv'
<1> USE DEF SessionInv
<1> DEFINE stage == IF Known(c.session) THEN "yes" ELSE "no"
           d == [c EXCEPT !.stage = stage]
<1>0. /\ UNCHANGED <<role, issued, cookie, route, user, checking, check>>
      /\ c.kind = "logout" /\ c.stage = "sent"
      /\ valid' = valid \ {c.session}
      /\ calls' = (calls \ {c}) \cup (IF c.live THEN {d} ELSE {})
      /\ blame' = IF c.session = cookie /\ Known(cookie) /\ ~c.live THEN "expired" ELSE blame
  BY DEF LogoutExecute
<1>1. d \in CallRecords /\ d.kind = "logout" /\ d.stage = stage
  <2>1. stage \in {"yes", "no"}
    OBVIOUS
  <2> HIDE DEF stage
  <2> QED
    BY <1>0, <2>1, AnsweredIsRecord DEF SessionTyping
<1> HIDE DEF d
<1>2. SessionTyping' /\ SessionsNeedAccount'
  BY <1>0, <1>1 DEF SessionTyping, SessionsNeedAccount
<1>3. Logins'
  BY <1>0, <1>1 DEF Logins, Opened
<1>4. LoggingOut => LoggingOut'
  BY <1>0 DEF LoggingOut
<1>5. Known(cookie) /\ blame' = "none" => Known(cookie)' \/ LoggingOut'
  <2> SUFFICES ASSUME Known(cookie), blame' = "none", c.session = cookie PROVE LoggingOut'
    BY <1>0 DEF Known
  <2>1. c.live /\ stage = "yes"
    BY <1>0
  <2> QED
    BY <1>0, <1>1, <2>1 DEF LoggingOut
<1>6. Known(cookie)' => Known(cookie)
  BY <1>0 DEF Known
<1>7. blame' = "none" => blame = "none"
  BY <1>0
<1>8. CheckHolds'
  BY <1>0, <1>4, <1>5, <1>6, <1>7 DEF CheckHolds
<1>9. UserHolds'
  BY <1>0, <1>4, <1>5, <1>6, <1>7 DEF UserHolds
<1> QED
  BY <1>2, <1>3, <1>8, <1>9

LEMMA LogoutAnswerKeeps ==
    ASSUME SessionInv, NEW c \in calls, LogoutAnswer(c)
    PROVE  SessionInv'
<1> USE DEF SessionInv
<1>0. /\ UNCHANGED <<role, valid, issued, checking, check>> /\ calls' = calls \ {c}
      /\ cookie' = 0 /\ user' = "none" /\ route' = "/login"
  BY DEF LogoutAnswer, serverSession
<1>1. SessionTyping' /\ SessionsNeedAccount'
  BY <1>0 DEF SessionTyping, SessionsNeedAccount
<1>2. Logins'
  BY <1>0 DEF Logins, Opened
<1>3. 0 \notin valid
  BY DEF SessionTyping
<1>4. CheckHolds' /\ UserHolds'
  BY <1>0, <1>3 DEF CheckHolds, UserHolds, Known
<1> QED
  BY <1>1, <1>2, <1>4

LEMMA LogoutFailKeeps ==
    ASSUME SessionInv, NEW c \in calls, LogoutFail(c)
    PROVE  SessionInv'
<1> USE DEF SessionInv
<1>0. /\ UNCHANGED <<role, valid, issued, cookie, route, user, checking, check>>
      /\ calls' = calls \ {c}
      /\ blame' = IF c.stage = "yes" THEN "network" ELSE blame
  BY DEF LogoutFail, serverSession
<1>1. SessionTyping' /\ SessionsNeedAccount'
  BY <1>0 DEF SessionTyping, SessionsNeedAccount
<1>2. Logins'
  BY <1>0 DEF Logins, Opened
<1>3. LoggingOut /\ blame' = "none" => LoggingOut'
  BY <1>0 DEF LoggingOut
<1>4. CheckHolds' /\ UserHolds'
  BY <1>0, <1>3 DEF CheckHolds, UserHolds, Known
<1> QED
  BY <1>1, <1>2, <1>4

LEMMA ExpireKeeps ==
    ASSUME SessionInv, Expire
    PROVE  SessionInv'
<1> USE DEF SessionInv
<1>0. /\ UNCHANGED <<role, issued, cookie, route, user, checking, check, calls>>
      /\ valid' = valid \ {cookie} /\ blame' = "expired"
  BY DEF Expire
<1>1. SessionTyping' /\ SessionsNeedAccount'
  BY <1>0 DEF SessionTyping, SessionsNeedAccount
<1>2. Logins'
  BY <1>0 DEF Logins, Opened
<1>3. CheckHolds' /\ UserHolds'
  BY <1>0 DEF CheckHolds, UserHolds, Known
<1> QED
  BY <1>1, <1>2, <1>3
-----------------------------------------------------------------------------
LEMMA StepKeeps == SessionInv /\ [SessionNext]_sessionVars => SessionInv'
<1>1. ASSUME SessionInv, RouteStep PROVE SessionInv'
  BY <1>1, OpenKeeps, ClicksKeep, LeaveKeeps, LoginAnswerKeeps, LogoutAnswerKeeps DEF RouteStep
<1>2. ASSUME SessionInv, QuietStep PROVE SessionInv'
  BY <1>2, CheckExecuteKeeps, CheckedKeeps, ClicksKeep, ExpireKeeps, LoginExecuteKeeps, RegisterKeeps,
     SubmitFailKeeps, LogoutExecuteKeeps, LogoutFailKeeps DEF QuietStep
<1>3. ASSUME SessionInv, UNCHANGED sessionVars PROVE SessionInv'
  BY <1>3 DEF sessionVars, serverSession, SessionInv, SessionTyping, SessionsNeedAccount, Logins, Opened,
              LoggingOut, CheckHolds, UserHolds, Known
<1> QED
  BY <1>1, <1>2, <1>3 DEF SessionNext

\* The session, the check of the mount, the calls under way and the user agree
\* (auth-context.tsx:22-49).
THEOREM SessionInvariant == SessionSpec => []SessionInv
BY InitHolds, StepKeeps, PTL DEF SessionSpec

\* While nothing is asked of the server and nobody is to blame, there is a user
\* exactly if the server accepts the cookie (auth-context.tsx:22-43).
THEOREM UserIsSessionHolds == SessionSpec => []UserIsSession
<1>1. SessionInv => UserIsSession
  BY DEF SessionInv, UserHolds, LoggingOut, UserIsSession
<1> QED
  BY <1>1, SessionInvariant, PTL
=============================================================================
