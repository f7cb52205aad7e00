------------------------------ MODULE Accounts -------------------------------
(***************************************************************************)
(* The accounts of the dashboard on the server: registration, login and     *)
(* logout (routers/auth.py), the creation and deactivation of users         *)
(* (routers/settings.py) and the check of the session cookie before them    *)
(* (dependencies/auth.py).  Requests interleave at every SQL statement; a   *)
(* login first asks the rate limiter.                                       *)
(*                                                                         *)
(* Accounts are known by their e-mail, which is unique and never taken     *)
(* back; all belong to one organization.  What a transaction wrote is seen  *)
(* when it commits; an insert that meets an uncommitted rival waits and     *)
(* then goes on as if it had come later, so that inserts are one step with  *)
(* their commit.                                                            *)
(***************************************************************************)
EXTENDS RateLimiter

CONSTANTS
    Emails,
    Tokens,   \* session cookies the server may ever issue
    NoToken,  \* no cookie
    Nobody,   \* no account
    Plans     \* bound: how a run begins and what is asked in it

Roles == {"admin", "member", "viewer"}
Kinds == {"login", "logout", "register", "create", "deactivate"}
Ops == [kind : Kinds, token : Tokens \cup {NoToken}, email : Emails, role : Roles]

Absent == [role |-> "none", active |-> FALSE]
Account(role) == [role |-> role, active |-> TRUE]
Accounts == [role : Roles, active : BOOLEAN] \cup {Absent}

\* A run begins with what the handlers may have left behind one by one: the
\* accounts of the sessions, and an administrator if there is an account.
ASSUME AccountsAssumption ==
    /\ Nobody \notin Emails
    /\ NoToken \notin Tokens
    /\ Plans \subseteq [org : BOOLEAN, users : [Emails -> Accounts],
                       sessions : [Tokens -> Emails \cup {Nobody}], load : Nat, ops : SUBSET Ops]
    /\ \A p \in Plans :
           /\ \A t \in Tokens : p.sessions[t] # Nobody => p.users[p.sessions[t]] # Absent
           /\ \/ \A e \in Emails : p.users[e] = Absent
              \/ \E e \in Emails : p.users[e] = Account("admin")

VARIABLES
    org,       \* there is an organization
    users,     \* accounts by e-mail
    sessions,  \* the account of every session that has not ended
    issued,    \* cookies the server has issued
    req,       \* where every request is, and what it has read
    plan,      \* bound: the requests that may come, how many, or time alone
    raced      \* history: two deactivations were under way at once

database     == <<org, users, sessions, issued>>
accountsVars == <<database, req, plan, raced>>
-----------------------------------------------------------------------------
Exists(e) == users[e] # Absent
Active(e) == users[e].active
Admin(e)  == users[e].role = "admin"

Ended == {"ok", "refused", "failed"}
UnderWay(r) == req[r].pc \notin {"idle"} \cup Ended
NotYet == [op |-> [kind |-> "none"], pc |-> "idle", me |-> Nobody, newOrg |-> FALSE, unwelcome |-> FALSE]

Goto(r, pc) == req' = [req EXCEPT ![r].pc = pc]

ServerInit ==
    /\ Init
    /\ plan \in Plans
    /\ org = plan.org /\ users = plan.users /\ sessions = plan.sessions
    /\ issued = {t \in Tokens : sessions[t] # Nobody}
    /\ req = [r \in Requests |-> NotYet]
    /\ raced = FALSE

\* Who may have what is asked for, now.  (An account that does not exist yet may
\* be there when the login looks for it.)
Accepted(t) == t \in issued /\ sessions[t] # Nobody /\ Active(sessions[t])
AcceptedAdmin(t) == Accepted(t) /\ Admin(sessions[t])
Entitled(op) ==
    CASE op.kind = "login"    -> Active(op.email) \/ ~Exists(op.email)
      [] op.kind = "logout"   -> Accepted(op.token)
      [] op.kind = "register" -> AcceptedAdmin(op.token) \/ \A e \in Emails : ~Exists(e)
      [] op.kind \in {"create", "deactivate"} -> AcceptedAdmin(op.token)

FirstStep(op) ==
    CASE op.kind = "login" -> "limit"
      [] op.kind = "register" /\ op.token = NoToken -> "count"
      [] op.kind \notin {"login", "register"} /\ op.token = NoToken -> "refused"
      [] op.kind # "login" /\ op.token # NoToken -> "session"

Arrive(r, op) ==
    /\ req[r] = NotYet
    /\ Cardinality({q \in Requests : req[q] # NotYet}) < plan.load
    /\ op.token \in issued \cup {NoToken}
    /\ req' = [req EXCEPT ![r] = [op |-> op, pc |-> FirstStep(op), me |-> Nobody,
                                  newOrg |-> FALSE, unwelcome |-> ~Entitled(op)]]
    /\ raced' = (raced \/ (op.kind = "deactivate"
                           /\ \E q \in Requests : UnderWay(q) /\ req[q].op.kind = "deactivate"))
    /\ UNCHANGED <<database, plan>>
-----------------------------------------------------------------------------
(* get_current_user, require_role, and the same two reads in register. *)

ReadSession(r) ==
    LET me == sessions[req[r].op.token]
    IN  /\ req[r].pc = "session"
        /\ \/ me # Nobody /\ req' = [[req EXCEPT ![r].me = me] EXCEPT ![r].pc = "user"]
           \/ me = Nobody /\ Goto(r, IF req[r].op.kind = "register" THEN "count" ELSE "refused")
        /\ UNCHANGED <<database, plan, raced>>

\* Variant: an administrator may deactivate himself.
AfterUserSelf(r) ==
    CASE req[r].op.kind = "logout"   -> "write"
      [] req[r].op.kind = "register" -> "count"
      [] req[r].op.kind = "create" -> IF Admin(req[r].me) THEN "email" ELSE "refused"
      [] req[r].op.kind = "deactivate" -> IF Admin(req[r].me) THEN "target" ELSE "refused"

\* The step after the account was found to be active and to have the role.
AfterUser(r) ==
    CASE req[r].op.kind = "logout"   -> "write"
      [] req[r].op.kind = "register" -> "count"
      [] req[r].op.kind = "create" -> IF Admin(req[r].me) THEN "email" ELSE "refused"
      [] req[r].op.kind = "deactivate" ->
             IF Admin(req[r].me) /\ req[r].op.email # req[r].me THEN "target" ELSE "refused"

\* Variant: the account is read without a look at is_active.
ReadUserAny(r) ==
    /\ req[r].pc = "user"
    /\ Goto(r, AfterUser(r))
    /\ UNCHANGED <<database, plan, raced>>

ReadUser(r) ==
    /\ req[r].pc = "user"
    /\ \/ Active(req[r].me) /\ Goto(r, AfterUser(r))
       \/ ~Active(req[r].me) /\ req[r].op.kind # "register" /\ Goto(r, "refused")
       \/ /\ ~Active(req[r].me) /\ req[r].op.kind = "register"
          /\ req' = [[req EXCEPT ![r].me = Nobody] EXCEPT ![r].pc = "count"]
    /\ UNCHANGED <<database, plan, raced>>
-----------------------------------------------------------------------------
(* register and create_user. *)

NoAccounts == \A e \in Emails : ~Exists(e)

\* is_bootstrap is that nobody is there yet; me is then forgotten.
CountUsers(r) ==
    /\ req[r].pc = "count"
    /\ \/ NoAccounts /\ req' = [[req EXCEPT ![r].me = Nobody] EXCEPT ![r].pc = "email"]
       \/ ~NoAccounts /\ Goto(r, IF req[r].me # Nobody /\ Admin(req[r].me) THEN "email" ELSE "refused")
    /\ UNCHANGED <<database, plan, raced>>

Bootstrap(r) == req[r].me = Nobody

ReadEmail(r) ==
    /\ req[r].pc = "email"
    /\ Goto(r, IF Exists(req[r].op.email) THEN "refused" ELSE IF Bootstrap(r) THEN "org" ELSE "insert")
    /\ UNCHANGED <<database, plan, raced>>

ReadOrg(r) ==
    /\ req[r].pc = "org"
    /\ req' = [[req EXCEPT ![r].newOrg = ~org] EXCEPT ![r].pc = "insert"]
    /\ UNCHANGED <<database, plan, raced>>

\* The unique e-mail and the unique name of the organization refuse a rival.
Insert(r) ==
    /\ req[r].pc = "insert"
    /\ \/ /\ Exists(req[r].op.email) \/ (req[r].newOrg /\ org)
          /\ Goto(r, "failed")
          /\ UNCHANGED <<org, users>>
       \/ /\ ~Exists(req[r].op.email) /\ ~(req[r].newOrg /\ org)
          /\ users' = [users EXCEPT ![req[r].op.email] =
                           Account(IF Bootstrap(r) THEN "admin" ELSE req[r].op.role)]
          /\ org' = TRUE
          /\ Goto(r, "ok")
    /\ UNCHANGED <<sessions, issued, plan, raced>>
-----------------------------------------------------------------------------
(* deactivate_user and logout. *)

ReadTarget(r) ==
    /\ req[r].pc = "target"
    /\ Goto(r, IF Exists(req[r].op.email) THEN "write" ELSE "refused")
    /\ UNCHANGED <<database, plan, raced>>

\* The sessions of the account stay.
Deactivate(r) ==
    /\ req[r].pc = "write" /\ req[r].op.kind = "deactivate"
    /\ users' = [users EXCEPT ![req[r].op.email].active = FALSE]
    /\ Goto(r, "ok")
    /\ UNCHANGED <<org, sessions, issued, plan, raced>>

Logout(r) ==
    /\ req[r].pc = "write" /\ req[r].op.kind = "logout"
    /\ sessions' = [sessions EXCEPT ![req[r].op.token] = Nobody]
    /\ Goto(r, "ok")
    /\ UNCHANGED <<org, users, issued, plan, raced>>
-----------------------------------------------------------------------------
(* login. *)

\* _check_login_rate_limit, for the address the request comes from.
AskLimiter(r) ==
    /\ req[r].pc = "limit"
    /\ \E k \in Keys :
           \/ Admit(r, k) /\ Goto(r, "account")
           \/ Refuse(r, k) /\ Goto(r, "refused")
    /\ UNCHANGED <<database, plan, raced>>

\* The password may be wrong.
ReadAccount(r) ==
    /\ req[r].pc = "account"
    /\ \/ Active(req[r].op.email) /\ Goto(r, "write")
       \/ Goto(r, "refused")
    /\ UNCHANGED <<database, plan, raced>>

Login(r) ==
    /\ req[r].pc = "write" /\ req[r].op.kind = "login"
    /\ \E t \in Tokens \ issued :
           /\ sessions' = [sessions EXCEPT ![t] = req[r].op.email]
           /\ issued' = issued \cup {t}
    /\ Goto(r, "ok")
    /\ UNCHANGED <<org, users, plan, raced>>
-----------------------------------------------------------------------------
\* A lost connection or a restarted server, at any point of a handler.
Interrupted(r) ==
    /\ UnderWay(r)
    /\ Goto(r, "failed")
    /\ UNCHANGED <<database, plan, raced>>

\* expires_at has passed.
Expire(t) ==
    /\ sessions[t] # Nobody
    /\ sessions' = [sessions EXCEPT ![t] = Nobody]
    /\ UNCHANGED <<org, users, issued, req, plan, raced>>

Handle(r) ==
    \/ ReadSession(r) \/ ReadUser(r) \/ CountUsers(r) \/ ReadEmail(r) \/ ReadOrg(r) \/ Insert(r)
    \/ ReadTarget(r) \/ Deactivate(r) \/ Logout(r) \/ ReadAccount(r) \/ Login(r) \/ Interrupted(r)

\* While the limiter computes a Retry-After, no other handler runs.
AccountsStep ==
    /\ asking = NoKey
    /\ \/ \E r \in Requests : Handle(r) \/ \E op \in plan.ops : Arrive(r, op)
       \/ \E t \in Tokens : plan.ops # {} /\ Expire(t)
    /\ UNCHANGED vars

\* The requests of scanners, and logins whose password is wrong.
LimiterStep ==
    /\ plan.ops = {}
    /\ \/ \E r \in Requests, k \in Keys : Admit(r, k) \/ Refuse(r, k)
       \/ Tick \/ SetBack \/ Terminated
    /\ UNCHANGED accountsVars

AllAnswered ==
    /\ plan.ops # {}
    /\ asking = NoKey
    /\ \A r \in Requests : ~UnderWay(r)
    /\ UNCHANGED <<vars, accountsVars>>

ServerNext ==
    \/ AccountsStep \/ LimiterStep
    \/ \E r \in Requests : AskLimiter(r)
    \/ Answer /\ UNCHANGED accountsVars
    \/ AllAnswered

ServerSpec == ServerInit /\ [][ServerNext]_<<vars, accountsVars>>
-----------------------------------------------------------------------------
(* Properties. *)

\* Who had no right to it when a request arrived does not get it, although the
\* right is read before what it is needed for: no account without an admin once
\* there is one, and nothing for a session that has ended or whose account was
\* deactivated (dependencies/auth.py:58-81, auth.py:180-194).
UnwelcomeIsRefused == \A r \in Requests : req[r].unwelcome => req[r].pc # "ok"

\* An organization with accounts keeps an active administrator, unless two
\* deactivations are under way at once: nobody deactivates himself, and the
\* session of a deactivated account is worth nothing (settings.py:268-290).
AdminRemains ==
    ~NoAccounts /\ ~raced => \E e \in Emails : Active(e) /\ Admin(e)
=============================================================================
