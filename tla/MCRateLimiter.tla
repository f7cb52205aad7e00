---------------------------- MODULE MCRateLimiter ----------------------------
(* The rate limiter, and the accounts behind it, for TLC.                  *)
EXTENDS Accounts, TLC

Symmetry == Permutations(Requests) \cup Permutations(Keys)

Op(kind, token, email) == [kind |-> kind, token |-> token, email |-> email, role |-> "member"]

\* Time and the limiter alone.
Alone == [org |-> TRUE, users |-> [e \in Emails |-> Absent], sessions |-> [t \in Tokens |-> Nobody],
          load |-> 0, ops |-> {}]

\* The first accounts, with an organization of a scanner or without any.
First == [org : BOOLEAN, users : {Alone.users}, sessions : {Alone.sessions}, load : {3},
          ops : {{Op("register", NoToken, "ann"), Op("register", NoToken, "bob"), Op("login", NoToken, "ann"),
                  Op("create", "t1", "bob"), Op("create", NoToken, "bob"), Op("logout", "t1", "ann")}}]

\* Two administrators and a member, who has been told to go or not.
Staff == [org : {TRUE}, users : {[e \in Emails |-> IF e = "cat" THEN c ELSE Account("admin")] :
                                     c \in {Absent, Account("member")}},
          sessions : {[t \in Tokens |-> CASE t = "t1" -> "ann" [] t = "t2" -> "bob" [] t = "t3" -> Nobody]},
          load : {3},
          ops : {{Op("deactivate", "t1", "bob"), Op("deactivate", "t2", "ann"), Op("logout", "t1", "ann"),
                  Op("login", NoToken, "bob"), Op("register", "t2", "cat"), Op("deactivate", "t1", "ann")}}]

MCPlans == {Alone} \cup First \cup Staff
=============================================================================
