----------------------------- MODULE RemoteView -----------------------------
(***************************************************************************)
(* What a page promises about a resource that it reads with parameters:    *)
(* each choice of the user is asked for, at once and exactly once; a       *)
(* refetch may ask for an earlier choice again; answers and failures come  *)
(* in any order, and the view shows the answer that came last.             *)
(***************************************************************************)
EXTENDS Integers

VARIABLES
    wanted,  \* the parameters the user has chosen
    count,   \* requests sent since the view was opened, 0 while it is closed
    again,   \* the last request is a refetch
    asked,   \* requests without an answer
    shown    \* the answer on display, a set of at most one

viewVars == <<wanted, count, again, asked, shown>>

Closed == count = 0 /\ again = FALSE /\ asked = {} /\ shown = {}

Init == Closed

\* One more request; a first fetch is for what is wanted from now on.
Ask(refetch) ==
    /\ count' = count + 1
    /\ again' = refetch
    /\ \E r \in asked' :
           /\ asked' = asked \cup {r}
           /\ r.no = count + 1
           /\ refetch \/ r.params = wanted'

Open    == count = 0 /\ Ask(FALSE) /\ shown' = {}
Choose  == count > 0 /\ wanted' # wanted /\ Ask(FALSE) /\ UNCHANGED shown
Refetch == count > 0 /\ Ask(TRUE) /\ UNCHANGED <<wanted, shown>>

Answer(r) ==
    /\ asked' = asked \ {r}
    /\ shown' = {r}
    /\ UNCHANGED <<wanted, count, again>>

Fail(r) ==
    /\ asked' = asked \ {r}
    /\ UNCHANGED <<wanted, count, again, shown>>

Close == Closed'

Next ==
    \/ Open \/ Choose \/ Refetch \/ Close
    \/ \E r \in asked : Answer(r) \/ Fail(r)

Spec == Init /\ [][Next]_viewVars
=============================================================================
