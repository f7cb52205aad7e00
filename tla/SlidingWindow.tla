--------------------------- MODULE SlidingWindow ---------------------------
(***************************************************************************)
(* What a rate limiter promises: of the requests of one key, never more    *)
(* than MaxRequests are let in within one window of real time, and as long *)
(* as the clock of the host runs steadily no request is refused without    *)
(* need ("Sliding window rate limiter", rate_limiter.py:49).               *)
(***************************************************************************)
EXTENDS Integers, FiniteSets

CONSTANTS
    Keys,         \* organizations, addresses
    Requests,     \* requests, each of which asks once
    MaxRequests,  \* requests let in per window
    WindowTicks   \* the length of the window

VARIABLES
    real,         \* real time
    granted,      \* requests let in, per key
    grantedAt,    \* when a request was let in
    refused,      \* requests that were not
    steady        \* the clock of the host was never set back

windowVars == <<real, granted, grantedAt, refused, steady>>

Init ==
    /\ real = 0
    /\ granted = [k \in Keys |-> {}]
    /\ grantedAt = [r \in Requests |-> 0]
    /\ refused = {}
    /\ steady = TRUE

\* A request that has not asked yet.
Fresh(r) == r \notin refused /\ \A k \in Keys : r \notin granted[k]

\* What was let in during the window that ends at time t.
Recent(k, t) == {r \in granted[k] : grantedAt[r] > t - WindowTicks}

Grant(r, k) ==
    /\ Fresh(r)
    /\ Cardinality(Recent(k, real)) < MaxRequests
    /\ granted' = [granted EXCEPT ![k] = @ \cup {r}]
    /\ grantedAt' = [grantedAt EXCEPT ![r] = real]
    /\ UNCHANGED <<real, refused, steady>>

Refuse(r, k) ==
    /\ Fresh(r)
    /\ steady => Cardinality(Recent(k, real)) >= MaxRequests
    /\ refused' = refused \cup {r}
    /\ UNCHANGED <<real, granted, grantedAt, steady>>

Pass ==
    /\ real' = real + 1
    /\ UNCHANGED <<granted, grantedAt, refused, steady>>

Disturb ==
    /\ steady' = FALSE
    /\ UNCHANGED <<real, granted, grantedAt, refused>>

Next ==
    \/ \E r \in Requests, k \in Keys : Grant(r, k) \/ Refuse(r, k)
    \/ Pass
    \/ Disturb

Spec == Init /\ [][Next]_windowVars
=============================================================================
