----------------------------- MODULE RateLimiter -----------------------------
(***************************************************************************)
(* The in-memory rate limiter (src/backend/services/rate_limiter.py) as    *)
(* check_rate_limit (routers/cli.py) and _check_login_rate_limit           *)
(* (routers/auth.py) use it.  One process, one event loop: nothing in      *)
(* is_allowed or get_retry_after gives the loop away when there is no      *)
(* Redis client, so a request asks and gets its answer before the next one *)
(* asks, but each of the two reads time.time() on its own.                 *)
(*                                                                         *)
(* time.time() is the host's clock: it runs with real time, and it may be  *)
(* set back; it starts MaxBack ahead.  A list of timestamps is the set of  *)
(* the requests that left one, with the timestamps in stamp.               *)
(***************************************************************************)
EXTENDS Integers, FiniteSets

CONSTANTS
    Keys,         \* "org:1", "login:10.0.0.1"
    Requests,     \* requests, each of which asks once
    MaxRequests,  \* max_requests (100, 5 for logins)
    WindowTicks,  \* window_seconds (60) in ticks
    Second,       \* ticks of a second
    MaxReal,      \* bound of the model: real time
    MaxBack,      \* bound of the model: by how much the clock is set back
    NoKey         \* no key

ASSUME LimiterAssumption ==
    /\ MaxRequests \in Nat \ {0}
    /\ WindowTicks \in Nat \ {0}
    /\ Second \in Nat \ {0}
    /\ MaxReal \in Nat /\ MaxBack \in Nat
    /\ NoKey \notin Keys

VARIABLES
    now,          \* time.time()
    memory,       \* _memory
    stamp,        \* the timestamp a request left
    asking,       \* the key whose refused request waits for get_retry_after
    retryAfter,   \* the last Retry-After header
    real,         \* history: real time
    granted,      \* history: requests let in, per key
    grantedAt,    \* history: when, in real time
    refused,      \* history: requests answered with 429
    steady        \* history: the clock was never set back

limiterVars == <<now, memory, stamp, asking, retryAfter>>
historyVars == <<real, granted, grantedAt, refused, steady>>
vars == <<limiterVars, historyVars>>

TypeOK ==
    /\ now \in Nat
    /\ memory \in [Keys -> SUBSET Requests]
    /\ stamp \in [Requests -> Nat]
    /\ asking \in Keys \cup {NoKey}
    /\ retryAfter \in Nat
    /\ real \in Nat
    /\ granted \in [Keys -> SUBSET Requests]
    /\ grantedAt \in [Requests -> Nat]
    /\ refused \in SUBSET Requests
    /\ steady \in BOOLEAN

Init ==
    /\ now = MaxBack
    /\ memory = [k \in Keys |-> {}]
    /\ stamp = [r \in Requests |-> 0]
    /\ asking = NoKey
    /\ retryAfter = 0
    /\ real = 0
    /\ granted = [k \in Keys |-> {}]
    /\ grantedAt = [r \in Requests |-> 0]
    /\ refused = {}
    /\ steady = TRUE

SW == INSTANCE SlidingWindow WITH
    Keys <- Keys, Requests <- Requests, MaxRequests <- MaxRequests, WindowTicks <- WindowTicks,
    real <- real, granted <- granted, grantedAt <- grantedAt, refused <- refused, steady <- steady

\* Variant: a request exactly one window old still counts.
ValidInclusive(k) == {r \in memory[k] : stamp[r] >= now - WindowTicks}

\* valid: the timestamps younger than the window.
Valid(k) == {r \in memory[k] : stamp[r] > now - WindowTicks}

\* Variant: len(valid) > max_requests refuses.
AdmitOverfull(r, k) ==
    /\ asking = NoKey
    /\ SW!Fresh(r)
    /\ Cardinality(Valid(k)) <= MaxRequests
    /\ memory' = [memory EXCEPT ![k] = Valid(k) \cup {r}]
    /\ stamp' = [stamp EXCEPT ![r] = now]
    /\ granted' = [granted EXCEPT ![k] = @ \cup {r}]
    /\ grantedAt' = [grantedAt EXCEPT ![r] = real]
    /\ UNCHANGED <<now, asking, retryAfter, real, refused, steady>>

\* _is_allowed_memory lets the request in and keeps its timestamp.
Admit(r, k) ==
    /\ asking = NoKey
    /\ SW!Fresh(r)
    /\ Cardinality(Valid(k)) < MaxRequests
    /\ memory' = [memory EXCEPT ![k] = Valid(k) \cup {r}]
    /\ stamp' = [stamp EXCEPT ![r] = now]
    /\ granted' = [granted EXCEPT ![k] = @ \cup {r}]
    /\ grantedAt' = [grantedAt EXCEPT ![r] = real]
    /\ UNCHANGED <<now, asking, retryAfter, real, refused, steady>>

\* _is_allowed_memory refuses; the caller asks when to come back.
Refuse(r, k) ==
    /\ asking = NoKey
    /\ SW!Fresh(r)
    /\ Cardinality(Valid(k)) >= MaxRequests
    /\ memory' = [memory EXCEPT ![k] = Valid(k)]
    /\ asking' = k
    /\ refused' = refused \cup {r}
    /\ UNCHANGED <<now, stamp, retryAfter, real, granted, grantedAt, steady>>

\* Variant: the newest timestamp instead of the oldest.
RetryAfterNewest(k) ==
    LET newest == CHOOSE t \in {stamp[r] : r \in memory[k]} :
                      \A r \in memory[k] : stamp[r] <= t
        left   == WindowTicks - (now - newest)
    IN IF memory[k] = {} \/ left < 0 THEN 0 ELSE left \div Second

\* _get_retry_after_memory: whole seconds, cut off, and never negative.
RetryAfter(k) ==
    LET oldest == CHOOSE t \in {stamp[r] : r \in memory[k]} :
                      \A r \in memory[k] : t <= stamp[r]
        left   == WindowTicks - (now - oldest)
    IN IF memory[k] = {} \/ left < 0 THEN 0 ELSE left \div Second

\* get_retry_after, and the 429 that carries its answer.
Answer ==
    /\ asking # NoKey
    /\ retryAfter' = RetryAfter(asking)
    /\ asking' = NoKey
    /\ UNCHANGED <<now, memory, stamp, historyVars>>

Tick ==
    /\ real < MaxReal
    /\ real' = real + 1
    /\ now' = now + 1
    /\ UNCHANGED <<memory, stamp, asking, retryAfter, granted, grantedAt, refused,
                   steady>>

\* The clock of the host is set back.
SetBack ==
    /\ \E t \in real..(now - 1) : now' = t
    /\ steady' = FALSE
    /\ UNCHANGED <<memory, stamp, asking, retryAfter, real, granted, grantedAt, refused>>

\* The model's time and requests are used up.
Terminated ==
    /\ real = MaxReal
    /\ asking = NoKey
    /\ UNCHANGED vars

Next ==
    \/ \E r \in Requests, k \in Keys : Admit(r, k) \/ Refuse(r, k)
    \/ Answer
    \/ Tick
    \/ SetBack
    \/ Terminated

Spec == Init /\ [][Next]_vars

-----------------------------------------------------------------------------
(* Properties.                                                             *)

\* No window of real time holds more than the maximum, not even when the clock
\* is set back: it then forgets later, never earlier (rate_limiter.py:104).
WindowBound == \A k \in Keys : Cardinality(SW!Recent(k, real)) <= MaxRequests

\* A request of key k that comes d ticks from now, before any other, gets in.
FreeIn(k, d) == Cardinality(SW!Recent(k, real + d)) < MaxRequests

\* While the clock is steady a client told to wait n seconds gets in if it
\* waits one second longer, and would not have got in a tick before the n
\* seconds were over, although the answer is computed from another reading of
\* the clock than the decision and is cut to whole seconds.
RetryAfterIsClose ==
    [][\A k \in Keys :
        asking = k /\ asking' = NoKey /\ steady =>
            /\ FreeIn(k, (retryAfter' + 1) * Second)
            /\ retryAfter' > 0 => ~FreeIn(k, retryAfter' * Second - 1)]_vars

\* The limiter is a sliding window.
Refinement == SW!Spec

\* No list is longer than the maximum.
MemoryIsSmall ==
    \A k \in Keys : IsFiniteSet(memory[k]) /\ Cardinality(memory[k]) <= MaxRequests

\* Since a request was let in the clock has only lost against real time.
ClockIsLate ==
    \A k \in Keys : \A r \in granted[k] :
        /\ r \notin refused
        /\ grantedAt[r] - stamp[r] <= real - now

\* What was let in during the window that ends now is in memory.
RecentIsKept == \A k \in Keys : SW!Recent(k, real) \subseteq memory[k]

MemoryWasGranted == \A k \in Keys : memory[k] \subseteq granted[k]

SteadyClock ==
    steady => /\ now = real + MaxBack
              /\ \A k \in Keys : \A r \in granted[k] : stamp[r] = grantedAt[r] + MaxBack

\* What holds of every state, and of every step from a state where it holds.
IInv ==
    /\ TypeOK
    /\ MemoryIsSmall
    /\ MemoryWasGranted
    /\ ClockIsLate
    /\ RecentIsKept
    /\ SteadyClock
=============================================================================
