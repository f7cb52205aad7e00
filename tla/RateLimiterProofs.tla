------------------------- MODULE RateLimiterProofs -------------------------
(***************************************************************************)
(* The rate limiter for every limit, window, number of keys and requests,  *)
(* and the accounts behind it for any number of accounts, sessions and     *)
(* requests.                                                               *)
(***************************************************************************)
EXTENDS Accounts, FiniteSetTheorems, WellFoundedInduction, TLAPS

USE LimiterAssumption

(* The abstract specification counts as the limiter does.                  *)
LEMMA SameCardinality == \A S : SW!Cardinality(S) = Cardinality(S)
  BY DEF SW!Cardinality, Cardinality

LEMMA InitHolds == Init => IInv
  BY FS_EmptySet DEF Init, IInv, TypeOK, MemoryIsSmall, MemoryWasGranted, ClockIsLate,
                     RecentIsKept, SteadyClock, SW!Recent

(* Dropping old timestamps leaves a list as short as it was.               *)
LEMMA ValidIsSmall ==
    ASSUME IInv, NEW k \in Keys
    PROVE  /\ Valid(k) \subseteq memory[k]
           /\ IsFiniteSet(Valid(k))
           /\ Cardinality(Valid(k)) \in Nat
           /\ Cardinality(Valid(k)) <= MaxRequests
  <1>1. Valid(k) \subseteq memory[k]
    BY DEF Valid
  <1>2. IsFiniteSet(memory[k]) /\ Cardinality(memory[k]) <= MaxRequests
    BY DEF IInv, MemoryIsSmall
  <1>3. IsFiniteSet(Valid(k)) /\ Cardinality(Valid(k)) <= Cardinality(memory[k])
    BY <1>1, <1>2, FS_Subset
  <1>4. Cardinality(Valid(k)) \in Nat /\ Cardinality(memory[k]) \in Nat
    BY <1>2, <1>3, FS_CardinalityType
  <1>5. QED
    BY <1>1, <1>2, <1>3, <1>4

(* What was let in during the last window of real time is still valid by   *)
(* the host's clock, which is never ahead.                                 *)
LEMMA RecentIsValid ==
    ASSUME IInv, NEW k \in Keys
    PROVE  SW!Recent(k, real) \subseteq Valid(k)
  <1> SUFFICES ASSUME NEW r \in SW!Recent(k, real)
               PROVE  r \in Valid(k)
    OBVIOUS
  <1>1. r \in memory[k] /\ r \in granted[k] /\ grantedAt[r] > real - WindowTicks
    BY DEF IInv, RecentIsKept, SW!Recent
  <1>2. grantedAt[r] - stamp[r] <= real - now
    BY <1>1 DEF IInv, ClockIsLate
  <1>3. /\ grantedAt[r] \in Int /\ stamp[r] \in Int /\ real \in Int /\ now \in Int
        /\ WindowTicks \in Int
    BY <1>1 DEF IInv, TypeOK
  <1>4. stamp[r] > now - WindowTicks
    BY <1>1, <1>2, <1>3
  <1>5. QED
    BY <1>1, <1>4 DEF Valid

(* Where the clock is steady the two are the same.                         *)
LEMMA ValidIsRecent ==
    ASSUME IInv, steady, NEW k \in Keys
    PROVE  Valid(k) = SW!Recent(k, real)
  <1>1. \A r \in Valid(k) : r \in granted[k] /\ stamp[r] > now - WindowTicks
    BY DEF Valid, IInv, MemoryWasGranted
  <1>2. \A r \in Valid(k) : now = real + MaxBack /\ stamp[r] = grantedAt[r] + MaxBack
    BY <1>1 DEF IInv, SteadyClock
  <1>3. /\ \A r \in granted[k] : grantedAt[r] \in Int
        /\ real \in Int /\ MaxBack \in Int /\ WindowTicks \in Int
    BY DEF IInv, TypeOK
  <1>4. \A r \in Valid(k) : grantedAt[r] > real - WindowTicks
    BY <1>1, <1>2, <1>3
  <1>5. QED
    BY <1>1, <1>4, RecentIsValid DEF SW!Recent

LEMMA AdmitKeeps ==
    ASSUME IInv, NEW r \in Requests, NEW k \in Keys, Admit(r, k)
    PROVE  IInv'
  <1> DEFINE kept == Valid(k)
  <1>1. /\ kept \subseteq memory[k] /\ IsFiniteSet(kept)
        /\ Cardinality(kept) \in Nat /\ Cardinality(kept) < MaxRequests
    BY ValidIsSmall DEF Admit
  <1>2. /\ memory' = [memory EXCEPT ![k] = kept \cup {r}]
        /\ stamp' = [stamp EXCEPT ![r] = now]
        /\ granted' = [granted EXCEPT ![k] = granted[k] \cup {r}]
        /\ grantedAt' = [grantedAt EXCEPT ![r] = real]
        /\ UNCHANGED <<now, asking, retryAfter, real, refused, steady>>
        /\ SW!Fresh(r)
    BY DEF Admit
  <1>3. SW!Recent(k, real) \subseteq kept
    BY RecentIsValid
  <1> HIDE DEF kept
  <1>4. TypeOK'
    BY <1>1, <1>2 DEF IInv, TypeOK
  <1>5. MemoryIsSmall'
    <2>1. /\ IsFiniteSet(kept \cup {r})
          /\ \/ Cardinality(kept \cup {r}) = Cardinality(kept)
             \/ Cardinality(kept \cup {r}) = Cardinality(kept) + 1
      BY <1>1, FS_AddElement
    <2>2. \A j \in Keys : memory'[j] = IF j = k THEN kept \cup {r} ELSE memory[j]
      BY <1>2 DEF IInv, TypeOK
    <2>3. Cardinality(kept \cup {r}) <= MaxRequests
      BY <1>1, <2>1
    <2>4. QED
      BY <2>1, <2>2, <2>3 DEF IInv, MemoryIsSmall
  <1>6. MemoryWasGranted'
    BY <1>1, <1>2 DEF IInv, TypeOK, MemoryWasGranted
  <1>7. \A j \in Keys : \A q \in granted[j] :
            q # r /\ stamp'[q] = stamp[q] /\ grantedAt'[q] = grantedAt[q]
    BY <1>2 DEF IInv, TypeOK, SW!Fresh
  <1>8. stamp'[r] = now /\ grantedAt'[r] = real
    BY <1>2 DEF IInv, TypeOK
  <1>9. \A j \in Keys : granted'[j] \subseteq granted[j] \cup {r}
    BY <1>2 DEF IInv, TypeOK
  <1>10. ClockIsLate'
    BY <1>2, <1>7, <1>8, <1>9 DEF IInv, TypeOK, ClockIsLate, SW!Fresh
  <1>11. RecentIsKept'
    <2> SUFFICES ASSUME NEW j \in Keys, NEW q \in SW!Recent(j, real)'
                 PROVE  q \in memory'[j]
      BY DEF RecentIsKept
    <2>1. q \in granted'[j] /\ grantedAt'[q] > real' - WindowTicks
      BY DEF SW!Recent
    <2>2. CASE q \in granted[j]
      <3>1. q \in SW!Recent(j, real)
        BY <1>2, <1>7, <2>1, <2>2 DEF SW!Recent
      <3>2. q \in memory[j] /\ (j = k => q \in kept)
        BY <1>3, <3>1 DEF IInv, RecentIsKept
      <3>3. QED
        BY <1>2, <3>2 DEF IInv, TypeOK
    <2>3. CASE q \notin granted[j]
      BY <1>2, <2>1, <2>3 DEF IInv, TypeOK
    <2>4. QED
      BY <2>2, <2>3
  <1>12. SteadyClock'
    BY <1>2, <1>7, <1>8, <1>9 DEF IInv, TypeOK, SteadyClock
  <1>13. QED
    BY <1>4, <1>5, <1>6, <1>10, <1>11, <1>12 DEF IInv

LEMMA RefuseKeeps ==
    ASSUME IInv, NEW r \in Requests, NEW k \in Keys, Refuse(r, k)
    PROVE  IInv'
  <1> DEFINE kept == Valid(k)
  <1>1. /\ kept \subseteq memory[k] /\ IsFiniteSet(kept)
        /\ Cardinality(kept) <= MaxRequests
    BY ValidIsSmall
  <1>2. /\ memory' = [memory EXCEPT ![k] = kept]
        /\ asking' = k
        /\ refused' = refused \cup {r}
        /\ UNCHANGED <<now, stamp, retryAfter, real, granted, grantedAt, steady>>
        /\ SW!Fresh(r)
    BY DEF Refuse
  <1>3. SW!Recent(k, real) \subseteq kept
    BY RecentIsValid
  <1> HIDE DEF kept
  <1>4. TypeOK'
    BY <1>1, <1>2 DEF IInv, TypeOK
  <1>5. MemoryIsSmall' /\ MemoryWasGranted'
    BY <1>1, <1>2 DEF IInv, TypeOK, MemoryIsSmall, MemoryWasGranted
  <1>6. ClockIsLate' /\ SteadyClock'
    BY <1>2 DEF IInv, ClockIsLate, SteadyClock, SW!Fresh
  <1>7. RecentIsKept'
    BY <1>2, <1>3 DEF IInv, TypeOK, RecentIsKept, SW!Recent
  <1>8. QED
    BY <1>4, <1>5, <1>6, <1>7 DEF IInv

LEMMA TimeKeeps ==
    ASSUME IInv, NEW n \in Int, NEW t \in Nat,
           n >= 0, now' = n, real' = t, real <= t, real - now <= t - n,
           UNCHANGED <<memory, stamp, asking, retryAfter, granted, grantedAt, refused>>,
           steady' \in BOOLEAN,
           steady' => steady /\ t - n = real - now
    PROVE  IInv'
  <1>1. \A k \in Keys : \A r \in granted[k] : grantedAt[r] \in Int /\ stamp[r] \in Int
    BY DEF IInv, TypeOK
  <1>2. now \in Int /\ real \in Int /\ WindowTicks \in Int
    BY DEF IInv, TypeOK
  <1>3. TypeOK'
    BY DEF IInv, TypeOK
  <1>4. MemoryIsSmall' /\ MemoryWasGranted'
    BY DEF IInv, MemoryIsSmall, MemoryWasGranted
  <1>5. ClockIsLate'
    <2> SUFFICES ASSUME NEW k \in Keys, NEW r \in granted[k]
                 PROVE  r \notin refused /\ grantedAt[r] - stamp[r] <= t - n
      BY DEF ClockIsLate
    <2>1. r \notin refused /\ grantedAt[r] - stamp[r] <= real - now
      BY DEF IInv, ClockIsLate
    <2>2. QED
      BY <1>1, <1>2, <2>1
  <1>6. RecentIsKept'
    <2> SUFFICES ASSUME NEW k \in Keys, NEW r \in granted[k],
                        grantedAt[r] > t - WindowTicks
                 PROVE  r \in memory[k]
      BY DEF RecentIsKept, SW!Recent
    <2>1. grantedAt[r] > real - WindowTicks
      BY <1>1, <1>2
    <2>2. QED
      BY <2>1 DEF IInv, RecentIsKept, SW!Recent
  <1>7. SteadyClock'
    <2> SUFFICES ASSUME steady'
                 PROVE  n = t + MaxBack /\ \A k \in Keys : \A r \in granted[k] :
                                               stamp[r] = grantedAt[r] + MaxBack
      BY DEF SteadyClock
    <2>1. steady /\ t - n = real - now
      OBVIOUS
    <2>2. /\ now = real + MaxBack
          /\ \A k \in Keys : \A r \in granted[k] : stamp[r] = grantedAt[r] + MaxBack
      BY <2>1 DEF IInv, SteadyClock
    <2>3. QED
      BY <1>2, <2>1, <2>2
  <1>8. QED
    BY <1>3, <1>4, <1>5, <1>6, <1>7 DEF IInv

LEMMA TickKeeps ==
    ASSUME IInv, Tick
    PROVE  IInv'
  <1>1. /\ now + 1 \in Int /\ now + 1 >= 0 /\ real + 1 \in Nat /\ real <= real + 1
        /\ real - now = (real + 1) - (now + 1)
        /\ real - now <= (real + 1) - (now + 1)
    BY DEF IInv, TypeOK
  <1>2. /\ now' = now + 1 /\ real' = real + 1
        /\ UNCHANGED <<memory, stamp, asking, retryAfter, granted, grantedAt, refused>>
    BY DEF Tick
  <1>3. steady' \in BOOLEAN /\ (steady' => steady)
    BY DEF IInv, TypeOK, Tick
  <1>4. QED
    BY <1>1, <1>2, <1>3, TimeKeeps

LEMMA SetBackKeeps ==
    ASSUME IInv, SetBack
    PROVE  IInv'
  <1>1. PICK t \in real..(now - 1) : now' = t
    BY DEF SetBack
  <1>2. t \in Int /\ t >= 0 /\ real \in Nat /\ real <= real /\ real - now <= real - t
    BY DEF IInv, TypeOK
  <1>3. /\ real' = real
        /\ UNCHANGED <<memory, stamp, asking, retryAfter, granted, grantedAt, refused>>
    BY DEF SetBack
  <1>4. steady' \in BOOLEAN /\ ~steady'
    BY DEF SetBack
  <1>5. QED
    BY <1>1, <1>2, <1>3, <1>4, TimeKeeps

(* A list of timestamps has an oldest one.                                 *)
LEMMA OldestExists ==
    ASSUME NEW T, T \subseteq Nat, T # {}
    PROVE  \E x \in T : \A y \in T : x <= y
  <1>1. \E x \in T : \A y \in T : <<y, x>> \notin OpToRel(<, Nat)
    BY WFMin, NatLessThanWellFounded, Zenon
  <1>2. PICK x \in T : \A y \in T : <<y, x>> \notin OpToRel(<, Nat)
    BY <1>1
  <1>3. \A y \in T : ~(y < x)
    BY <1>2, Zenon DEF OpToRel
  <1>4. QED
    BY <1>3

LEMMA RetryAfterType ==
    ASSUME IInv, NEW k \in Keys
    PROVE  RetryAfter(k) \in Nat
  <1> DEFINE stamps == {stamp[r] : r \in memory[k]}
             oldest == CHOOSE t \in stamps : \A r \in memory[k] : t <= stamp[r]
             left   == WindowTicks - (now - oldest)
  <1>1. CASE memory[k] = {} \/ left < 0
    BY <1>1 DEF RetryAfter
  <1>2. CASE memory[k] # {} /\ ~(left < 0)
    <2>1. stamps \subseteq Nat /\ stamps # {}
      BY <1>2 DEF IInv, TypeOK
    <2>2. \E t \in stamps : \A u \in stamps : t <= u
      BY <2>1, OldestExists
    <2>3. \E t \in stamps : \A r \in memory[k] : t <= stamp[r]
      BY <2>2
    <2>4. oldest \in Nat
      BY <2>1, <2>3
    <2>5. RetryAfter(k) = left \div Second
      BY <1>2 DEF RetryAfter
    <2> HIDE DEF oldest
    <2>6. left \in Nat
      BY <1>2, <2>4 DEF IInv, TypeOK
    <2> HIDE DEF left
    <2>7. left \div Second \in Nat
      BY <2>6
    <2>8. QED
      BY <2>5, <2>7
  <1>3. QED
    BY <1>1, <1>2

LEMMA AnswerKeeps ==
    ASSUME IInv, Answer
    PROVE  IInv'
  <1>1. asking \in Keys
    BY DEF Answer, IInv, TypeOK
  <1>2. RetryAfter(asking) \in Nat
    BY <1>1, RetryAfterType
  <1>3. TypeOK'
    BY <1>2 DEF Answer, IInv, TypeOK, historyVars
  <1>4. QED
    BY <1>3 DEF Answer, historyVars, IInv, MemoryIsSmall, MemoryWasGranted, ClockIsLate,
                RecentIsKept, SteadyClock, SW!Recent

LEMMA NextKeeps == IInv /\ [Next]_vars => IInv'
  <1> SUFFICES ASSUME IInv, [Next]_vars
               PROVE  IInv'
    OBVIOUS
  <1>1. CASE UNCHANGED vars
    BY <1>1 DEF vars, limiterVars, historyVars, IInv, TypeOK, MemoryIsSmall,
                MemoryWasGranted, ClockIsLate, RecentIsKept, SteadyClock, SW!Recent
  <1>2. QED
    BY <1>1, AdmitKeeps, RefuseKeeps, AnswerKeeps, TickKeeps, SetBackKeeps
       DEF Next, Terminated

(* In every state: the types, that lists are short and hold all that was   *)
(* let in during the last window, and that the clock only loses time.      *)
THEOREM Invariance == Spec => []IInv
  BY InitHolds, NextKeeps, PTL DEF Spec

(* No window of real time holds more requests than the maximum, even if    *)
(* the clock of the host is set back.                                      *)
THEOREM WindowHolds == Spec => []WindowBound
  <1>1. IInv => WindowBound
    <2> SUFFICES ASSUME IInv, NEW k \in Keys
                 PROVE  Cardinality(SW!Recent(k, real)) <= MaxRequests
      BY DEF WindowBound
    <2>1. SW!Recent(k, real) \subseteq memory[k]
      BY DEF IInv, RecentIsKept
    <2>2. IsFiniteSet(memory[k]) /\ Cardinality(memory[k]) <= MaxRequests
      BY DEF IInv, MemoryIsSmall
    <2>3. /\ IsFiniteSet(SW!Recent(k, real))
          /\ Cardinality(SW!Recent(k, real)) <= Cardinality(memory[k])
      BY <2>1, <2>2, FS_Subset
    <2>4. /\ Cardinality(SW!Recent(k, real)) \in Nat
          /\ Cardinality(memory[k]) \in Nat
      BY <2>2, <2>3, FS_CardinalityType
    <2>5. QED
      BY <2>2, <2>3, <2>4
  <1>2. QED
    BY <1>1, Invariance, PTL

LEMMA AdmitIsGrant ==
    ASSUME IInv, NEW r \in Requests, NEW k \in Keys, Admit(r, k)
    PROVE  SW!Grant(r, k)
  <1>1. /\ IsFiniteSet(Valid(k)) /\ Cardinality(Valid(k)) \in Nat
        /\ Cardinality(Valid(k)) < MaxRequests
    BY ValidIsSmall DEF Admit
  <1>2. SW!Recent(k, real) \subseteq Valid(k)
    BY RecentIsValid
  <1>3. /\ IsFiniteSet(SW!Recent(k, real))
        /\ Cardinality(SW!Recent(k, real)) <= Cardinality(Valid(k))
    BY <1>1, <1>2, FS_Subset
  <1>4. Cardinality(SW!Recent(k, real)) \in Nat
    BY <1>3, FS_CardinalityType
  <1>5. Cardinality(SW!Recent(k, real)) < MaxRequests
    BY <1>1, <1>3, <1>4
  <1>6. QED
    BY <1>5, SameCardinality DEF Admit, SW!Grant

LEMMA RefuseIsRefuse ==
    ASSUME IInv, NEW r \in Requests, NEW k \in Keys, Refuse(r, k)
    PROVE  SW!Refuse(r, k)
  <1>1. steady => Valid(k) = SW!Recent(k, real)
    BY ValidIsRecent
  <1>2. steady => Cardinality(SW!Recent(k, real)) >= MaxRequests
    BY <1>1 DEF Refuse
  <1>3. QED
    BY <1>2, SameCardinality DEF Refuse, SW!Refuse

(* The limiter implements the sliding window: what it lets in, the window  *)
(* lets in, and while the clock is steady it refuses only what the window  *)
(* refuses.                                                                *)
THEOREM ImplementsSlidingWindow == Spec => Refinement
  <1>1. Init => SW!Init
    BY DEF Init, SW!Init
  <1>2. IInv /\ [Next]_vars => [SW!Next]_(SW!windowVars)
    <2> SUFFICES ASSUME IInv, [Next]_vars
                 PROVE  [SW!Next]_(SW!windowVars)
      OBVIOUS
    <2>1. ASSUME NEW r \in Requests, NEW k \in Keys, Admit(r, k) \/ Refuse(r, k)
          PROVE  SW!Next
      BY <2>1, AdmitIsGrant, RefuseIsRefuse DEF SW!Next
    <2>2. CASE Answer \/ Terminated \/ UNCHANGED vars
      BY <2>2 DEF Answer, Terminated, vars, limiterVars, historyVars, SW!windowVars
    <2>3. CASE Tick
      BY <2>3 DEF Tick, SW!Next, SW!Pass
    <2>4. CASE SetBack
      BY <2>4 DEF SetBack, SW!Next, SW!Disturb
    <2>5. QED
      BY <2>1, <2>2, <2>3, <2>4 DEF Next
  <1>3. QED
    BY <1>1, <1>2, Invariance, PTL DEF Spec, Refinement, SW!Spec

(* While a refused request waits for its Retry-After no other handler runs: *)
(* the list of its key is still as full as when the request was refused.   *)
FullWhileAsking == asking # NoKey => Cardinality(memory[asking]) >= MaxRequests

LEMMA StaysFull == Spec => []FullWhileAsking
  <1>1. Init => FullWhileAsking
    BY DEF Init, FullWhileAsking
  <1>2. IInv /\ FullWhileAsking /\ [Next]_vars => FullWhileAsking'
    <2> SUFFICES ASSUME IInv, FullWhileAsking, [Next]_vars
                 PROVE  FullWhileAsking'
      OBVIOUS
    <2>1. ASSUME NEW r \in Requests, NEW k \in Keys, Admit(r, k)
          PROVE  FullWhileAsking'
      BY <2>1 DEF Admit, FullWhileAsking
    <2>2. ASSUME NEW r \in Requests, NEW k \in Keys, Refuse(r, k)
          PROVE  FullWhileAsking'
      <3> DEFINE kept == Valid(k)
      <3>1. asking' = k /\ memory' = [memory EXCEPT ![k] = kept] /\ Cardinality(kept) >= MaxRequests
        BY <2>2 DEF Refuse
      <3> HIDE DEF kept
      <3>2. memory'[asking'] = kept
        BY <3>1 DEF IInv, TypeOK
      <3>3. QED
        BY <3>1, <3>2 DEF FullWhileAsking
    <2>3. CASE Answer
      BY <2>3 DEF Answer, FullWhileAsking
    <2>4. CASE Tick \/ SetBack \/ Terminated \/ UNCHANGED vars
      BY <2>4 DEF Tick, SetBack, Terminated, vars, limiterVars, FullWhileAsking
    <2>5. QED
      BY <2>1, <2>2, <2>3, <2>4 DEF Next
  <1>3. QED
    BY <1>1, <1>2, Invariance, PTL DEF Spec

(* What is asked d ticks from now counts a part of what the list holds. *)
LEMMA LaterIsLess ==
    ASSUME IInv, NEW k \in Keys, NEW d \in Nat
    PROVE  SW!Recent(k, real + d) \subseteq memory[k]
  <1>1. \A r \in granted[k] : grantedAt[r] \in Nat
    BY DEF IInv, TypeOK
  <1>2. real \in Nat /\ WindowTicks \in Nat
    BY DEF IInv, TypeOK
  <1>3. SW!Recent(k, real + d) \subseteq SW!Recent(k, real)
    BY <1>1, <1>2 DEF SW!Recent
  <1>4. QED
    BY <1>3 DEF IInv, RecentIsKept

(* Cutting off to whole seconds. *)
LEMMA WholeSeconds ==
    ASSUME NEW n \in Nat, NEW s \in Nat \ {0}
    PROVE  /\ n \div s \in Nat
           /\ (n \div s) * s <= n
           /\ n < ((n \div s) + 1) * s
  OBVIOUS

LEMMA SecondsAreTicks ==
    ASSUME NEW n \in Nat, NEW s \in Nat \ {0}
    PROVE  n * s \in Nat /\ (n > 0 => n * s - 1 \in Nat)
  <1>1. n * s \in Int /\ n * s >= 0
    OBVIOUS
  <1>2. n > 0 => n * s >= 1
    OBVIOUS
  <1>3. QED
    BY <1>1, <1>2

LEMMA AnswerIsClose ==
    ASSUME IInv, FullWhileAsking, Answer, steady, NEW k \in Keys, asking = k
    PROVE  /\ FreeIn(k, (retryAfter' + 1) * Second)
           /\ retryAfter' > 0 => ~FreeIn(k, retryAfter' * Second - 1)
  <1> DEFINE stamps == {stamp[r] : r \in memory[k]}
             oldest == CHOOSE t \in stamps : \A r \in memory[k] : t <= stamp[r]
             left   == WindowTicks - (now - oldest)
             full   == Cardinality(memory[k])
  <1>1. retryAfter' = IF memory[k] = {} \/ left < 0 THEN 0 ELSE left \div Second
    BY DEF Answer, RetryAfter
  <1>2. IsFiniteSet(memory[k]) /\ full = MaxRequests /\ full \in Nat \ {0}
    <2>1. IsFiniteSet(memory[k]) /\ full <= MaxRequests
      BY DEF IInv, MemoryIsSmall
    <2>2. full >= MaxRequests
      BY DEF FullWhileAsking
    <2>3. full \in Nat
      BY <2>1, FS_CardinalityType
    <2>4. QED
      BY <2>1, <2>2, <2>3
  <1>3. memory[k] # {}
    BY <1>2, FS_EmptySet
  <1>4. oldest \in stamps /\ \A r \in memory[k] : oldest <= stamp[r]
    <2>1. stamps \subseteq Nat /\ stamps # {}
      BY <1>3 DEF IInv, TypeOK
    <2>2. \E t \in stamps : \A u \in stamps : t <= u
      BY <2>1, OldestExists
    <2>3. \E t \in stamps : \A r \in memory[k] : t <= stamp[r]
      BY <2>2
    <2>4. QED
      BY <2>3
  <1>5. PICK first \in memory[k] : oldest = stamp[first]
    BY <1>4
  <1>6. /\ now = real + MaxBack
        /\ \A r \in memory[k] : /\ r \in granted[k] /\ grantedAt[r] \in Nat
                                /\ stamp[r] = grantedAt[r] + MaxBack
    BY DEF IInv, TypeOK, SteadyClock, MemoryWasGranted
  <1> HIDE DEF oldest
  <1>7. /\ left = WindowTicks - real + grantedAt[first]
        /\ left \in Int
        /\ \A r \in memory[k] : grantedAt[first] <= grantedAt[r]
    BY <1>4, <1>5, <1>6 DEF IInv, TypeOK
  <1> HIDE DEF left
  <1>8. ASSUME NEW d \in Nat, d >= left
        PROVE  FreeIn(k, d)
    <2> DEFINE later == SW!Recent(k, real + d)
    <2>1. first \notin later
      BY <1>6, <1>7, <1>8 DEF SW!Recent, IInv, TypeOK
    <2>2. later \subseteq memory[k] \ {first}
      BY <2>1, LaterIsLess
    <2>3. /\ IsFiniteSet(memory[k] \ {first})
          /\ Cardinality(memory[k] \ {first}) = full - 1
      BY <1>2, <1>5, FS_RemoveElement
    <2>4. IsFiniteSet(later) /\ Cardinality(later) <= full - 1
      BY <2>2, <2>3, FS_Subset
    <2>5. Cardinality(later) \in Nat
      BY <2>4, FS_CardinalityType
    <2>6. QED
      BY <1>2, <2>4, <2>5 DEF FreeIn
  <1>9. ASSUME NEW d \in Nat, d < left
        PROVE  ~FreeIn(k, d)
    <2> DEFINE later == SW!Recent(k, real + d)
    <2>1. memory[k] \subseteq later
      BY <1>6, <1>7, <1>9 DEF SW!Recent, IInv, TypeOK
    <2>2. later = memory[k]
      BY <2>1, LaterIsLess
    <2>3. QED
      BY <1>2, <2>2 DEF FreeIn
  <1>10. CASE left < 0
    <2>1. retryAfter' = 0
      BY <1>1, <1>10
    <2>2. (0 + 1) * Second \in Nat /\ (0 + 1) * Second >= left
      BY <1>7, <1>10
    <2>3. QED
      BY <1>8, <2>1, <2>2
  <1>11. CASE left >= 0
    <2>1. retryAfter' = left \div Second /\ left \in Nat
      BY <1>1, <1>3, <1>7, <1>11
    <2>2. PICK n \in Nat : n = retryAfter' /\ n = left \div Second
      BY <2>1, WholeSeconds
    <2>3. n * Second <= left /\ left < (n + 1) * Second
      BY <2>1, <2>2, WholeSeconds
    <2>4. n + 1 \in Nat
      OBVIOUS
    <2>5. (n + 1) * Second \in Nat
      BY <2>4, SecondsAreTicks
    <2>6. FreeIn(k, (n + 1) * Second)
      BY <1>7, <1>8, <2>3, <2>5
    <2>7. ASSUME n > 0
          PROVE  ~FreeIn(k, n * Second - 1)
      <3>1. n * Second - 1 \in Nat
        BY <2>7, SecondsAreTicks
      <3>2. n * Second - 1 < left
        BY <1>7, <2>3, <3>1
      <3>3. QED
        BY <1>9, <3>1, <3>2
    <2>8. QED
      BY <2>2, <2>6, <2>7
  <1>12. QED
    BY <1>7, <1>10, <1>11

(* A client that waits for one second more than it was told gets in, and a *)
(* tick before what it was told it would not have got in (rate_limiter.py): *)
(* the list is full, so that the oldest of it decides.                     *)
THEOREM RetryAfterHolds == Spec => RetryAfterIsClose
  <1> DEFINE Close(k) ==
        asking = k /\ asking' = NoKey /\ steady =>
            /\ FreeIn(k, (retryAfter' + 1) * Second)
            /\ retryAfter' > 0 => ~FreeIn(k, retryAfter' * Second - 1)
  <1>1. IInv /\ FullWhileAsking /\ [Next]_vars => [\A k \in Keys : Close(k)]_vars
    <2> SUFFICES ASSUME IInv, FullWhileAsking, Next, NEW k \in Keys,
                        asking = k, asking' = NoKey, steady
                 PROVE  /\ FreeIn(k, (retryAfter' + 1) * Second)
                        /\ retryAfter' > 0 => ~FreeIn(k, retryAfter' * Second - 1)
      OBVIOUS
    <2>1. asking # NoKey
      OBVIOUS
    <2>2. Answer
      BY <2>1 DEF Next, Admit, Refuse, Tick, SetBack, Terminated, vars, limiterVars
    <2>3. QED
      BY <2>2, AnswerIsClose
  <1>2. QED
    BY <1>1, Invariance, StaysFull, PTL DEF Spec, RetryAfterIsClose
-----------------------------------------------------------------------------
(* The accounts. *)

Places == {"idle", "limit", "session", "user", "count", "email", "org", "insert", "target",
           "account", "write"} \cup Ended
Requested == [op : Ops \cup {NotYet.op}, pc : Places, me : Emails \cup {Nobody},
              newOrg : BOOLEAN, unwelcome : BOOLEAN]

AccountsTyping ==
    /\ users \in [Emails -> Accounts]
    /\ sessions \in [Tokens -> Emails \cup {Nobody}]
    /\ issued \subseteq Tokens
    /\ req \in [Requests -> Requested]
    /\ raced \in BOOLEAN
    /\ plan \in Plans

(* Each kind of request goes through its own statements. *)
Placed(r) ==
    /\ req[r].pc = "idle" => req[r] = NotYet
    /\ req[r].pc # "idle" => req[r].op \in Ops
    /\ req[r].pc \in {"limit", "account"} => req[r].op.kind = "login"
    /\ req[r].pc \in {"session", "user"} => req[r].op.kind # "login"
    /\ req[r].pc = "session" => req[r].op.token \in issued /\ req[r].me = Nobody
    /\ req[r].pc = "count" => req[r].op.kind = "register"
    /\ req[r].pc \in {"email", "insert"} => req[r].op.kind \in {"register", "create"}
    /\ req[r].pc = "org" => req[r].op.kind = "register"
    /\ req[r].pc = "target" => req[r].op.kind = "deactivate"
    /\ req[r].pc = "write" => req[r].op.kind \in {"login", "logout", "deactivate"}
    /\ req[r].pc = "user" => req[r].me # Nobody
    /\ req[r].pc = "email" /\ req[r].op.kind = "create" => req[r].me # Nobody

(* An account is never taken back, neither from a session nor from a request. *)
Remembered(r) ==
    /\ req[r].me # Nobody => Exists(req[r].me)
    /\ req[r].pc = "write" /\ req[r].op.kind = "login" => Exists(req[r].op.email)
SessionsHaveAccounts ==
    \A t \in Tokens : sessions[t] # Nobody => t \in issued /\ Exists(sessions[t])

(* Where deactivations do not overlap, whoever is about to deactivate somebody *)
(* else is an active administrator, because nobody else could deactivate him.  *)
Deactivating(r) == UnderWay(r) /\ req[r].op.kind = "deactivate"
OneDeactivates ==
    ~raced => \A r, q \in Requests : Deactivating(r) /\ Deactivating(q) => r = q
Stays(r) ==
    ~raced /\ Deactivating(r) /\ req[r].pc \in {"target", "write"} =>
        /\ req[r].me \in Emails /\ req[r].op.email # req[r].me
        /\ Active(req[r].me) /\ Admin(req[r].me)

(* Why an unwelcome request is turned away, at each statement it can get to: *)
(* what it lacked when it arrived nobody gives it later.                     *)
Unfit(kind, e) == Exists(e) /\ (~Active(e) \/ (kind # "logout" /\ ~Admin(e)))
Worthless(op) == sessions[op.token] = Nobody \/ Unfit(op.kind, sessions[op.token])
TurnedAway(r) ==
    req[r].unwelcome =>
        /\ req[r].pc \in {"limit", "account", "session", "user", "count", "refused", "failed"}
        /\ req[r].pc \in {"limit", "account"} =>
               Exists(req[r].op.email) /\ ~Active(req[r].op.email)
        /\ req[r].op.kind = "register" => ~NoAccounts
        /\ req[r].pc = "session" => Worthless(req[r].op)
        /\ req[r].pc = "user" => Unfit(req[r].op.kind, req[r].me)
        /\ req[r].pc = "count" => req[r].me = Nobody \/ ~Admin(req[r].me)

Sound(r) == Placed(r) /\ Remembered(r) /\ TurnedAway(r)

ServerInv ==
    /\ AccountsTyping
    /\ SessionsHaveAccounts
    /\ \A r \in Requests : Sound(r)
    /\ OneDeactivates
    /\ \A r \in Requests : Stays(r)
    /\ AdminRemains

(* What any step may do to the accounts and the sessions. *)
Evolves ==
    /\ users' \in [Emails -> Accounts]
    /\ sessions' \in [Tokens -> Emails \cup {Nobody}]
    /\ issued' \subseteq Tokens /\ issued \subseteq issued'
    /\ plan' = plan
    /\ \A e \in Emails : Exists(e) =>
           /\ users'[e] # Absent
           /\ users'[e].role = users[e].role
           /\ users'[e].active => users[e].active
    /\ \A t \in issued : sessions'[t] \in {sessions[t], Nobody}
    /\ SessionsHaveAccounts'

(* A step of one request. *)
Moved(r) ==
    /\ req' \in [Requests -> Requested]
    /\ req'[r].op = req[r].op
    /\ req'[r].unwelcome = req[r].unwelcome
    /\ \A q \in Requests : q # r => req'[q] = req[q]

LEMMA ReadsEvolve ==
    ASSUME ServerInv, UNCHANGED <<database, plan>>
    PROVE  Evolves
  BY DEF ServerInv, AccountsTyping, SessionsHaveAccounts, Evolves, Exists, database

(* What holds of a request that does not move goes on to hold. *)
LEMMA OthersStaySound ==
    ASSUME ServerInv, Evolves, NEW q \in Requests, req'[q] = req[q]
    PROVE  Sound(q)'
  <1>1. Sound(q) /\ req[q] \in Requested
    BY DEF ServerInv, AccountsTyping
  <1>2. Placed(q)'
    BY <1>1 DEF Sound, Placed, Evolves
  <1>3. req[q].me \in Emails \cup {Nobody}
    BY <1>1 DEF Requested
  <1>4. Remembered(q)'
    BY <1>1, <1>3 DEF Sound, Placed, Remembered, Evolves, Exists, Ops
  <1>5. TurnedAway(q)'
    <2> SUFFICES ASSUME req[q].unwelcome
                 PROVE  TurnedAway(q)'
      BY DEF TurnedAway
    <2>1. \A e \in Emails : Exists(e) /\ ~Active(e) => Exists(e)' /\ ~Active(e)'
      BY DEF Evolves, Exists, Active
    <2>2. \A e \in Emails : Exists(e) /\ ~Admin(e) => Exists(e)' /\ ~Admin(e)'
      BY DEF Evolves, Exists, Admin
    <2>3. ~NoAccounts => ~NoAccounts'
      BY DEF Evolves, Exists, NoAccounts
    <2>4. ASSUME req[q].pc \in {"limit", "account"}
          PROVE  Exists(req[q].op.email)' /\ ~Active(req[q].op.email)'
      <3>1. req[q].op \in Ops
        BY <1>1, <2>4 DEF Sound, Placed
      <3>2. req[q].op.email \in Emails
        BY <3>1 DEF Ops
      <3>3. Exists(req[q].op.email) /\ ~Active(req[q].op.email)
        BY <1>1, <2>4 DEF Sound, TurnedAway
      <3>4. QED
        BY <2>1, <3>2, <3>3
    <2>5. ASSUME NEW kind, NEW e \in Emails, Unfit(kind, e)
          PROVE  Unfit(kind, e)'
      BY <2>1, <2>2, <2>5 DEF Unfit
    <2>6. ASSUME req[q].pc = "session"
          PROVE  Worthless(req[q].op)'
      <3>1. req[q].op.token \in issued /\ issued \subseteq Tokens
        BY <1>1, <2>6 DEF Sound, Placed, ServerInv, AccountsTyping
      <3>2. sessions'[req[q].op.token] \in {sessions[req[q].op.token], Nobody}
        BY <3>1 DEF Evolves
      <3>3. sessions[req[q].op.token] \in Emails \cup {Nobody}
        BY <3>1 DEF ServerInv, AccountsTyping
      <3>4. Worthless(req[q].op)
        BY <1>1, <2>6 DEF Sound, TurnedAway
      <3>5. QED
        BY <2>5, <3>2, <3>3, <3>4 DEF Worthless
    <2>7. req[q].pc = "user" => Unfit(req[q].op.kind, req[q].me)'
      BY <1>1, <1>3, <2>5 DEF Sound, TurnedAway, Placed
    <2>8. req[q].pc = "count" /\ req[q].me # Nobody => ~Admin(req[q].me)'
      BY <1>1, <1>3, <2>2 DEF Sound, TurnedAway, Remembered
    <2>9. QED
      BY <1>1, <2>3, <2>4, <2>6, <2>7, <2>8 DEF Sound, TurnedAway
  <1>6. QED
    BY <1>2, <1>4, <1>5 DEF Sound

LEMMA PlaceSet ==
    ASSUME NEW f \in [Requests -> Requested], NEW r \in Requests, NEW pc \in Places,
           NEW g, g = [f EXCEPT ![r].pc = pc]
    PROVE  /\ g \in [Requests -> Requested]
           /\ g[r].pc = pc /\ g[r].op = f[r].op /\ g[r].me = f[r].me
           /\ g[r].unwelcome = f[r].unwelcome
           /\ \A q \in Requests : q # r => g[q] = f[q]
  BY DEF Requested

LEMMA GotoMoves ==
    ASSUME ServerInv, NEW r \in Requests, NEW pc \in Places, Goto(r, pc)
    PROVE  /\ Moved(r)
           /\ req'[r].pc = pc /\ req'[r].me = req[r].me
  BY PlaceSet DEF ServerInv, AccountsTyping, Goto, Moved

(* A request that also notes an account. *)
LEMMA NoteMoves ==
    ASSUME ServerInv, NEW r \in Requests, NEW pc \in Places, NEW me \in Emails \cup {Nobody},
           req' = [[req EXCEPT ![r].me = me] EXCEPT ![r].pc = pc]
    PROVE  /\ Moved(r)
           /\ req'[r].pc = pc /\ req'[r].me = me
  <1> DEFINE noted == [req EXCEPT ![r].me = me]
  <1>1. /\ noted \in [Requests -> Requested]
        /\ noted[r].op = req[r].op /\ noted[r].unwelcome = req[r].unwelcome
        /\ noted[r].me = me
        /\ \A q \in Requests : q # r => noted[q] = req[q]
    BY DEF ServerInv, AccountsTyping, Requested
  <1>2. req' = [noted EXCEPT ![r].pc = pc]
    OBVIOUS
  <1> HIDE DEF noted
  <1>3. /\ req' \in [Requests -> Requested]
        /\ req'[r].pc = pc /\ req'[r].op = noted[r].op /\ req'[r].me = noted[r].me
        /\ req'[r].unwelcome = noted[r].unwelcome
        /\ \A q \in Requests : q # r => req'[q] = noted[q]
    <2> DEFINE moved == req'
    <2>1. moved = [noted EXCEPT ![r].pc = pc] /\ noted \in [Requests -> Requested]
      BY <1>1, <1>2
    <2> HIDE DEF moved
    <2>2. /\ moved \in [Requests -> Requested]
          /\ moved[r].pc = pc /\ moved[r].op = noted[r].op /\ moved[r].me = noted[r].me
          /\ moved[r].unwelcome = noted[r].unwelcome
          /\ \A q \in Requests : q # r => moved[q] = noted[q]
      BY ONLY <2>1, PlaceSet, r \in Requests, pc \in Places
    <2>3. QED
      BY <2>2 DEF moved
  <1>4. QED
    BY <1>1, <1>3 DEF Moved

(* A step of one request keeps the invariant when what the request now is,    *)
(* what the other deactivations rest on and the administrator are seen to.    *)
LEMMA MoveKeeps ==
    ASSUME ServerInv, Evolves, raced' = raced,
           NEW r \in Requests, UnderWay(r), Moved(r), Sound(r)',
           \A q \in Requests : Stays(q)', AdminRemains'
    PROVE  ServerInv'
  <1>1. AccountsTyping'
    BY DEF ServerInv, AccountsTyping, Evolves, Moved
  <1>2. SessionsHaveAccounts'
    BY DEF Evolves
  <1>3. \A q \in Requests : Sound(q)'
    BY OthersStaySound DEF Moved
  <1>4. \A q \in Requests : Deactivating(q)' => Deactivating(q)
    BY DEF Deactivating, UnderWay, Moved
  <1>5. OneDeactivates'
    BY <1>4 DEF ServerInv, OneDeactivates
  <1>6. QED
    BY <1>1, <1>2, <1>3, <1>5 DEF ServerInv

(* Where no account changes, only the request itself can be disturbed. *)
LEMMA AccountsUntouched ==
    ASSUME ServerInv, Evolves, users' = users, raced' = raced,
           NEW r \in Requests, UnderWay(r), Moved(r), Sound(r)', Stays(r)'
    PROVE  ServerInv'
  <1>1. \A q \in Requests : Stays(q)'
    BY DEF ServerInv, Stays, Moved, Deactivating, UnderWay, Active, Admin
  <1>2. AdminRemains'
    BY DEF ServerInv, AdminRemains, NoAccounts, Exists, Active, Admin
  <1>3. QED
    BY <1>1, <1>2, MoveKeeps

(* A request that has been answered. *)
LEMMA EndedIsSound ==
    ASSUME ServerInv, Evolves, NEW r \in Requests, UnderWay(r), Moved(r),
           req'[r].pc \in Ended, req'[r].me = req[r].me,
           req[r].unwelcome => req'[r].pc # "ok"
    PROVE  Sound(r)' /\ Stays(r)'
  <1>1. Sound(r) /\ req[r] \in Requested
    BY DEF ServerInv, AccountsTyping
  <1>2. Placed(r)'
    BY <1>1 DEF Sound, Placed, Moved, UnderWay, Ended
  <1>3. Remembered(r)'
    BY <1>1 DEF Sound, Remembered, Evolves, Exists, Requested, Ended
  <1>4. ~NoAccounts => ~NoAccounts'
    BY DEF Evolves, Exists, NoAccounts
  <1>5. TurnedAway(r)'
    BY <1>1, <1>4 DEF Sound, TurnedAway, Moved, Ended
  <1>6. Stays(r)'
    BY DEF Stays, Ended
  <1>7. QED
    BY <1>2, <1>3, <1>5, <1>6 DEF Sound

LEMMA ReadSessionKeeps ==
    ASSUME ServerInv, NEW r \in Requests, ReadSession(r)
    PROVE  ServerInv'
  <1> DEFINE me == sessions[req[r].op.token]
  <1>1. Sound(r) /\ Evolves /\ UnderWay(r) /\ users' = users /\ raced' = raced
    BY ReadsEvolve DEF ServerInv, ReadSession, UnderWay, Ended, database
  <1>2. req[r].pc = "session" /\ req[r].op \in Ops /\ req[r].op.kind # "login"
    BY <1>1 DEF ReadSession, Sound, Placed
  <1>3. me \in Emails \cup {Nobody} /\ (me # Nobody => Exists(me))
    BY <1>1, <1>2 DEF Sound, Placed, ServerInv, AccountsTyping, SessionsHaveAccounts
  <1> HIDE DEF me
  <1>4. CASE me # Nobody
    <2>1. req' = [[req EXCEPT ![r].me = me] EXCEPT ![r].pc = "user"]
      BY <1>4 DEF ReadSession, me
    <2>2. Moved(r) /\ req'[r].pc = "user" /\ req'[r].me = me
      BY <1>3, <2>1, NoteMoves DEF Places
    <2>3. Placed(r)' /\ Remembered(r)' /\ Stays(r)'
      BY <1>1, <1>2, <1>3, <1>4, <2>2 DEF Placed, Remembered, Stays, Moved, Exists
    <2>4. TurnedAway(r)'
      BY <1>1, <1>2, <1>4, <2>2
         DEF Sound, TurnedAway, Worthless, Unfit, Moved, Exists, Active, Admin, NoAccounts, me
    <2>5. QED
      BY <1>1, <2>2, <2>3, <2>4, AccountsUntouched DEF Sound
  <1>5. CASE me = Nobody /\ req[r].op.kind = "register"
    <2>1. Goto(r, "count")
      BY <1>5 DEF ReadSession, me
    <2>2. Moved(r) /\ req'[r].pc = "count" /\ req'[r].me = req[r].me
      BY <2>1, GotoMoves DEF Places
    <2>3. Placed(r)' /\ Remembered(r)' /\ Stays(r)'
      BY <1>1, <1>2, <1>5, <2>2 DEF Sound, Placed, Remembered, Stays, Moved, Exists
    <2>4. TurnedAway(r)'
      BY <1>1, <1>2, <2>2 DEF Sound, Placed, TurnedAway, Moved, NoAccounts, Exists
    <2>5. QED
      BY <1>1, <2>2, <2>3, <2>4, AccountsUntouched DEF Sound
  <1>6. CASE me = Nobody /\ req[r].op.kind # "register"
    <2>1. Goto(r, "refused")
      BY <1>6 DEF ReadSession, me
    <2>2. Moved(r) /\ req'[r].pc = "refused" /\ req'[r].me = req[r].me
      BY <2>1, GotoMoves DEF Places, Ended
    <2>3. QED
      BY <1>1, <2>2, EndedIsSound, AccountsUntouched DEF Ended
  <1>7. QED
    BY <1>4, <1>5, <1>6

LEMMA RefusedKeeps ==
    ASSUME ServerInv, NEW r \in Requests, UnderWay(r), NEW pc \in {"refused", "failed"},
           Goto(r, pc), UNCHANGED <<database, plan, raced>>
    PROVE  ServerInv'
  <1>1. Evolves /\ users' = users /\ raced' = raced
    BY ReadsEvolve DEF database
  <1>2. Moved(r) /\ req'[r].pc = pc /\ req'[r].me = req[r].me
    BY GotoMoves DEF Places, Ended
  <1>3. QED
    BY <1>1, <1>2, EndedIsSound, AccountsUntouched DEF Ended

LEMMA ReadUserKeeps ==
    ASSUME ServerInv, NEW r \in Requests, ReadUser(r)
    PROVE  ServerInv'
  <1>1. /\ Sound(r) /\ Evolves /\ UnderWay(r) /\ users' = users /\ raced' = raced
        /\ UNCHANGED <<database, plan, raced>>
    BY ReadsEvolve DEF ServerInv, ReadUser, UnderWay, Ended, database
  <1>2. /\ req[r].pc = "user" /\ req[r].op \in Ops /\ req[r].op.kind # "login"
        /\ req[r].me \in Emails /\ req[r].me # Nobody /\ Exists(req[r].me)
        /\ req[r].op.kind \in Kinds
    BY <1>1 DEF ReadUser, Sound, Placed, Remembered, ServerInv, AccountsTyping, Requested, Ops
  <1>3. CASE Active(req[r].me)
    <2>1. Goto(r, AfterUser(r))
      BY <1>3 DEF ReadUser
    <2>2. CASE AfterUser(r) = "refused"
      BY <1>1, <2>1, <2>2, RefusedKeeps
    <2>3. CASE AfterUser(r) # "refused"
      <3>1. /\ AfterUser(r) \in {"write", "count", "email", "target"}
            /\ AfterUser(r) = "write" => req[r].op.kind = "logout"
            /\ AfterUser(r) = "count" => req[r].op.kind = "register"
            /\ AfterUser(r) = "email" => req[r].op.kind = "create" /\ Admin(req[r].me)
            /\ AfterUser(r) = "target" =>
                   /\ req[r].op.kind = "deactivate" /\ Admin(req[r].me)
                   /\ req[r].op.email # req[r].me
        BY <1>2, <2>3 DEF AfterUser, Kinds
      <3>2. PICK pc \in {"write", "count", "email", "target"} : pc = AfterUser(r)
        BY <3>1
      <3>3. Moved(r) /\ req'[r].pc = pc /\ req'[r].me = req[r].me
        BY <2>1, <3>2, GotoMoves DEF Places
      <3>4. Placed(r)' /\ Remembered(r)'
        BY <1>1, <1>2, <3>1, <3>2, <3>3 DEF Placed, Remembered, Moved, Exists
      <3>5. Stays(r)'
        BY <1>1, <1>2, <1>3, <3>1, <3>2, <3>3 DEF Stays, Moved, Active, Admin, Deactivating
      <3>6. TurnedAway(r)'
        BY <1>1, <1>2, <1>3, <3>1, <3>2, <3>3
           DEF Sound, TurnedAway, Unfit, Moved, NoAccounts, Exists, Admin
      <3>7. QED
        BY <1>1, <3>3, <3>4, <3>5, <3>6, AccountsUntouched DEF Sound
    <2>4. QED
      BY <2>2, <2>3
  <1>4. CASE ~Active(req[r].me) /\ req[r].op.kind # "register"
    BY <1>1, <1>4, RefusedKeeps DEF ReadUser
  <1>5. CASE ~Active(req[r].me) /\ req[r].op.kind = "register"
    <2>1. req' = [[req EXCEPT ![r].me = Nobody] EXCEPT ![r].pc = "count"]
      BY <1>5 DEF ReadUser
    <2>2. Moved(r) /\ req'[r].pc = "count" /\ req'[r].me = Nobody
      BY <2>1, NoteMoves DEF Places
    <2>3. Placed(r)' /\ Remembered(r)' /\ Stays(r)'
      BY <1>1, <1>2, <1>5, <2>2 DEF Placed, Remembered, Stays, Moved
    <2>4. TurnedAway(r)'
      BY <1>1, <1>2, <2>2 DEF Sound, TurnedAway, Moved, NoAccounts, Exists
    <2>5. QED
      BY <1>1, <2>2, <2>3, <2>4, AccountsUntouched DEF Sound
  <1>6. QED
    BY <1>3, <1>4, <1>5

LEMMA CountUsersKeeps ==
    ASSUME ServerInv, NEW r \in Requests, CountUsers(r)
    PROVE  ServerInv'
  <1>1. /\ Sound(r) /\ Evolves /\ UnderWay(r) /\ users' = users /\ raced' = raced
        /\ UNCHANGED <<database, plan, raced>>
    BY ReadsEvolve DEF ServerInv, CountUsers, UnderWay, Ended, database
  <1>2. req[r].pc = "count" /\ req[r].op \in Ops /\ req[r].op.kind = "register"
    BY <1>1 DEF CountUsers, Sound, Placed
  <1>3. CASE NoAccounts
    <2>1. req' = [[req EXCEPT ![r].me = Nobody] EXCEPT ![r].pc = "email"]
      BY <1>3 DEF CountUsers
    <2>2. Moved(r) /\ req'[r].pc = "email" /\ req'[r].me = Nobody
      BY <2>1, NoteMoves DEF Places
    <2>3. Placed(r)' /\ Remembered(r)' /\ Stays(r)'
      BY <1>1, <1>2, <2>2 DEF Placed, Remembered, Stays, Moved
    <2>4. TurnedAway(r)'
      BY <1>1, <1>2, <1>3, <2>2 DEF Sound, TurnedAway, Moved
    <2>5. QED
      BY <1>1, <2>2, <2>3, <2>4, AccountsUntouched DEF Sound
  <1>4. CASE ~NoAccounts /\ req[r].me # Nobody /\ Admin(req[r].me)
    <2>1. Goto(r, "email")
      BY <1>4 DEF CountUsers
    <2>2. Moved(r) /\ req'[r].pc = "email" /\ req'[r].me = req[r].me
      BY <2>1, GotoMoves DEF Places
    <2>3. Placed(r)' /\ Remembered(r)' /\ Stays(r)'
      BY <1>1, <1>2, <2>2 DEF Sound, Placed, Remembered, Stays, Moved, Exists
    <2>4. TurnedAway(r)'
      BY <1>1, <1>2, <1>4, <2>2 DEF Sound, TurnedAway, Moved
    <2>5. QED
      BY <1>1, <2>2, <2>3, <2>4, AccountsUntouched DEF Sound
  <1>5. CASE ~NoAccounts /\ ~(req[r].me # Nobody /\ Admin(req[r].me))
    <2>1. Goto(r, "refused")
      BY <1>5 DEF CountUsers
    <2>2. QED
      BY <1>1, <2>1, RefusedKeeps
  <1>6. QED
    BY <1>3, <1>4, <1>5

LEMMA ReadEmailKeeps ==
    ASSUME ServerInv, NEW r \in Requests, ReadEmail(r)
    PROVE  ServerInv'
  <1>1. /\ Sound(r) /\ Evolves /\ UnderWay(r) /\ users' = users /\ raced' = raced
        /\ UNCHANGED <<database, plan, raced>>
    BY ReadsEvolve DEF ServerInv, ReadEmail, UnderWay, Ended, database
  <1>2. /\ req[r].pc = "email" /\ req[r].op \in Ops /\ ~req[r].unwelcome
        /\ req[r].op.kind \in {"register", "create"}
        /\ req[r].op.kind = "create" => req[r].me # Nobody
    BY <1>1 DEF ReadEmail, Sound, Placed, TurnedAway, ServerInv, AccountsTyping, Requested
  <1>3. CASE Exists(req[r].op.email)
    <2>1. Goto(r, "refused")
      BY <1>3 DEF ReadEmail
    <2>2. QED
      BY <1>1, <2>1, RefusedKeeps
  <1>4. ASSUME NEW pc \in Places, pc \in {"org", "insert"}, Goto(r, pc),
               pc = "org" => req[r].me = Nobody
        PROVE  ServerInv'
    <2>1. Moved(r) /\ req'[r].pc = pc /\ req'[r].me = req[r].me
      BY <1>4, GotoMoves
    <2>2. pc = "org" => req[r].op.kind = "register"
      BY <1>2, <1>4
    <2>3. Placed(r)'
      BY <1>2, <1>4, <2>1, <2>2 DEF Placed, Moved
    <2>4. Remembered(r)' /\ Stays(r)'
      BY <1>1, <1>4, <2>1 DEF Sound, Remembered, Stays, Moved, Exists
    <2>5. TurnedAway(r)'
      BY <1>2, <2>1 DEF TurnedAway, Moved
    <2>6. QED
      BY <1>1, <2>1, <2>3, <2>4, <2>5, AccountsUntouched DEF Sound
  <1>5. CASE ~Exists(req[r].op.email) /\ Bootstrap(r)
    <2>1. Goto(r, "org") /\ req[r].me = Nobody
      BY <1>5 DEF ReadEmail, Bootstrap
    <2>2. QED
      BY <1>4, <2>1 DEF Places
  <1>6. CASE ~Exists(req[r].op.email) /\ ~Bootstrap(r)
    <2>1. Goto(r, "insert")
      BY <1>6 DEF ReadEmail
    <2>2. QED
      BY <1>4, <2>1 DEF Places
  <1>7. QED
    BY <1>3, <1>5, <1>6

LEMMA ReadOrgKeeps ==
    ASSUME ServerInv, NEW r \in Requests, ReadOrg(r)
    PROVE  ServerInv'
  <1>1. Sound(r) /\ Evolves /\ UnderWay(r) /\ users' = users /\ raced' = raced
    BY ReadsEvolve DEF ServerInv, ReadOrg, UnderWay, Ended, database
  <1>2. /\ req[r].pc = "org" /\ req[r].op \in Ops /\ ~req[r].unwelcome
        /\ req[r].op.kind = "register"
    BY <1>1 DEF ReadOrg, Sound, Placed, TurnedAway, ServerInv, AccountsTyping, Requested
  <1> DEFINE known == [req EXCEPT ![r].newOrg = ~org]
             moved == req'
  <1>3. /\ known \in [Requests -> Requested]
        /\ known[r].op = req[r].op /\ known[r].unwelcome = req[r].unwelcome
        /\ known[r].me = req[r].me
        /\ \A q \in Requests : q # r => known[q] = req[q]
    BY DEF ServerInv, AccountsTyping, Requested
  <1>4. moved = [known EXCEPT ![r].pc = "insert"]
    BY DEF ReadOrg
  <1> HIDE DEF known, moved
  <1>5. /\ moved \in [Requests -> Requested]
        /\ moved[r].pc = "insert" /\ moved[r].op = known[r].op /\ moved[r].me = known[r].me
        /\ moved[r].unwelcome = known[r].unwelcome
        /\ \A q \in Requests : q # r => moved[q] = known[q]
    BY <1>3, <1>4, PlaceSet DEF Places
  <1>6. Moved(r) /\ req'[r].pc = "insert" /\ req'[r].me = req[r].me
    BY <1>3, <1>5 DEF Moved, moved
  <1>7. Placed(r)' /\ Remembered(r)' /\ Stays(r)'
    BY <1>1, <1>2, <1>6 DEF Sound, Placed, Remembered, Stays, Moved, Exists
  <1>8. TurnedAway(r)'
    BY <1>2, <1>6 DEF TurnedAway, Moved
  <1>9. QED
    BY <1>1, <1>6, <1>7, <1>8, AccountsUntouched DEF Sound

LEMMA ReadTargetKeeps ==
    ASSUME ServerInv, NEW r \in Requests, ReadTarget(r)
    PROVE  ServerInv'
  <1>1. /\ Sound(r) /\ Stays(r) /\ Evolves /\ UnderWay(r) /\ users' = users /\ raced' = raced
        /\ UNCHANGED <<database, plan, raced>>
    BY ReadsEvolve DEF ServerInv, ReadTarget, UnderWay, Ended, database
  <1>2. /\ req[r].pc = "target" /\ req[r].op \in Ops /\ ~req[r].unwelcome
        /\ req[r].op.kind = "deactivate"
    BY <1>1 DEF ReadTarget, Sound, Placed, TurnedAway, ServerInv, AccountsTyping, Requested
  <1>3. CASE Exists(req[r].op.email)
    <2>1. Goto(r, "write")
      BY <1>3 DEF ReadTarget
    <2>2. Moved(r) /\ req'[r].pc = "write" /\ req'[r].me = req[r].me
      BY <2>1, GotoMoves DEF Places
    <2>3. Placed(r)' /\ Remembered(r)'
      BY <1>1, <1>2, <2>2 DEF Sound, Placed, Remembered, Moved, Exists
    <2>4. Stays(r)'
      BY <1>1, <1>2, <2>2 DEF Stays, Deactivating, Moved, Active, Admin
    <2>5. TurnedAway(r)'
      BY <1>2, <2>2 DEF TurnedAway, Moved
    <2>6. QED
      BY <1>1, <2>2, <2>3, <2>4, <2>5, AccountsUntouched DEF Sound
  <1>4. CASE ~Exists(req[r].op.email)
    <2>1. Goto(r, "refused")
      BY <1>4 DEF ReadTarget
    <2>2. QED
      BY <1>1, <2>1, RefusedKeeps
  <1>5. QED
    BY <1>3, <1>4

(* A new account takes nothing from anybody, and the first is an administrator. *)
LEMMA InsertKeeps ==
    ASSUME ServerInv, NEW r \in Requests, Insert(r)
    PROVE  ServerInv'
  <1> DEFINE email == req[r].op.email
             role  == IF Bootstrap(r) THEN "admin" ELSE req[r].op.role
  <1>1. /\ Sound(r) /\ UnderWay(r) /\ raced' = raced
        /\ UNCHANGED <<sessions, issued, plan, raced>>
    BY DEF ServerInv, Insert, UnderWay, Ended
  <1>2. /\ req[r].pc = "insert" /\ req[r].op \in Ops /\ ~req[r].unwelcome
    BY <1>1 DEF Insert, Sound, Placed, TurnedAway, ServerInv, AccountsTyping, Requested
  <1>3. email \in Emails /\ role \in Roles
    BY <1>2 DEF Ops, Roles
  <1> HIDE DEF email, role
  <1>4. CASE Exists(email) \/ (req[r].newOrg /\ org)
    <2>1. Goto(r, "failed") /\ UNCHANGED <<org, users>>
      BY <1>4 DEF Insert, email
    <2>2. QED
      BY <1>1, <2>1, RefusedKeeps DEF database
  <1>5. CASE ~(Exists(email) \/ (req[r].newOrg /\ org))
    <2>1. Goto(r, "ok") /\ users' = [users EXCEPT ![email] = Account(role)]
      BY <1>5 DEF Insert, email, role
    <2>2. Moved(r) /\ req'[r].pc = "ok" /\ req'[r].me = req[r].me
      BY <2>1, GotoMoves DEF Places, Ended
    <2>3. /\ users' \in [Emails -> Accounts]
          /\ users'[email] = Account(role) /\ Account(role) # Absent
          /\ \A e \in Emails : Exists(e) => users'[e] = users[e]
      BY <1>3, <1>5, <2>1 DEF ServerInv, AccountsTyping, Accounts, Account, Absent, Roles, Exists
    <2>4. \A e \in Emails : Exists(e) => users'[e] # Absent
      BY <2>3 DEF Exists
    <2>5. Evolves
      <3>1. SessionsHaveAccounts'
        BY <1>1, <2>4 DEF ServerInv, AccountsTyping, SessionsHaveAccounts, Exists
      <3>2. QED
        BY <1>1, <2>3, <2>4, <3>1 DEF ServerInv, AccountsTyping, Evolves
    <2>6. Sound(r)'
      BY <1>1, <1>2, <2>2, <2>5, EndedIsSound DEF Ended
    <2>7. ASSUME NEW q \in Requests
          PROVE  Stays(q)'
      <3>1. CASE q = r
        BY <2>2, <3>1 DEF Stays
      <3>2. CASE q # r
        <4> SUFFICES ASSUME ~raced, Deactivating(q), req[q].pc \in {"target", "write"}
                     PROVE  Stays(q)'
          BY <1>1, <2>2, <3>2 DEF Stays, Moved, Deactivating, UnderWay
        <4>1. /\ req[q].me \in Emails /\ req[q].op.email # req[q].me
              /\ Active(req[q].me) /\ Admin(req[q].me)
          BY DEF ServerInv, Stays
        <4>2. Exists(req[q].me)
          BY <4>1 DEF Exists, Active, Absent
        <4>3. Active(req[q].me)' /\ Admin(req[q].me)'
          BY <2>2, <2>3, <3>2, <4>1, <4>2 DEF Active, Admin, Moved
        <4>4. QED
          BY <2>2, <3>2, <4>1, <4>3 DEF Stays, Moved
      <3>3. QED
        BY <3>1, <3>2
    <2>8. AdminRemains'
      <3>1. CASE Bootstrap(r)
        <4>1. users'[email].active /\ users'[email].role = "admin"
          BY <2>3, <3>1 DEF Account, role
        <4>2. QED
          BY <1>3, <4>1 DEF AdminRemains, Active, Admin
      <3>2. CASE ~Bootstrap(r)
        <4>1. ~NoAccounts
          BY <1>1, <3>2
             DEF Sound, Remembered, Bootstrap, NoAccounts, ServerInv, AccountsTyping, Requested
        <4> SUFFICES ASSUME ~raced
                     PROVE  \E e \in Emails : Active(e)' /\ Admin(e)'
          BY <1>1 DEF AdminRemains
        <4>2. PICK e \in Emails : Active(e) /\ Admin(e)
          BY <4>1 DEF ServerInv, AdminRemains
        <4>3. Exists(e)
          BY <4>2 DEF Exists, Active, Absent
        <4>4. QED
          BY <2>3, <4>2, <4>3 DEF Active, Admin
      <3>3. QED
        BY <3>1, <3>2
    <2>9. QED
      BY <1>1, <2>2, <2>5, <2>6, <2>7, <2>8, MoveKeeps
  <1>6. QED
    BY <1>4, <1>5

(* No other deactivation is under way, so that who deactivates another stays. *)
LEMMA DeactivateKeeps ==
    ASSUME ServerInv, NEW r \in Requests, Deactivate(r)
    PROVE  ServerInv'
  <1> DEFINE email == req[r].op.email
  <1>1. /\ Sound(r) /\ Stays(r) /\ UnderWay(r) /\ Deactivating(r) /\ raced' = raced
        /\ UNCHANGED <<org, sessions, issued, plan, raced>>
    BY DEF ServerInv, Deactivate, Deactivating, UnderWay, Ended
  <1>2. /\ req[r].pc = "write" /\ req[r].op \in Ops /\ ~req[r].unwelcome
    BY <1>1 DEF Deactivate, Sound, Placed, TurnedAway, ServerInv, AccountsTyping, Requested
  <1>3. email \in Emails
    BY <1>2 DEF Ops
  <1>4. Goto(r, "ok") /\ users' = [users EXCEPT ![email].active = FALSE]
    BY DEF Deactivate
  <1>5. Moved(r) /\ req'[r].pc = "ok" /\ req'[r].me = req[r].me
    BY <1>4, GotoMoves DEF Places, Ended
  <1> HIDE DEF email
  <1> DEFINE retired == [users[email] EXCEPT !.active = FALSE]
  <1>6. /\ users[email] \in Accounts /\ users \in [Emails -> Accounts]
        /\ users' = [users EXCEPT ![email] = retired]
    BY <1>3, <1>4 DEF ServerInv, AccountsTyping
  <1>7. /\ retired \in Accounts /\ retired.role = users[email].role /\ ~retired.active
        /\ users[email] # Absent => retired # Absent
    <2>1. CASE users[email] = Absent
      <3>1. [Absent EXCEPT !.active = FALSE] = Absent
        <4>1. \A x \in [role : {"none"}, active : {FALSE}] : [x EXCEPT !.active = FALSE] = x
          OBVIOUS
        <4>2. Absent \in [role : {"none"}, active : {FALSE}]
          BY DEF Absent
        <4>3. QED
          BY <4>1, <4>2
      <3>2. retired = Absent
        BY <2>1, <3>1
      <3>3. Absent \in Accounts /\ ~Absent.active
        BY DEF Accounts, Absent
      <3> HIDE DEF retired
      <3>4. QED
        BY <2>1, <3>2, <3>3
    <2>2. CASE users[email] # Absent
      <3>1. users[email] \in [role : Roles, active : BOOLEAN]
        BY <1>6, <2>2 DEF Accounts
      <3>2. retired \in [role : Roles, active : BOOLEAN]
        BY <3>1
      <3>3. retired.role = users[email].role /\ ~retired.active /\ retired.role \in Roles
        BY <3>1
      <3>4. retired # Absent
        BY <3>3 DEF Absent, Roles
      <3>5. QED
        BY <3>2, <3>3, <3>4 DEF Accounts
    <2>3. QED
      BY <2>1, <2>2
  <1> HIDE DEF retired
  <1>8. /\ users' \in [Emails -> Accounts]
        /\ \A e \in Emails : /\ users'[e].role = users[e].role
                             /\ users'[e].active => users[e].active
                             /\ Exists(e) => users'[e] # Absent
                             /\ e # email => users'[e] = users[e]
    <2>1. users' \in [Emails -> Accounts]
      BY <1>3, <1>6, <1>7
    <2>2. /\ users'[email] = retired
          /\ \A e \in Emails : e # email => users'[e] = users[e]
      BY <1>3, <1>6
    <2>3. users[email] # Absent => retired # Absent
      BY <1>7
    <2>4. QED
      BY <1>7, <2>1, <2>2, <2>3 DEF Exists
  <1>9. Evolves
    <2>1. SessionsHaveAccounts'
      BY <1>1, <1>8 DEF ServerInv, AccountsTyping, SessionsHaveAccounts, Exists
    <2>2. QED
      BY <1>1, <1>8, <2>1 DEF ServerInv, AccountsTyping, Evolves
  <1>10. Sound(r)'
    BY <1>1, <1>2, <1>5, <1>9, EndedIsSound DEF Ended
  <1>11. ASSUME NEW q \in Requests
        PROVE  Stays(q)'
    <2>1. CASE q = r
      BY <1>5, <2>1 DEF Stays
    <2>2. CASE q # r
      <3>1. ~(~raced /\ Deactivating(q))
        BY <1>1, <2>2 DEF ServerInv, OneDeactivates
      <3>2. QED
        BY <1>1, <1>5, <2>2, <3>1 DEF Stays, Moved, Deactivating, UnderWay
    <2>3. QED
      BY <2>1, <2>2
  <1>12. AdminRemains'
    <2> SUFFICES ASSUME ~raced
                 PROVE  \E e \in Emails : Active(e)' /\ Admin(e)'
      BY <1>1 DEF AdminRemains
    <2>1. /\ req[r].me \in Emails /\ email # req[r].me
          /\ Active(req[r].me) /\ Admin(req[r].me)
      BY <1>1, <1>2 DEF Stays, email
    <2>2. Active(req[r].me)' /\ Admin(req[r].me)'
      BY <1>5, <1>8, <2>1 DEF Active, Admin
    <2>3. QED
      BY <1>8, <2>1 DEF Active, Admin
  <1>13. QED
    BY <1>1, <1>5, <1>9, <1>10, <1>11, <1>12, MoveKeeps

(* Only its own cookie is worth nothing afterwards. *)
LEMMA LogoutKeeps ==
    ASSUME ServerInv, NEW r \in Requests, Logout(r)
    PROVE  ServerInv'
  <1> DEFINE token == req[r].op.token
  <1>1. /\ Sound(r) /\ UnderWay(r)
        /\ users' = users /\ issued' = issued /\ plan' = plan /\ raced' = raced
    BY DEF ServerInv, Logout, UnderWay, Ended
  <1>2. ~req[r].unwelcome
    BY <1>1 DEF Logout, Sound, TurnedAway, ServerInv, AccountsTyping, Requested
  <1>3. Goto(r, "ok") /\ sessions' = [sessions EXCEPT ![token] = Nobody]
    BY DEF Logout
  <1>4. Moved(r) /\ req'[r].pc = "ok" /\ req'[r].me = req[r].me
    BY <1>3, GotoMoves DEF Places, Ended
  <1> HIDE DEF token
  <1>5. /\ sessions' \in [Tokens -> Emails \cup {Nobody}]
        /\ \A t \in Tokens : sessions'[t] \in {sessions[t], Nobody}
    BY <1>3 DEF ServerInv, AccountsTyping
  <1>6. Evolves
    <2>1. SessionsHaveAccounts'
      BY <1>1, <1>5 DEF ServerInv, SessionsHaveAccounts, Exists
    <2>2. QED
      BY <1>1, <1>5, <2>1 DEF ServerInv, AccountsTyping, Evolves, Exists
  <1>7. QED
    BY <1>1, <1>2, <1>4, <1>6, EndedIsSound, AccountsUntouched DEF Ended

LEMMA AskLimiterKeeps ==
    ASSUME ServerInv, NEW r \in Requests, AskLimiter(r)
    PROVE  ServerInv'
  <1>1. /\ Sound(r) /\ Evolves /\ UnderWay(r) /\ users' = users /\ raced' = raced
        /\ UNCHANGED <<database, plan, raced>>
    BY ReadsEvolve DEF ServerInv, AskLimiter, UnderWay, Ended, database
  <1>2. req[r].pc = "limit" /\ req[r].op \in Ops /\ req[r].op.kind = "login"
    BY <1>1 DEF AskLimiter, Sound, Placed
  <1>3. CASE Goto(r, "account")
    <2>1. Moved(r) /\ req'[r].pc = "account" /\ req'[r].me = req[r].me
      BY <1>3, GotoMoves DEF Places
    <2>2. Placed(r)' /\ Remembered(r)' /\ Stays(r)'
      BY <1>1, <1>2, <2>1 DEF Sound, Placed, Remembered, Stays, Moved, Exists
    <2>3. TurnedAway(r)'
      BY <1>1, <1>2, <2>1 DEF Sound, TurnedAway, Moved, Exists, Active
    <2>4. QED
      BY <1>1, <2>1, <2>2, <2>3, AccountsUntouched DEF Sound
  <1>4. CASE Goto(r, "refused")
    BY <1>1, <1>4, RefusedKeeps
  <1>5. QED
    BY <1>3, <1>4 DEF AskLimiter

LEMMA ReadAccountKeeps ==
    ASSUME ServerInv, NEW r \in Requests, ReadAccount(r)
    PROVE  ServerInv'
  <1>1. /\ Sound(r) /\ Evolves /\ UnderWay(r) /\ users' = users /\ raced' = raced
        /\ UNCHANGED <<database, plan, raced>>
    BY ReadsEvolve DEF ServerInv, ReadAccount, UnderWay, Ended, database
  <1>2. /\ req[r].pc = "account" /\ req[r].op \in Ops /\ req[r].op.kind = "login"
        /\ req[r].op.email \in Emails
    BY <1>1 DEF ReadAccount, Sound, Placed, Ops
  <1>3. CASE Active(req[r].op.email) /\ Goto(r, "write")
    <2>1. Moved(r) /\ req'[r].pc = "write" /\ req'[r].me = req[r].me
      BY <1>3, GotoMoves DEF Places
    <2>2. Exists(req[r].op.email)
      BY <1>3 DEF Active, Exists, Absent
    <2>3. Placed(r)' /\ Remembered(r)'
      BY <1>1, <1>2, <2>1, <2>2 DEF Sound, Placed, Remembered, Moved, Exists
    <2>4. Stays(r)'
      BY <1>2, <2>1 DEF Stays, Deactivating, Moved
    <2>5. TurnedAway(r)'
      BY <1>1, <1>2, <1>3, <2>1 DEF Sound, TurnedAway, Moved
    <2>6. QED
      BY <1>1, <2>1, <2>3, <2>4, <2>5, AccountsUntouched DEF Sound
  <1>4. CASE Goto(r, "refused")
    BY <1>1, <1>4, RefusedKeeps
  <1>5. QED
    BY <1>3, <1>4 DEF ReadAccount

(* A cookie is new when it is issued, so that no request can have sent it. *)
LEMMA LoginKeeps ==
    ASSUME ServerInv, NEW r \in Requests, Login(r)
    PROVE  ServerInv'
  <1> DEFINE email == req[r].op.email
  <1>1. /\ Sound(r) /\ UnderWay(r)
        /\ users' = users /\ plan' = plan /\ raced' = raced
    BY DEF ServerInv, Login, UnderWay, Ended
  <1>2. ~req[r].unwelcome /\ req[r].op \in Ops /\ Exists(email)
    BY <1>1
       DEF Login, Sound, Placed, Remembered, TurnedAway, ServerInv, AccountsTyping, Requested
  <1>3. email \in Emails
    BY <1>2 DEF Ops
  <1> HIDE DEF email
  <1>4. PICK t \in Tokens \ issued : /\ sessions' = [sessions EXCEPT ![t] = email]
                                      /\ issued' = issued \cup {t}
    BY DEF Login, email
  <1>5. Goto(r, "ok")
    BY DEF Login
  <1>6. Moved(r) /\ req'[r].pc = "ok" /\ req'[r].me = req[r].me
    BY <1>5, GotoMoves DEF Places, Ended
  <1>7. /\ sessions' \in [Tokens -> Emails \cup {Nobody}]
        /\ sessions'[t] = email
        /\ \A u \in Tokens : u # t => sessions'[u] = sessions[u]
    BY <1>3, <1>4 DEF ServerInv, AccountsTyping
  <1>8. Evolves
    <2>1. SessionsHaveAccounts'
      BY <1>1, <1>2, <1>4, <1>7 DEF ServerInv, SessionsHaveAccounts, Exists
    <2>2. QED
      BY <1>1, <1>4, <1>7, <2>1 DEF ServerInv, AccountsTyping, Evolves, Exists
  <1>9. QED
    BY <1>1, <1>2, <1>6, <1>8, EndedIsSound, AccountsUntouched DEF Ended

LEMMA ExpireKeeps ==
    ASSUME ServerInv, NEW t \in Tokens, Expire(t)
    PROVE  ServerInv'
  <1>1. /\ sessions' = [sessions EXCEPT ![t] = Nobody]
        /\ UNCHANGED <<org, users, issued, req, plan, raced>>
    BY DEF Expire
  <1>2. /\ sessions' \in [Tokens -> Emails \cup {Nobody}]
        /\ \A u \in Tokens : sessions'[u] \in {sessions[u], Nobody}
    BY <1>1 DEF ServerInv, AccountsTyping
  <1>3. SessionsHaveAccounts'
    BY <1>1, <1>2 DEF ServerInv, SessionsHaveAccounts, Exists
  <1>4. Evolves
    BY <1>1, <1>2, <1>3 DEF ServerInv, AccountsTyping, Evolves, Exists
  <1>5. \A q \in Requests : Sound(q)'
    BY <1>1, <1>4, OthersStaySound
  <1>6. AccountsTyping'
    BY <1>1, <1>2 DEF ServerInv, AccountsTyping
  <1>7. OneDeactivates' /\ (\A q \in Requests : Stays(q)') /\ AdminRemains'
    BY <1>1 DEF ServerInv, OneDeactivates, Stays, AdminRemains, Deactivating, UnderWay,
                NoAccounts, Exists, Active, Admin
  <1>8. QED
    BY <1>3, <1>5, <1>6, <1>7 DEF ServerInv

(* A request that arrives is unwelcome for a reason that lasts. *)
LEMMA ArriveKeeps ==
    ASSUME ServerInv, NEW r \in Requests, NEW op \in plan.ops, Arrive(r, op)
    PROVE  ServerInv'
  <1> DEFINE new == [op |-> op, pc |-> FirstStep(op), me |-> Nobody,
                     newOrg |-> FALSE, unwelcome |-> ~Entitled(op)]
  <1>1. /\ op \in Ops
        /\ op.kind \in Kinds /\ op.email \in Emails
        /\ op.token \in issued \cup {NoToken}
    BY AccountsAssumption DEF ServerInv, AccountsTyping, Arrive, Ops
  <1>2. req[r] = NotYet /\ req' = [req EXCEPT ![r] = new] /\ UNCHANGED <<database, plan>>
    BY DEF Arrive
  <1>3. /\ FirstStep(op) \in {"limit", "count", "refused", "session"}
        /\ FirstStep(op) = "limit" => op.kind = "login"
        /\ FirstStep(op) = "count" => op.kind = "register"
        /\ FirstStep(op) = "session" => op.kind # "login" /\ op.token \in issued
    BY <1>1 DEF FirstStep, Kinds
  <1>4. (~Entitled(op)) \in BOOLEAN
    OBVIOUS
  <1>5. new \in Requested
    BY <1>1, <1>3, <1>4 DEF Requested, Places, Ended
  <1>6. /\ new.op = op /\ new.pc = FirstStep(op) /\ new.me = Nobody
        /\ new.unwelcome = ~Entitled(op)
    OBVIOUS
  <1> HIDE DEF new
  <1>7. /\ req' \in [Requests -> Requested] /\ req'[r] = new
        /\ \A q \in Requests : q # r => req'[q] = req[q]
    BY <1>2, <1>5 DEF ServerInv, AccountsTyping
  <1>8. Evolves
    BY <1>2, ReadsEvolve
  <1>9. AccountsTyping'
    BY <1>2, <1>7 DEF ServerInv, AccountsTyping, database, Arrive
  <1>10. SessionsHaveAccounts' /\ AdminRemains'
    BY <1>2 DEF ServerInv, SessionsHaveAccounts, AdminRemains, Arrive, database, NoAccounts,
                Exists, Active, Admin
  <1>11. Placed(r)' /\ Remembered(r)' /\ Stays(r)'
    BY <1>1, <1>2, <1>3, <1>6, <1>7 DEF Placed, Remembered, Stays, database
  <1>12. TurnedAway(r)'
    <2> SUFFICES ASSUME ~Entitled(op)
                 PROVE  TurnedAway(r)'
      BY <1>6, <1>7 DEF TurnedAway
    <2>1. op.kind = "login" => Exists(op.email) /\ ~Active(op.email)
      BY DEF Entitled
    <2>2. op.kind = "register" => ~NoAccounts
      BY DEF Entitled, NoAccounts
    <2>3. ASSUME op.kind # "login", op.token \in issued
          PROVE  Worthless(op)
      <3>1. op.kind = "logout" => ~Accepted(op.token)
        BY DEF Entitled
      <3>2. op.kind # "logout" => ~AcceptedAdmin(op.token)
        BY <1>1, <2>3 DEF Entitled, Kinds
      <3>3. op.token \in Tokens
        BY <2>3 DEF ServerInv, AccountsTyping
      <3>4. sessions[op.token] # Nobody => Exists(sessions[op.token])
        BY <3>3 DEF ServerInv, SessionsHaveAccounts
      <3>5. QED
        BY <2>3, <3>1, <3>2, <3>4 DEF Worthless, Unfit, Accepted, AcceptedAdmin
    <2>4. QED
      BY <1>2, <1>3, <1>6, <1>7, <2>1, <2>2, <2>3
         DEF TurnedAway, Worthless, Unfit, NoAccounts, Exists, Active, Admin, database
  <1>13. ASSUME NEW q \in Requests
         PROVE  Sound(q)'
    BY <1>7, <1>8, <1>11, <1>12, OthersStaySound DEF Sound
  <1>14. /\ raced' => TRUE
         /\ ~raced' => /\ ~raced
                       /\ op.kind = "deactivate" => \A q \in Requests : ~Deactivating(q)
    BY DEF Arrive, Deactivating
  <1>15. OneDeactivates'
    BY <1>6, <1>7, <1>14 DEF ServerInv, OneDeactivates, Deactivating, UnderWay
  <1>16. ASSUME NEW q \in Requests
         PROVE  Stays(q)'
    BY <1>2, <1>7, <1>11, <1>14
       DEF ServerInv, Stays, Deactivating, UnderWay, Active, Admin, database
  <1>17. QED
    BY <1>9, <1>10, <1>13, <1>15, <1>16 DEF ServerInv

LEMMA ServerInitHolds == ServerInit => ServerInv
  <1> SUFFICES ASSUME ServerInit
               PROVE  ServerInv
    OBVIOUS
  <1>1. /\ plan \in Plans /\ users = plan.users /\ sessions = plan.sessions
        /\ issued = {t \in Tokens : sessions[t] # Nobody}
        /\ req = [r \in Requests |-> NotYet] /\ raced = FALSE
    BY DEF ServerInit
  <1>2. /\ users \in [Emails -> Accounts] /\ sessions \in [Tokens -> Emails \cup {Nobody}]
        /\ \A t \in Tokens : sessions[t] # Nobody => users[sessions[t]] # Absent
        /\ \/ \A e \in Emails : users[e] = Absent
           \/ \E e \in Emails : users[e] = Account("admin")
    BY <1>1, AccountsAssumption
  <1>3. NotYet \in Requested
    BY DEF NotYet, Requested, Places, Ended
  <1>4. AccountsTyping /\ SessionsHaveAccounts
    BY <1>1, <1>2, <1>3 DEF AccountsTyping, SessionsHaveAccounts, Exists
  <1>5. NotYet.pc = "idle" /\ NotYet.me = Nobody /\ ~NotYet.unwelcome
    BY DEF NotYet
  <1>6. \A r \in Requests : req[r] = NotYet
    BY <1>1
  <1>7. \A r \in Requests : Sound(r) /\ Stays(r)
    BY <1>5, <1>6 DEF Sound, Placed, Remembered, TurnedAway, Stays
  <1>8. OneDeactivates
    BY <1>5, <1>6 DEF OneDeactivates, Deactivating, UnderWay
  <1>9. AdminRemains
    BY <1>2 DEF AdminRemains, NoAccounts, Exists, Account, Active, Admin
  <1>10. QED
    BY <1>4, <1>7, <1>8, <1>9 DEF ServerInv

LEMMA AccountsIdle == ServerInv /\ UNCHANGED accountsVars => ServerInv'
  <1> SUFFICES ASSUME ServerInv, UNCHANGED accountsVars
               PROVE  ServerInv'
    OBVIOUS
  <1>1. /\ UNCHANGED <<database, plan>> /\ users' = users /\ sessions' = sessions
        /\ issued' = issued /\ req' = req /\ plan' = plan /\ raced' = raced
    BY DEF accountsVars, database
  <1>2. \A q \in Requests : Sound(q)'
    BY <1>1, ReadsEvolve, OthersStaySound
  <1>3. AccountsTyping' /\ SessionsHaveAccounts'
    BY <1>1 DEF ServerInv, AccountsTyping, SessionsHaveAccounts, Exists
  <1>4. OneDeactivates' /\ (\A q \in Requests : Stays(q)') /\ AdminRemains'
    BY <1>1 DEF ServerInv, OneDeactivates, Stays, AdminRemains, Deactivating, UnderWay,
                NoAccounts, Exists, Active, Admin
  <1>5. QED
    BY <1>2, <1>3, <1>4 DEF ServerInv

LEMMA HandleKeeps ==
    ASSUME ServerInv, NEW r \in Requests, Handle(r)
    PROVE  ServerInv'
  <1>1. CASE Interrupted(r)
    BY <1>1, RefusedKeeps DEF Interrupted
  <1>2. CASE ReadSession(r) \/ ReadUser(r) \/ CountUsers(r) \/ ReadEmail(r) \/ ReadOrg(r)
    BY <1>2, ReadSessionKeeps, ReadUserKeeps, CountUsersKeeps, ReadEmailKeeps, ReadOrgKeeps
  <1>3. CASE Insert(r) \/ ReadTarget(r) \/ Deactivate(r) \/ Logout(r)
    BY <1>3, InsertKeeps, ReadTargetKeeps, DeactivateKeeps, LogoutKeeps
  <1>4. CASE ReadAccount(r) \/ Login(r)
    BY <1>4, ReadAccountKeeps, LoginKeeps
  <1>5. QED
    BY <1>1, <1>2, <1>3, <1>4 DEF Handle

LEMMA ServerNextKeeps == ServerInv /\ [ServerNext]_<<vars, accountsVars>> => ServerInv'
  <1> SUFFICES ASSUME ServerInv, [ServerNext]_<<vars, accountsVars>>
               PROVE  ServerInv'
    OBVIOUS
  <1>1. CASE AccountsStep
    BY <1>1, HandleKeeps, ArriveKeeps, ExpireKeeps DEF AccountsStep
  <1>2. CASE \E r \in Requests : AskLimiter(r)
    BY <1>2, AskLimiterKeeps
  <1>3. CASE UNCHANGED accountsVars
    BY <1>3, AccountsIdle
  <1>4. QED
    BY <1>1, <1>2, <1>3 DEF ServerNext, LimiterStep, AllAnswered

THEOREM ServerInvariance == ServerSpec => []ServerInv
  BY ServerInitHolds, ServerNextKeeps, PTL DEF ServerSpec

(* Who had no right to it when a request arrived does not get it, however   *)
(* requests interleave between their statements (dependencies/auth.py:58-81, *)
(* auth.py:180-194): what is lacking then nobody gives the request later.   *)
THEOREM UnwelcomeRefused == ServerSpec => []UnwelcomeIsRefused
  <1>1. ServerInv => UnwelcomeIsRefused
    BY DEF ServerInv, Sound, TurnedAway, UnwelcomeIsRefused
  <1>2. QED
    BY <1>1, ServerInvariance, PTL

(* An organization with accounts keeps an active administrator while no two *)
(* deactivations are under way at once (settings.py:268-290).               *)
THEOREM AdministratorRemains == ServerSpec => []AdminRemains
  <1>1. ServerInv => AdminRemains
    BY DEF ServerInv
  <1>2. QED
    BY <1>1, ServerInvariance, PTL

(* What the limiter sees of the server is a run of the limiter: the logins   *)
(* of accounts and the traffic of others meet the same window.              *)
THEOREM ServerRunsLimiter == ServerSpec => Spec
  <1>1. ServerInit => Init
    BY DEF ServerInit
  <1>2. [ServerNext]_<<vars, accountsVars>> => [Next]_vars
    <2>1. ASSUME NEW r \in Requests, AskLimiter(r)
          PROVE  Next
      BY <2>1 DEF AskLimiter, Next
    <2>2. CASE LimiterStep
      BY <2>2 DEF LimiterStep, Next
    <2>3. CASE AccountsStep \/ AllAnswered
      BY <2>3 DEF AccountsStep, AllAnswered
    <2>4. QED
      BY <2>1, <2>2, <2>3 DEF ServerNext, Next
  <1>3. QED
    BY <1>1, <1>2, PTL DEF ServerSpec, Spec

(* So the limits hold of the server as well.                               *)
THEOREM ServerHoldsWindow == ServerSpec => [](IInv /\ WindowBound) /\ Refinement
  BY ServerRunsLimiter, Invariance, WindowHolds, ImplementsSlidingWindow, PTL

=============================================================================
