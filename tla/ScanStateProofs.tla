-------------------------- MODULE ScanStateProofs --------------------------
(***************************************************************************)
(* What holds of scanner runs for every number of files, secrets and       *)
(* concurrent processes.                                                   *)
(***************************************************************************)
EXTENDS ScanState, TLAPS

USE ScanAssumption

LEMMA InitHolds == Init => IInv
  BY DEF Init, IInv, TypeOK, TodoShrinks, SteadyIsTracked, LedgerIsKept, Nothing,
         Places, Alone, Ledger, Cached

(* The end of a process leaves the others as they were.                    *)
LEMMA ExitKeeps ==
    ASSUME IInv, NEW p \in Scanners, NEW c \in -1..2, Exit(p, c),
           UNCHANGED <<tree, cache, open>>,
           tidy' => tidy /\ pc[p] \in {"state", "list", "exit"},
           tidy' \in BOOLEAN
    PROVE  IInv'
  <1>1. TypeOK'
    BY DEF IInv, TypeOK, Exit, Goto, Places
  <1>2. \A q \in Scanners :
          /\ q = p => pc'[q] = "idle"
          /\ q # p => /\ pc'[q] = pc[q] /\ todo'[q] = todo[q]
                      /\ previous'[q] = previous[q] /\ current'[q] = current[q]
                      /\ absent'[q] = absent[q] /\ added'[q] = added[q]
                      /\ unread'[q] = unread[q]
    BY DEF IInv, TypeOK, Exit, Goto
  <1>3. TodoShrinks'
    BY <1>2 DEF IInv, TodoShrinks
  <1>4. SteadyIsTracked'
    BY <1>2 DEF IInv, SteadyIsTracked, Steady, AllSecrets
  <1>5. LedgerIsKept'
    BY <1>2 DEF IInv, LedgerIsKept, Alone, Ledger, Cached
  <1>6. QED
    BY <1>1, <1>3, <1>4, <1>5 DEF IInv

LEMMA EditKeeps ==
    ASSUME IInv, NEW f \in Files, Edit(f)
    PROVE  IInv'
  <1>1. PICK S \in SUBSET Secrets : Change([tree EXCEPT ![f] = S])
    BY DEF Edit
  <1>2. TypeOK'
    BY <1>1 DEF IInv, TypeOK, Change, AllSecrets, runVars
  <1>3. TodoShrinks'
    BY <1>1 DEF IInv, TodoShrinks, Change, runVars
  <1>4. SteadyIsTracked'
    <2> SUFFICES ASSUME NEW p \in Scanners, NEW s \in Steady(p)', pc'[p] # "idle"
                 PROVE  /\ s \in AllSecrets(tree')
                        /\ pc'[p] \notin {"state", "list"} =>
                             \A g \in Files \ (todo'[p] \cup unread'[p]) :
                                 s \in tree'[g] => s \in current'[p]
      BY DEF SteadyIsTracked
    <2>1. /\ absent'[p] = absent[p] \cup (Secrets \ AllSecrets(tree'))
          /\ added'[p] = added[p] \cup UNION {tree'[g] \ tree[g] : g \in Files}
          /\ pc' = pc /\ todo' = todo /\ unread' = unread /\ current' = current
      BY <1>1 DEF Change, runVars
    <2>2. s \in Steady(p) /\ s \in AllSecrets(tree')
      BY <2>1 DEF Steady
    <2>3. \A g \in Files : s \in tree'[g] => s \in tree[g]
      BY <2>1 DEF Steady
    <2>4. QED
      BY <2>1, <2>2, <2>3 DEF IInv, SteadyIsTracked
  <1>5. LedgerIsKept'
    BY <1>1 DEF IInv, LedgerIsKept, Alone, Ledger, Cached, Change, runVars
  <1>6. QED
    BY <1>2, <1>3, <1>4, <1>5 DEF IInv

LEMMA StartKeeps ==
    ASSUME IInv, NEW p \in Scanners, Start(p)
    PROVE  IInv'
  <1>1. TypeOK'
    BY DEF IInv, TypeOK, Start, Goto, Places, runVars
  <1>2. TodoShrinks'
    BY DEF IInv, TypeOK, TodoShrinks, Start, Goto, runVars
  <1>3. SteadyIsTracked'
    <2>1. ASSUME NEW q \in Scanners, NEW s \in Steady(q)', pc'[q] # "idle"
          PROVE  /\ s \in AllSecrets(tree')
                 /\ pc'[q] \notin {"state", "list"} =>
                      \A g \in Files \ (todo'[q] \cup unread'[q]) :
                          s \in tree'[g] => s \in current'[q]
      <3>1. CASE q = p
        BY <2>1, <3>1 DEF IInv, TypeOK, Start, Goto, Steady, AllSecrets, runVars
      <3>2. CASE q # p
        BY <2>1, <3>2 DEF IInv, TypeOK, SteadyIsTracked, Start, Goto, Steady,
                          AllSecrets, runVars
      <3>3. QED
        BY <3>1, <3>2
    <2>2. QED
      BY <2>1 DEF SteadyIsTracked
  <1>4. LedgerIsKept'
    BY DEF IInv, TypeOK, LedgerIsKept, Alone, Ledger, Cached, Start, Goto, Nothing,
           runVars
  <1>5. QED
    BY <1>1, <1>2, <1>3, <1>4 DEF IInv

(* Steps of a run that leave the files and what the run read of them.      *)
LEMMA ReadNothingKeeps ==
    ASSUME IInv, NEW p \in Scanners, TypeOK',
           UNCHANGED <<tree, todo, current, historyVars>>,
           NEW label \in Places \ {"idle"}, Goto(p, label), pc[p] # "idle",
           pc[p] \in {"state", "list"} => label \in {"state", "list"},
           pc[p] \in {"state", "list", "scan"} /\ todo[p] # {}
               => label \in {"state", "list", "scan"}
    PROVE  TodoShrinks' /\ SteadyIsTracked'
  <1>1. \A q \in Scanners : pc'[q] = IF q = p THEN label ELSE pc[q]
    BY DEF Goto, IInv, TypeOK
  <1>2. TodoShrinks'
    BY <1>1 DEF IInv, TodoShrinks
  <1>3. SteadyIsTracked'
    <2> SUFFICES ASSUME NEW q \in Scanners, NEW s \in Steady(q)', pc'[q] # "idle"
                 PROVE  /\ s \in AllSecrets(tree')
                        /\ pc'[q] \notin {"state", "list"} =>
                             \A f \in Files \ (todo'[q] \cup unread'[q]) :
                                 s \in tree'[f] => s \in current'[q]
      BY DEF SteadyIsTracked
    <2>1. s \in Steady(q) /\ AllSecrets(tree') = AllSecrets(tree)
      BY DEF Steady, AllSecrets, historyVars
    <2>2. pc[q] # "idle" /\ (pc'[q] \notin {"state", "list"} =>
                                pc[q] \notin {"state", "list"})
      BY <1>1
    <2>3. todo' = todo /\ unread' = unread /\ tree' = tree /\ current' = current
      BY DEF historyVars
    <2>4. QED
      BY <2>1, <2>2, <2>3 DEF IInv, SteadyIsTracked
  <1>4. QED
    BY <1>2, <1>3

LEMMA StateKeeps ==
    ASSUME IInv, NEW p \in Scanners, StateFromCache(p) \/ StateFromBackend(p)
    PROVE  IInv'
  <1>1. TypeOK'
    <2>1. CASE StateFromCache(p)
      <3>1. Cached \in SUBSET Secrets
        BY DEF IInv, TypeOK, Cached
      <3>2. QED
        BY <2>1, <3>1
           DEF IInv, TypeOK, StateFromCache, Goto, Places, historyVars
    <2>2. CASE StateFromBackend(p)
      <3>1. previous' \in [Scanners -> SUBSET Secrets]
        BY <2>2 DEF IInv, TypeOK, StateFromBackend
      <3>2. pc' \in [Scanners -> Places] /\ tidy' \in BOOLEAN
        BY <2>2 DEF IInv, TypeOK, StateFromBackend, Goto, Places
      <3>3. UNCHANGED <<tree, cache, todo, current, code, historyVars, open>>
        BY <2>2 DEF StateFromBackend
      <3>4. QED
        BY <3>1, <3>2, <3>3 DEF IInv, TypeOK, historyVars
    <2>3. QED
      BY <2>1, <2>2
  <1>2. TodoShrinks' /\ SteadyIsTracked'
    BY <1>1, ReadNothingKeeps
       DEF StateFromCache, StateFromBackend, Goto, Places
  <1>3. LedgerIsKept'
    BY DEF IInv, TypeOK, LedgerIsKept, Alone, Ledger, Cached, StateFromCache,
           StateFromBackend, Goto, Nothing
  <1>4. QED
    BY <1>1, <1>2, <1>3 DEF IInv

LEMMA DiscoverKeeps ==
    ASSUME IInv, NEW p \in Scanners, Discover(p)
    PROVE  IInv'
  <1>1. PICK list \in SUBSET Files \ {{}} :
           /\ todo' = [todo EXCEPT ![p] = list]
           /\ unread' = [unread EXCEPT ![p] = Files \ list]
    BY DEF Discover
  <1>2. TypeOK'
    BY <1>1 DEF IInv, TypeOK, Discover, Goto, Places
  <1>3. TodoShrinks'
    BY <1>1 DEF IInv, TypeOK, TodoShrinks, Discover, Goto
  <1>4. SteadyIsTracked'
    BY <1>1 DEF IInv, TypeOK, SteadyIsTracked, Steady, AllSecrets, Discover, Goto
  <1>5. LedgerIsKept'
    BY DEF IInv, TypeOK, LedgerIsKept, Alone, Ledger, Cached, Discover, Goto,
           Nothing
  <1>6. QED
    BY <1>2, <1>3, <1>4, <1>5 DEF IInv

LEMMA FileKeeps ==
    ASSUME IInv, NEW p \in Scanners, NEW f \in Files,
           ScanFile(p, f) \/ SkipFile(p, f)
    PROVE  IInv'
  <1> USE DEF Done
  <1>1. TypeOK'
    BY DEF IInv, TypeOK, ScanFile, SkipFile
  <1>2. TodoShrinks'
    BY DEF IInv, TypeOK, TodoShrinks, ScanFile, SkipFile
  <1>3. SteadyIsTracked'
    <2>1. CASE ScanFile(p, f)
      BY <2>1 DEF IInv, TypeOK, SteadyIsTracked, Steady, AllSecrets, ScanFile
    <2>2. CASE SkipFile(p, f)
      BY <2>2 DEF IInv, TypeOK, SteadyIsTracked, Steady, AllSecrets, SkipFile
    <2>3. QED
      BY <2>1, <2>2
  <1>4. LedgerIsKept'
    BY DEF IInv, TypeOK, LedgerIsKept, Alone, Ledger, Cached, ScanFile, SkipFile
  <1>5. QED
    BY <1>1, <1>2, <1>3, <1>4 DEF IInv

LEMMA EndScanKeeps ==
    ASSUME IInv, NEW p \in Scanners, EndScan(p)
    PROVE  IInv'
  <1>1. TypeOK'
    BY DEF IInv, TypeOK, EndScan, Goto, Places, runVars, historyVars
  <1>2. TodoShrinks' /\ SteadyIsTracked'
    BY <1>1, ReadNothingKeeps DEF EndScan, Places, runVars
  <1>3. LedgerIsKept'
    BY DEF IInv, TypeOK, LedgerIsKept, Alone, Ledger, Cached, EndScan, Goto,
           Nothing, runVars
  <1>4. QED
    BY <1>1, <1>2, <1>3 DEF IInv

LEMMA ReportKeeps ==
    ASSUME IInv, NEW p \in Scanners, Report(p)
    PROVE  IInv'
  <1>1. TypeOK'
    BY DEF IInv, TypeOK, Report, Goto, Places, New, Fixed, runVars, historyVars
  <1>2. TodoShrinks' /\ SteadyIsTracked'
    BY <1>1, ReadNothingKeeps DEF Report, Places, runVars
  <1>3. LedgerIsKept'
    <2>1. tidy => open' = current[p]
      BY DEF IInv, LedgerIsKept, Ledger, Report, New, Fixed
    <2>2. QED
      BY <2>1 DEF IInv, TypeOK, LedgerIsKept, Alone, Ledger, Report, Goto, Nothing,
                  runVars
  <1>4. QED
    BY <1>1, <1>2, <1>3 DEF IInv

LEMMA SaveKeeps ==
    ASSUME IInv, NEW p \in Scanners, OpenCache(p) \/ WriteCache(p) \/ SaveFails(p)
    PROVE  IInv'
  <1>1. TypeOK'
    BY DEF IInv, TypeOK, OpenCache, WriteCache, SaveFails, Goto, Places, runVars,
           historyVars
  <1>2. TodoShrinks' /\ SteadyIsTracked'
    BY <1>1, ReadNothingKeeps
       DEF OpenCache, WriteCache, SaveFails, Goto, Places, runVars
  <1>3. LedgerIsKept'
    <2>1. CASE OpenCache(p)
      BY <2>1 DEF IInv, TypeOK, LedgerIsKept, Alone, Ledger, Cached, OpenCache,
                  Goto, Nothing, runVars
    <2>2. CASE WriteCache(p)
      <3>1. tidy => cache' = current[p] /\ cache' # NoCache
        BY <2>2 DEF IInv, TypeOK, LedgerIsKept, Ledger, WriteCache
      <3>2. QED
        BY <2>2, <3>1 DEF IInv, TypeOK, LedgerIsKept, Alone, Ledger, Cached,
                          WriteCache, Goto, Nothing, runVars
    <2>3. CASE SaveFails(p)
      BY <2>3 DEF SaveFails, LedgerIsKept
    <2>4. QED
      BY <2>1, <2>2, <2>3
  <1>4. QED
    BY <1>1, <1>2, <1>3 DEF IInv

LEMMA NextKeeps == IInv /\ [Next]_vars => IInv'
  <1> SUFFICES ASSUME IInv, [Next]_vars
               PROVE  IInv'
    OBVIOUS
  <1>1. ASSUME NEW f \in Files, Edit(f)
        PROVE  IInv'
    BY <1>1, EditKeeps
  <1>2. ASSUME NEW p \in Scanners, Start(p)
        PROVE  IInv'
    BY <1>2, StartKeeps
  <1>3. ASSUME NEW p \in Scanners, Run(p)
        PROVE  IInv'
    <2>1. CASE RulesFail(p) \/ NothingToScan(p) \/ DiscoveryFails(p) \/ Return(p)
      <3>1. /\ UNCHANGED <<tree, cache, open, tidy>>
            /\ tidy' \in BOOLEAN
            /\ pc[p] \in {"state", "list", "exit"}
        BY <2>1 DEF IInv, TypeOK, RulesFail, NothingToScan, DiscoveryFails, Return
      <3>2. \E c \in -1..2 : Exit(p, c)
        BY <2>1 DEF RulesFail, NothingToScan, DiscoveryFails, Return
      <3>3. QED
        BY <3>1, <3>2, ExitKeeps
    <2>2. CASE \E f \in Files : ScanFile(p, f) \/ SkipFile(p, f)
      BY <2>2, FileKeeps
    <2>3. QED
      BY <1>3, <2>1, <2>2, StateKeeps, DiscoverKeeps, EndScanKeeps, ReportKeeps,
         SaveKeeps DEF Run
  <1>4. ASSUME NEW p \in Scanners, Kill(p)
        PROVE  IInv'
    <2>1. UNCHANGED <<tree, cache, open>> /\ ~tidy' /\ tidy' \in BOOLEAN
      BY <1>4 DEF Kill
    <2>2. \E c \in -1..2 : Exit(p, c)
      BY <1>4 DEF Kill
    <2>3. QED
      BY <2>1, <2>2, ExitKeeps
  <1>5. CASE UNCHANGED vars
    BY <1>5 DEF vars, runVars, historyVars, IInv, TypeOK, TodoShrinks, SteadyIsTracked,
                Steady, AllSecrets, LedgerIsKept, Alone, Ledger, Cached
  <1>6. QED
    BY <1>1, <1>2, <1>3, <1>4, <1>5 DEF Next

(* In every state: the types, what a run knows of the files it has read,   *)
(* and that the cache is what is counted and still open.                   *)
THEOREM Invariance == Spec => []IInv
  BY InitHolds, NextKeeps, PTL DEF Spec

(* Only the report step reports.                                           *)
LEMMA ReportsIsReport ==
    ASSUME IInv, [Next]_vars, NEW p \in Scanners, Reports(p)
    PROVE  todo[p] = {} /\ pc[p] = "report"
  BY DEF IInv, TodoShrinks, Reports

(* However the files are edited during the scan, a run that reads them all *)
(* counts no secret as fixed that was there all the time.                  *)
THEOREM FixedSecretsHaveCause == Spec => FixedHasCause
  <1>1. IInv /\ [Next]_vars =>
            [\A p \in Scanners :
                Reports(p) /\ unread[p] = {} => Fixed(p) \cap Steady(p) = {}]_vars
    <2> SUFFICES ASSUME IInv, [Next]_vars, NEW p \in Scanners, Reports(p),
                        unread[p] = {}
                 PROVE  Fixed(p) \cap Steady(p) = {}
      OBVIOUS
    <2>1. todo[p] = {} /\ pc[p] = "report"
      BY ReportsIsReport
    <2>2. \A s \in Steady(p) : s \in current[p]
      BY <2>1 DEF IInv, SteadyIsTracked, AllSecrets
    <2>3. QED
      BY <2>2 DEF Fixed
  <1>2. QED
    BY <1>1, Invariance, PTL DEF Spec, FixedHasCause

(* The exit code is there only once the process has ended.                 *)
RunHasNoCode == \A p \in Scanners : pc[p] # "idle" => code[p] = -1

LEMMA RunHasNoCodeKept ==
    ASSUME IInv, RunHasNoCode, [Next]_vars
    PROVE  RunHasNoCode'
  <1>1. ASSUME NEW p \in Scanners, NEW c, Exit(p, c)
        PROVE  RunHasNoCode'
    BY <1>1 DEF IInv, TypeOK, RunHasNoCode, Exit, Goto
  <1>2. ASSUME NEW p \in Scanners, NEW label, Goto(p, label), pc[p] # "idle",
               code' = code
        PROVE  RunHasNoCode'
    BY <1>2 DEF IInv, TypeOK, RunHasNoCode, Goto
  <1>3. ASSUME NEW p \in Scanners, Start(p)
        PROVE  RunHasNoCode'
    BY <1>3 DEF IInv, TypeOK, RunHasNoCode, Start, Goto
  <1>4. CASE pc' = pc /\ code' = code
    BY <1>4 DEF RunHasNoCode
  <1>5. ASSUME NEW p \in Scanners, Run(p)
        PROVE  RunHasNoCode'
    <2>1. CASE RulesFail(p) \/ NothingToScan(p) \/ DiscoveryFails(p) \/ Return(p)
      BY <2>1, <1>1 DEF RulesFail, NothingToScan, DiscoveryFails, Return
    <2>2. CASE \E f \in Files : ScanFile(p, f) \/ SkipFile(p, f)
      BY <2>2, <1>4 DEF ScanFile, SkipFile, Done
    <2>3. CASE \/ StateFromCache(p) \/ StateFromBackend(p) \/ Discover(p)
               \/ EndScan(p) \/ Report(p) \/ OpenCache(p) \/ WriteCache(p)
               \/ SaveFails(p)
      BY <2>3, <1>2 DEF StateFromCache, StateFromBackend, Discover, EndScan, Report,
                        OpenCache, WriteCache, SaveFails
    <2>4. QED
      BY <1>5, <2>1, <2>2, <2>3 DEF Run
  <1>6. QED
    BY <1>1, <1>3, <1>4, <1>5 DEF Next, Edit, Change, Kill, vars

LEMMA NoCodeWhileRunning == Spec => []RunHasNoCode
  <1>1. Init => RunHasNoCode
    BY DEF Init, RunHasNoCode, Nothing
  <1>2. IInv /\ RunHasNoCode /\ [Next]_vars => RunHasNoCode'
    BY RunHasNoCodeKept
  <1>3. QED
    BY <1>1, <1>2, Invariance, PTL DEF Spec

(* A process that has nothing left but to return gets 0 only by returning. *)
LEMMA ZeroIsReturn ==
    ASSUME IInv, RunHasNoCode, [Next]_vars, NEW p \in Scanners,
           pc[p] = "exit", code'[p] = 0
    PROVE  current[p] = {}
  <1>1. code[p] = -1
    BY DEF RunHasNoCode
  <1>2. ASSUME NEW q \in Scanners, q # p, NEW c, Exit(q, c)
        PROVE  FALSE
    BY <1>1, <1>2 DEF Exit, IInv, TypeOK
  <1>3. CASE code' = code
    BY <1>1, <1>3
  <1>4. ASSUME NEW q \in Scanners, Start(q)
        PROVE  FALSE
    BY <1>1, <1>4 DEF Start, IInv, TypeOK
  <1>5. ASSUME NEW q \in Scanners, Kill(q)
        PROVE  FALSE
    BY <1>1, <1>2, <1>5 DEF Kill, Exit, IInv, TypeOK
  <1>6. ASSUME NEW q \in Scanners, Run(q)
        PROVE  current[p] = {}
    <2>1. CASE RulesFail(q) \/ NothingToScan(q) \/ DiscoveryFails(q)
      BY <2>1, <1>2 DEF RulesFail, NothingToScan, DiscoveryFails
    <2>2. CASE Return(q)
      <3>1. q = p
        BY <2>2, <1>2 DEF Return
      <3>2. QED
        BY <2>2, <3>1 DEF Return, Exit, IInv, TypeOK
    <2>3. CASE \E f \in Files : ScanFile(q, f) \/ SkipFile(q, f)
      BY <2>3, <1>3 DEF ScanFile, SkipFile, Done
    <2>4. CASE \/ StateFromCache(q) \/ StateFromBackend(q) \/ Discover(q)
               \/ EndScan(q) \/ Report(q) \/ OpenCache(q) \/ WriteCache(q)
               \/ SaveFails(q)
      BY <2>4, <1>3 DEF StateFromCache, StateFromBackend, Discover, EndScan, Report,
                        OpenCache, WriteCache, SaveFails
    <2>5. QED
      BY <1>6, <2>1, <2>2, <2>3, <2>4 DEF Run
  <1>7. QED
    BY <1>3, <1>4, <1>5, <1>6 DEF Next, Edit, Change, vars

(* A run that reads all files and exits with 0 leaves no such secret.      *)
THEOREM ZeroIsClean == Spec => CleanExit
  <1>1. IInv /\ RunHasNoCode /\ [Next]_vars =>
            [\A p \in Scanners :
                pc[p] = "exit" /\ code'[p] = 0 /\ unread[p] = {}
                    => Steady(p) = {}]_vars
    <2> SUFFICES ASSUME IInv, RunHasNoCode, [Next]_vars, NEW p \in Scanners,
                        pc[p] = "exit", code'[p] = 0, unread[p] = {}
                 PROVE  Steady(p) = {}
      OBVIOUS
    <2>1. todo[p] = {}
      BY DEF IInv, TodoShrinks
    <2>2. \A s \in Steady(p) : s \in current[p]
      BY <2>1 DEF IInv, SteadyIsTracked, AllSecrets
    <2>3. current[p] = {}
      BY ZeroIsReturn
    <2>4. QED
      BY <2>2, <2>3
  <1>2. QED
    BY <1>1, Invariance, NoCodeWhileRunning, PTL DEF Spec, CleanExit

(* Over any sequence of local runs, secrets are counted as new and as      *)
(* fixed in turn.                                                          *)
THEOREM CountsAlternate == Spec => CountedInTurn
  <1>1. IInv /\ [Next]_vars =>
            [\A p \in Scanners :
                Reports(p) /\ tidy
                    => New(p) \cap open = {} /\ Fixed(p) \subseteq open]_vars
    BY DEF IInv, LedgerIsKept, Ledger, Reports, New, Fixed
  <1>2. QED
    BY <1>1, Invariance, PTL DEF Spec, CountedInTurn

(* Between such runs the cache is what is counted and still open.          *)
THEOREM CacheIsTheLedger == Spec => []CacheIsOpen
  <1>1. IInv => CacheIsOpen
    BY DEF IInv, LedgerIsKept, CacheIsOpen
  <1>2. QED
    BY <1>1, Invariance, PTL
=============================================================================
