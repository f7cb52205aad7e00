----------------------------- MODULE ScanState -----------------------------
(***************************************************************************)
(* Scanner runs over one working directory: which files a run looks at,    *)
(* what it finds while the files are being edited, the diff against the    *)
(* state of an earlier run, the cache file all runs share, and the exit    *)
(* code (src/src/main.rs, src/src/utils/state.rs).                         *)
(*                                                                         *)
(* A secret is its fingerprint, which does not depend on the file: the     *)
(* same secret in two files is one fingerprint.  A file is read at one     *)
(* instant; what its thread then does touches only its own process.  The   *)
(* telemetry a run sends is the subject of module Telemetry.               *)
(***************************************************************************)
EXTENDS Integers, FiniteSets

CONSTANTS
    Files,        \* files of the working directory
    Secrets,      \* fingerprints
    Scanners,     \* processes, each running the scanner again and again
    NoCache       \* no cache file, or one that does not parse

ASSUME ScanAssumption ==
    /\ IsFiniteSet(Files) /\ IsFiniteSet(Secrets)
    /\ \A S \in SUBSET Secrets : S # NoCache

VARIABLES
    tree,         \* the secrets in each file
    cache,        \* the content of .flashaudit_state.json
    pc,           \* where each process is
    todo,         \* files the run has still to scan
    previous,     \* previous_hashes
    current,      \* current_hashes
    code,         \* exit code of the last run, -1 before one and when killed
    absent,       \* history: secrets in no file at some moment of the run
    added,        \* history: secrets that came to some file during the run
    unread,       \* history: files the run did not read
    open,         \* history: secrets counted as new and not since as fixed
    tidy          \* history: runs were alone, local and left their state

runVars == <<todo, previous, current>>
historyVars == <<absent, added, unread>>
vars == <<tree, cache, pc, runVars, code, historyVars, open, tidy>>

Places == {"idle", "state", "list", "scan", "report", "save", "write", "exit"}

TypeOK ==
    /\ tree \in [Files -> SUBSET Secrets]
    /\ cache \in {NoCache} \cup SUBSET Secrets
    /\ pc \in [Scanners -> Places]
    /\ todo \in [Scanners -> SUBSET Files]
    /\ previous \in [Scanners -> SUBSET Secrets]
    /\ current \in [Scanners -> SUBSET Secrets]
    /\ code \in [Scanners -> -1..2]
    /\ absent \in [Scanners -> SUBSET Secrets]
    /\ added \in [Scanners -> SUBSET Secrets]
    /\ unread \in [Scanners -> SUBSET Files]
    /\ open \in SUBSET Secrets
    /\ tidy \in BOOLEAN

Nothing(S) == [p \in Scanners |-> S]

Init ==
    /\ tree \in [Files -> SUBSET Secrets]
    /\ cache = NoCache
    /\ pc = Nothing("idle")
    /\ todo = Nothing({})
    /\ previous = Nothing({})
    /\ current = Nothing({})
    /\ code = Nothing(-1)
    /\ absent = Nothing({})
    /\ added = Nothing({})
    /\ unread = Nothing({})
    /\ open = {}
    /\ tidy = TRUE

Goto(p, label) == pc' = [pc EXCEPT ![p] = label]

\* The process ends; only the cache outlives it.
Exit(p, c) ==
    /\ Goto(p, "idle")
    /\ code' = [code EXCEPT ![p] = c]
    /\ todo' = [todo EXCEPT ![p] = {}]
    /\ previous' = [previous EXCEPT ![p] = {}]
    /\ current' = [current EXCEPT ![p] = {}]
    /\ absent' = [absent EXCEPT ![p] = {}]
    /\ added' = [added EXCEPT ![p] = {}]
    /\ unread' = [unread EXCEPT ![p] = {}]

-----------------------------------------------------------------------------
(* The developer.                                                          *)

AllSecrets(t) == UNION {t[f] : f \in Files}

\* What the running scans live through when the files become t.
Change(t) ==
    /\ tree' = t
    /\ absent' = [p \in Scanners |-> IF pc[p] = "idle" THEN {}
                     ELSE absent[p] \cup (Secrets \ AllSecrets(t))]
    /\ added' = [p \in Scanners |-> IF pc[p] = "idle" THEN {}
                    ELSE added[p] \cup UNION {t[f] \ tree[f] : f \in Files}]
    /\ UNCHANGED <<cache, pc, runVars, code, unread, open, tidy>>

Edit(f) ==
    \E S \in SUBSET Secrets : S # tree[f] /\ Change([tree EXCEPT ![f] = S])

-----------------------------------------------------------------------------
(* One run.                                                                *)

Start(p) ==
    /\ pc[p] = "idle"
    /\ Goto(p, "state")
    /\ code' = [code EXCEPT ![p] = -1]
    /\ absent' = [absent EXCEPT ![p] = Secrets \ AllSecrets(tree)]
    /\ tidy' = (tidy /\ \A q \in Scanners : pc[q] = "idle")
    /\ UNCHANGED <<tree, cache, runVars, added, unread, open>>

\* --rules names a file that does not load.
RulesFail(p) ==
    /\ pc[p] = "state"
    /\ Exit(p, 1)
    /\ UNCHANGED <<tree, cache, open, tidy>>

\* load_from, load_local_cache: nothing when there is no cache that parses.
Cached == IF cache = NoCache THEN {} ELSE cache

\* No --report-to, or a backend that does not answer: the cache.
StateFromCache(p) ==
    /\ pc[p] = "state"
    /\ previous' = [previous EXCEPT ![p] = Cached]
    /\ Goto(p, "list")
    /\ UNCHANGED <<tree, cache, todo, current, code, historyVars, open, tidy>>

\* --report-to: what the backend answers, or nothing without an API key.
StateFromBackend(p) ==
    /\ pc[p] = "state"
    /\ \E answer \in SUBSET Secrets : previous' = [previous EXCEPT ![p] = answer]
    /\ tidy' = FALSE
    /\ Goto(p, "list")
    /\ UNCHANGED <<tree, cache, todo, current, code, historyVars, open>>

\* The walk yields every file; --staged and --git-diff only what git lists.
Discover(p) ==
    /\ pc[p] = "list"
    /\ \E list \in SUBSET Files \ {{}} :
        /\ todo' = [todo EXCEPT ![p] = list]
        /\ unread' = [unread EXCEPT ![p] = Files \ list]
    /\ Goto(p, "scan")
    /\ UNCHANGED <<tree, cache, previous, current, code, absent, added, open, tidy>>

\* Variant: an empty list leaves an empty state behind.
NothingToScanSaved(p) ==
    /\ pc[p] = "list"
    /\ Exit(p, 0)
    /\ cache' = {}
    /\ UNCHANGED <<tree, open, tidy>>

\* An empty list ends the run at once.
NothingToScan(p) ==
    /\ pc[p] = "list"
    /\ Exit(p, 0)
    /\ UNCHANGED <<tree, cache, open, tidy>>

DiscoveryFails(p) ==
    /\ pc[p] = "list"
    /\ Exit(p, 2)
    /\ UNCHANGED <<tree, cache, open, tidy>>

Done(p, f) ==
    /\ pc[p] = "scan"
    /\ f \in todo[p]
    /\ todo' = [todo EXCEPT ![p] = @ \ {f}]
    /\ UNCHANGED <<tree, cache, pc, previous, code, absent, added, open, tidy>>

\* Variant: a secret that the state already knows is not tracked again.
ScanFileNewOnly(p, f) ==
    /\ Done(p, f)
    /\ current' = [current EXCEPT ![p] = @ \cup (tree[f] \ previous[p])]
    /\ UNCHANGED unread

\* A file is read and every secret in it is tracked.
ScanFile(p, f) ==
    /\ Done(p, f)
    /\ current' = [current EXCEPT ![p] = @ \cup tree[f]]
    /\ UNCHANGED unread

\* Too large, binary, not UTF-8, unreadable or gone: skipped.
SkipFile(p, f) ==
    /\ Done(p, f)
    /\ unread' = [unread EXCEPT ![p] = @ \cup {f}]
    /\ UNCHANGED current

EndScan(p) ==
    /\ pc[p] = "scan"
    /\ todo[p] = {}
    /\ Goto(p, "report")
    /\ UNCHANGED <<tree, cache, runVars, code, historyVars, open, tidy>>

\* get_fixed and get_new.
Fixed(p) == previous[p] \ current[p]
New(p) == current[p] \ previous[p]

Report(p) ==
    /\ pc[p] = "report"
    /\ open' = (open \cup New(p)) \ Fixed(p)
    /\ Goto(p, "save")
    /\ UNCHANGED <<tree, cache, runVars, code, historyVars, tidy>>

\* save: fs::write opens the cache file for writing, which empties it ...
OpenCache(p) ==
    /\ pc[p] = "save"
    /\ cache' = NoCache
    /\ Goto(p, "write")
    /\ UNCHANGED <<tree, runVars, code, historyVars, open, tidy>>

\* Variant: the hashes of the earlier runs are kept.
WriteCacheMerged(p) ==
    /\ pc[p] = "write"
    /\ cache' = previous[p] \cup current[p]
    /\ Goto(p, "exit")
    /\ UNCHANGED <<tree, runVars, code, historyVars, open, tidy>>

\* ... and writes the hashes; over those of a concurrent run, which were
\* written meanwhile, the longer tail may stay and spoil the file.
WriteCache(p) ==
    /\ pc[p] = "write"
    /\ cache' \in {current[p]} \cup (IF cache = NoCache THEN {} ELSE {NoCache})
    /\ Goto(p, "exit")
    /\ UNCHANGED <<tree, runVars, code, historyVars, open, tidy>>

\* Either fails; main goes on.
SaveFails(p) ==
    /\ pc[p] \in {"save", "write"}
    /\ Goto(p, "exit")
    /\ tidy' = FALSE
    /\ UNCHANGED <<tree, cache, runVars, code, historyVars, open>>

\* Variant: the exit code tells of new secrets only.
ReturnOfNew(p) ==
    /\ pc[p] = "exit"
    /\ Exit(p, IF New(p) = {} THEN 0 ELSE 1)
    /\ UNCHANGED <<tree, cache, open, tidy>>

\* The summary and the report are printed; 1 if there are vulnerabilities.
Return(p) ==
    /\ pc[p] = "exit"
    /\ Exit(p, IF current[p] = {} THEN 0 ELSE 1)
    /\ UNCHANGED <<tree, cache, open, tidy>>

\* The developer or the CI kills the run.
Kill(p) ==
    /\ pc[p] # "idle"
    /\ Exit(p, -1)
    /\ tidy' = FALSE
    /\ UNCHANGED <<tree, cache, open>>

Run(p) ==
    \/ RulesFail(p)
    \/ StateFromCache(p)
    \/ StateFromBackend(p)
    \/ Discover(p)
    \/ NothingToScan(p)
    \/ DiscoveryFails(p)
    \/ \E f \in Files : ScanFile(p, f) \/ SkipFile(p, f)
    \/ EndScan(p)
    \/ Report(p)
    \/ OpenCache(p)
    \/ WriteCache(p)
    \/ SaveFails(p)
    \/ Return(p)

Next ==
    \/ \E f \in Files : Edit(f)
    \/ \E p \in Scanners : Start(p) \/ Run(p) \/ Kill(p)

Spec == Init /\ [][Next]_vars

-----------------------------------------------------------------------------
(* Properties.                                                             *)

\* Secrets that sat in some file from the first moment of the run on and were
\* not put into another one meanwhile.
Steady(p) == Secrets \ (absent[p] \cup added[p])

Reports(p) == pc[p] = "report" /\ pc'[p] = "save"

\* Files may be edited while they are scanned: a run that reads every file
\* never counts as fixed a secret that was there all the time, unless it was
\* copied or moved about during the scan (main.rs:317).
FixedHasCause ==
    [][\A p \in Scanners :
        Reports(p) /\ unread[p] = {} => Fixed(p) \cap Steady(p) = {}]_vars

\* A run that reads every file and exits with 0 leaves no secret behind that
\* was there all the time, known from an earlier run or not (main.rs:362).
CleanExit ==
    [][\A p \in Scanners :
        pc[p] = "exit" /\ code'[p] = 0 /\ unread[p] = {} => Steady(p) = {}]_vars

\* Over any sequence of local runs, full, staged or by diff, with files that
\* do not load or none at all, a secret is counted as new once, then as fixed
\* once, and so on: the cache is exactly what is counted and still open.
CountedInTurn ==
    [][\A p \in Scanners :
        Reports(p) /\ tidy => New(p) \cap open = {} /\ Fixed(p) \subseteq open]_vars

\* ... because between runs the cache holds what is open.
CacheIsOpen == tidy /\ pc = Nothing("idle") => Cached = open

\* The files of the list are read or skipped, one by one.
TodoShrinks ==
    \A p \in Scanners :
        pc[p] \notin {"idle", "state", "list", "scan"} => todo[p] = {}

\* A run has tracked the steady secrets of the files it has read.
SteadyIsTracked ==
    \A p \in Scanners : \A s \in Steady(p) :
        pc[p] # "idle" =>
            /\ s \in AllSecrets(tree)
            /\ pc[p] \notin {"state", "list"} =>
                   \A f \in Files \ (todo[p] \cup unread[p]) :
                       s \in tree[f] => s \in current[p]

\* What has been counted, step by step, while runs are alone and local.
Ledger(p) ==
    /\ pc[p] \in {"state", "list", "scan", "report", "exit"} => Cached = open
    /\ pc[p] \in {"list", "scan", "report"} => previous[p] = open
    /\ pc[p] \in {"save", "write"} => current[p] = open
    /\ pc[p] = "write" => cache = NoCache

Alone == \A p, q \in Scanners : pc[p] # "idle" /\ pc[q] # "idle" => p = q

LedgerIsKept ==
    tidy => /\ Alone
            /\ \A p \in Scanners : pc[p] # "idle" => Ledger(p)
            /\ pc = Nothing("idle") => Cached = open

\* What holds of every state, and of every step from a state where it holds.
IInv == TypeOK /\ TodoShrinks /\ SteadyIsTracked /\ LedgerIsKept

\* "Get hashes that were in previous state but not in current (fixed
\* secrets)" (state.rs:100): what is counted as fixed is in no file.
FixedIsGone ==
    [][\A p \in Scanners :
        Reports(p) /\ tidy => Fixed(p) \cap Steady(p) = {}]_vars
=============================================================================
