------------------------------- MODULE Ingest -------------------------------
(***************************************************************************)
(* The findings of one repository in the backend and the three handlers    *)
(* that touch them: POST /events and GET /state (routers/cli.py) and the   *)
(* triage PATCH (routers/findings.py).  Requests interleave at every       *)
(* await, that is at every SQL statement.  Each has its own session and    *)
(* its own PostgreSQL connection (READ COMMITTED): statements see what is  *)
(* committed and what the transaction itself wrote, and a row with an      *)
(* uncommitted write makes other writers wait.                             *)
(*                                                                         *)
(* The session does not autoflush: what a handler assigns to an object is  *)
(* written at the next flush, and then only the columns that changed since *)
(* the object was loaded.  An UPDATE statement goes to the database at     *)
(* once, and the session forgets the columns it had pending for that row.  *)
(*                                                                         *)
(* A timestamp column is NULL or set; for rotated_at the value is the      *)
(* request that set it.  Of last_seen only that it is to be written is     *)
(* told: each found event gives it another value.  Metadata columns,       *)
(* history rows and the audit log are left out.  Hashes are numbers in the *)
(* order of their primary keys, which is the order of the UPDATEs of a     *)
(* flush.                                                                  *)
(***************************************************************************)
EXTENDS Naturals, Sequences, FiniteSets

CONSTANTS
    Hashes,       \* fingerprints that can occur
    Requests,     \* requests the model runs, each once
    Batches,      \* event batches the scanners may post
    Seeds,        \* rows the database may hold at the start
    None          \* no request

Repo == 0         \* the lock key of the repository row
Keys == Hashes \cup {Repo}

ASSUME IngestAssumption ==
    /\ Hashes \subseteq Nat \ {0}
    /\ IsFiniteSet(Hashes) /\ IsFiniteSet(Requests)
    /\ None \notin Requests

Status == {"active", "fixed", "ignored", "false_positive", "rotated"}
TriageStatus == Status \ {"fixed"}

Stamp == Requests \cup {None}

\* A row, or NoRow for the absence of one.
NoRow == [status |-> "none", fixedAt |-> FALSE, rotatedAt |-> None]
Row == [status: Status, fixedAt: BOOLEAN, rotatedAt: Stamp] \cup {NoRow}
NewRow == [status |-> "active", fixedAt |-> FALSE, rotatedAt |-> None]

Exists(row) == row.status # "none"

\* Variant: only the status is assigned.
ActivatedInPart(row) == [row EXCEPT !.status = "active"]

\* What a found event assigns to a known finding.
Activated(row) ==
    [status |-> "active", fixedAt |-> FALSE, rotatedAt |-> row.rotatedAt]

\* Variant: the UPDATE does not look at the status.
ClosableAny(row) == row.status \notin {"none", "fixed"}

\* What a removed event matches, and what it sets.
Closable(row) == row.status = "active"
Closed(row) ==
    [status |-> "fixed", fixedAt |-> TRUE, rotatedAt |-> row.rotatedAt]

\* Variant: rotated_at follows the status.
TriagedClearing(row, to, r) ==
    [status |-> to, fixedAt |-> row.fixedAt,
     rotatedAt |-> IF to = "rotated" THEN r ELSE None]

\* What triage assigns.
Triaged(row, to, r) ==
    [status |-> to, fixedAt |-> row.fixedAt,
     rotatedAt |-> IF to = "rotated" /\ row.rotatedAt = None THEN r
                                                             ELSE row.rotatedAt]

Event == [type: {"found", "removed"}, hash: Hashes]

ASSUME InputAssumption ==
    /\ Batches \subseteq Seq(Event)
    /\ Seeds \subseteq [Hashes -> Row]

Jobs == [kind: {"events"}, batch: Batches]
   \cup [kind: {"triage"}, hash: Hashes, to: TriageStatus]
   \cup [kind: {"state"}]
NoJob == [kind |-> "none"]

VARIABLES
    rows,         \* committed findings
    repo,         \* is the repository row committed
    wlock,        \* the transaction with an uncommitted write, per key
    pc,           \* where the handler of each request is
    job,          \* what the request asks for
    next,         \* index of the next event of the batch
    written,      \* hashes with an uncommitted write of the request
    buf,          \* the rows so written
    loaded,       \* hashes whose row is an object of the session
    old, cur,     \* that object: as loaded, as assigned since
    touched,      \* objects whose last_seen was assigned, not yet written
    pending,      \* objects added to the session, not yet inserted
    expired,      \* objects whose status the session has forgotten
    counts,       \* the counters of the response
    alone         \* history: no other request overlapped this one

dbVars == <<rows, repo, wlock>>
sessionVars == <<written, buf, loaded, old, cur, touched, pending, expired>>
vars == <<dbVars, pc, job, next, sessionVars, counts, alone>>

Finished == {"ok", "lost", "notfound", "conflict", "deadlock", "error"}
Running == {"repo", "mkrepo", "events", "read", "flush", "commit"}

NoCounts == [new |-> 0, updated |-> 0, fixed |-> 0]

TypeOK ==
    /\ rows \in [Hashes -> Row]
    /\ repo \in BOOLEAN
    /\ wlock \in [Keys -> Requests \cup {None}]
    /\ pc \in [Requests -> {"idle"} \cup Running \cup Finished]
    /\ job \in [Requests -> Jobs \cup {NoJob}]
    /\ next \in [Requests -> Nat \ {0}]
    /\ written \in [Requests -> SUBSET Hashes]
    /\ buf \in [Requests -> [Hashes -> Row]]
    /\ loaded \in [Requests -> SUBSET Hashes]
    /\ old \in [Requests -> [Hashes -> Row]]
    /\ cur \in [Requests -> [Hashes -> Row]]
    /\ touched \in [Requests -> SUBSET Hashes]
    /\ pending \in [Requests -> Seq(Hashes)]
    /\ expired \in [Requests -> SUBSET Hashes]
    /\ counts \in [Requests -> [new: Nat, updated: Nat, fixed: Nat]]
    /\ alone \in [Requests -> BOOLEAN]

NoRows == [h \in Hashes |-> NoRow]

Init ==
    /\ rows \in Seeds
    /\ repo = (\E h \in Hashes : Exists(rows[h]))
    /\ wlock = [k \in Keys |-> None]
    /\ pc = [r \in Requests |-> "idle"]
    /\ job = [r \in Requests |-> NoJob]
    /\ next = [r \in Requests |-> 1]
    /\ written = [r \in Requests |-> {}]
    /\ buf = [r \in Requests |-> NoRows]
    /\ loaded = [r \in Requests |-> {}]
    /\ old = [r \in Requests |-> NoRows]
    /\ cur = [r \in Requests |-> NoRows]
    /\ touched = [r \in Requests |-> {}]
    /\ pending = [r \in Requests |-> <<>>]
    /\ expired = [r \in Requests |-> {}]
    /\ counts = [r \in Requests |-> NoCounts]
    /\ alone = [r \in Requests |-> FALSE]

-----------------------------------------------------------------------------
(* The database as one transaction sees it.                                *)

View(r, h) == IF h \in written[r] THEN buf[r][h] ELSE rows[h]

RepoVisible(r) == repo \/ wlock[Repo] = r

\* Objects of the session with columns to write.
Dirty(r) == touched[r] \cup {h \in loaded[r] : cur[r][h] # old[r][h]}

EventAt(r) == job[r].batch[next[r]]

\* The key the next statement of r locks, if it writes one.  An UPDATE of a
\* row that is visibly not active matches nothing and does not wait.
NextKeys(r) ==
    {k \in Keys :
        \/ pc[r] = "mkrepo" /\ k = Repo
        \/ /\ pc[r] = "events"
           /\ job[r].kind = "events"
           /\ next[r] <= Len(job[r].batch)
           /\ EventAt(r) = [type |-> "removed", hash |-> k]
           /\ Closable(View(r, k))
        \/ /\ pc[r] = "flush"
           /\ k \in Dirty(r)
           /\ \A g \in Dirty(r) : k <= g
        \/ /\ pc[r] = "flush"
           /\ Dirty(r) = {} /\ pending[r] # <<>>
           /\ k = Head(pending[r])}

Blockers(r) == {wlock[k] : k \in NextKeys(r)} \ {None, r}

\* Variant: get_session does not roll back.
FinishOpen(r, answer) ==
    /\ pc' = [pc EXCEPT ![r] = answer]
    /\ UNCHANGED <<wlock, job, next, sessionVars, counts, alone>>

\* The transaction of r ends, its locks are released, its session is closed.
Finish(r, answer) ==
    /\ pc' = [pc EXCEPT ![r] = answer]
    /\ wlock' = [k \in Keys |-> IF wlock[k] = r THEN None ELSE wlock[k]]
    /\ job' = [job EXCEPT ![r] = NoJob]
    /\ next' = [next EXCEPT ![r] = 1]
    /\ written' = [written EXCEPT ![r] = {}]
    /\ buf' = [buf EXCEPT ![r] = NoRows]
    /\ loaded' = [loaded EXCEPT ![r] = {}]
    /\ old' = [old EXCEPT ![r] = NoRows]
    /\ cur' = [cur EXCEPT ![r] = NoRows]
    /\ touched' = [touched EXCEPT ![r] = {}]
    /\ pending' = [pending EXCEPT ![r] = <<>>]
    /\ expired' = [expired EXCEPT ![r] = {}]
    /\ counts' = [counts EXCEPT ![r] = NoCounts]
    /\ UNCHANGED alone

\* The handler raises: get_session rolls back and the answer is an error.
Fail(r, answer) == Finish(r, answer) /\ UNCHANGED <<rows, repo>>

Goto(r, label) == pc' = [pc EXCEPT ![r] = label]

-----------------------------------------------------------------------------
(* Arrival, and the repository row.                                        *)

Start(r, j) ==
    /\ pc[r] = "idle"
    /\ job' = [job EXCEPT ![r] = j]
    /\ Goto(r, IF j.kind = "triage" THEN "read" ELSE "repo")
    /\ alone' = [s \in Requests |->
                    IF s = r THEN \A q \in Requests : pc[q] \notin Running
                    ELSE alone[s] /\ pc[s] \notin Running]
    /\ UNCHANGED <<dbVars, next, sessionVars, counts>>

\* Variant: the repository is inserted without looking for it.
SelectRepoNever(r) ==
    /\ pc[r] = "repo"
    /\ Goto(r, "mkrepo")
    /\ UNCHANGED <<dbVars, job, next, sessionVars, counts, alone>>

\* _get_or_create_repo: SELECT ...
SelectRepo(r) ==
    /\ pc[r] = "repo"
    /\ Goto(r, IF RepoVisible(r) THEN "events" ELSE "mkrepo")
    /\ UNCHANGED <<dbVars, job, next, sessionVars, counts, alone>>

\* ... and, in another statement, INSERT: uq_repo_org_name may refuse it.
InsertRepo(r) ==
    /\ pc[r] = "mkrepo"
    /\ Blockers(r) = {}
    /\ \/ /\ repo
          /\ Fail(r, "conflict")
       \/ /\ ~repo
          /\ wlock' = [wlock EXCEPT ![Repo] = r]
          /\ Goto(r, "events")
          /\ UNCHANGED <<rows, repo, job, next, sessionVars, counts, alone>>

-----------------------------------------------------------------------------
(* POST /events.                                                           *)

AtEvent(r, type) ==
    /\ pc[r] = "events"
    /\ job[r].kind = "events"
    /\ next[r] <= Len(job[r].batch)
    /\ EventAt(r).type = type

Count(r, counter) == counts' = [counts EXCEPT ![r][counter] = @ + 1]

\* The object the SELECT of _upsert_finding yields: the one the session holds
\* already, or the row.
Fetched(r, h) == IF h \in loaded[r] THEN cur[r][h] ELSE View(r, h)

\* _upsert_finding of a hash with a row: the object becomes active again, and
\* whatever it was its last_seen is new.
FoundKnown(r) ==
    /\ AtEvent(r, "found")
    /\ LET h == EventAt(r).hash IN
       /\ Exists(View(r, h))
       /\ loaded' = [loaded EXCEPT ![r] = @ \cup {h}]
       /\ old' = [old EXCEPT ![r][h] = IF h \in loaded[r] THEN @ ELSE View(r, h)]
       /\ cur' = [cur EXCEPT ![r][h] = Activated(Fetched(r, h))]
       /\ touched' = [touched EXCEPT ![r] = @ \cup {h}]
       /\ expired' = [expired EXCEPT ![r] = @ \ {h}]
    /\ Count(r, "updated")
    /\ next' = [next EXCEPT ![r] = @ + 1]
    /\ UNCHANGED <<dbVars, pc, job, written, buf, pending, alone>>

\* Variant: a fingerprint is added once per batch, but counted each time.
FoundNewOnce(r) ==
    /\ AtEvent(r, "found")
    /\ LET h == EventAt(r).hash IN
       /\ ~Exists(View(r, h))
       /\ pending' = IF \E i \in 1..Len(pending[r]) : pending[r][i] = h
                     THEN pending ELSE [pending EXCEPT ![r] = Append(@, h)]
    /\ Count(r, "new")
    /\ next' = [next EXCEPT ![r] = @ + 1]
    /\ UNCHANGED <<dbVars, pc, job, written, buf, loaded, old, cur, touched, expired,
                   alone>>

\* _upsert_finding of a hash without a row: a new object, not yet inserted.
FoundNew(r) ==
    /\ AtEvent(r, "found")
    /\ LET h == EventAt(r).hash IN
       /\ ~Exists(View(r, h))
       /\ pending' = [pending EXCEPT ![r] = Append(@, h)]
    /\ Count(r, "new")
    /\ next' = [next EXCEPT ![r] = @ + 1]
    /\ UNCHANGED <<dbVars, pc, job, written, buf, loaded, old, cur, touched, expired,
                   alone>>

\* The session forgets what it had pending for the columns an UPDATE wrote;
\* last_seen is not one of them, and stays to be written.
Forget(r, h) ==
    /\ loaded' = [loaded EXCEPT ![r] = @ \ {h}]
    /\ expired' = [expired EXCEPT ![r] = IF h \in loaded[r] THEN @ \cup {h} ELSE @]

\* _mark_finding_fixed of an active row.
RemovedActive(r) ==
    /\ AtEvent(r, "removed")
    /\ Blockers(r) = {}
    /\ LET h == EventAt(r).hash IN
       /\ Closable(View(r, h))
       /\ wlock' = [wlock EXCEPT ![h] = r]
       /\ written' = [written EXCEPT ![r] = @ \cup {h}]
       /\ buf' = [buf EXCEPT ![r][h] = Closed(View(r, h))]
       /\ Forget(r, h)
    /\ Count(r, "fixed")
    /\ next' = [next EXCEPT ![r] = @ + 1]
    /\ UNCHANGED <<rows, repo, pc, job, old, cur, touched, pending, alone>>

\* _mark_finding_fixed where no row matches.
RemovedOther(r) ==
    /\ AtEvent(r, "removed")
    /\ LET h == EventAt(r).hash IN
       /\ ~Closable(View(r, h))
       /\ Forget(r, h)
    /\ next' = [next EXCEPT ![r] = @ + 1]
    /\ UNCHANGED <<dbVars, pc, job, written, buf, old, cur, touched, pending, counts,
                   alone>>

\* The loop is over; the savepoint is released, which flushes.
EndOfBatch(r) ==
    /\ pc[r] = "events"
    /\ job[r].kind = "events"
    /\ next[r] > Len(job[r].batch)
    /\ Goto(r, "flush")
    /\ UNCHANGED <<dbVars, job, next, sessionVars, counts, alone>>

-----------------------------------------------------------------------------
(* The flush of a session, and the end of its transaction.                 *)

\* The columns of an object that changed since it was loaded, over the row.
Merge(base, was, is) ==
    [status    |-> IF is.status # was.status THEN is.status ELSE base.status,
     fixedAt   |-> IF is.fixedAt # was.fixedAt THEN is.fixedAt ELSE base.fixedAt,
     rotatedAt |-> IF is.rotatedAt # was.rotatedAt THEN is.rotatedAt
                                                   ELSE base.rotatedAt]

\* What the UPDATE of a flush makes of a row: of a forgotten object there is
\* only last_seen to write.
Updated(r, h) ==
    IF h \in loaded[r] THEN Merge(View(r, h), old[r][h], cur[r][h]) ELSE View(r, h)

FlushUpdate(r) ==
    /\ pc[r] = "flush"
    /\ Dirty(r) # {}
    /\ Blockers(r) = {}
    /\ \E h \in NextKeys(r) :
       /\ wlock' = [wlock EXCEPT ![h] = r]
       /\ written' = [written EXCEPT ![r] = @ \cup {h}]
       /\ buf' = [buf EXCEPT ![r][h] = Updated(r, h)]
       /\ old' = [old EXCEPT ![r][h] = cur[r][h]]
       /\ touched' = [touched EXCEPT ![r] = @ \ {h}]
    /\ UNCHANGED <<rows, repo, pc, job, next, loaded, cur, pending, expired,
                   counts, alone>>

\* An INSERT: uq_finding_repo_hash refuses a second row of the hash.
FlushInsert(r) ==
    /\ pc[r] = "flush"
    /\ Dirty(r) = {}
    /\ pending[r] # <<>>
    /\ Blockers(r) = {}
    /\ LET h == Head(pending[r]) IN
       \/ /\ Exists(View(r, h))
          /\ Fail(r, "conflict")
       \/ /\ ~Exists(View(r, h))
          /\ wlock' = [wlock EXCEPT ![h] = r]
          /\ written' = [written EXCEPT ![r] = @ \cup {h}]
          /\ buf' = [buf EXCEPT ![r][h] = NewRow]
          /\ pending' = [pending EXCEPT ![r] = Tail(@)]
          /\ UNCHANGED <<rows, repo, pc, job, next, loaded, old, cur, touched,
                         expired, counts, alone>>

\* evaluate_policies reads the findings of the batch; a policy that looks at a
\* forgotten column makes the handler fail.
Flushed(r) ==
    /\ pc[r] = "flush"
    /\ Dirty(r) = {} /\ pending[r] = <<>>
    /\ \/ /\ Goto(r, "commit")
          /\ UNCHANGED <<dbVars, job, next, sessionVars, counts, alone>>
       \/ /\ expired[r] # {}
          /\ Fail(r, "error")

\* The commit is done, and the answer reaches the client or does not.
Commit(r) ==
    /\ pc[r] = "commit"
    /\ rows' = [h \in Hashes |-> View(r, h)]
    /\ repo' = RepoVisible(r)
    /\ \E answer \in {"ok", "lost"} : Finish(r, answer)

-----------------------------------------------------------------------------
(* GET /state and triage.                                                  *)

\* The response is read; get_session commits, with the repository if it is new.
ReadState(r) ==
    /\ pc[r] = "events"
    /\ job[r].kind = "state"
    /\ Goto(r, "commit")
    /\ UNCHANGED <<dbVars, job, next, sessionVars, counts, alone>>

\* triage_finding: SELECT, then the assignments; the commit flushes them.
Triage(r) ==
    /\ pc[r] = "read"
    /\ job[r].kind = "triage"
    /\ LET h == job[r].hash
           row == rows[h] IN
       \/ /\ ~Exists(row)
          /\ Fail(r, "notfound")
       \/ /\ Exists(row)
          /\ loaded' = [loaded EXCEPT ![r] = {h}]
          /\ old' = [old EXCEPT ![r][h] = row]
          /\ cur' = [cur EXCEPT ![r][h] = Triaged(row, job[r].to, r)]
          /\ Goto(r, "flush")
          /\ UNCHANGED <<dbVars, job, next, written, buf, touched, pending, expired,
                         counts, alone>>

-----------------------------------------------------------------------------
(* Failures.                                                               *)

Waits(r, s) == pc[r] \in Running /\ s \in Blockers(r)

InCycle(r) ==
    \E n \in 2..Cardinality(Requests) :
        \E c \in [1..n -> Requests] :
            c[1] = r /\ \A i \in 1..n : Waits(c[i], c[(i % n) + 1])

\* PostgreSQL picks one transaction of a cycle of waiting ones.
DeadlockVictim(r) == InCycle(r) /\ Fail(r, "deadlock")

\* The connection breaks, or the server process dies and is restarted.
Interrupted(r) ==
    /\ pc[r] \in Running
    /\ Fail(r, "error")

\* All requests of the model have been answered.
AllAnswered == (\A r \in Requests : pc[r] \in Finished) /\ UNCHANGED vars

Step(r) ==
    \/ SelectRepo(r)
    \/ InsertRepo(r)
    \/ FoundKnown(r)
    \/ FoundNew(r)
    \/ RemovedActive(r)
    \/ RemovedOther(r)
    \/ EndOfBatch(r)
    \/ FlushUpdate(r)
    \/ FlushInsert(r)
    \/ Flushed(r)
    \/ Commit(r)
    \/ ReadState(r)
    \/ Triage(r)
    \/ DeadlockVictim(r)

Next ==
    \/ \E r \in Requests :
        \/ \E j \in Jobs : Start(r, j)
        \/ Step(r)
        \/ Interrupted(r)
    \/ AllAnswered

Spec == Init /\ [][Next]_vars

\* The event loop runs every handler whose statement the database answers.
FairSpec == Spec /\ \A r \in Requests : WF_vars(Step(r))

-----------------------------------------------------------------------------
(* Properties.                                                             *)

\* Of two transactions at most one has written a row it has not committed.
OneWriter == \A r \in Requests : \A h \in written[r] : wlock[h] = r

\* What a transaction read or wrote is there, and stays.
KnownRowsExist ==
    \A r \in Requests :
        /\ \A h \in loaded[r] : Exists(rows[h]) /\ Exists(cur[r][h])
        /\ \A h \in touched[r] : Exists(rows[h])
        /\ \A h \in written[r] : Exists(buf[r][h])

\* Before the flush a transaction has written nothing but closed findings.
ClosesBeforeFlush ==
    \A r \in Requests : pc[r] \notin {"flush", "commit"} =>
        \A h \in written[r] : buf[r][h].status = "fixed"

\* A transaction that is about to close a finding holds it active or closed.
ClosesOnlyActive ==
    \A r \in Requests : \A h \in written[r] :
        buf[r][h].status = "fixed" => rows[h].status \in {"active", "fixed"}

\* No handler assigns FIXED to an object.
NeverAssignsFixed ==
    \A r \in Requests : \A h \in loaded[r] :
        cur[r][h].status # "fixed" \/ cur[r][h] = old[r][h]

\* No handler takes a rotation back, in an object or in an uncommitted row.
KeepsRotation ==
    \A r \in Requests :
        /\ \A h \in loaded[r] :
               cur[r][h].rotatedAt = None => old[r][h].rotatedAt = None
        /\ \A h \in written[r] :
               buf[r][h].rotatedAt = None => rows[h].rotatedAt = None

\* What holds of every state, and of every step from a state where it holds.
IInv ==
    /\ TypeOK
    /\ OneWriter
    /\ KnownRowsExist
    /\ ClosesBeforeFlush
    /\ ClosesOnlyActive
    /\ NeverAssignsFixed
    /\ KeepsRotation

Commits(r) == pc[r] = "commit" /\ pc'[r] \in {"ok", "lost"}

\* The counters of a response, which also fire the webhooks, agree with what
\* its commit did, whatever ran beside it: new_findings is the number of rows
\* that came to exist, and no finding turned fixed without being counted.
ResponseCountsCommit ==
    [][\A r \in Requests : Commits(r) =>
        /\ Cardinality({h \in Hashes : ~Exists(rows[h]) /\ Exists(rows'[h])})
              = counts[r].new
        /\ Cardinality({h \in Hashes : /\ rows[h].status # "fixed"
                                       /\ rows'[h].status = "fixed"})
              <= counts[r].fixed]_vars

\* A scan that no longer sees a secret closes only an active finding: one that
\* was triaged (ignored, false positive, rotated) never turns fixed, not even
\* when the triage and the removal race (_mark_finding_fixed's status test).
OnlyActiveIsFixed ==
    [][\A h \in Hashes :
        rows'[h].status = "fixed" /\ rows[h].status # "fixed"
            => rows[h].status = "active"]_vars

\* No later scan or triage erases that a secret was rotated.
RotationKept ==
    [][\A h \in Hashes :
        rows[h].rotatedAt # None => rows'[h].rotatedAt # None]_vars

LastEvent(b, h) ==
    LET at == {i \in 1..Len(b) : b[i].hash = h}
    IN b[CHOOSE i \in at : \A j \in at : j <= i].type

\* What a batch promises when nothing runs beside it: the last event of a
\* fingerprint decides, except that a removal does not reach a finding that
\* the same batch adds.
LastEventDecides ==
    [][\A r \in Requests :
        Commits(r) /\ alone[r] /\ job[r].kind = "events" =>
            \A i \in 1..Len(job[r].batch) :
                LET h == job[r].batch[i].hash IN
                IF LastEvent(job[r].batch, h) = "found"
                THEN rows'[h].status = "active" /\ ~rows'[h].fixedAt
                ELSE rows'[h].status # "active" \/ ~Exists(rows[h])]_vars

Repeats(b) ==
    \E i, j \in 1..Len(b) :
        i < j /\ b[i] = b[j] /\ b[i].type = "found"

\* A unique constraint refuses a batch only because of a racing request or a
\* batch that reports one fingerprint twice.
ConflictHasCause ==
    [][\A r \in Requests :
        pc[r] # "conflict" /\ pc'[r] = "conflict" /\ alone[r]
            => Repeats(job[r].batch)]_vars

\* Every request is answered: waiting for a row ends by the owner's commit or
\* rollback, or by the database's choice of a victim.
EventuallyAnswered ==
    \A r \in Requests : pc[r] # "idle" ~> pc[r] \in Finished

\* "Upsert a finding" (cli.py:384): a batch that runs alone is not refused for
\* what it inserts.
UpsertNeverConflicts == \A r \in Requests : alone[r] => pc[r] # "conflict"

\* "Write-once: set rotated_at on first ROTATED transition only"
\* (findings.py:229).
RotatedOnce ==
    [][\A h \in Hashes :
        rows[h].rotatedAt # None => rows'[h].rotatedAt = rows[h].rotatedAt]_vars
=============================================================================
