---------------------------- MODULE IngestProofs ----------------------------
(***************************************************************************)
(* What holds of the backend's findings for every set of fingerprints,     *)
(* requests and batches: IInv is inductive, and with it no commit closes a *)
(* finding that is not active or erases a rotation.  BatchInv, inductive   *)
(* over it, is about batches of any length: what a response counts, and    *)
(* what a batch does beside which nothing runs.  WaitInv is about locks:   *)
(* with it, some request can always go on, and none for ever.              *)
(***************************************************************************)
EXTENDS Ingest, FiniteSetTheorems, WellFoundedInduction, TLAPS

USE IngestAssumption, InputAssumption

(* The hash of the event a handler is at is one of the model's.            *)
LEMMA EventHash ==
    ASSUME TypeOK, NEW r \in Requests, NEW t, AtEvent(r, t)
    PROVE  EventAt(r).hash \in Hashes
  <1>1. job[r] \in Jobs \cup {NoJob} /\ job[r].kind = "events"
    BY DEF TypeOK, AtEvent
  <1>2. job[r].batch \in Batches
    BY <1>1 DEF Jobs, NoJob
  <1>3. next[r] \in 1..Len(job[r].batch)
    BY DEF TypeOK, AtEvent
  <1>4. EventAt(r) \in Event
    BY <1>2, <1>3 DEF EventAt
  <1>5. QED
    BY <1>4 DEF Event

(* What a transaction sees of a finding is a row.                          *)
LEMMA ViewIsRow ==
    ASSUME TypeOK, NEW r \in Requests, NEW h \in Hashes
    PROVE  View(r, h) \in Row
  <1>1. buf \in [Requests -> [Hashes -> Row]] /\ rows \in [Hashes -> Row]
    BY DEF TypeOK
  <1>2. buf[r] \in [Hashes -> Row]
    BY <1>1
  <1>3. buf[r][h] \in Row /\ rows[h] \in Row
    BY <1>1, <1>2
  <1>4. QED
    BY <1>3 DEF View

(* So are the objects of its session.                                      *)
LEMMA ObjectsAreRows ==
    ASSUME TypeOK, NEW r \in Requests, NEW h \in Hashes
    PROVE  old[r][h] \in Row /\ cur[r][h] \in Row
  <1>1. /\ old \in [Requests -> [Hashes -> Row]]
        /\ cur \in [Requests -> [Hashes -> Row]]
    BY DEF TypeOK
  <1>2. old[r] \in [Hashes -> Row] /\ cur[r] \in [Hashes -> Row]
    BY <1>1
  <1>3. QED
    BY <1>2

LEMMA RowsOfConstants == NoRow \in Row /\ NewRow \in Row /\ NoRows \in [Hashes -> Row]
  BY DEF NoRow, NewRow, NoRows, Row, Stamp, Status

(* A transaction that ends leaves nothing behind that the invariant speaks *)
(* of, whatever it committed.                                              *)
LEMMA FinishType ==
    ASSUME TypeOK, NEW r \in Requests, NEW a \in Finished, Finish(r, a),
           rows' \in [Hashes -> Row], repo' \in BOOLEAN
    PROVE  TypeOK'
  <1>1. NoJob \in Jobs \cup {NoJob} /\ NoCounts \in [new: Nat, updated: Nat, fixed: Nat]
    BY DEF NoCounts
  <1>2. <<>> \in Seq(Hashes) /\ {} \in SUBSET Hashes
    OBVIOUS
  <1>3. /\ pc' \in [Requests -> {"idle"} \cup Running \cup Finished]
        /\ wlock' \in [Keys -> Requests \cup {None}]
        /\ alone' \in [Requests -> BOOLEAN]
    BY DEF TypeOK, Finish
  <1>4. /\ job' \in [Requests -> Jobs \cup {NoJob}]
        /\ next' \in [Requests -> Nat \ {0}]
        /\ counts' \in [Requests -> [new: Nat, updated: Nat, fixed: Nat]]
    BY <1>1 DEF TypeOK, Finish
  <1>5. /\ written' \in [Requests -> SUBSET Hashes]
        /\ loaded' \in [Requests -> SUBSET Hashes]
        /\ touched' \in [Requests -> SUBSET Hashes]
        /\ expired' \in [Requests -> SUBSET Hashes]
        /\ pending' \in [Requests -> Seq(Hashes)]
    BY <1>2 DEF TypeOK, Finish
  <1>6. /\ buf' \in [Requests -> [Hashes -> Row]]
        /\ old' \in [Requests -> [Hashes -> Row]]
        /\ cur' \in [Requests -> [Hashes -> Row]]
    BY RowsOfConstants DEF TypeOK, Finish
  <1>7. QED
    BY <1>3, <1>4, <1>5, <1>6 DEF TypeOK

LEMMA FinishSessions ==
    ASSUME TypeOK, NEW r \in Requests, NEW a, Finish(r, a)
    PROVE  /\ written'[r] = {} /\ loaded'[r] = {} /\ touched'[r] = {}
           /\ \A s \in Requests \ {r} :
                  /\ written'[s] = written[s] /\ buf'[s] = buf[s]
                  /\ loaded'[s] = loaded[s] /\ old'[s] = old[s]
                  /\ cur'[s] = cur[s] /\ touched'[s] = touched[s]
  BY DEF TypeOK, Finish

LEMMA FailKeeps ==
    ASSUME IInv, NEW r \in Requests, NEW a \in Finished, Fail(r, a)
    PROVE  IInv'
  <1> USE DEF Fail
  <1>1. TypeOK'
    BY FinishType DEF IInv, TypeOK
  <1>2. OneWriter'
    BY DEF IInv, TypeOK, OneWriter, Finish, Keys
  <1>3. ClosesBeforeFlush' /\ ClosesOnlyActive'
    BY DEF IInv, TypeOK, ClosesBeforeFlush, ClosesOnlyActive, Finish
  <1>4. KnownRowsExist' /\ NeverAssignsFixed'
    BY DEF IInv, TypeOK, KnownRowsExist, NeverAssignsFixed, Finish
  <1>5. KeepsRotation'
    BY DEF IInv, TypeOK, KeepsRotation, Finish
  <1>6. QED
    BY <1>1, <1>2, <1>3, <1>4, <1>5 DEF IInv

(* Steps that touch neither the database nor a session.                    *)
LEMMA QuietKeeps ==
    ASSUME IInv, UNCHANGED <<dbVars, sessionVars>>, TypeOK',
           \A s \in Requests : pc[s] \in {"flush", "commit"} =>
               pc'[s] \in {"flush", "commit"}
    PROVE  IInv'
  BY DEF IInv, dbVars, sessionVars, OneWriter, KnownRowsExist,
         ClosesBeforeFlush, ClosesOnlyActive, NeverAssignsFixed, KeepsRotation

LEMMA GotoType ==
    ASSUME TypeOK, NEW r \in Requests, NEW l \in Running, Goto(r, l)
    PROVE  pc' \in [Requests -> {"idle"} \cup Running \cup Finished]
  BY DEF TypeOK, Goto

LEMMA CountType ==
    ASSUME TypeOK, NEW r \in Requests, NEW c \in {"new", "updated", "fixed"},
           Count(r, c)
    PROVE  counts' \in [Requests -> [new: Nat, updated: Nat, fixed: Nat]]
  <1>1. counts[r] \in [new: Nat, updated: Nat, fixed: Nat]
    BY DEF TypeOK
  <1>2. [counts[r] EXCEPT ![c] = @ + 1] \in [new: Nat, updated: Nat, fixed: Nat]
    BY <1>1
  <1>3. counts' = [counts EXCEPT ![r] = [counts[r] EXCEPT ![c] = @ + 1]]
    BY DEF Count, TypeOK
  <1>4. QED
    BY <1>2, <1>3 DEF TypeOK

-----------------------------------------------------------------------------
(* The actions, one by one.                                                *)

LEMMA StartKeeps ==
    ASSUME IInv, NEW r \in Requests, NEW j \in Jobs, Start(r, j)
    PROVE  IInv'
  <1>1. pc' \in [Requests -> {"idle"} \cup Running \cup Finished]
    <2>1. (IF j.kind = "triage" THEN "read" ELSE "repo") \in Running
      BY DEF Running
    <2>2. QED
      BY <2>1, GotoType DEF Start, IInv
  <1>2. TypeOK'
    BY <1>1 DEF IInv, TypeOK, Start, dbVars, sessionVars
  <1>3. QED
    BY <1>2, QuietKeeps DEF Start, Goto, IInv, TypeOK

LEMMA SelectRepoKeeps ==
    ASSUME IInv, NEW r \in Requests, SelectRepo(r)
    PROVE  IInv'
  <1>1. pc' \in [Requests -> {"idle"} \cup Running \cup Finished]
    <2>1. (IF RepoVisible(r) THEN "events" ELSE "mkrepo") \in Running
      BY DEF Running
    <2>2. QED
      BY <2>1, GotoType DEF SelectRepo, IInv
  <1>2. TypeOK'
    BY <1>1 DEF IInv, TypeOK, SelectRepo, dbVars, sessionVars
  <1>3. QED
    BY <1>2, QuietKeeps DEF SelectRepo, Goto, IInv, TypeOK

LEMMA InsertRepoKeeps ==
    ASSUME IInv, NEW r \in Requests, InsertRepo(r)
    PROVE  IInv'
  <1>1. CASE Fail(r, "conflict")
    BY <1>1, FailKeeps DEF Finished
  <1>2. CASE /\ wlock' = [wlock EXCEPT ![Repo] = r]
             /\ Goto(r, "events")
             /\ UNCHANGED <<rows, repo, job, next, sessionVars, counts, alone>>
    <2>1. pc' \in [Requests -> {"idle"} \cup Running \cup Finished]
      BY <1>2, GotoType DEF Running, IInv
    <2>2. TypeOK'
      BY <1>2, <2>1 DEF IInv, TypeOK, sessionVars, Keys
    <2>3. OneWriter'
      <3>1. \A h \in Hashes : wlock'[h] = wlock[h]
        BY <1>2 DEF IInv, TypeOK, Keys, Repo
      <3>2. QED
        BY <1>2, <3>1 DEF IInv, TypeOK, OneWriter, sessionVars
    <2>4. ClosesBeforeFlush'
      BY <1>2 DEF IInv, TypeOK, ClosesBeforeFlush, sessionVars, InsertRepo, Goto
    <2>5. /\ KnownRowsExist' /\ ClosesOnlyActive' /\ NeverAssignsFixed'
          /\ KeepsRotation'
      BY <1>2 DEF IInv, KnownRowsExist, ClosesOnlyActive, NeverAssignsFixed, KeepsRotation,
                  sessionVars
    <2>6. QED
      BY <2>2, <2>3, <2>4, <2>5 DEF IInv
  <1>3. QED
    BY <1>1, <1>2 DEF InsertRepo

LEMMA FoundKnownKeeps ==
    ASSUME IInv, NEW r \in Requests, FoundKnown(r)
    PROVE  IInv'
  <1> DEFINE h == EventAt(r).hash
  <1>1. h \in Hashes
    BY EventHash DEF FoundKnown, IInv
  <1>2. View(r, h) \in Row /\ Fetched(r, h) \in Row
    <2>1. View(r, h) \in Row
      BY <1>1, ViewIsRow DEF IInv
    <2>2. cur[r][h] \in Row
      BY <1>1, ObjectsAreRows DEF IInv
    <2>3. CASE h \in loaded[r]
      BY <2>1, <2>2, <2>3 DEF Fetched
    <2>4. CASE h \notin loaded[r]
      BY <2>1, <2>2, <2>4 DEF Fetched
    <2>5. QED
      BY <2>3, <2>4
  <1> DEFINE new == Activated(Fetched(r, h))
  <1>3. /\ new \in Row /\ Exists(new)
        /\ new.status = "active" /\ new.rotatedAt = Fetched(r, h).rotatedAt
    BY <1>2 DEF Activated, Row, NoRow, Status, Stamp, Exists
  <1> DEFINE was == IF h \in loaded[r] THEN old[r][h] ELSE View(r, h)
  <1>4. was \in Row
    <2>1. old[r][h] \in Row
      BY <1>1, ObjectsAreRows DEF IInv
    <2>2. CASE h \in loaded[r]
      BY <1>2, <2>1, <2>2
    <2>3. CASE h \notin loaded[r]
      BY <1>2, <2>1, <2>3
    <2>4. QED
      BY <2>2, <2>3
  <1>5. /\ loaded' = [loaded EXCEPT ![r] = loaded[r] \cup {h}]
        /\ old' = [old EXCEPT ![r] = [old[r] EXCEPT ![h] = was]]
        /\ cur' = [cur EXCEPT ![r] = [cur[r] EXCEPT ![h] = new]]
        /\ touched' = [touched EXCEPT ![r] = touched[r] \cup {h}]
        /\ expired' = [expired EXCEPT ![r] = expired[r] \ {h}]
        /\ UNCHANGED <<dbVars, pc, job, written, buf, pending, alone>>
    BY <1>1 DEF FoundKnown, IInv, TypeOK
  <1>6. counts' \in [Requests -> [new: Nat, updated: Nat, fixed: Nat]]
    BY CountType DEF FoundKnown, IInv
  <1>7. next' \in [Requests -> Nat \ {0}]
    BY DEF FoundKnown, IInv, TypeOK
  <1> HIDE DEF h, new, was
  <1>8. TypeOK'
    BY <1>1, <1>3, <1>4, <1>5, <1>6, <1>7 DEF IInv, TypeOK, dbVars
  <1>9. OneWriter' /\ ClosesBeforeFlush' /\ ClosesOnlyActive'
    BY <1>5 DEF IInv, OneWriter, ClosesBeforeFlush, ClosesOnlyActive, dbVars
  <1>10. NeverAssignsFixed'
    BY <1>1, <1>3, <1>5 DEF IInv, TypeOK, NeverAssignsFixed
  <1>11. KeepsRotation'
    <2>1. new.rotatedAt = None => was.rotatedAt = None
      BY <1>1, <1>3 DEF IInv, KeepsRotation, Fetched, was
    <2>2. QED
      BY <1>1, <1>5, <2>1 DEF IInv, TypeOK, KeepsRotation, dbVars
  <1>12. KnownRowsExist'
    <2>1. Exists(rows[h])
      <3>1. CASE h \in written[r]
        BY <1>1, <3>1 DEF IInv, ClosesBeforeFlush, ClosesOnlyActive, FoundKnown,
                          AtEvent, Exists
      <3>2. CASE h \notin written[r]
        BY <3>2 DEF FoundKnown, View, h
      <3>3. QED
        BY <3>1, <3>2
    <2>2. QED
      BY <1>1, <1>3, <1>5, <2>1 DEF IInv, TypeOK, KnownRowsExist, dbVars
  <1>13. QED
    BY <1>8, <1>9, <1>10, <1>11, <1>12 DEF IInv

LEMMA FoundNewKeeps ==
    ASSUME IInv, NEW r \in Requests, FoundNew(r)
    PROVE  IInv'
  <1> DEFINE h == EventAt(r).hash
  <1>1. h \in Hashes
    BY EventHash DEF FoundNew, IInv
  <1>2. counts' \in [Requests -> [new: Nat, updated: Nat, fixed: Nat]]
    BY CountType DEF FoundNew, IInv
  <1>3. next' \in [Requests -> Nat \ {0}]
    BY DEF FoundNew, IInv, TypeOK
  <1>4. pending' \in [Requests -> Seq(Hashes)]
    BY <1>1 DEF FoundNew, IInv, TypeOK
  <1>5. TypeOK'
    BY <1>2, <1>3, <1>4 DEF IInv, TypeOK, FoundNew, dbVars
  <1>6. QED
    BY <1>5 DEF IInv, FoundNew, OneWriter, KnownRowsExist, ClosesBeforeFlush,
                ClosesOnlyActive, NeverAssignsFixed, KeepsRotation, dbVars

(* A key without a blocker is free or already locked by the request.       *)
LEMMA Unblocked ==
    ASSUME TypeOK, NEW r \in Requests, Blockers(r) = {},
           NEW k \in Keys, k \in NextKeys(r)
    PROVE  wlock[k] \in {None, r}
  BY DEF Blockers

(* Locking an unblocked row for a write leaves every other writer its rows. *)
LEMMA LockKeeps ==
    ASSUME TypeOK, OneWriter, NEW r \in Requests, NEW h \in Hashes,
           wlock[h] \in {None, r},
           wlock' = [wlock EXCEPT ![h] = r],
           written' = [written EXCEPT ![r] = written[r] \cup {h}]
    PROVE  OneWriter'
  <1> SUFFICES ASSUME NEW s \in Requests, NEW g \in Hashes, g \in written'[s]
               PROVE  wlock'[g] = s
    BY DEF OneWriter, TypeOK
  <1>0. h \in Keys /\ g \in Keys
    BY DEF Keys
  <1>1. CASE g = h /\ s # r
    <2>1. wlock[h] = s
      BY <1>1 DEF OneWriter, TypeOK
    <2>2. QED
      BY <1>1, <2>1
  <1>2. CASE g = h /\ s = r
    BY <1>0, <1>2 DEF TypeOK
  <1>3. CASE g # h
    BY <1>0, <1>3 DEF OneWriter, TypeOK
  <1>4. QED
    BY <1>1, <1>2, <1>3

LEMMA ForgetType ==
    ASSUME TypeOK, NEW r \in Requests, NEW h \in Hashes, Forget(r, h)
    PROVE  /\ loaded' \in [Requests -> SUBSET Hashes]
           /\ expired' \in [Requests -> SUBSET Hashes]
           /\ \A s \in Requests : loaded'[s] \subseteq loaded[s]
  BY DEF Forget, TypeOK

LEMMA RemovedActiveKeeps ==
    ASSUME IInv, NEW r \in Requests, RemovedActive(r)
    PROVE  IInv'
  <1> DEFINE h == EventAt(r).hash
             row == View(r, h)
             closed == Closed(row)
  <1>1. h \in Hashes
    BY EventHash DEF RemovedActive, IInv
  <1>2. row \in Row /\ row.status = "active"
    BY <1>1, ViewIsRow DEF RemovedActive, IInv, Closable
  <1>3. /\ closed \in Row /\ Exists(closed)
        /\ closed.status = "fixed" /\ closed.rotatedAt = row.rotatedAt
    BY <1>2 DEF Closed, Row, NoRow, Status, Stamp, Exists
  <1>4. /\ wlock' = [wlock EXCEPT ![h] = r]
        /\ written' = [written EXCEPT ![r] = written[r] \cup {h}]
        /\ buf' = [buf EXCEPT ![r] = [buf[r] EXCEPT ![h] = closed]]
        /\ Forget(r, h)
        /\ UNCHANGED <<rows, repo, pc, job, old, cur, touched, pending, alone>>
    BY <1>1 DEF RemovedActive, IInv, TypeOK
  <1>5. counts' \in [Requests -> [new: Nat, updated: Nat, fixed: Nat]]
    BY CountType DEF RemovedActive, IInv
  <1>6. next' \in [Requests -> Nat \ {0}]
    BY DEF RemovedActive, IInv, TypeOK
  <1>7. wlock[h] \in {None, r}
    <2>1. AtEvent(r, "removed") /\ Blockers(r) = {}
      BY DEF RemovedActive
    <2>2. EventAt(r) = [type |-> "removed", hash |-> h]
      <3>1. job[r] \in Jobs \cup {NoJob} /\ job[r].kind = "events"
        BY DEF TypeOK, IInv, RemovedActive, AtEvent
      <3>2. job[r].batch \in Batches
        BY <3>1 DEF Jobs, NoJob
      <3>3. next[r] \in 1..Len(job[r].batch)
        BY DEF TypeOK, IInv, RemovedActive, AtEvent
      <3>4. EventAt(r) \in Event
        BY <3>2, <3>3 DEF EventAt
      <3>5. QED
        BY <3>4, <2>1 DEF Event, AtEvent
    <2>3. h \in NextKeys(r)
      BY <1>1, <1>2, <2>1, <2>2 DEF NextKeys, Keys, AtEvent, Closable
    <2>4. QED
      BY <1>1, <2>1, <2>3, Unblocked DEF IInv, Keys
  <1>8. \A s \in Requests : loaded'[s] \subseteq loaded[s]
    BY <1>1, <1>4, ForgetType DEF IInv
  <1>9. row.rotatedAt = None => rows[h].rotatedAt = None
    BY <1>1 DEF IInv, KeepsRotation, View
  <1>10. rows[h].status \in {"active", "fixed"}
    <2>1. CASE h \notin written[r]
      BY <1>2, <2>1 DEF View
    <2>2. CASE h \in written[r]
      BY <1>1, <1>2, <2>2
         DEF View, IInv, ClosesBeforeFlush, RemovedActive, AtEvent
    <2>3. QED
      BY <2>1, <2>2
  <1> HIDE DEF h, row, closed
  <1>11. TypeOK'
    BY <1>1, <1>3, <1>4, <1>5, <1>6, ForgetType DEF IInv, TypeOK, Keys
  <1>12. OneWriter'
    BY <1>1, <1>4, <1>7, LockKeeps DEF IInv
  <1>13. ClosesBeforeFlush' /\ ClosesOnlyActive'
    BY <1>1, <1>3, <1>4, <1>10
       DEF IInv, TypeOK, ClosesBeforeFlush, ClosesOnlyActive
  <1>14. KnownRowsExist' /\ NeverAssignsFixed'
    <2>1. KnownRowsExist'
      <3>1. ASSUME NEW s \in Requests, NEW g \in loaded'[s]
            PROVE  Exists(rows'[g]) /\ Exists(cur'[s][g])
        BY <1>4, <1>8 DEF IInv, KnownRowsExist
      <3>2. ASSUME NEW s \in Requests, NEW g \in written'[s]
            PROVE  Exists(buf'[s][g])
        BY <1>1, <1>3, <1>4 DEF IInv, TypeOK, KnownRowsExist
      <3>3. ASSUME NEW s \in Requests, NEW g \in touched'[s]
            PROVE  Exists(rows'[g])
        BY <1>4 DEF IInv, KnownRowsExist
      <3>4. QED
        BY <3>1, <3>2, <3>3 DEF KnownRowsExist
    <2>2. NeverAssignsFixed'
      BY <1>4, <1>8 DEF IInv, NeverAssignsFixed
    <2>3. QED
      BY <2>1, <2>2
  <1>15. KeepsRotation'
    <2>1. \A s \in Requests : \A g \in loaded'[s] :
              cur'[s][g].rotatedAt = None => old'[s][g].rotatedAt = None
      BY <1>4, <1>8 DEF IInv, KeepsRotation
    <2>2. ASSUME NEW s \in Requests, NEW g \in written'[s]
          PROVE  buf'[s][g].rotatedAt = None => rows'[g].rotatedAt = None
      <3>1. CASE s = r /\ g = h
        BY <1>1, <1>3, <1>4, <1>9, <3>1 DEF IInv, TypeOK
      <3>2. CASE s # r \/ g # h
        BY <1>1, <1>4, <3>2 DEF IInv, TypeOK, KeepsRotation
      <3>3. QED
        BY <3>1, <3>2
    <2>3. QED
      BY <2>1, <2>2 DEF KeepsRotation
  <1>16. QED
    BY <1>11, <1>12, <1>13, <1>14, <1>15 DEF IInv

LEMMA RemovedOtherKeeps ==
    ASSUME IInv, NEW r \in Requests, RemovedOther(r)
    PROVE  IInv'
  <1> DEFINE h == EventAt(r).hash
  <1>1. h \in Hashes
    BY EventHash DEF RemovedOther, IInv
  <1>2. /\ Forget(r, h)
        /\ next' \in [Requests -> Nat \ {0}]
        /\ UNCHANGED <<dbVars, pc, job, written, buf, old, cur, touched, pending,
                       counts, alone>>
    BY DEF RemovedOther, IInv, TypeOK
  <1> HIDE DEF h
  <1>3. TypeOK'
    BY <1>1, <1>2, ForgetType DEF IInv, TypeOK, dbVars
  <1>4. \A s \in Requests : loaded'[s] \subseteq loaded[s]
    BY <1>1, <1>2, ForgetType DEF IInv
  <1>5. QED
    BY <1>2, <1>3, <1>4
       DEF IInv, OneWriter, KnownRowsExist, ClosesBeforeFlush,
           ClosesOnlyActive, NeverAssignsFixed, KeepsRotation, dbVars

LEMMA EndOfBatchKeeps ==
    ASSUME IInv, NEW r \in Requests, EndOfBatch(r)
    PROVE  IInv'
  <1>1. pc' \in [Requests -> {"idle"} \cup Running \cup Finished]
    BY GotoType DEF EndOfBatch, IInv, Running
  <1>2. TypeOK'
    BY <1>1 DEF IInv, TypeOK, EndOfBatch, dbVars, sessionVars
  <1>3. QED
    BY <1>2, QuietKeeps DEF EndOfBatch, Goto, IInv, TypeOK

(* A flush writes a row that is a row, is not closed unless the row it     *)
(* updates is, and keeps a rotation.                                       *)
LEMMA MergeKeeps ==
    ASSUME NEW base \in Row, NEW was \in Row, NEW is \in Row,
           Exists(base), Exists(is), is.status # "fixed" \/ is = was,
           is.rotatedAt = None => was.rotatedAt = None
    PROVE  /\ Merge(base, was, is) \in Row /\ Exists(Merge(base, was, is))
           /\ Merge(base, was, is).status = "fixed" => base.status = "fixed"
           /\ Merge(base, was, is).rotatedAt = None => base.rotatedAt = None
  BY DEF Merge, Row, NoRow, Exists

(* So is what an UPDATE of a flush writes, merged or last_seen alone.      *)
LEMMA UpdatedKeeps ==
    ASSUME IInv, NEW r \in Requests, NEW h \in Dirty(r)
    PROVE  /\ h \in Hashes /\ h \in Keys
           /\ Updated(r, h) \in Row /\ Exists(Updated(r, h))
           /\ Updated(r, h).status = "fixed" => View(r, h).status = "fixed"
           /\ Updated(r, h).rotatedAt = None => View(r, h).rotatedAt = None
  <1>1. h \in loaded[r] \cup touched[r] /\ h \in Hashes /\ h \in Keys
    BY DEF Dirty, IInv, TypeOK, Keys
  <1>2. View(r, h) \in Row /\ old[r][h] \in Row /\ cur[r][h] \in Row
    BY <1>1, ViewIsRow, ObjectsAreRows DEF IInv
  <1>3. Exists(View(r, h))
    BY <1>1 DEF IInv, KnownRowsExist, View
  <1>4. CASE h \in loaded[r]
    <2>1. /\ cur[r][h].status # "fixed" \/ cur[r][h] = old[r][h]
          /\ cur[r][h].rotatedAt = None => old[r][h].rotatedAt = None
          /\ Exists(cur[r][h])
      BY <1>4 DEF IInv, NeverAssignsFixed, KeepsRotation, KnownRowsExist
    <2>2. Updated(r, h) = Merge(View(r, h), old[r][h], cur[r][h])
      BY <1>4 DEF Updated
    <2>3. QED
      BY <1>1, <1>2, <1>3, <2>1, <2>2, MergeKeeps
  <1>5. CASE h \notin loaded[r]
    BY <1>1, <1>2, <1>3, <1>5 DEF Updated
  <1>6. QED
    BY <1>4, <1>5

LEMMA FlushUpdateKeeps ==
    ASSUME IInv, NEW r \in Requests, FlushUpdate(r)
    PROVE  IInv'
  <1>1. PICK h \in NextKeys(r) :
           /\ wlock' = [wlock EXCEPT ![h] = r]
           /\ written' = [written EXCEPT ![r] = @ \cup {h}]
           /\ buf' = [buf EXCEPT ![r][h] = Updated(r, h)]
           /\ old' = [old EXCEPT ![r][h] = cur[r][h]]
           /\ touched' = [touched EXCEPT ![r] = @ \ {h}]
    BY DEF FlushUpdate
  <1>2. h \in Dirty(r)
    BY DEF NextKeys, FlushUpdate
  <1>3. h \in Hashes /\ h \in Keys
    BY <1>2, UpdatedKeeps
  <1> DEFINE base == View(r, h)
             merged == Updated(r, h)
  <1>4. cur[r][h] \in Row
    BY <1>3, ObjectsAreRows DEF IInv
  <1>5. /\ merged \in Row /\ Exists(merged)
        /\ merged.status = "fixed" => base.status = "fixed"
        /\ merged.rotatedAt = None => base.rotatedAt = None
    BY <1>2, UpdatedKeeps
  <1>6. base.status = "fixed" => rows[h].status \in {"active", "fixed"}
    BY <1>3 DEF IInv, ClosesOnlyActive, View
  <1>7. base.rotatedAt = None => rows[h].rotatedAt = None
    BY <1>3 DEF IInv, KeepsRotation, View
  <1>8. wlock[h] \in {None, r}
    BY <1>3, Unblocked DEF IInv, FlushUpdate
  <1> HIDE DEF base, merged
  <1>9. /\ wlock' = [wlock EXCEPT ![h] = r]
        /\ written' = [written EXCEPT ![r] = written[r] \cup {h}]
        /\ buf' = [buf EXCEPT ![r] = [buf[r] EXCEPT ![h] = merged]]
        /\ old' = [old EXCEPT ![r] = [old[r] EXCEPT ![h] = cur[r][h]]]
        /\ touched' = [touched EXCEPT ![r] = touched[r] \ {h}]
        /\ UNCHANGED <<rows, repo, pc, job, next, loaded, cur, pending, expired,
                       counts, alone>>
    BY <1>1, <1>3 DEF FlushUpdate, IInv, TypeOK, base, merged
  <1>10. TypeOK'
    BY <1>3, <1>4, <1>5, <1>9 DEF IInv, TypeOK
  <1>11. OneWriter'
    BY <1>3, <1>8, <1>9, LockKeeps DEF IInv
  <1>12. ClosesBeforeFlush'
    BY <1>9 DEF IInv, TypeOK, ClosesBeforeFlush, FlushUpdate
  <1>13. ClosesOnlyActive'
    BY <1>3, <1>5, <1>6, <1>9 DEF IInv, TypeOK, ClosesOnlyActive
  <1>14. NeverAssignsFixed'
    BY <1>3, <1>9 DEF IInv, TypeOK, NeverAssignsFixed
  <1>15. KeepsRotation'
    <2>1. ASSUME NEW s \in Requests, NEW g \in loaded'[s]
          PROVE  cur'[s][g].rotatedAt = None => old'[s][g].rotatedAt = None
      BY <1>3, <1>9 DEF IInv, TypeOK, KeepsRotation
    <2>2. ASSUME NEW s \in Requests, NEW g \in written'[s]
          PROVE  buf'[s][g].rotatedAt = None => rows'[g].rotatedAt = None
      BY <1>3, <1>5, <1>7, <1>9 DEF IInv, TypeOK, KeepsRotation
    <2>3. QED
      BY <2>1, <2>2 DEF KeepsRotation
  <1>16. KnownRowsExist'
    BY <1>3, <1>5, <1>9 DEF IInv, TypeOK, KnownRowsExist
  <1>17. QED
    BY <1>10, <1>11, <1>12, <1>13, <1>14, <1>15, <1>16 DEF IInv

LEMMA FlushInsertKeeps ==
    ASSUME IInv, NEW r \in Requests, FlushInsert(r)
    PROVE  IInv'
  <1> DEFINE h == Head(pending[r])
  <1>1. pending[r] \in Seq(Hashes) /\ pending[r] # <<>>
    BY DEF FlushInsert, IInv, TypeOK
  <1>2. h \in Hashes /\ Tail(pending[r]) \in Seq(Hashes)
    BY <1>1
  <1>3. CASE Fail(r, "conflict")
    BY <1>3, FailKeeps DEF Finished
  <1>4. CASE /\ ~Exists(View(r, h))
             /\ wlock' = [wlock EXCEPT ![h] = r]
             /\ written' = [written EXCEPT ![r] = @ \cup {h}]
             /\ buf' = [buf EXCEPT ![r][h] = NewRow]
             /\ pending' = [pending EXCEPT ![r] = Tail(@)]
             /\ UNCHANGED <<rows, repo, pc, job, next, loaded, old, cur, touched,
                            expired, counts, alone>>
    <2>1. wlock[h] \in {None, r}
      <3>1. h \in NextKeys(r)
        BY <1>1, <1>2 DEF NextKeys, FlushInsert, Keys
      <3>2. QED
        BY <1>2, <3>1, Unblocked DEF IInv, FlushInsert, Keys
    <2>2. NewRow.status # "fixed" /\ NewRow \in Row /\ Exists(NewRow)
      BY RowsOfConstants DEF NewRow, Exists
    <2>3. buf' = [buf EXCEPT ![r] = [buf[r] EXCEPT ![h] = NewRow]]
      BY <1>2, <1>4 DEF IInv, TypeOK
    <2>4. rows[h].rotatedAt = None
      <3>1. View(r, h) = NoRow
        BY <1>2, <1>4, ViewIsRow DEF IInv, Row, Exists, Status
      <3>2. CASE h \in written[r]
        BY <1>2, <3>1, <3>2 DEF IInv, KnownRowsExist, View, Exists, NoRow
      <3>3. CASE h \notin written[r]
        BY <3>1, <3>3 DEF View, NoRow
      <3>4. QED
        BY <3>2, <3>3
    <2> HIDE DEF h
    <2>5. TypeOK'
      BY <1>2, <1>4, <2>2, <2>3 DEF IInv, TypeOK, Keys
    <2>6. OneWriter'
      BY <1>2, <1>4, <2>1, LockKeeps DEF IInv
    <2>7. ClosesBeforeFlush'
      BY <1>4 DEF IInv, TypeOK, ClosesBeforeFlush, FlushInsert
    <2>8. ClosesOnlyActive' /\ KnownRowsExist'
      <3>1. ClosesOnlyActive'
        BY <1>2, <1>4, <2>2, <2>3 DEF IInv, TypeOK, ClosesOnlyActive
      <3>2. ASSUME NEW s \in Requests, NEW g \in written'[s]
            PROVE  Exists(buf'[s][g])
        BY <1>2, <1>4, <2>2, <2>3 DEF IInv, TypeOK, KnownRowsExist
      <3>3. QED
        BY <1>4, <3>1, <3>2 DEF IInv, KnownRowsExist
    <2>9. NeverAssignsFixed'
      BY <1>4 DEF IInv, NeverAssignsFixed
    <2>10. KeepsRotation'
      <3>1. ASSUME NEW s \in Requests, NEW g \in written'[s]
            PROVE  buf'[s][g].rotatedAt = None => rows'[g].rotatedAt = None
        <4>1. CASE s = r /\ g = h
          BY <1>4, <2>4, <4>1
        <4>2. CASE s # r \/ g # h
          <5>1. g \in written[s] /\ g \in Hashes /\ buf'[s][g] = buf[s][g]
            BY <1>2, <1>4, <2>3, <4>2 DEF IInv, TypeOK
          <5>2. QED
            BY <1>4, <5>1 DEF IInv, KeepsRotation
        <4>3. QED
          BY <4>1, <4>2
      <3>2. QED
        BY <1>4, <3>1 DEF IInv, KeepsRotation
    <2>11. QED
      BY <2>5, <2>6, <2>7, <2>8, <2>9, <2>10 DEF IInv
  <1>5. QED
    BY <1>3, <1>4 DEF FlushInsert

LEMMA FlushedKeeps ==
    ASSUME IInv, NEW r \in Requests, Flushed(r)
    PROVE  IInv'
  <1>1. CASE Fail(r, "error")
    BY <1>1, FailKeeps DEF Finished
  <1>2. CASE /\ Goto(r, "commit")
             /\ UNCHANGED <<dbVars, job, next, sessionVars, counts, alone>>
    <2>1. pc' \in [Requests -> {"idle"} \cup Running \cup Finished]
      BY <1>2, GotoType DEF Running, IInv
    <2>2. TypeOK'
      BY <1>2, <2>1 DEF IInv, TypeOK, dbVars, sessionVars
    <2>3. QED
      BY <1>2, <2>2, QuietKeeps DEF Goto, IInv, TypeOK
  <1>3. QED
    BY <1>1, <1>2 DEF Flushed

LEMMA CommitKeeps ==
    ASSUME IInv, NEW r \in Requests, Commit(r)
    PROVE  IInv'
  <1>0. PICK answer \in {"ok", "lost"} : Finish(r, answer)
    BY DEF Commit
  <1>1. rows' \in [Hashes -> Row] /\ repo' \in BOOLEAN
    <2>1. \A h \in Hashes : View(r, h) \in Row
      BY ViewIsRow DEF IInv
    <2>2. QED
      BY <2>1 DEF Commit, RepoVisible, IInv, TypeOK
  <1>2. TypeOK'
    BY <1>0, <1>1, FinishType DEF IInv, Finished
  (* The rows other transactions have written or read do not change hands. *)
  <1>3. ASSUME NEW s \in Requests, s # r, NEW h \in written[s]
        PROVE  rows'[h] = rows[h]
    <2>1. h \in Hashes /\ h \notin written[r]
      BY <1>3 DEF IInv, TypeOK, OneWriter
    <2>2. QED
      BY <2>1 DEF Commit, View
  <1>4. ASSUME NEW h \in Hashes, Exists(rows[h])
        PROVE  Exists(rows'[h])
    BY <1>4 DEF Commit, View, IInv, KnownRowsExist
  <1>5. OneWriter' /\ ClosesBeforeFlush'
    BY <1>0 DEF IInv, TypeOK, OneWriter, ClosesBeforeFlush, Finish, Keys
  <1>6. ClosesOnlyActive'
    <2>1. ASSUME NEW s \in Requests, NEW h \in written'[s]
          PROVE  /\ s # r /\ h \in written[s]
                 /\ buf'[s][h] = buf[s][h] /\ rows'[h] = rows[h]
      BY <1>0, <1>3, FinishSessions DEF IInv
    <2>2. QED
      BY <2>1 DEF IInv, ClosesOnlyActive
  <1>7. NeverAssignsFixed'
    BY <1>0 DEF IInv, TypeOK, NeverAssignsFixed, Finish
  <1>8. KnownRowsExist'
    BY <1>0, <1>3, <1>4 DEF IInv, TypeOK, KnownRowsExist, Finish
  <1>9. KeepsRotation'
    <2>1. ASSUME NEW s \in Requests, NEW h \in written'[s]
          PROVE  /\ s # r /\ h \in written[s]
                 /\ buf'[s][h] = buf[s][h] /\ rows'[h] = rows[h]
      BY <1>0, <1>3, FinishSessions DEF IInv
    <2>2. ASSUME NEW s \in Requests, NEW h \in loaded'[s]
          PROVE  /\ s # r /\ h \in loaded[s]
                 /\ old'[s][h] = old[s][h] /\ cur'[s][h] = cur[s][h]
      BY <1>0, FinishSessions DEF IInv
    <2>3. QED
      BY <2>1, <2>2 DEF IInv, KeepsRotation
  <1>10. QED
    BY <1>2, <1>5, <1>6, <1>7, <1>8, <1>9 DEF IInv

LEMMA ReadStateKeeps ==
    ASSUME IInv, NEW r \in Requests, ReadState(r)
    PROVE  IInv'
  <1>1. pc' \in [Requests -> {"idle"} \cup Running \cup Finished]
    BY GotoType DEF ReadState, IInv, Running
  <1>2. TypeOK'
    BY <1>1 DEF IInv, TypeOK, ReadState, dbVars, sessionVars
  <1>3. QED
    BY <1>2, QuietKeeps DEF ReadState, Goto, IInv, TypeOK

(* Triage assigns a row, never a fixed one, and keeps a rotation.          *)
LEMMA TriagedIsRow ==
    ASSUME NEW row \in Row, NEW to \in TriageStatus, NEW r \in Requests
    PROVE  /\ Triaged(row, to, r) \in Row /\ Exists(Triaged(row, to, r))
           /\ Triaged(row, to, r).status # "fixed"
           /\ Triaged(row, to, r).rotatedAt = None => row.rotatedAt = None
  <1>1. row.fixedAt \in BOOLEAN /\ row.rotatedAt \in Stamp
    <2>1. CASE row \in [status: Status, fixedAt: BOOLEAN, rotatedAt: Stamp]
      BY <2>1
    <2>2. CASE row = NoRow
      <3>1. NoRow.fixedAt = FALSE /\ NoRow.rotatedAt = None
        BY DEF NoRow
      <3>2. QED
        BY <2>2, <3>1 DEF Stamp
    <2>3. QED
      BY <2>1, <2>2 DEF Row
  <1>2. to \in Status \ {"none", "fixed"} /\ r \in Stamp /\ r # None
    BY DEF TriageStatus, Status, Stamp
  <1> DEFINE new == Triaged(row, to, r)
  <1>3. /\ new.status = to /\ new.fixedAt = row.fixedAt
        /\ new.rotatedAt \in {row.rotatedAt, r}
        /\ new.rotatedAt = None => row.rotatedAt = None
    BY <1>2 DEF Triaged
  <1>4. new \in [status: Status, fixedAt: BOOLEAN, rotatedAt: Stamp]
    <2>1. new.rotatedAt \in Stamp
      BY <1>1, <1>2, <1>3
    <2>2. QED
      BY <1>1, <1>2, <2>1 DEF Triaged
  <1>5. QED
    BY <1>2, <1>3, <1>4 DEF Row, Exists, Status

LEMMA TriageKeeps ==
    ASSUME IInv, NEW r \in Requests, Triage(r)
    PROVE  IInv'
  <1> DEFINE h == job[r].hash
             row == rows[h]
             to == job[r].to
  <1>1. h \in Hashes /\ to \in TriageStatus
    <2>1. job[r] \in Jobs \cup {NoJob} /\ job[r].kind = "triage"
      BY DEF Triage, IInv, TypeOK
    <2>2. job[r] \in [kind: {"triage"}, hash: Hashes, to: TriageStatus]
      BY <2>1 DEF Jobs, NoJob
    <2>3. QED
      BY <2>2
  <1>2. CASE Fail(r, "notfound")
    BY <1>2, FailKeeps DEF Finished
  <1>3. CASE /\ Exists(row)
             /\ loaded' = [loaded EXCEPT ![r] = {h}]
             /\ old' = [old EXCEPT ![r][h] = row]
             /\ cur' = [cur EXCEPT ![r][h] = Triaged(row, to, r)]
             /\ Goto(r, "flush")
             /\ UNCHANGED <<dbVars, job, next, written, buf, touched, pending,
                            expired, counts, alone>>
    <2> DEFINE new == Triaged(row, to, r)
    <2>1. row \in Row
      BY <1>1 DEF IInv, TypeOK
    <2>2. /\ new \in Row /\ Exists(new)
          /\ new.status # "fixed"
          /\ new.rotatedAt = None => row.rotatedAt = None
      BY <1>1, <2>1, TriagedIsRow
    <2>3. pc' \in [Requests -> {"idle"} \cup Running \cup Finished]
      BY <1>3, GotoType DEF Running, IInv
    <2> HIDE DEF h, row, new
    <2>4. /\ old' = [old EXCEPT ![r] = [old[r] EXCEPT ![h] = row]]
          /\ cur' = [cur EXCEPT ![r] = [cur[r] EXCEPT ![h] = new]]
      BY <1>1, <1>3 DEF IInv, TypeOK, new
    <2>5. TypeOK'
      <3>1. loaded' \in [Requests -> SUBSET Hashes]
        BY <1>1, <1>3 DEF IInv, TypeOK
      <3>2. old' \in [Requests -> [Hashes -> Row]]
        BY <1>1, <2>1, <2>4 DEF IInv, TypeOK
      <3>3. cur' \in [Requests -> [Hashes -> Row]]
        BY <1>1, <2>2, <2>4 DEF IInv, TypeOK
      <3>4. QED
        BY <1>3, <2>3, <3>1, <3>2, <3>3 DEF IInv, TypeOK, dbVars
    <2>6. OneWriter' /\ ClosesOnlyActive'
      BY <1>3 DEF IInv, OneWriter, ClosesOnlyActive, dbVars
    <2>7. ClosesBeforeFlush'
      BY <1>3 DEF IInv, TypeOK, ClosesBeforeFlush, Goto, dbVars
    <2>8. KnownRowsExist'
      <3>1. Exists(rows[h])
        BY <1>3 DEF row
      <3>2. QED
        BY <1>1, <1>3, <2>2, <2>4, <3>1 DEF IInv, TypeOK, KnownRowsExist, dbVars
    <2>9. NeverAssignsFixed'
      BY <1>1, <1>3, <2>2, <2>4 DEF IInv, TypeOK, NeverAssignsFixed
    <2>10. KeepsRotation'
      BY <1>1, <1>3, <2>2, <2>4 DEF IInv, TypeOK, KeepsRotation, dbVars
    <2>11. QED
      BY <2>5, <2>6, <2>7, <2>8, <2>9, <2>10 DEF IInv
  <1>4. QED
    BY <1>2, <1>3 DEF Triage

-----------------------------------------------------------------------------
(* The theorems.                                                           *)

(* A database with any of the seeds and no request satisfies the           *)
(* invariant.                                                              *)
LEMMA InitHolds == Init => IInv
  <1> SUFFICES ASSUME Init
               PROVE  IInv
    OBVIOUS
  <1>1. TypeOK
    BY RowsOfConstants DEF Init, TypeOK, NoCounts, NoRows
  <1>2. OneWriter /\ ClosesBeforeFlush /\ ClosesOnlyActive
    BY DEF Init, OneWriter, ClosesBeforeFlush, ClosesOnlyActive
  <1>3. KnownRowsExist /\ NeverAssignsFixed /\ KeepsRotation
    BY DEF Init, KnownRowsExist, NeverAssignsFixed, KeepsRotation
  <1>4. QED
    BY <1>1, <1>2, <1>3 DEF IInv

(* Every step of a request keeps it.                                       *)
LEMMA NextKeeps == IInv /\ [Next]_vars => IInv'
  <1> SUFFICES ASSUME IInv, [Next]_vars
               PROVE  IInv'
    OBVIOUS
  <1>1. ASSUME NEW r \in Requests, NEW j \in Jobs, Start(r, j)
        PROVE  IInv'
    BY <1>1, StartKeeps
  <1>2. ASSUME NEW r \in Requests, Step(r)
        PROVE  IInv'
    <2>1. CASE DeadlockVictim(r)
      BY <2>1, FailKeeps DEF DeadlockVictim, Finished
    <2>2. CASE ~DeadlockVictim(r)
      BY <1>2, <2>2, SelectRepoKeeps, InsertRepoKeeps, FoundKnownKeeps,
         FoundNewKeeps, RemovedActiveKeeps, RemovedOtherKeeps, EndOfBatchKeeps,
         FlushUpdateKeeps, FlushInsertKeeps, FlushedKeeps, CommitKeeps,
         ReadStateKeeps, TriageKeeps DEF Step
    <2>3. QED
      BY <2>1, <2>2
  <1>3. ASSUME NEW r \in Requests, Interrupted(r)
        PROVE  IInv'
    BY <1>3, FailKeeps DEF Interrupted, Finished
  <1>4. CASE UNCHANGED vars
    BY <1>4 DEF vars, dbVars, sessionVars, IInv, TypeOK, OneWriter, KnownRowsExist,
                ClosesBeforeFlush, ClosesOnlyActive, NeverAssignsFixed,
                KeepsRotation
  <1>5. QED
    BY <1>1, <1>2, <1>3, <1>4 DEF Next, AllAnswered

(* In every state of every history: the types, one writer per row, and     *)
(* what a transaction may hold ready to be committed.                      *)
THEOREM Invariance == Spec => []IInv
  BY InitHolds, NextKeeps, PTL DEF Spec

(* Only a commit changes findings, and only those its transaction wrote.   *)
LEMMA OnlyCommitsWrite ==
    ASSUME [Next]_vars, NEW h \in Hashes, TypeOK, rows'[h] # rows[h]
    PROVE  \E r \in Requests : h \in written[r] /\ rows'[h] = buf[r][h]
  <1>1. PICK r \in Requests : Commit(r)
    BY DEF Next, vars, dbVars, AllAnswered, Start, Step, Interrupted, SelectRepo,
           InsertRepo, FoundKnown, FoundNew, RemovedActive, RemovedOther,
           EndOfBatch, FlushUpdate, FlushInsert, Flushed, ReadState, Triage,
           DeadlockVictim, Fail
  <1>2. QED
    BY <1>1 DEF Commit, View

(* No history of scans and triages closes a finding that was not active:   *)
(* what was triaged as ignored, false positive or rotated stays so until   *)
(* someone sees it again or triages it anew.                               *)
THEOREM TriagedIsNotFixed == Spec => OnlyActiveIsFixed
  <1>1. IInv /\ [Next]_vars
          => [\A h \in Hashes :
                rows'[h].status = "fixed" /\ rows[h].status # "fixed"
                    => rows[h].status = "active"]_vars
    BY OnlyCommitsWrite DEF IInv, ClosesOnlyActive
  <1>2. QED
    BY <1>1, Invariance, PTL DEF Spec, OnlyActiveIsFixed

(* No history of scans and triages erases that a secret was rotated.       *)
THEOREM RotationIsKept == Spec => RotationKept
  <1>1. IInv /\ [Next]_vars
          => [\A h \in Hashes :
                rows[h].rotatedAt # None => rows'[h].rotatedAt # None]_vars
    BY OnlyCommitsWrite DEF IInv, KeepsRotation
  <1>2. QED
    BY <1>1, Invariance, PTL DEF Spec, RotationKept

(* A finding that exists is never lost.                                    *)
THEOREM FindingsStay ==
    Spec => [][\A h \in Hashes : Exists(rows[h]) => Exists(rows'[h])]_vars
  <1>1. IInv /\ [Next]_vars
          => [\A h \in Hashes : Exists(rows[h]) => Exists(rows'[h])]_vars
    BY OnlyCommitsWrite DEF IInv, KnownRowsExist
  <1>2. QED
    BY <1>1, Invariance, PTL DEF Spec
-----------------------------------------------------------------------------
(* What a request counts, and what a batch does that runs alone.           *)

(* The rows a transaction is going to add, and those it is going to close. *)
Adds(r)   == {h \in written[r] : ~Exists(rows[h])}
Closes(r) == {h \in written[r] : rows[h].status # "fixed" /\ buf[r][h].status = "fixed"}

Blank(r) ==
    pc[r] \notin {"events", "flush", "commit"} =>
        /\ next[r] = 1 /\ counts[r] = NoCounts
        /\ written[r] = {} /\ loaded[r] = {} /\ touched[r] = {} /\ pending[r] = <<>>

(* A finding is counted as new when it is added to the session, and stays   *)
(* so when it is inserted; what else a transaction writes was there.       *)
Counted(r) ==
    /\ counts[r].new = Len(pending[r]) + Cardinality(Adds(r))
    /\ Cardinality(Closes(r)) <= counts[r].fixed
    /\ pending[r] # <<>> => pc[r] \in {"events", "flush"} /\ job[r].kind = "events"

(* No other request has run since this one began.                          *)
Undisturbed(r) == alone[r] /\ pc[r] \in Running

(* Then what it has read is still so.                                      *)
StillSo(r) ==
    /\ \A q \in Requests : q # r => pc[q] \notin Running
    /\ pc[r] = "mkrepo" => ~repo
    /\ \A h \in loaded[r] : old[r][h] = View(r, h)
    /\ \A i \in 1..Len(pending[r]) : ~Exists(rows[pending[r][i]])

(* The last of the events so far of its fingerprint, and what it left.     *)
Latest(r, i) ==
    /\ i < next[r]
    /\ \A j \in 1..Len(job[r].batch) :
           j < next[r] /\ job[r].batch[j].hash = job[r].batch[i].hash => j <= i
Pends(r, h) == \E i \in 1..Len(pending[r]) : pending[r][i] = h
Reported(r, h) ==
    \/ h \in loaded[r] /\ cur[r][h].status = "active" /\ ~cur[r][h].fixedAt
    \/ Pends(r, h)
    \/ h \in written[r] /\ h \notin loaded[r] /\ buf[r][h] = NewRow
Withdrawn(r, h) ==
    Exists(rows[h]) => h \notin loaded[r] /\ View(r, h).status # "active"
Left(r, type, h) ==
    /\ type = "found" => Reported(r, h)
    /\ type = "removed" => Withdrawn(r, h)
Followed(r) ==
    job[r].kind = "events" =>
        /\ \A i \in 1..Len(job[r].batch) : Latest(r, i) =>
               Left(r, job[r].batch[i].type, job[r].batch[i].hash)
        /\ pc[r] \in {"flush", "commit"} => next[r] > Len(job[r].batch)
        /\ pc[r] = "commit" => Dirty(r) = {}

(* Without a repetition, what is to be inserted was not inserted yet.      *)
Reports(r, h) ==
    \E e \in 1..Len(job[r].batch) :
        e < next[r] /\ job[r].batch[e] = [type |-> "found", hash |-> h]
Unrepeated(r) ==
    job[r].kind = "events" /\ ~Repeats(job[r].batch) =>
        \A i \in 1..Len(pending[r]) :
            /\ pending[r][i] \notin written[r]
            /\ \A j \in 1..Len(pending[r]) : pending[r][j] = pending[r][i] => j = i
            /\ Reports(r, pending[r][i])

RequestInv(r) ==
    /\ Blank(r)
    /\ Counted(r)
    /\ Undisturbed(r) => StillSo(r) /\ Followed(r) /\ Unrepeated(r)

BatchInv == \A r \in Requests : RequestInv(r)

(* A request that does not move keeps its place and its session.           *)
Same(s) ==
    /\ pc'[s] = pc[s] /\ job'[s] = job[s] /\ next'[s] = next[s] /\ counts'[s] = counts[s]
    /\ written'[s] = written[s] /\ buf'[s] = buf[s] /\ pending'[s] = pending[s]
    /\ loaded'[s] = loaded[s] /\ old'[s] = old[s] /\ cur'[s] = cur[s]
    /\ touched'[s] = touched[s]

Acts(r) == (\E j \in Jobs : Start(r, j)) \/ Step(r) \/ Interrupted(r)

LEMMA FinishResets ==
    ASSUME TypeOK, NEW r \in Requests, NEW a, Finish(r, a)
    PROVE  /\ pc'[r] = a /\ next'[r] = 1 /\ counts'[r] = NoCounts
           /\ written'[r] = {} /\ loaded'[r] = {} /\ touched'[r] = {}
           /\ pending'[r] = <<>> /\ alone' = alone
           /\ \A s \in Requests : s # r => Same(s)
  BY DEF TypeOK, Finish, Same

LEMMA OthersSame ==
    ASSUME TypeOK, NEW r \in Requests, Acts(r), NEW s \in Requests, s # r
    PROVE  Same(s)
  <1>0. ASSUME NEW a, Fail(r, a)
        PROVE  Same(s)
    BY <1>0, FinishResets DEF Fail
  <1>1. ASSUME NEW j \in Jobs, Start(r, j)
        PROVE  Same(s)
    BY <1>1 DEF TypeOK, Start, Goto, Same, sessionVars
  <1>2. CASE DeadlockVictim(r) \/ Interrupted(r)
    BY <1>2, FinishResets DEF DeadlockVictim, Interrupted, Fail
  <1>3. CASE SelectRepo(r) \/ EndOfBatch(r) \/ ReadState(r)
    BY <1>3 DEF TypeOK, SelectRepo, EndOfBatch, ReadState, Goto, Same, sessionVars
  <1>4. CASE InsertRepo(r) \/ Flushed(r)
    <2>1. CASE Goto(r, "events") \/ Goto(r, "commit")
      <3>1. \/ Fail(r, "conflict") \/ Fail(r, "error")
            \/ UNCHANGED <<job, next, sessionVars, counts>>
        BY <1>4 DEF InsertRepo, Flushed
      <3>2. QED
        BY <1>0, <2>1, <3>1 DEF TypeOK, Goto, Same, sessionVars
    <2>2. QED
      BY <1>0, <1>4, <2>1 DEF InsertRepo, Flushed
  <1>5. CASE FoundKnown(r)
    BY <1>5 DEF TypeOK, FoundKnown, Count, Same
  <1>6. CASE FoundNew(r)
    BY <1>6 DEF TypeOK, FoundNew, Count, Same
  <1>7. CASE RemovedActive(r)
    BY <1>7 DEF TypeOK, RemovedActive, Forget, Count, Same
  <1>8. CASE RemovedOther(r)
    BY <1>8 DEF TypeOK, RemovedOther, Forget, Same
  <1>9. CASE FlushUpdate(r)
    BY <1>9 DEF TypeOK, FlushUpdate, Same
  <1>10. CASE FlushInsert(r)
    <2>1. CASE Fail(r, "conflict")
      BY <1>0, <2>1
    <2>2. CASE ~Fail(r, "conflict")
      BY <1>10, <2>2 DEF TypeOK, FlushInsert, Same
    <2>3. QED
      BY <2>1, <2>2
  <1>11. CASE Commit(r)
    BY <1>11, FinishResets DEF Commit
  <1>12. CASE Triage(r)
    <2>1. CASE Fail(r, "notfound")
      BY <1>0, <2>1
    <2>2. CASE ~Fail(r, "notfound")
      BY <1>12, <2>2 DEF TypeOK, Triage, Goto, Same
    <2>3. QED
      BY <2>1, <2>2
  <1>13. QED
    BY <1>1, <1>2, <1>3, <1>4, <1>5, <1>6, <1>7, <1>8, <1>9, <1>10, <1>11, <1>12 DEF Acts, Step

LEMMA RowsStay ==
    ASSUME NEW r \in Requests, Acts(r), ~Commit(r)
    PROVE  rows' = rows /\ repo' = repo
  <1>1. ASSUME NEW j \in Jobs, Start(r, j)
        PROVE  rows' = rows /\ repo' = repo
    BY <1>1 DEF Start, dbVars
  <1>2. CASE Step(r)
    BY <1>2 DEF dbVars, Step, SelectRepo, InsertRepo, FoundKnown, FoundNew, RemovedActive,
                RemovedOther, EndOfBatch, FlushUpdate, FlushInsert, Flushed, ReadState, Triage,
                DeadlockVictim, Fail
  <1>3. CASE Interrupted(r)
    BY <1>3 DEF Interrupted, Fail
  <1>4. QED
    BY <1>1, <1>2, <1>3 DEF Acts

LEMMA StepsRun ==
    ASSUME NEW r \in Requests, Step(r) \/ Interrupted(r)
    PROVE  pc[r] \in Running /\ alone' = alone
  <1>1. CASE DeadlockVictim(r)
    <2>1. PICK n \in 2..Cardinality(Requests) : \E c \in [1..n -> Requests] :
              c[1] = r /\ \A i \in 1..n : Waits(c[i], c[(i % n) + 1])
      BY <1>1 DEF DeadlockVictim, InCycle
    <2>2. PICK c \in [1..n -> Requests] :
              c[1] = r /\ \A i \in 1..n : Waits(c[i], c[(i % n) + 1])
      BY <2>1
    <2>3. 1 \in 1..n
      BY <2>1
    <2>4. Waits(c[1], c[(1 % n) + 1])
      BY <2>2, <2>3
    <2>5. pc[r] \in Running
      BY <2>2, <2>4 DEF Waits
    <2>6. QED
      BY <1>1, <2>5 DEF DeadlockVictim, Fail, Finish
  <1>2. CASE Interrupted(r)
    BY <1>2 DEF Interrupted, Fail, Finish
  <1>3. CASE Step(r) /\ ~DeadlockVictim(r)
    BY <1>3 DEF Step, SelectRepo, InsertRepo, FoundKnown, FoundNew, RemovedActive,
                RemovedOther, EndOfBatch, FlushUpdate, FlushInsert, Flushed, ReadState, Triage,
                Commit, Fail, Finish, AtEvent, Running
  <1>4. QED
    BY <1>1, <1>2, <1>3

(* The step of another request changes no count, and ends the quiet.       *)
LEMMA OthersKeep ==
    ASSUME IInv, BatchInv, NEW r \in Requests, Acts(r), NEW s \in Requests, s # r
    PROVE  RequestInv(s)'
  <1>1. Same(s) /\ RequestInv(s)
    BY OthersSame DEF IInv, BatchInv
  <1>2. ASSUME NEW h \in written[s]
        PROVE  rows'[h] = rows[h]
    <2>1. CASE Commit(r)
      <3>1. h \in Hashes /\ h \notin written[r]
        BY <1>2 DEF IInv, TypeOK, OneWriter
      <3>2. QED
        BY <2>1, <3>1 DEF Commit, View
    <2>2. CASE ~Commit(r)
      BY <2>2, RowsStay
    <2>3. QED
      BY <2>1, <2>2
  <1>3. Blank(s)'
    BY <1>1 DEF RequestInv, Blank, Same
  <1>4. Counted(s)'
    <2>1. Adds(s)' = Adds(s) /\ Closes(s)' = Closes(s)
      BY <1>1, <1>2 DEF Same, Adds, Closes, Exists
    <2>2. QED
      BY <1>1, <2>1 DEF RequestInv, Counted, Same
  <1>5. ~Undisturbed(s)'
    <2> SUFFICES ASSUME alone'[s], pc[s] \in Running
                 PROVE  FALSE
      BY <1>1 DEF Undisturbed, Same
    <2>1. CASE \E j \in Jobs : Start(r, j)
      BY <2>1 DEF Start
    <2>2. CASE Step(r) \/ Interrupted(r)
      <3>1. pc[r] \in Running /\ alone[s]
        BY <2>2, StepsRun
      <3>2. QED
        BY <1>1, <3>1 DEF RequestInv, Undisturbed, StillSo
    <2>3. QED
      BY <2>1, <2>2 DEF Acts
  <1>6. QED
    BY <1>3, <1>4, <1>5 DEF RequestInv

(* A request that has ended left nothing behind, nor has one that waits.   *)
LEMMA EmptyIsCounted ==
    ASSUME NEW r \in Requests, written[r] = {}, pending[r] = <<>>, counts[r] = NoCounts
    PROVE  Counted(r)
  <1>1. Adds(r) = {} /\ Closes(r) = {}
    BY DEF Adds, Closes
  <1>2. Cardinality({}) = 0 /\ Len(pending[r]) = 0
    BY FS_EmptySet
  <1>3. QED
    BY <1>1, <1>2 DEF Counted, NoCounts

LEMMA FinishOwn ==
    ASSUME IInv, NEW r \in Requests, NEW a \in Finished, Finish(r, a)
    PROVE  RequestInv(r)'
  <1>1. /\ pc'[r] = a /\ next'[r] = 1 /\ counts'[r] = NoCounts
        /\ written'[r] = {} /\ loaded'[r] = {} /\ touched'[r] = {}
        /\ pending'[r] = <<>>
    BY FinishResets DEF IInv
  <1>2. Blank(r)'
    BY <1>1 DEF Blank
  <1>3. Adds(r)' = {} /\ Closes(r)' = {}
    BY <1>1 DEF Adds, Closes
  <1>4. Cardinality({}) = 0 /\ Len(<<>>) = 0
    BY FS_EmptySet
  <1>5. Counted(r)'
    BY <1>1, <1>3, <1>4 DEF Counted, NoCounts
  <1>6. ~Undisturbed(r)'
    BY <1>1 DEF Undisturbed, Running, Finished
  <1>7. QED
    BY <1>2, <1>5, <1>6 DEF RequestInv

(* Of the invariant, what a step of the request itself has still to show,  *)
(* and what it may assume.                                                 *)
LEMMA OwnStep ==
    ASSUME IInv, BatchInv, NEW r \in Requests, Step(r), Undisturbed(r)'
    PROVE  /\ Undisturbed(r) /\ StillSo(r) /\ Followed(r) /\ Unrepeated(r)
           /\ \A q \in Requests : q # r => pc'[q] \notin Running
  <1>1. alone[r] /\ pc[r] \in Running
    BY StepsRun DEF Undisturbed
  <1>2. StillSo(r) /\ Followed(r) /\ Unrepeated(r)
    BY <1>1 DEF BatchInv, RequestInv, Undisturbed
  <1>3. \A q \in Requests : q # r => pc'[q] = pc[q]
    BY OthersSame DEF Acts, IInv, Same
  <1>4. QED
    BY <1>1, <1>2, <1>3 DEF Undisturbed, StillSo

(* Steps of a request that only move it on.                                *)
LEMMA QuietOwn ==
    ASSUME IInv, BatchInv, NEW r \in Requests, Step(r), NEW l \in Running, Goto(r, l),
           UNCHANGED <<rows, repo, job, next, sessionVars, counts, alone>>,
           l \notin {"events", "flush", "commit"} =>
               pc[r] \notin {"events", "flush", "commit"},
           l = "commit" => pending[r] = <<>>,
           l = "mkrepo" => ~repo,
           Undisturbed(r) /\ Followed(r) /\ job[r].kind = "events" =>
               /\ l \in {"flush", "commit"} => next[r] > Len(job[r].batch)
               /\ l = "commit" => Dirty(r) = {}
    PROVE  RequestInv(r)'
  <1>1. pc'[r] = l
    BY DEF Goto, IInv, TypeOK
  <1>2. RequestInv(r)
    BY DEF BatchInv
  <1>3. Blank(r)'
    BY <1>1, <1>2 DEF RequestInv, Blank, sessionVars
  <1>4. Counted(r)'
    <2>1. l \notin {"events", "flush"} => pending[r] = <<>>
      BY <1>2 DEF RequestInv, Blank
    <2>2. Adds(r)' = Adds(r) /\ Closes(r)' = Closes(r)
      BY DEF Adds, Closes, Exists, sessionVars
    <2>3. QED
      BY <1>1, <1>2, <2>1, <2>2 DEF RequestInv, Counted, sessionVars
  <1>5. ASSUME Undisturbed(r)'
        PROVE  StillSo(r)' /\ Followed(r)' /\ Unrepeated(r)'
    <2>1. /\ Undisturbed(r) /\ StillSo(r) /\ Followed(r) /\ Unrepeated(r)
          /\ \A q \in Requests : q # r => pc'[q] \notin Running
      BY <1>5, OwnStep
    <2>2. StillSo(r)'
      BY <1>1, <2>1 DEF StillSo, View, sessionVars
    <2>3. Unrepeated(r)'
      BY <2>1 DEF Unrepeated, Reports, sessionVars
    <2>4. ASSUME NEW i \in 1..Len(job[r].batch), Latest(r, i)', job[r].kind = "events"
          PROVE  Left(r, job[r].batch[i].type, job[r].batch[i].hash)'
      <3>1. Latest(r, i)
        BY <2>4 DEF Latest
      <3>2. Left(r, job[r].batch[i].type, job[r].batch[i].hash)
        BY <2>1, <2>4, <3>1 DEF Followed
      <3>3. QED
        BY <3>2 DEF Left, Reported, Withdrawn, Pends, Exists, View, sessionVars
    <2>5. Dirty(r)' = Dirty(r)
      BY DEF Dirty, sessionVars
    <2>6. Followed(r)'
      BY <1>1, <2>1, <2>4, <2>5 DEF Followed
    <2>7. QED
      BY <2>2, <2>3, <2>6
  <1>6. QED
    BY <1>3, <1>4, <1>5 DEF RequestInv

LEMMA MovesOwn ==
    ASSUME IInv, BatchInv, NEW r \in Requests,
           SelectRepo(r) \/ InsertRepo(r) \/ EndOfBatch(r) \/ Flushed(r) \/ ReadState(r)
    PROVE  RequestInv(r)'
  <1>1. Step(r) /\ RequestInv(r)
    BY DEF Step, BatchInv
  <1>2. ASSUME NEW a \in Finished, Fail(r, a)
        PROVE  RequestInv(r)'
    BY <1>2, FinishOwn DEF Fail
  <1>3. CASE SelectRepo(r)
    <2>1. CASE RepoVisible(r)
      <3>1. /\ Goto(r, "events") /\ "events" \in Running
            /\ UNCHANGED <<rows, repo, job, next, sessionVars, counts, alone>>
        BY <1>3, <2>1 DEF SelectRepo, dbVars, Running
      <3>2. QED
        BY <1>1, <3>1, QuietOwn
    <2>2. CASE ~RepoVisible(r)
      <3>1. /\ Goto(r, "mkrepo") /\ "mkrepo" \in Running /\ ~repo /\ pc[r] = "repo"
            /\ UNCHANGED <<rows, repo, job, next, sessionVars, counts, alone>>
        BY <1>3, <2>2 DEF SelectRepo, RepoVisible, dbVars, Running
      <3>2. QED
        BY <1>1, <3>1, QuietOwn
    <2>3. QED
      BY <2>1, <2>2
  <1>4. CASE InsertRepo(r)
    <2>1. CASE Fail(r, "conflict")
      BY <1>2, <2>1 DEF Finished
    <2>2. CASE ~Fail(r, "conflict")
      <3>1. /\ Goto(r, "events") /\ "events" \in Running
            /\ UNCHANGED <<rows, repo, job, next, sessionVars, counts, alone>>
        BY <1>4, <2>2 DEF InsertRepo, Running
      <3>2. QED
        BY <1>1, <3>1, QuietOwn
    <2>3. QED
      BY <2>1, <2>2
  <1>5. CASE EndOfBatch(r)
    <2>1. /\ Goto(r, "flush") /\ "flush" \in Running /\ next[r] > Len(job[r].batch)
          /\ UNCHANGED <<rows, repo, job, next, sessionVars, counts, alone>>
      BY <1>5 DEF EndOfBatch, dbVars, Running
    <2>2. QED
      BY <1>1, <2>1, QuietOwn
  <1>6. CASE Flushed(r)
    <2>1. CASE Fail(r, "error")
      BY <1>2, <2>1 DEF Finished
    <2>2. CASE ~Fail(r, "error")
      <3>1. /\ Goto(r, "commit") /\ "commit" \in Running
            /\ pc[r] = "flush" /\ Dirty(r) = {} /\ pending[r] = <<>>
            /\ UNCHANGED <<rows, repo, job, next, sessionVars, counts, alone>>
        BY <1>6, <2>2 DEF Flushed, dbVars, Running
      <3>2. Followed(r) /\ job[r].kind = "events" => next[r] > Len(job[r].batch)
        BY <3>1 DEF Followed
      <3>3. QED
        BY <1>1, <3>1, <3>2, QuietOwn
    <2>3. QED
      BY <2>1, <2>2
  <1>7. CASE ReadState(r)
    <2>1. /\ Goto(r, "commit") /\ "commit" \in Running /\ job[r].kind = "state"
          /\ UNCHANGED <<rows, repo, job, next, sessionVars, counts, alone>>
      BY <1>7 DEF ReadState, dbVars, Running
    <2>2. pending[r] = <<>>
      BY <1>1, <2>1 DEF RequestInv, Counted
    <2>3. QED
      BY <1>1, <2>1, <2>2, QuietOwn
  <1>8. QED
    BY <1>3, <1>4, <1>5, <1>6, <1>7

LEMMA StartOwn ==
    ASSUME IInv, BatchInv, NEW r \in Requests, NEW j \in Jobs, Start(r, j)
    PROVE  RequestInv(r)'
  <1>1. /\ pc'[r] \in {"repo", "read"} /\ job'[r] = j
        /\ \A q \in Requests : q # r => pc'[q] = pc[q]
        /\ alone'[r] => \A q \in Requests : pc[q] \notin Running
        /\ UNCHANGED <<rows, repo, next, sessionVars, counts>>
    BY DEF Start, Goto, IInv, TypeOK, dbVars
  <1>2. /\ next'[r] = 1 /\ counts'[r] = NoCounts
        /\ written'[r] = {} /\ loaded'[r] = {} /\ touched'[r] = {}
        /\ pending'[r] = <<>>
    BY <1>1 DEF Start, BatchInv, RequestInv, Blank, sessionVars
  <1>3. Counted(r)'
    <2>1. Adds(r)' = {} /\ Closes(r)' = {}
      BY <1>2 DEF Adds, Closes
    <2>2. Cardinality({}) = 0 /\ Len(<<>>) = 0
      BY FS_EmptySet
    <2>3. QED
      BY <1>2, <2>1, <2>2 DEF Counted, NoCounts
  <1>4. Blank(r)'
    BY <1>2 DEF Blank
  <1>5. Undisturbed(r)' => StillSo(r)'
    BY <1>1, <1>2 DEF Undisturbed, StillSo
  <1>6. Followed(r)' /\ Unrepeated(r)'
    <2>1. \A i \in 1..Len(job'[r].batch) : ~Latest(r, i)'
      BY <1>2 DEF Latest
    <2>2. QED
      BY <1>1, <1>2, <2>1 DEF Followed, Unrepeated
  <1>7. QED
    BY <1>3, <1>4, <1>5, <1>6 DEF RequestInv

(* The event a handler is at.                                              *)
LEMMA AtAnEvent ==
    ASSUME IInv, NEW r \in Requests, NEW t, AtEvent(r, t)
    PROVE  /\ pc[r] = "events" /\ job[r].kind = "events"
           /\ next[r] \in 1..Len(job[r].batch) /\ Len(job[r].batch) \in Nat
           /\ EventAt(r).hash \in Hashes
           /\ job[r].batch[next[r]] = [type |-> t, hash |-> EventAt(r).hash]
  <1>1. job[r] \in Jobs \cup {NoJob} /\ job[r].kind = "events"
    BY DEF IInv, TypeOK, AtEvent
  <1>2. job[r].batch \in Seq(Event)
    BY <1>1 DEF Jobs, NoJob
  <1>3. next[r] \in 1..Len(job[r].batch) /\ Len(job[r].batch) \in Nat
    BY <1>2 DEF IInv, TypeOK, AtEvent
  <1>4. EventAt(r) \in Event /\ EventAt(r).type = t
    BY <1>2, <1>3 DEF EventAt, AtEvent
  <1>5. EventAt(r) = [type |-> t, hash |-> EventAt(r).hash]
    BY <1>4 DEF Event
  <1>6. QED
    BY <1>1, <1>3, <1>4, <1>5 DEF AtEvent, EventAt, Event

(* After an event it is the latest of its fingerprint; those of others are  *)
(* as before.                                                              *)
LEMMA LatestMoves ==
    ASSUME IInv, NEW r \in Requests, next'[r] = next[r] + 1, job'[r] = job[r],
           next[r] \in 1..Len(job[r].batch), Len(job[r].batch) \in Nat,
           NEW i \in 1..Len(job[r].batch), Latest(r, i)', i # next[r]
    PROVE  Latest(r, i) /\ job[r].batch[i].hash # job[r].batch[next[r]].hash
  <1>1. i < next[r] + 1 /\ i < next[r]
    BY DEF Latest
  <1>2. \A j \in 1..Len(job[r].batch) :
            j < next[r] + 1 /\ job[r].batch[j].hash = job[r].batch[i].hash => j <= i
    BY DEF Latest
  <1>3. job[r].batch[i].hash # job[r].batch[next[r]].hash
    BY <1>1, <1>2
  <1>4. Latest(r, i)
    BY <1>1, <1>2 DEF Latest
  <1>5. QED
    BY <1>3, <1>4

(* So a batch is followed if the event is, and the rest left alone.        *)
LEMMA FollowedMoves ==
    ASSUME IInv, NEW r \in Requests, NEW t, AtEvent(r, t), Followed(r),
           next'[r] = next[r] + 1, job'[r] = job[r], pc'[r] = pc[r],
           NEW h, h = EventAt(r).hash, Left(r, t, h)',
           \A g \in Hashes : g # h => /\ Reported(r, g) => Reported(r, g)'
                                      /\ Withdrawn(r, g) => Withdrawn(r, g)'
    PROVE  Followed(r)'
  <1> DEFINE b == job[r].batch
             n == next[r]
  <1>1. /\ pc[r] = "events" /\ job[r].kind = "events" /\ n \in 1..Len(b) /\ Len(b) \in Nat
        /\ b[n].type = t /\ b[n].hash = h
    <2>1. b[n] = [type |-> t, hash |-> h]
      BY AtAnEvent
    <2>2. b[n].type = t /\ b[n].hash = h
      BY <2>1
    <2>3. QED
      BY <2>2, AtAnEvent
  <1>2. ASSUME NEW i \in 1..Len(b)
        PROVE  b[i].hash \in Hashes
    <2>1. job[r] \in Jobs \cup {NoJob}
      BY DEF IInv, TypeOK
    <2>2. b \in Seq(Event)
      BY <1>1, <2>1 DEF Jobs, NoJob
    <2>3. b[i] \in Event
      BY <1>2, <2>2
    <2>4. QED
      BY <2>3 DEF Event
  <1>3. ASSUME NEW i \in 1..Len(b), Latest(r, i)'
        PROVE  Left(r, b[i].type, b[i].hash)'
    <2> DEFINE type == b[i].type
               hash == b[i].hash
    <2>1. CASE i = n
      BY <1>1, <2>1
    <2>2. CASE i # n
      <3>1. Latest(r, i) /\ hash # h
        BY <1>1, <1>3, <2>2, LatestMoves
      <3>2. Left(r, type, hash)
        BY <1>1, <3>1 DEF Followed
      <3>3. job'[r].batch[i].type = type /\ job'[r].batch[i].hash = hash /\ hash \in Hashes
        BY <1>2
      <3>4. /\ Reported(r, hash) => \A g \in {hash} : Reported(r, g)'
            /\ Withdrawn(r, hash) => \A g \in {hash} : Withdrawn(r, g)'
        BY <3>1, <3>3
      <3>5. \A g \in {hash} : Left(r, type, g)'
        BY <3>2, <3>3, <3>4 DEF Left
      <3>6. QED
        BY <3>3, <3>5 DEF Left
    <2>3. QED
      BY <2>1, <2>2
  <1>4. QED
    BY <1>1, <1>3 DEF Followed

LEMMA ReportsStay ==
    ASSUME NEW r \in Requests, next[r] \in Nat, next'[r] = next[r] + 1, job'[r] = job[r],
           NEW h, Reports(r, h)
    PROVE  Reports(r, h)'
  <1>1. PICK e \in 1..Len(job[r].batch) :
            e < next[r] /\ job[r].batch[e] = [type |-> "found", hash |-> h]
    BY DEF Reports
  <1>2. e < next[r] + 1
    BY <1>1
  <1>3. QED
    BY <1>1, <1>2 DEF Reports

(* A found finding that is known.                                          *)
LEMMA FoundKnownOwn ==
    ASSUME IInv, BatchInv, NEW r \in Requests, FoundKnown(r)
    PROVE  RequestInv(r)'
  <1>1. PICK h \in Hashes : h = EventAt(r).hash
    BY AtAnEvent DEF FoundKnown
  <1>2. /\ pc[r] = "events" /\ job[r].kind = "events" /\ next[r] \in Nat
        /\ next'[r] = next[r] + 1
        /\ UNCHANGED <<rows, repo, pc, job, written, buf, pending, alone>>
    BY AtAnEvent DEF FoundKnown, IInv, TypeOK, dbVars
  <1>3. counts'[r].new = counts[r].new /\ counts'[r].fixed = counts[r].fixed
    BY DEF FoundKnown, Count, IInv, TypeOK
  <1>4. /\ loaded'[r] = loaded[r] \cup {h}
        /\ old'[r][h] = IF h \in loaded[r] THEN old[r][h] ELSE View(r, h)
        /\ cur'[r][h] = Activated(Fetched(r, h))
        /\ \A g \in Hashes : g # h => old'[r][g] = old[r][g] /\ cur'[r][g] = cur[r][g]
    BY <1>1 DEF FoundKnown, IInv, TypeOK
  <1>5. cur'[r][h].status = "active" /\ ~cur'[r][h].fixedAt
    BY <1>4 DEF Activated
  <1>6. Blank(r)' /\ Counted(r)'
    <2>1. Adds(r)' = Adds(r) /\ Closes(r)' = Closes(r)
      BY <1>2 DEF Adds, Closes, Exists
    <2>2. QED
      BY <1>2, <1>3, <2>1 DEF BatchInv, RequestInv, Blank, Counted
  <1>7. ASSUME Undisturbed(r)'
        PROVE  StillSo(r)' /\ Followed(r)' /\ Unrepeated(r)'
    <2>1. /\ StillSo(r) /\ Followed(r) /\ Unrepeated(r)
          /\ \A q \in Requests : q # r => pc'[q] \notin Running
      BY <1>7, OwnStep DEF Step
    <2>2. StillSo(r)'
      <3>1. \A g \in loaded'[r] : old'[r][g] = View(r, g)
        BY <1>4, <2>1 DEF StillSo, IInv, TypeOK
      <3>2. \A g \in Hashes : View(r, g)' = View(r, g)
        BY <1>2 DEF View
      <3>3. loaded'[r] \subseteq Hashes
        BY <1>4 DEF IInv, TypeOK
      <3>4. QED
        BY <1>2, <2>1, <3>1, <3>2, <3>3 DEF StillSo, Exists
    <2>3. Followed(r)'
      <3>1. Left(r, "found", h)'
        BY <1>4, <1>5 DEF Left, Reported
      <3>2. ASSUME NEW g \in Hashes, g # h
            PROVE  /\ Reported(r, g) => Reported(r, g)'
                   /\ Withdrawn(r, g) => Withdrawn(r, g)'
        BY <1>2, <1>4, <3>2 DEF Reported, Withdrawn, Pends, View, Exists
      <3>3. AtEvent(r, "found") /\ job'[r] = job[r] /\ pc'[r] = pc[r]
        BY <1>2 DEF FoundKnown
      <3>4. QED
        BY <1>1, <1>2, <2>1, <3>1, <3>2, <3>3, FollowedMoves
    <2>4. Unrepeated(r)'
      BY <1>2, <2>1, ReportsStay DEF Unrepeated
    <2>5. QED
      BY <2>2, <2>3, <2>4
  <1>8. QED
    BY <1>6, <1>7 DEF RequestInv

(* A finding that has no row is one more to add.                           *)
LEMMA FoundNewOwn ==
    ASSUME IInv, BatchInv, NEW r \in Requests, FoundNew(r)
    PROVE  RequestInv(r)'
  <1>1. PICK h \in Hashes : h = EventAt(r).hash
    BY AtAnEvent DEF FoundNew
  <1>2. /\ pc[r] = "events" /\ job[r].kind = "events"
        /\ next[r] \in 1..Len(job[r].batch) /\ next[r] \in Nat
        /\ job[r].batch[next[r]] = [type |-> "found", hash |-> h]
        /\ next'[r] = next[r] + 1
        /\ UNCHANGED <<rows, repo, pc, job, written, buf, loaded, old, cur, alone>>
    BY <1>1, AtAnEvent DEF FoundNew, IInv, TypeOK, dbVars
  <1>3. counts'[r].new = counts[r].new + 1 /\ counts'[r].fixed = counts[r].fixed
    BY DEF FoundNew, Count, IInv, TypeOK
  <1>4. h \notin written[r] /\ ~Exists(rows[h])
    BY <1>1 DEF FoundNew, View, IInv, KnownRowsExist
  <1>4a. PICK before \in Seq(Hashes) : before = pending[r]
    BY DEF IInv, TypeOK
  <1>4b. PICK after \in Seq(Hashes) : after = pending'[r] /\ after = Append(before, h)
    <2>1. pending[r] \in Seq(Hashes) /\ pending'[r] = Append(pending[r], h)
      BY <1>1 DEF FoundNew, IInv, TypeOK
    <2>2. Append(before, h) \in Seq(Hashes)
      BY <1>4a
    <2>3. QED
      BY <1>4a, <2>1, <2>2
  <1>5. before = pending[r] /\ after = pending'[r] /\ after = Append(before, h)
    BY <1>4a, <1>4b
  <1>6. /\ Len(before) \in Nat /\ Len(after) = Len(before) + 1
        /\ after[Len(before) + 1] = h
        /\ \A i \in 1..Len(before) : after[i] = before[i]
    BY <1>5
  <1>7. \A i \in 1..Len(after) : i = Len(before) + 1 \/ i \in 1..Len(before)
    BY <1>6
  <1>8. Blank(r)' /\ Counted(r)'
    <2>1. Adds(r)' = Adds(r) /\ Closes(r)' = Closes(r)
      BY <1>2 DEF Adds, Closes, Exists
    <2>2. Cardinality(Adds(r)) \in Nat
      <3>1. IsFiniteSet(Adds(r))
        BY FS_Subset DEF Adds, IInv, TypeOK
      <3>2. QED
        BY <3>1, FS_CardinalityType
    <2>3. counts[r].new = Len(before) + Cardinality(Adds(r))
      BY <1>5 DEF BatchInv, RequestInv, Counted
    <2>4. counts'[r].new = Len(after) + Cardinality(Adds(r))
      BY <1>3, <1>6, <2>2, <2>3
    <2>5. QED
      BY <1>2, <1>3, <1>5, <2>1, <2>4 DEF BatchInv, RequestInv, Blank, Counted
  <1>9. ASSUME Undisturbed(r)'
        PROVE  StillSo(r)' /\ Followed(r)' /\ Unrepeated(r)'
    <2>1. /\ StillSo(r) /\ Followed(r) /\ Unrepeated(r)
          /\ \A q \in Requests : q # r => pc'[q] \notin Running
      BY <1>9, OwnStep DEF Step
    <2>2. StillSo(r)'
      <3>1. \A i \in 1..Len(after) : ~Exists(rows[after[i]])
        BY <1>4, <1>5, <1>6, <1>7, <2>1 DEF StillSo
      <3>2. \A g \in loaded[r] : View(r, g)' = View(r, g)
        BY <1>2 DEF View
      <3>3. QED
        BY <1>2, <1>5, <2>1, <3>1, <3>2 DEF StillSo, Exists
    <2>3. Followed(r)'
      <3>1. Left(r, "found", h)'
        <4>1. Len(before) + 1 \in 1..Len(after)
          BY <1>6
        <4>2. Pends(r, h)'
          BY <1>5, <1>6, <4>1 DEF Pends
        <4>3. QED
          BY <4>2 DEF Left, Reported
      <3>2. ASSUME NEW g \in Hashes, g # h
            PROVE  /\ Reported(r, g) => Reported(r, g)'
                   /\ Withdrawn(r, g) => Withdrawn(r, g)'
        <4>1. ASSUME Pends(r, g)
              PROVE  Pends(r, g)'
          <5>1. PICK i \in 1..Len(before) : before[i] = g
            BY <1>5, <4>1 DEF Pends
          <5>2. i \in 1..Len(after) /\ after[i] = g
            BY <1>6, <5>1
          <5>3. QED
            BY <1>5, <5>2 DEF Pends
        <4>2. QED
          BY <1>2, <3>2, <4>1 DEF Reported, Withdrawn, View, Exists
      <3>3. AtEvent(r, "found") /\ job'[r] = job[r] /\ pc'[r] = pc[r]
        BY <1>2 DEF FoundNew
      <3>4. QED
        BY <1>1, <1>2, <2>1, <3>1, <3>2, <3>3, FollowedMoves
    <2>4. Unrepeated(r)'
      <3> SUFFICES ASSUME ~Repeats(job[r].batch)
                   PROVE  \A i \in 1..Len(after) :
                              /\ after[i] \notin written[r]
                              /\ \A j \in 1..Len(after) : after[j] = after[i] => j = i
                              /\ Reports(r, after[i])'
        BY <1>2, <1>5 DEF Unrepeated
      <3>1. \A i \in 1..Len(before) :
                /\ before[i] \notin written[r]
                /\ \A j \in 1..Len(before) : before[j] = before[i] => j = i
                /\ Reports(r, before[i])
        BY <1>2, <1>5, <2>1 DEF Unrepeated
      <3>2. \A i \in 1..Len(before) : before[i] # h
        <4> SUFFICES ASSUME Reports(r, h)
                     PROVE  FALSE
          BY <3>1
        <4>1. PICK e \in 1..Len(job[r].batch) :
                  e < next[r] /\ job[r].batch[e] = [type |-> "found", hash |-> h]
          BY DEF Reports
        <4>2. /\ e < next[r] /\ job[r].batch[e] = job[r].batch[next[r]]
              /\ job[r].batch[e].type = "found"
          BY <1>2, <4>1
        <4>3. QED
          BY <1>2, <4>2 DEF Repeats
      <3>3. Reports(r, h)'
        <4>1. next[r] < next[r] + 1
          BY <1>2
        <4>2. QED
          BY <1>2, <4>1 DEF Reports
      <3>4. \A i \in 1..Len(before) : Reports(r, before[i])'
        BY <1>2, <3>1, ReportsStay
      <3>5. ASSUME NEW i \in 1..Len(after)
            PROVE  /\ after[i] \notin written[r]
                   /\ \A j \in 1..Len(after) : after[j] = after[i] => j = i
        BY <1>4, <1>6, <1>7, <3>1, <3>2
      <3>6. ASSUME NEW i \in 1..Len(after)
            PROVE  Reports(r, after[i])'
        BY <1>6, <1>7, <3>3, <3>4
      <3>7. QED
        BY <3>5, <3>6
    <2>5. QED
      BY <2>2, <2>3, <2>4
  <1>10. QED
    BY <1>8, <1>9 DEF RequestInv

(* A removed finding that is active is one more to close.                  *)
LEMMA RemovedActiveOwn ==
    ASSUME IInv, BatchInv, NEW r \in Requests, RemovedActive(r)
    PROVE  RequestInv(r)'
  <1>1. PICK h \in Hashes : h = EventAt(r).hash
    BY AtAnEvent DEF RemovedActive
  <1>2. /\ pc[r] = "events" /\ job[r].kind = "events" /\ next[r] \in Nat
        /\ next'[r] = next[r] + 1
        /\ UNCHANGED <<rows, repo, pc, job, old, cur, pending, alone>>
    BY AtAnEvent DEF RemovedActive, IInv, TypeOK
  <1>3. counts'[r].new = counts[r].new /\ counts'[r].fixed = counts[r].fixed + 1
    BY DEF RemovedActive, Count, IInv, TypeOK
  <1>4. /\ written'[r] = written[r] \cup {h}
        /\ loaded'[r] = loaded[r] \ {h}
    BY <1>1 DEF RemovedActive, Forget, IInv, TypeOK
  <1>5. /\ buf'[r][h] = Closed(View(r, h))
        /\ \A g \in Hashes : g # h => buf'[r][g] = buf[r][g]
    BY <1>1 DEF RemovedActive, IInv, TypeOK
  <1>6. buf'[r][h].status = "fixed"
    BY <1>5 DEF Closed
  <1>7. View(r, h).status = "active"
    BY <1>1 DEF RemovedActive, Closable
  <1>8. h \notin written[r] /\ rows[h].status = "active"
    BY <1>2, <1>7 DEF View, IInv, ClosesBeforeFlush
  <1>9. written[r] \subseteq Hashes /\ loaded[r] \subseteq Hashes /\ counts[r].fixed \in Nat
    BY DEF IInv, TypeOK
  <1>10. View(r, h)' = buf'[r][h] /\ \A g \in Hashes : g # h => View(r, g)' = View(r, g)
    BY <1>2, <1>4, <1>5 DEF View
  <1>11. Blank(r)' /\ Counted(r)'
    <2>1. Adds(r)' = Adds(r)
      BY <1>2, <1>4, <1>8 DEF Adds, Exists
    <2>2. Closes(r)' = Closes(r) \cup {h}
      BY <1>2, <1>4, <1>5, <1>6, <1>8, <1>9 DEF Closes
    <2>3. IsFiniteSet(Closes(r))
      BY <1>9, FS_Subset, IngestAssumption DEF Closes
    <2>4. Cardinality(Closes(r)) \in Nat
      BY <2>3, FS_CardinalityType
    <2>5. h \notin Closes(r)
      BY <1>8 DEF Closes
    <2>6. Cardinality(Closes(r) \cup {h}) = Cardinality(Closes(r)) + 1
      BY <2>3, <2>5, FS_AddElement
    <2>7. Cardinality(Closes(r)) <= counts[r].fixed
      BY DEF BatchInv, RequestInv, Counted
    <2>8. Cardinality(Closes(r) \cup {h}) <= counts[r].fixed + 1
      BY <1>9, <2>4, <2>6, <2>7
    <2>9. QED
      BY <1>2, <1>3, <2>1, <2>2, <2>8 DEF BatchInv, RequestInv, Blank, Counted
  <1>12. ASSUME Undisturbed(r)'
         PROVE  StillSo(r)' /\ Followed(r)' /\ Unrepeated(r)'
    <2>1. /\ StillSo(r) /\ Followed(r) /\ Unrepeated(r)
          /\ \A q \in Requests : q # r => pc'[q] \notin Running
      BY <1>12, OwnStep DEF Step
    <2>2. StillSo(r)'
      <3>1. \A g \in loaded'[r] : old'[r][g] = View(r, g)'
        BY <1>2, <1>4, <1>9, <1>10, <2>1 DEF StillSo
      <3>2. QED
        BY <1>2, <2>1, <3>1 DEF StillSo, Exists
    <2>3. Followed(r)'
      <3>1. Left(r, "removed", h)'
        BY <1>4, <1>6, <1>10 DEF Left, Withdrawn
      <3>2. ASSUME NEW g \in Hashes, g # h
            PROVE  /\ Reported(r, g) => Reported(r, g)'
                   /\ Withdrawn(r, g) => Withdrawn(r, g)'
        <4>1. View(r, g)' = View(r, g) /\ buf'[r][g] = buf[r][g]
          BY <1>5, <1>10, <3>2
        <4>2. QED
          BY <1>2, <1>4, <3>2, <4>1 DEF Reported, Withdrawn, Pends, Exists
      <3>3. AtEvent(r, "removed") /\ job'[r] = job[r] /\ pc'[r] = pc[r]
        BY <1>2 DEF RemovedActive
      <3>4. QED
        BY <1>1, <1>2, <2>1, <3>1, <3>2, <3>3, FollowedMoves
    <2>4. Unrepeated(r)'
      <3>1. \A i \in 1..Len(pending[r]) : pending[r][i] # h
        BY <1>8, <2>1 DEF StillSo, Exists
      <3>2. QED
        BY <1>2, <1>4, <2>1, <3>1, ReportsStay DEF Unrepeated
    <2>5. QED
      BY <2>2, <2>3, <2>4
  <1>13. QED
    BY <1>11, <1>12 DEF RequestInv

(* A removed finding that is not active stays as it is.                    *)
LEMMA RemovedOtherOwn ==
    ASSUME IInv, BatchInv, NEW r \in Requests, RemovedOther(r)
    PROVE  RequestInv(r)'
  <1>1. PICK h \in Hashes : h = EventAt(r).hash
    BY AtAnEvent DEF RemovedOther
  <1>2. /\ pc[r] = "events" /\ job[r].kind = "events" /\ next[r] \in Nat
        /\ next'[r] = next[r] + 1
        /\ UNCHANGED <<rows, repo, pc, job, written, buf, old, cur, pending, counts, alone>>
    BY AtAnEvent DEF RemovedOther, IInv, TypeOK, dbVars
  <1>3. loaded'[r] = loaded[r] \ {h} /\ loaded[r] \subseteq Hashes
    BY <1>1 DEF RemovedOther, Forget, IInv, TypeOK
  <1>4. View(r, h).status # "active" /\ \A g \in Hashes : View(r, g)' = View(r, g)
    BY <1>1, <1>2 DEF RemovedOther, Closable, View
  <1>5. Blank(r)' /\ Counted(r)'
    <2>1. Adds(r)' = Adds(r) /\ Closes(r)' = Closes(r)
      BY <1>2 DEF Adds, Closes, Exists
    <2>2. QED
      BY <1>2, <2>1 DEF BatchInv, RequestInv, Blank, Counted
  <1>6. ASSUME Undisturbed(r)'
        PROVE  StillSo(r)' /\ Followed(r)' /\ Unrepeated(r)'
    <2>1. /\ StillSo(r) /\ Followed(r) /\ Unrepeated(r)
          /\ \A q \in Requests : q # r => pc'[q] \notin Running
      BY <1>6, OwnStep DEF Step
    <2>2. StillSo(r)'
      <3>1. \A g \in loaded'[r] : old'[r][g] = View(r, g)'
        BY <1>2, <1>3, <1>4, <2>1 DEF StillSo
      <3>2. QED
        BY <1>2, <2>1, <3>1 DEF StillSo, Exists
    <2>3. Followed(r)'
      <3>1. Left(r, "removed", h)'
        BY <1>3, <1>4 DEF Left, Withdrawn
      <3>2. ASSUME NEW g \in Hashes, g # h
            PROVE  /\ Reported(r, g) => Reported(r, g)'
                   /\ Withdrawn(r, g) => Withdrawn(r, g)'
        BY <1>2, <1>3, <1>4, <3>2 DEF Reported, Withdrawn, Pends, Exists
      <3>3. AtEvent(r, "removed") /\ job'[r] = job[r] /\ pc'[r] = pc[r]
        BY <1>2 DEF RemovedOther
      <3>4. QED
        BY <1>1, <1>2, <2>1, <3>1, <3>2, <3>3, FollowedMoves
    <2>4. Unrepeated(r)'
      BY <1>2, <2>1, ReportsStay DEF Unrepeated
    <2>5. QED
      BY <2>2, <2>3, <2>4
  <1>7. QED
    BY <1>5, <1>6 DEF RequestInv

(* A step of a flush leaves the batch followed if it leaves what is        *)
(* reported reported, and what is withdrawn withdrawn.                     *)
LEMMA FollowedStays ==
    ASSUME IInv, NEW r \in Requests, Followed(r), pc[r] = "flush",
           next'[r] = next[r], job'[r] = job[r], pc'[r] = pc[r],
           \A g \in Hashes : /\ Reported(r, g) => Reported(r, g)'
                             /\ Withdrawn(r, g) => Withdrawn(r, g)'
    PROVE  Followed(r)'
  <1> SUFFICES ASSUME job[r].kind = "events"
               PROVE  \A i \in 1..Len(job[r].batch) : Latest(r, i)' =>
                          Left(r, job[r].batch[i].type, job[r].batch[i].hash)'
    BY DEF Followed, Left
  <1> TAKE i \in 1..Len(job[r].batch)
  <1> HAVE Latest(r, i)'
  <1>1. PICK e \in Event : e = job[r].batch[i]
    <2>1. job[r] \in Jobs \cup {NoJob}
      BY DEF IInv, TypeOK
    <2>2. job[r].batch \in Seq(Event)
      BY <2>1 DEF Jobs, NoJob
    <2>3. QED
      BY <2>2
  <1>2. PICK g \in Hashes : g = e.hash
    BY DEF Event
  <1>3. PICK t : t = e.type
    OBVIOUS
  <1>4. Latest(r, i)
    BY DEF Latest
  <1>5. Left(r, t, g)
    BY <1>1, <1>2, <1>3, <1>4 DEF Followed
  <1>6. Left(r, t, g)'
    BY <1>5 DEF Left
  <1>7. job[r].batch[i].type = t /\ job[r].batch[i].hash = g
        /\ job'[r].batch[i].type = t /\ job'[r].batch[i].hash = g
    BY <1>1, <1>2, <1>3
  <1>8. QED
    BY <1>6, <1>7 DEF Left

(* What a flush writes of an object that nobody else changed is the object. *)
LEMMA MergeOfSame ==
    ASSUME NEW base \in Row, NEW is \in Row
    PROVE  Merge(base, base, is) = is
  BY DEF Merge, Row, NoRow

LEMMA FlushUpdateOwn ==
    ASSUME IInv, BatchInv, NEW r \in Requests, FlushUpdate(r)
    PROVE  RequestInv(r)'
  <1>1. PICK h \in NextKeys(r) :
            /\ written' = [written EXCEPT ![r] = @ \cup {h}]
            /\ buf' = [buf EXCEPT ![r][h] = Updated(r, h)]
            /\ old' = [old EXCEPT ![r][h] = cur[r][h]]
    BY DEF FlushUpdate
  <1>2. /\ pc[r] = "flush"
        /\ UNCHANGED <<rows, repo, pc, job, next, loaded, cur, pending, counts, alone>>
    BY DEF FlushUpdate
  <1>3. h \in Dirty(r) /\ h \in Hashes
    BY <1>1, UpdatedKeeps DEF FlushUpdate, NextKeys
  <1>4. Exists(rows[h])
    BY <1>3 DEF Dirty, IInv, KnownRowsExist
  <1>5. written'[r] = written[r] \cup {h}
    BY <1>1 DEF IInv, TypeOK
  <1>6. /\ buf'[r][h] = Updated(r, h)
        /\ \A g \in Hashes : g # h => buf'[r][g] = buf[r][g]
    BY <1>1, <1>3 DEF IInv, TypeOK
  <1>7. /\ old'[r][h] = cur[r][h]
        /\ \A g \in Hashes : g # h => old'[r][g] = old[r][g]
    BY <1>1, <1>3 DEF IInv, TypeOK
  <1>8. View(r, h)' = buf'[r][h] /\ \A g \in Hashes : g # h => View(r, g)' = View(r, g)
    BY <1>2, <1>5, <1>6 DEF View
  <1>9. /\ written[r] \subseteq Hashes /\ loaded[r] \subseteq Hashes
        /\ counts[r].fixed \in Nat
    BY DEF IInv, TypeOK
  <1>10. Blank(r)' /\ Counted(r)'
    <2>1. Adds(r)' = Adds(r)
      BY <1>2, <1>4, <1>5 DEF Adds, Exists
    <2>2. Closes(r)' \subseteq Closes(r)
      <3>1. buf'[r][h].status = "fixed" => View(r, h).status = "fixed"
        BY <1>3, <1>6, UpdatedKeeps
      <3>2. QED
        BY <1>2, <1>5, <1>6, <1>9, <3>1 DEF Closes, View
    <2>3. IsFiniteSet(Closes(r))
      BY <1>9, FS_Subset, IngestAssumption DEF Closes
    <2>4. /\ Cardinality(Closes(r)) \in Nat
          /\ Cardinality(Closes(r)') \in Nat
          /\ Cardinality(Closes(r)') <= Cardinality(Closes(r))
      BY <2>2, <2>3, FS_Subset, FS_CardinalityType
    <2>5. Cardinality(Closes(r)) <= counts[r].fixed
      BY DEF BatchInv, RequestInv, Counted
    <2>6. Cardinality(Closes(r)') <= counts[r].fixed
      BY <1>9, <2>4, <2>5
    <2>7. QED
      BY <1>2, <2>1, <2>6 DEF BatchInv, RequestInv, Blank, Counted
  <1>11. ASSUME Undisturbed(r)'
         PROVE  StillSo(r)' /\ Followed(r)' /\ Unrepeated(r)'
    <2>1. /\ StillSo(r) /\ Followed(r) /\ Unrepeated(r)
          /\ \A q \in Requests : q # r => pc'[q] \notin Running
      BY <1>11, OwnStep DEF Step
    <2>2. StillSo(r)'
      <3>1. View(r, h) \in Row /\ cur[r][h] \in Row
        BY <1>3, ViewIsRow, ObjectsAreRows DEF IInv
      <3>2. h \in loaded[r] => old'[r][h] = View(r, h)'
        BY <1>6, <1>7, <1>8, <2>1, <3>1, MergeOfSame DEF StillSo, Updated
      <3>3. \A g \in loaded'[r] : old'[r][g] = View(r, g)'
        BY <1>2, <1>7, <1>8, <1>9, <2>1, <3>2 DEF StillSo
      <3>4. QED
        BY <1>2, <2>1, <3>3 DEF StillSo, Exists
    <2>3. Followed(r)'
      <3>1. ASSUME NEW g \in Hashes
            PROVE  /\ Reported(r, g) => Reported(r, g)'
                   /\ Withdrawn(r, g) => Withdrawn(r, g)'
        <4>1. CASE g = h
          <5>1. h \notin loaded[r] => buf'[r][h] = View(r, h)
            BY <1>6 DEF Updated
          <5>2. Reported(r, h) => Reported(r, h)'
            BY <1>2, <1>5, <5>1 DEF Reported, Pends, View
          <5>3. Withdrawn(r, h) => Withdrawn(r, h)'
            BY <1>2, <1>4, <1>8, <5>1 DEF Withdrawn
          <5>4. QED
            BY <4>1, <5>2, <5>3
        <4>2. CASE g # h
          <5>1. View(r, g)' = View(r, g) /\ buf'[r][g] = buf[r][g]
            BY <1>6, <1>8, <4>2
          <5>2. QED
            BY <1>2, <1>5, <4>2, <5>1 DEF Reported, Withdrawn, Pends, Exists
        <4>3. QED
          BY <4>1, <4>2
      <3>2. QED
        BY <1>2, <2>1, <3>1, FollowedStays
    <2>4. Unrepeated(r)'
      <3>1. \A i \in 1..Len(pending[r]) : pending[r][i] # h
        BY <1>4, <2>1 DEF StillSo
      <3>2. \A g : Reports(r, g)' = Reports(r, g)
        BY <1>2 DEF Reports
      <3>3. QED
        BY <1>2, <1>5, <2>1, <3>1, <3>2 DEF Unrepeated
    <2>5. QED
      BY <2>2, <2>3, <2>4
  <1>12. QED
    BY <1>10, <1>11 DEF RequestInv

(* What is inserted was counted when it was added to the session.          *)
LEMMA FlushInsertOwn ==
    ASSUME IInv, BatchInv, NEW r \in Requests, FlushInsert(r)
    PROVE  RequestInv(r)'
  <1>1. CASE Fail(r, "conflict")
    BY <1>1, FinishOwn DEF Fail, Finished
  <1>2. CASE ~Fail(r, "conflict")
    <2>1. PICK q \in Seq(Hashes) : q = pending[r]
      BY DEF IInv, TypeOK
    <2>2. q # <<>>
      BY <2>1 DEF FlushInsert
    <2>3. PICK h \in Hashes : h = Head(q)
      <3>1. Head(q) \in Hashes
        BY <2>2
      <3>2. QED
        BY <3>1
    <2>4. PICK rest \in Seq(Hashes) : rest = Tail(q)
      <3>1. Tail(q) \in Seq(Hashes)
        BY <2>2
      <3>2. QED
        BY <3>1
    <2>5. /\ pc[r] = "flush" /\ ~Exists(View(r, h))
          /\ UNCHANGED <<rows, repo, pc, job, next, loaded, old, cur, counts, alone>>
      BY <1>2, <2>1, <2>3 DEF FlushInsert
    <2>6. written'[r] = written[r] \cup {h} /\ pending'[r] = rest
      BY <1>2, <2>1, <2>3, <2>4 DEF FlushInsert, IInv, TypeOK
    <2>7. /\ buf'[r][h] = NewRow
          /\ \A g \in Hashes : g # h => buf'[r][g] = buf[r][g]
      BY <1>2, <2>1, <2>3 DEF FlushInsert, IInv, TypeOK
    <2>8. h \notin written[r] /\ ~Exists(rows[h]) /\ h \notin loaded[r]
      BY <2>5 DEF View, IInv, KnownRowsExist
    <2>9. /\ Len(q) \in Nat /\ Len(rest) \in Nat /\ Len(q) = Len(rest) + 1 /\ q[1] = h
          /\ \A i \in 1..Len(rest) : i + 1 \in 1..Len(q) /\ rest[i] = q[i + 1]
      BY <2>2, <2>3, <2>4
    <2>10. \A i \in 1..Len(q) : q[i] = h \/ \E j \in 1..Len(rest) : q[i] = rest[j]
      <3> TAKE i \in 1..Len(q)
      <3>1. CASE i = 1
        BY <2>9, <3>1
      <3>2. CASE i # 1
        <4>1. i - 1 \in 1..Len(rest) /\ (i - 1) + 1 = i
          BY <2>9, <3>2
        <4>2. rest[i - 1] = q[i]
          BY <2>9, <4>1
        <4>3. QED
          BY <4>1, <4>2
      <3>3. QED
        BY <3>1, <3>2
    <2>11. written[r] \subseteq Hashes /\ counts[r].new \in Nat
      BY DEF IInv, TypeOK
    <2>12. Blank(r)' /\ Counted(r)'
      <3>1. Adds(r)' = Adds(r) \cup {h}
        BY <2>5, <2>6, <2>8 DEF Adds, Exists
      <3>2. Closes(r)' = Closes(r)
        <4>1. buf'[r][h].status # "fixed"
          BY <2>7 DEF NewRow
        <4>2. \A g \in written[r] : buf'[r][g] = buf[r][g]
          BY <2>7, <2>8, <2>11
        <4>3. QED
          BY <2>5, <2>6, <2>8, <4>1, <4>2 DEF Closes
      <3>3. IsFiniteSet(Adds(r)) /\ h \notin Adds(r)
        BY <2>8, <2>11, FS_Subset, IngestAssumption DEF Adds
      <3>4. /\ Cardinality(Adds(r)) \in Nat
            /\ Cardinality(Adds(r) \cup {h}) = Cardinality(Adds(r)) + 1
        BY <3>3, FS_CardinalityType, FS_AddElement
      <3>5. counts[r].new = Len(q) + Cardinality(Adds(r)) /\ job[r].kind = "events"
        BY <2>1, <2>2 DEF BatchInv, RequestInv, Counted
      <3>6. counts[r].new = Len(rest) + Cardinality(Adds(r) \cup {h})
        BY <2>9, <3>4, <3>5
      <3>7. QED
        BY <2>5, <2>6, <3>1, <3>2, <3>5, <3>6 DEF BatchInv, RequestInv, Blank, Counted
    <2>13. ASSUME Undisturbed(r)'
           PROVE  StillSo(r)' /\ Followed(r)' /\ Unrepeated(r)'
      <3>1. /\ StillSo(r) /\ Followed(r) /\ Unrepeated(r)
            /\ \A s \in Requests : s # r => pc'[s] \notin Running
        BY <2>13, OwnStep DEF Step
      <3>2. StillSo(r)'
        <4>1. \A g \in loaded[r] : View(r, g)' = View(r, g)
          BY <2>5, <2>6, <2>7, <2>8 DEF View, IInv, TypeOK
        <4>2. \A i \in 1..Len(rest) : ~Exists(rows[rest[i]])
          BY <2>1, <2>9, <3>1 DEF StillSo
        <4>3. QED
          BY <2>5, <2>6, <3>1, <4>1, <4>2 DEF StillSo, Exists
      <3>3. Followed(r)'
        <4>1. ASSUME NEW g \in Hashes
              PROVE  /\ Reported(r, g) => Reported(r, g)'
                     /\ Withdrawn(r, g) => Withdrawn(r, g)'
          <5>1. CASE g = h
            BY <2>5, <2>6, <2>7, <2>8, <5>1 DEF Reported, Withdrawn, Exists
          <5>2. CASE g # h
            <6>1. Pends(r, g) => Pends(r, g)'
              BY <2>1, <2>6, <2>10, <5>2 DEF Pends
            <6>2. View(r, g)' = View(r, g) /\ buf'[r][g] = buf[r][g]
              BY <2>5, <2>6, <2>7, <5>2 DEF View
            <6>3. QED
              BY <2>5, <2>6, <5>2, <6>1, <6>2 DEF Reported, Withdrawn, Exists
          <5>3. QED
            BY <5>1, <5>2
        <4>2. QED
          BY <2>5, <3>1, <4>1, FollowedStays
      <3>4. Unrepeated(r)'
        <4> SUFFICES ASSUME job[r].kind = "events", ~Repeats(job[r].batch),
                            NEW i \in 1..Len(rest)
                     PROVE  /\ rest[i] \notin written[r] \cup {h}
                            /\ \A j \in 1..Len(rest) : rest[j] = rest[i] => j = i
                            /\ Reports(r, rest[i])'
          BY <2>5, <2>6 DEF Unrepeated
        <4>1. \A k \in 1..Len(q) :
                  /\ q[k] \notin written[r]
                  /\ \A j \in 1..Len(q) : q[j] = q[k] => j = k
                  /\ Reports(r, q[k])
          BY <2>1, <3>1 DEF Unrepeated
        <4>2. i + 1 \in 1..Len(q) /\ rest[i] = q[i + 1] /\ 1 \in 1..Len(q) /\ i + 1 # 1
          BY <2>9
        <4>3. rest[i] \notin written[r] /\ rest[i] # h
          BY <2>9, <4>1, <4>2
        <4>4. ASSUME NEW j \in 1..Len(rest), rest[j] = rest[i]
              PROVE  j = i
          <5>1. j + 1 \in 1..Len(q) /\ q[j + 1] = q[i + 1]
            BY <2>9, <4>2, <4>4
          <5>2. j + 1 = i + 1
            BY <4>1, <4>2, <5>1
          <5>3. QED
            BY <5>2
        <4>5. Reports(r, rest[i])'
          <5>1. \A g : Reports(r, g)' = Reports(r, g)
            BY <2>5 DEF Reports
          <5>2. QED
            BY <4>1, <4>2, <5>1
        <4>6. QED
          BY <4>3, <4>4, <4>5
      <3>5. QED
        BY <3>2, <3>3, <3>4
    <2>14. QED
      BY <2>12, <2>13 DEF RequestInv
  <1>3. QED
    BY <1>1, <1>2

LEMMA TriageOwn ==
    ASSUME IInv, BatchInv, NEW r \in Requests, Triage(r)
    PROVE  RequestInv(r)'
  <1>1. CASE Fail(r, "notfound")
    BY <1>1, FinishOwn DEF Fail, Finished
  <1>2. CASE ~Fail(r, "notfound")
    <2>1. /\ pc[r] = "read" /\ job[r].kind = "triage" /\ pc'[r] = "flush"
          /\ UNCHANGED <<rows, repo, job, next, written, buf, pending, counts, alone>>
      BY <1>2 DEF Triage, Goto, IInv, TypeOK, dbVars
    <2>2. PICK h \in Hashes : h = job[r].hash
      <3>1. job[r] \in Jobs \cup {NoJob}
        BY DEF IInv, TypeOK
      <3>2. job[r].hash \in Hashes
        BY <2>1, <3>1 DEF Jobs, NoJob
      <3>3. QED
        BY <3>2
    <2>3. loaded'[r] = {h} /\ old'[r][h] = rows[h]
      BY <1>2, <2>2 DEF Triage, IInv, TypeOK
    <2>4. written[r] = {} /\ pending[r] = <<>> /\ counts[r] = NoCounts
      BY <2>1 DEF BatchInv, RequestInv, Blank
    <2>5. Blank(r)'
      BY <2>1 DEF Blank
    <2>6. Counted(r)'
      <3>1. Adds(r)' = {} /\ Closes(r)' = {}
        BY <2>1, <2>4 DEF Adds, Closes
      <3>2. Cardinality({}) = 0 /\ Len(<<>>) = 0
        BY FS_EmptySet
      <3>3. QED
        BY <2>1, <2>4, <3>1, <3>2 DEF Counted, NoCounts
    <2>7. ASSUME Undisturbed(r)'
          PROVE  StillSo(r)'
      <3>1. \A q \in Requests : q # r => pc'[q] \notin Running
        BY <2>7, OwnStep DEF Step
      <3>2. View(r, h)' = rows[h]
        BY <2>1, <2>4 DEF View
      <3>3. QED
        BY <2>1, <2>3, <2>4, <3>1, <3>2 DEF StillSo
    <2>8. Followed(r)' /\ Unrepeated(r)'
      BY <2>1 DEF Followed, Unrepeated
    <2>9. QED
      BY <2>5, <2>6, <2>7, <2>8 DEF RequestInv
  <1>3. QED
    BY <1>1, <1>2

LEMMA ActsOwn ==
    ASSUME IInv, BatchInv, NEW r \in Requests, Acts(r)
    PROVE  RequestInv(r)'
  <1>1. CASE \E j \in Jobs : Start(r, j)
    BY <1>1, StartOwn
  <1>2. CASE SelectRepo(r) \/ InsertRepo(r) \/ EndOfBatch(r) \/ Flushed(r) \/ ReadState(r)
    BY <1>2, MovesOwn
  <1>3. CASE FoundKnown(r) \/ FoundNew(r)
    BY <1>3, FoundKnownOwn, FoundNewOwn
  <1>4. CASE RemovedActive(r) \/ RemovedOther(r)
    BY <1>4, RemovedActiveOwn, RemovedOtherOwn
  <1>5. CASE FlushUpdate(r) \/ FlushInsert(r) \/ Triage(r)
    BY <1>5, FlushUpdateOwn, FlushInsertOwn, TriageOwn
  <1>6. CASE Commit(r) \/ DeadlockVictim(r) \/ Interrupted(r)
    <2>1. \E a \in {"ok", "lost", "deadlock", "error"} : Finish(r, a)
      BY <1>6 DEF Commit, DeadlockVictim, Interrupted, Fail
    <2>2. {"ok", "lost", "deadlock", "error"} \subseteq Finished
      BY DEF Finished
    <2>3. QED
      BY <2>1, <2>2, FinishOwn
  <1>7. QED
    BY <1>1, <1>2, <1>3, <1>4, <1>5, <1>6 DEF Acts, Step

(* What every state satisfies: a response counts what its commit will do,  *)
(* and a request beside which nothing ran has followed its batch.          *)
LEMMA BatchInvInit == Init => BatchInv
  <1> SUFFICES ASSUME Init, NEW r \in Requests
               PROVE  RequestInv(r)
    BY DEF BatchInv
  <1>1. /\ pc[r] = "idle" /\ next[r] = 1 /\ counts[r] = NoCounts
        /\ written[r] = {} /\ loaded[r] = {} /\ touched[r] = {} /\ pending[r] = <<>>
    BY DEF Init
  <1>2. Counted(r)
    BY <1>1, EmptyIsCounted
  <1>3. ~Undisturbed(r)
    BY <1>1 DEF Undisturbed, Running
  <1>4. QED
    BY <1>1, <1>2, <1>3 DEF RequestInv, Blank

LEMMA BatchInvStays == IInv /\ BatchInv /\ [Next]_vars => BatchInv'
  <1> SUFFICES ASSUME IInv, BatchInv, [Next]_vars, NEW s \in Requests
               PROVE  RequestInv(s)'
    BY DEF BatchInv
  <1>1. CASE UNCHANGED vars
    <2>1. RequestInv(s)
      BY DEF BatchInv
    <2> USE <1>1 DEF vars, dbVars, sessionVars
    <2>2. Blank(s)' /\ Counted(s)'
      BY <2>1 DEF RequestInv, Blank, Counted, Adds, Closes, Exists
    <2>3. Undisturbed(s)' => Undisturbed(s)
      BY DEF Undisturbed
    <2>4. StillSo(s) => StillSo(s)'
      BY DEF StillSo, View, Exists
    <2>5. Unrepeated(s) => Unrepeated(s)'
      BY DEF Unrepeated, Reports
    <2>6. \A i : Latest(s, i)' = Latest(s, i)
      BY DEF Latest
    <2>7. \A t, h : Left(s, t, h)' = Left(s, t, h)
      BY DEF Left, Reported, Withdrawn, Pends, View, Exists
    <2>8. Dirty(s)' = Dirty(s)
      BY DEF Dirty
    <2>9. Followed(s) => Followed(s)'
      BY <2>6, <2>7, <2>8 DEF Followed
    <2>10. QED
      BY <2>1, <2>2, <2>3, <2>4, <2>5, <2>9 DEF RequestInv
  <1>2. ASSUME NEW r \in Requests, Acts(r)
        PROVE  RequestInv(s)'
    BY <1>2, ActsOwn, OthersKeep
  <1>3. QED
    BY <1>1, <1>2 DEF Next, Acts, AllAnswered

THEOREM Counting == Spec => []BatchInv
  <1>1. QED
    BY BatchInvInit, BatchInvStays, Invariance, PTL DEF Spec

(* Only its own commit makes a request succeed.                            *)
LEMMA OnlyCommitCommits ==
    ASSUME IInv, [Next]_vars, NEW r \in Requests, Commits(r)
    PROVE  Commit(r)
  <1>1. pc[r] = "commit" /\ pc'[r] \in {"ok", "lost"}
    BY DEF Commits
  <1>2. ~UNCHANGED vars
    BY <1>1 DEF vars
  <1>3. PICK q \in Requests : Acts(q)
    BY <1>2 DEF Next, Acts, AllAnswered
  <1>4. q = r
    BY <1>1, <1>3, OthersSame DEF IInv, Same
  <1>5. ASSUME NEW j \in Jobs, Start(r, j)
        PROVE  FALSE
    BY <1>1, <1>5 DEF Start
  <1>6. ~Interrupted(r) /\ ~DeadlockVictim(r)
    BY <1>1, FinishResets DEF Interrupted, DeadlockVictim, Fail, IInv
  <1>7. CASE Step(r)
    BY <1>1, <1>6, <1>7 DEF Step, SelectRepo, InsertRepo, FoundKnown, FoundNew, RemovedActive,
                            RemovedOther, EndOfBatch, FlushUpdate, FlushInsert, Flushed,
                            ReadState, Triage, AtEvent
  <1>8. QED
    BY <1>3, <1>4, <1>5, <1>6, <1>7 DEF Acts

LEMMA CommitCounts ==
    ASSUME IInv, BatchInv, NEW r \in Requests, Commit(r)
    PROVE  /\ Cardinality({h \in Hashes : ~Exists(rows[h]) /\ Exists(rows'[h])})
                  = counts[r].new
           /\ Cardinality({h \in Hashes : rows[h].status # "fixed" /\ rows'[h].status = "fixed"})
                  <= counts[r].fixed
  <1>1. pc[r] = "commit" /\ \A h \in Hashes : rows'[h] = View(r, h)
    BY DEF Commit
  <1>2. written[r] \subseteq Hashes /\ \A h \in written[r] : Exists(buf[r][h])
    BY DEF IInv, TypeOK, KnownRowsExist
  <1>3. {h \in Hashes : ~Exists(rows[h]) /\ Exists(rows'[h])} = Adds(r)
    BY <1>1, <1>2 DEF Adds, View
  <1>4. {h \in Hashes : rows[h].status # "fixed" /\ rows'[h].status = "fixed"} = Closes(r)
    BY <1>1, <1>2 DEF Closes, View
  <1>5. /\ counts[r].new = Len(pending[r]) + Cardinality(Adds(r))
        /\ Cardinality(Closes(r)) <= counts[r].fixed
        /\ pending[r] = <<>>
    BY <1>1 DEF BatchInv, RequestInv, Counted
  <1>6. counts[r].new = Cardinality(Adds(r))
    <2>1. IsFiniteSet(Adds(r))
      BY <1>2, FS_Subset, IngestAssumption DEF Adds
    <2>2. Cardinality(Adds(r)) \in Nat /\ Len(<<>>) = 0
      BY <2>1, FS_CardinalityType
    <2>3. QED
      BY <1>5, <2>2
  <1>7. QED
    BY <1>3, <1>4, <1>5, <1>6

(* The counters of a response, and with them the webhooks it fires, agree  *)
(* with its commit, whatever else ran (cli.py: ingest_events).             *)
THEOREM ResponsesCount == Spec => ResponseCountsCommit
  <1>1. IInv /\ BatchInv /\ [Next]_vars =>
            [\A r \in Requests : Commits(r) =>
                /\ Cardinality({h \in Hashes : ~Exists(rows[h]) /\ Exists(rows'[h])})
                      = counts[r].new
                /\ Cardinality({h \in Hashes : /\ rows[h].status # "fixed"
                                               /\ rows'[h].status = "fixed"})
                      <= counts[r].fixed]_vars
    BY OnlyCommitCommits, CommitCounts
  <1>2. QED
    BY <1>1, Invariance, Counting, PTL DEF Spec, ResponseCountsCommit

LEMMA RefusedForCause ==
    ASSUME IInv, BatchInv, [Next]_vars, NEW r \in Requests,
           pc[r] # "conflict", pc'[r] = "conflict", alone[r]
    PROVE  Repeats(job[r].batch)
  <1>1. ~UNCHANGED vars
    BY DEF vars
  <1>2. PICK q \in Requests : Acts(q)
    BY <1>1 DEF Next, Acts, AllAnswered
  <1>3. q = r
    BY <1>2, OthersSame DEF IInv, Same
  <1>4. ASSUME NEW j \in Jobs, Start(r, j)
        PROVE  FALSE
    BY <1>4 DEF Start, Goto, IInv, TypeOK
  <1>5. Step(r) /\ ~DeadlockVictim(r)
    BY <1>2, <1>3, <1>4, FinishResets DEF Acts, Interrupted, DeadlockVictim, Fail, IInv
  <1>6. StillSo(r) /\ Followed(r) /\ Unrepeated(r) /\ Counted(r)
    BY <1>5, StepsRun DEF BatchInv, RequestInv, Undisturbed
  <1>7. CASE InsertRepo(r)
    BY <1>6, <1>7 DEF InsertRepo, StillSo, Goto, IInv, TypeOK
  <1>8. CASE FlushInsert(r)
    <2>1. pending[r] # <<>> /\ Exists(View(r, Head(pending[r])))
      BY <1>8 DEF FlushInsert
    <2>2. pending[r] \in Seq(Hashes)
      BY DEF IInv, TypeOK
    <2>3. 1 \in 1..Len(pending[r]) /\ Head(pending[r]) = pending[r][1]
      BY <2>1, <2>2
    <2>4. pending[r][1] \in written[r]
      BY <1>6, <2>1, <2>3 DEF StillSo, View
    <2>5. QED
      BY <1>6, <2>1, <2>3, <2>4 DEF Unrepeated, Counted
  <1>9. CASE Commit(r)
    BY <1>9, FinishResets DEF Commit, IInv
  <1>10. CASE Triage(r) \/ Flushed(r)
    BY <1>10, FinishResets DEF Triage, Flushed, Fail, Goto, IInv, TypeOK
  <1>11. CASE SelectRepo(r) \/ EndOfBatch(r) \/ ReadState(r)
    BY <1>11 DEF SelectRepo, EndOfBatch, ReadState, Goto, IInv, TypeOK
  <1>12. CASE FoundKnown(r) \/ FoundNew(r) \/ RemovedActive(r) \/ RemovedOther(r) \/ FlushUpdate(r)
    BY <1>12 DEF FoundKnown, FoundNew, RemovedActive, RemovedOther, FlushUpdate
  <1>13. QED
    BY <1>5, <1>7, <1>8, <1>9, <1>10, <1>11, <1>12 DEF Step

(* A unique constraint refuses a batch beside which nothing runs only if   *)
(* it reports one fingerprint twice (cli.py: _upsert_finding's SELECT does *)
(* not see what the session has not flushed).                              *)
THEOREM ConflictsHaveCause == Spec => ConflictHasCause
  <1>1. IInv /\ BatchInv /\ [Next]_vars =>
            [\A r \in Requests :
                pc[r] # "conflict" /\ pc'[r] = "conflict" /\ alone[r]
                    => Repeats(job[r].batch)]_vars
    BY RefusedForCause
  <1>2. QED
    BY <1>1, Invariance, Counting, PTL DEF Spec, ConflictHasCause

(* Of some places in a batch one is the last.                              *)
LEMMA LastExists ==
    ASSUME NEW n \in Nat, NEW S, S \subseteq 1..n, S # {}
    PROVE  \E i \in S : \A j \in S : j <= i
  <1> DEFINE T == {n - i : i \in S}
  <1>1. T \subseteq Nat /\ T # {}
    <2>1. \A i \in 1..n : n - i \in Nat
      OBVIOUS
    <2>2. PICK j \in S : TRUE
      OBVIOUS
    <2>3. \A i \in S : n - i \in Nat
      BY <2>1
    <2>4. QED
      BY <2>2, <2>3
  <1> HIDE DEF T
  <1>2. PICK x \in T : \A y \in T : <<y, x>> \notin OpToRel(<, Nat)
    BY <1>1, WFMin, NatLessThanWellFounded, Zenon
  <1>3. \A y \in T : ~(y < x)
    BY <1>1, <1>2, Zenon DEF OpToRel
  <1>4. PICK i \in S : x = n - i
    BY DEF T
  <1>5. ASSUME NEW j \in S
        PROVE  j <= i
    <2>1. ~(n - j < n - i)
      BY <1>3, <1>4 DEF T
    <2>2. i \in 1..n /\ j \in 1..n
      OBVIOUS
    <2>3. QED
      BY <2>1, <2>2
  <1>6. QED
    BY <1>5

LEMMA CommitFollows ==
    ASSUME IInv, BatchInv, NEW r \in Requests, Commit(r), alone[r], job[r].kind = "events",
           NEW i \in 1..Len(job[r].batch), NEW h, h = job[r].batch[i].hash
    PROVE  IF LastEvent(job[r].batch, h) = "found"
           THEN rows'[h].status = "active" /\ ~rows'[h].fixedAt
           ELSE rows'[h].status # "active" \/ ~Exists(rows[h])
  <1>1. PICK b \in Seq(Event) : b = job[r].batch
    <2>1. job[r] \in Jobs \cup {NoJob}
      BY DEF IInv, TypeOK
    <2>2. job[r].batch \in Seq(Event)
      BY <2>1 DEF Jobs, NoJob
    <2>3. QED
      BY <2>2
  <1>2. Len(b) \in Nat /\ b[i] \in Event /\ h \in Hashes
    <2>1. Len(b) \in Nat /\ b[i] \in Event
      BY <1>1
    <2>2. QED
      BY <1>1, <2>1 DEF Event
  <1>3. pc[r] = "commit" /\ rows'[h] = View(r, h)
    BY <1>2 DEF Commit
  <1>4. /\ StillSo(r) /\ Followed(r) /\ Counted(r)
    BY <1>3 DEF BatchInv, RequestInv, Undisturbed, Running
  <1>5. pending[r] = <<>> /\ Dirty(r) = {} /\ next[r] > Len(b)
    BY <1>1, <1>3, <1>4 DEF Counted, Followed
  <1> DEFINE at == {k \in 1..Len(b) : b[k].hash = h}
             last == CHOOSE k \in at : \A j \in at : j <= k
  <1>6. last \in at /\ \A j \in at : j <= last
    <2>1. at \subseteq 1..Len(b) /\ at # {}
      BY <1>1
    <2>2. \E k \in at : \A j \in at : j <= k
      BY <1>2, <2>1, LastExists
    <2>3. QED
      BY <2>2
  <1> HIDE DEF last
  <1>7. Latest(r, last) /\ last \in 1..Len(b) /\ b[last].hash = h
    <2>1. last < next[r]
      BY <1>2, <1>5, <1>6 DEF IInv, TypeOK
    <2>2. QED
      BY <1>1, <1>6, <2>1 DEF Latest
  <1>8. LastEvent(b, h) = b[last].type /\ b[last].type \in {"found", "removed"}
    <2>1. LastEvent(b, h) = b[last].type
      BY DEF LastEvent, last
    <2>2. b[last] \in Event
      BY <1>1, <1>7
    <2>3. QED
      BY <2>1, <2>2 DEF Event
  <1>9. Left(r, b[last].type, h)
    BY <1>1, <1>4, <1>7 DEF Followed
  <1>10. CASE b[last].type = "found"
    <2>1. Reported(r, h) /\ ~Pends(r, h)
      BY <1>5, <1>9, <1>10 DEF Left, Pends
    <2>2. CASE h \in loaded[r] /\ cur[r][h].status = "active" /\ ~cur[r][h].fixedAt
      <3>1. View(r, h) = cur[r][h]
        BY <1>4, <1>5, <2>2 DEF StillSo, Dirty
      <3>2. QED
        BY <1>1, <1>3, <1>8, <1>10, <2>2, <3>1
    <2>3. CASE h \in written[r] /\ buf[r][h] = NewRow
      BY <1>1, <1>3, <1>8, <1>10, <2>3 DEF View, NewRow
    <2>4. QED
      BY <2>1, <2>2, <2>3 DEF Reported
  <1>11. CASE b[last].type = "removed"
    <2>1. Withdrawn(r, h)
      BY <1>9, <1>11 DEF Left
    <2>2. LastEvent(b, h) # "found"
      BY <1>8, <1>11
    <2>3. QED
      BY <1>1, <1>3, <2>1, <2>2 DEF Withdrawn
  <1>12. QED
    BY <1>8, <1>10, <1>11

(* Beside which nothing runs, a batch does what its events say: the last   *)
(* one of a fingerprint decides (cli.py: ingest_events).                   *)
THEOREM BatchesAreFollowed == Spec => LastEventDecides
  <1>1. IInv /\ BatchInv /\ [Next]_vars =>
            [\A r \in Requests :
                Commits(r) /\ alone[r] /\ job[r].kind = "events" =>
                    \A i \in 1..Len(job[r].batch) :
                        LET h == job[r].batch[i].hash IN
                        IF LastEvent(job[r].batch, h) = "found"
                        THEN rows'[h].status = "active" /\ ~rows'[h].fixedAt
                        ELSE rows'[h].status # "active" \/ ~Exists(rows[h])]_vars
    BY OnlyCommitCommits, CommitFollows
  <1>2. QED
    BY <1>1, Invariance, Counting, PTL DEF Spec, LastEventDecides

-----------------------------------------------------------------------------
(* Why every request is answered: somebody can always go on, and everybody *)
(* has only so much to do.                                                 *)

(* What a request in the middle of its handler can do next, if no row is   *)
(* locked that it is going to write.                                       *)
Able(r) ==
    \/ pc[r] \in {"repo", "mkrepo", "commit"}
    \/ /\ pc[r] = "events"
       /\ \/ job[r].kind = "state"
          \/ AtEvent(r, "found")
          \/ AtEvent(r, "removed")
          \/ job[r].kind = "events" /\ next[r] > Len(job[r].batch)
    \/ pc[r] = "flush" /\ (Dirty(r) # {} => NextKeys(r) # {})
    \/ pc[r] = "read" /\ job[r].kind = "triage"

(* A row is locked only by a request that is under way, and a request is   *)
(* where one of its kind can be.                                           *)
OwnersRun == \A k \in Keys : wlock[k] # None => pc[wlock[k]] \in Running
InPlace(r) ==
    /\ pc[r] \in {"repo", "mkrepo", "events"} => job[r].kind \in {"events", "state"}
    /\ pc[r] = "read" => job[r].kind = "triage"
    /\ job[r].kind = "events" => next[r] <= Len(job[r].batch) + 1
WaitInv == OwnersRun /\ \A r \in Requests : InPlace(r)

(* How many steps a request has at most before it: an event of the rest of *)
(* its batch takes one, and may leave something to write.                  *)
Rest(r) == IF job[r].kind = "events" THEN 2 * (Len(job[r].batch) + 1 - next[r]) ELSE 0
Unwritten(r) == Cardinality(Dirty(r)) + Len(pending[r])
WorkAt(place, rest, unwritten) ==
    CASE place = "repo" -> rest + 5
      [] place = "mkrepo" -> rest + 4
      [] place = "events" -> rest + unwritten + 3
      [] place = "read" -> 4
      [] place = "flush" -> unwritten + 2
      [] place = "commit" -> 1
      [] place \in Finished \cup {"idle"} -> 0
Work(r) == WorkAt(pc[r], Rest(r), Unwritten(r))

(* A step of a request locks rows for that request, and none for one that  *)
(* it ends.                                                                *)
LEMMA OwnLocks ==
    ASSUME TypeOK, OwnersRun, NEW r \in Requests, Acts(r), NEW k \in Keys
    PROVE  /\ wlock'[k] \in {wlock[k], r, None}
           /\ wlock'[k] = r => pc'[r] \in Running
  <1>0. None # r /\ pc \in [Requests -> {"idle"} \cup Running \cup Finished]
    BY DEF TypeOK
  <1>1. ASSUME NEW a, Finish(r, a)
        PROVE  wlock'[k] \in {wlock[k], None} /\ wlock'[k] # r
    BY <1>0, <1>1 DEF Finish, TypeOK
  <1>2. ASSUME NEW j \in Jobs, Start(r, j)
        PROVE  wlock'[k] = wlock[k] /\ pc'[r] \in Running
    BY <1>0, <1>2 DEF Start, Goto, dbVars, Running
  <1>3. CASE SelectRepo(r) \/ EndOfBatch(r) \/ ReadState(r)
    BY <1>0, <1>3 DEF SelectRepo, EndOfBatch, ReadState, Goto, dbVars, Running
  <1>4. CASE InsertRepo(r) \/ Flushed(r) \/ Triage(r)
    <2>1. CASE \E a \in Finished : Finish(r, a)
      BY <1>1, <2>1
    <2>2. CASE ~\E a \in Finished : Finish(r, a)
      BY <1>0, <1>4, <2>2 DEF InsertRepo, Flushed, Triage, Fail, Goto, dbVars, Running,
                              Finished, TypeOK
    <2>3. QED
      BY <2>1, <2>2
  <1>5. CASE FoundKnown(r) \/ FoundNew(r) \/ RemovedOther(r)
    BY <1>5 DEF FoundKnown, FoundNew, RemovedOther, AtEvent, dbVars, Running
  <1>6. CASE RemovedActive(r)
    BY <1>6 DEF RemovedActive, AtEvent, Running, TypeOK
  <1>7. CASE FlushUpdate(r)
    BY <1>7 DEF FlushUpdate, Running, TypeOK
  <1>8. CASE FlushInsert(r)
    <2>1. CASE Fail(r, "conflict")
      BY <1>1, <2>1 DEF Fail
    <2>2. CASE ~Fail(r, "conflict")
      BY <1>8, <2>2 DEF FlushInsert, Running, TypeOK
    <2>3. QED
      BY <2>1, <2>2
  <1>9. CASE Commit(r) \/ DeadlockVictim(r) \/ Interrupted(r)
    BY <1>1, <1>9 DEF Commit, DeadlockVictim, Interrupted, Fail
  <1>10. QED
    BY <1>2, <1>3, <1>4, <1>5, <1>6, <1>7, <1>8, <1>9 DEF Acts, Step

(* A step of a request leaves it in its place.                             *)
LEMMA OwnPlace ==
    ASSUME IInv, BatchInv, NEW r \in Requests, InPlace(r), Acts(r)
    PROVE  InPlace(r)'
  <1>0. pc \in [Requests -> {"idle"} \cup Running \cup Finished] /\ next[r] \in Nat
    BY DEF IInv, TypeOK
  <1>1. ASSUME NEW a \in Finished, Finish(r, a)
        PROVE  InPlace(r)'
    <2>1. pc'[r] = a /\ job'[r] = NoJob
      BY <1>1 DEF Finish, IInv, TypeOK
    <2>2. QED
      BY <2>1 DEF InPlace, NoJob, Finished
  <1>2. ASSUME NEW j \in Jobs, Start(r, j)
        PROVE  InPlace(r)'
    <2>1. next'[r] = 1 /\ job'[r] = j
      BY <1>2 DEF Start, BatchInv, RequestInv, Blank, IInv, TypeOK
    <2>2. pc'[r] = IF j.kind = "triage" THEN "read" ELSE "repo"
      BY <1>2 DEF Start, Goto, IInv, TypeOK
    <2>3. j.kind \in {"events", "triage", "state"}
      BY DEF Jobs
    <2>4. j.kind = "events" => Len(j.batch) \in Nat
      BY DEF Jobs
    <2>5. QED
      BY <2>1, <2>2, <2>3, <2>4 DEF InPlace
  <1>3. CASE SelectRepo(r) \/ EndOfBatch(r) \/ ReadState(r)
    BY <1>0, <1>3 DEF SelectRepo, EndOfBatch, ReadState, Goto, InPlace
  <1>4. CASE InsertRepo(r) \/ Flushed(r) \/ Triage(r)
    <2>1. CASE \E a \in Finished : Finish(r, a)
      BY <1>1, <2>1
    <2>2. CASE ~\E a \in Finished : Finish(r, a)
      BY <1>0, <1>4, <2>2 DEF InsertRepo, Flushed, Triage, Fail, Goto, Finished, InPlace
    <2>3. QED
      BY <2>1, <2>2
  <1>5. CASE FoundKnown(r) \/ FoundNew(r) \/ RemovedActive(r) \/ RemovedOther(r)
    <2>1. AtEvent(r, "found") \/ AtEvent(r, "removed")
      BY <1>5 DEF FoundKnown, FoundNew, RemovedActive, RemovedOther
    <2>2. next[r] \in 1..Len(job[r].batch) /\ Len(job[r].batch) \in Nat
      BY <2>1, AtAnEvent
    <2>3. pc' = pc /\ job' = job /\ next'[r] = next[r] + 1
      BY <1>5 DEF FoundKnown, FoundNew, RemovedActive, RemovedOther, IInv, TypeOK
    <2>4. QED
      BY <2>2, <2>3 DEF InPlace
  <1>6. CASE FlushUpdate(r)
    BY <1>6 DEF FlushUpdate, InPlace
  <1>7. CASE FlushInsert(r)
    <2>1. CASE Fail(r, "conflict")
      BY <1>1, <2>1 DEF Fail, Finished
    <2>2. CASE ~Fail(r, "conflict")
      BY <1>7, <2>2 DEF FlushInsert, InPlace
    <2>3. QED
      BY <2>1, <2>2
  <1>8. CASE Commit(r) \/ DeadlockVictim(r) \/ Interrupted(r)
    BY <1>1, <1>8 DEF Commit, DeadlockVictim, Interrupted, Fail, Finished
  <1>9. QED
    BY <1>2, <1>3, <1>4, <1>5, <1>6, <1>7, <1>8 DEF Acts, Step

LEMMA WaitInvInit == Init => WaitInv
  BY DEF Init, WaitInv, OwnersRun, InPlace, NoJob

LEMMA WaitInvStays == IInv /\ BatchInv /\ WaitInv /\ [Next]_vars => WaitInv'
  <1> SUFFICES ASSUME IInv, BatchInv, WaitInv, [Next]_vars
               PROVE  WaitInv'
    OBVIOUS
  <1>1. CASE UNCHANGED vars
    BY <1>1 DEF vars, dbVars, sessionVars, WaitInv, OwnersRun, InPlace
  <1>2. ASSUME NEW r \in Requests, Acts(r)
        PROVE  WaitInv'
    <2>1. ASSUME NEW s \in Requests, s # r
          PROVE  Same(s)
      BY <1>2, <2>1, OthersSame DEF IInv
    <2>2. ASSUME NEW s \in Requests
          PROVE  InPlace(s)'
      <3>1. CASE s = r
        BY <1>2, <3>1, OwnPlace DEF WaitInv
      <3>2. CASE s # r
        BY <2>1, <3>2 DEF Same, InPlace, WaitInv
      <3>3. QED
        BY <3>1, <3>2
    <2>3. ASSUME NEW k \in Keys, wlock'[k] # None
          PROVE  pc'[wlock'[k]] \in Running
      <3>1. wlock'[k] \in {wlock[k], r} /\ (wlock'[k] = r => pc'[r] \in Running)
        BY <1>2, <2>3, OwnLocks DEF WaitInv, IInv
      <3>2. CASE wlock'[k] = r
        BY <3>1, <3>2
      <3>3. CASE wlock'[k] = wlock[k] /\ wlock[k] # r
        <4>1. wlock[k] \in Requests /\ pc[wlock[k]] \in Running
          BY <2>3, <3>3 DEF WaitInv, OwnersRun, IInv, TypeOK
        <4>2. QED
          BY <2>1, <3>3, <4>1 DEF Same
      <3>4. QED
        BY <3>1, <3>2, <3>3
    <2>4. QED
      BY <2>2, <2>3 DEF WaitInv, OwnersRun
  <1>3. QED
    BY <1>1, <1>2 DEF Next, AllAnswered, Acts

(* In every state of every history rows are locked by requests that will   *)
(* end, and every request is in its place.                                 *)
THEOREM Waiting == Spec => []WaitInv
  BY WaitInvInit, WaitInvStays, Invariance, Counting, PTL DEF Spec


(* Of the objects of a session that are to be written one has the least    *)
(* key.                                                                    *)
LEMMA LeastExists ==
    ASSUME NEW S, S \subseteq Nat, S # {}
    PROVE  \E x \in S : \A y \in S : x <= y
  <1>1. PICK x \in S : \A y \in S : <<y, x>> \notin OpToRel(<, Nat)
    BY WFMin, NatLessThanWellFounded, Zenon
  <1>2. \A y \in S : ~(y < x)
    BY <1>1, Zenon DEF OpToRel
  <1>3. QED
    BY <1>2

(* A request that is under way has a step to take, unless it waits.        *)
LEMMA RunningIsAble ==
    ASSUME IInv, NEW r \in Requests, InPlace(r), pc[r] \in Running
    PROVE  Able(r)
  <1>1. CASE pc[r] \in {"repo", "mkrepo", "commit"}
    BY <1>1 DEF Able
  <1>2. CASE pc[r] = "events"
    <2>1. job[r].kind = "state" \/ job[r].kind = "events"
      BY <1>2 DEF InPlace
    <2>2. CASE job[r].kind = "events" /\ next[r] <= Len(job[r].batch)
      <3>1. job[r] \in Jobs \cup {NoJob}
        BY DEF IInv, TypeOK
      <3>2. job[r].batch \in Seq(Event)
        BY <2>2, <3>1 DEF Jobs, NoJob
      <3>3. next[r] \in 1..Len(job[r].batch)
        BY <2>2, <3>2 DEF IInv, TypeOK
      <3>4. EventAt(r) \in Event
        BY <3>2, <3>3 DEF EventAt
      <3>5. EventAt(r).type \in {"found", "removed"}
        BY <3>4 DEF Event
      <3>6. AtEvent(r, "found") \/ AtEvent(r, "removed")
        BY <1>2, <2>2, <3>5 DEF AtEvent
      <3>7. QED
        BY <1>2, <3>6 DEF Able
    <2>3. CASE job[r].kind = "events" /\ ~(next[r] <= Len(job[r].batch))
      <3>1. job[r] \in Jobs \cup {NoJob}
        BY DEF IInv, TypeOK
      <3>2. Len(job[r].batch) \in Nat /\ next[r] \in Nat
        BY <2>3, <3>1 DEF Jobs, NoJob, IInv, TypeOK
      <3>3. next[r] > Len(job[r].batch)
        BY <2>3, <3>2
      <3>4. QED
        BY <1>2, <2>3, <3>3 DEF Able
    <2>4. QED
      BY <1>2, <2>1, <2>2, <2>3 DEF Able
  <1>3. CASE pc[r] = "flush"
    <2>1. CASE Dirty(r) # {}
      <3>1. Dirty(r) \subseteq Hashes
        BY DEF Dirty, IInv, TypeOK
      <3>2. PICK x \in Dirty(r) : \A y \in Dirty(r) : x <= y
        BY <2>1, <3>1, LeastExists
      <3>3. x \in NextKeys(r)
        BY <1>3, <3>1, <3>2 DEF NextKeys, Keys
      <3>4. QED
        BY <1>3, <3>3 DEF Able
    <2>2. QED
      BY <1>3, <2>1 DEF Able
  <1>4. CASE pc[r] = "read"
    BY <1>4 DEF InPlace, Able
  <1>5. QED
    BY <1>1, <1>2, <1>3, <1>4 DEF Running

LEMMA SmallRemainder ==
    ASSUME NEW m \in Nat, NEW i \in 1..m, i < m
    PROVE  i % m = i
  OBVIOUS

(* Who follows, in a finite set, from each to another, comes back to where *)
(* he was.                                                                 *)
ComesBack(S, f) ==
    \E n \in 2..Cardinality(S) : \E c \in [1..n -> S] :
        \A i \in 1..n : c[(i % n) + 1] = f[c[i]]

LEMMA CycleExists ==
    ASSUME NEW S, IsFiniteSet(S), S # {}, NEW f \in [S -> S], \A s \in S : f[s] # s
    PROVE  ComesBack(S, f)
  <1> DEFINE N == Cardinality(S)
             Path(n, c) == /\ \A i \in 1..n : \A j \in 1..n : c[i] = c[j] => i = j
                           /\ \A i \in 1..n : i < n => c[i + 1] = f[c[i]]
             L == {n \in 1..N : \E c \in [1..n -> S] : Path(n, c)}
  <1>1. N \in Nat
    BY FS_CardinalityType
  <1>2. ASSUME NEW n \in Nat, NEW c \in [1..n -> S], Path(n, c)
        PROVE  n <= N
    <2>1. c \in Injection(1..n, S)
      BY <1>2 DEF Injection, IsInjective
    <2>2. Cardinality(1..n) <= N
      BY <2>1, FS_Injection
    <2>3. Cardinality(1..n) = n
      BY FS_Interval
    <2>4. QED
      BY <2>2, <2>3
  <1>3. 1 \in L
    <2>1. PICK s \in S : TRUE
      OBVIOUS
    <2> DEFINE c == [i \in 1..1 |-> s]
    <2>2. c \in [1..1 -> S] /\ Path(1, c)
      OBVIOUS
    <2> HIDE DEF c, Path
    <2>3. 1 <= N
      BY <1>2, <2>2
    <2>4. 1 \in 1..N
      BY <1>1, <2>3
    <2>5. QED
      BY <2>2, <2>4
  <1>4. PICK n \in L : \A m \in L : m <= n
    <2>1. L \subseteq 1..N /\ L # {}
      BY <1>3
    <2> HIDE DEF L, N
    <2>2. QED
      BY <1>1, <2>1, LastExists
  <1>5. PICK c \in [1..n -> S] : Path(n, c)
    BY <1>4
  <1>6. n \in Nat /\ n >= 1 /\ n <= N
    BY <1>1, <1>4
  <1>7. c[n] \in S /\ f[c[n]] \in S
    BY <1>6
  <1>8. PICK j \in 1..n : c[j] = f[c[n]]
    <2> SUFFICES ASSUME \A j \in 1..n : c[j] # f[c[n]]
                 PROVE  FALSE
      OBVIOUS
    <2> DEFINE d == [i \in 1..(n + 1) |-> IF i = n + 1 THEN f[c[n]] ELSE c[i]]
    <2>1. d \in [1..(n + 1) -> S]
      BY <1>6, <1>7
    <2>2. d[n + 1] = f[c[n]] /\ \A i \in 1..n : d[i] = c[i] /\ i # n + 1
      BY <1>6
    <2>3. \A i \in 1..(n + 1) : i = n + 1 \/ i \in 1..n
      BY <1>6
    <2> HIDE DEF d
    <2>4. \A i \in 1..(n + 1) : \A k \in 1..(n + 1) : d[i] = d[k] => i = k
      BY <1>5, <2>2, <2>3
    <2>5. ASSUME NEW i \in 1..(n + 1), i < n + 1
          PROVE  d[i + 1] = f[d[i]]
      <3>1. i \in 1..n
        BY <1>6, <2>5
      <3>2. CASE i = n
        BY <2>2, <3>1, <3>2
      <3>3. CASE i < n
        <4>1. i + 1 \in 1..n
          BY <1>6, <3>1, <3>3
        <4>2. QED
          BY <1>5, <2>2, <3>1, <3>3, <4>1
      <3>4. QED
        BY <1>6, <3>1, <3>2, <3>3
    <2>6. Path(n + 1, d)
      BY <2>4, <2>5
    <2>7. n + 1 \in Nat /\ n + 1 <= N
      BY <1>2, <1>6, <2>1, <2>6
    <2>8. n + 1 \in L
      BY <1>1, <2>1, <2>6, <2>7
    <2>9. QED
      BY <1>4, <1>6, <2>8
  <1>9. j < n
    BY <1>6, <1>7, <1>8
  <1> DEFINE m == n - j + 1
             e == [i \in 1..m |-> c[i + j - 1]]
  <1>10. m \in 2..N
    BY <1>1, <1>6, <1>9
  <1>11. \A i \in 1..m : i + j - 1 \in 1..n
    BY <1>6, <1>9
  <1>12. e \in [1..m -> S]
    BY <1>11
  <1>13. ASSUME NEW i \in 1..m
         PROVE  e[(i % m) + 1] = f[e[i]]
    <2>1. CASE i = m
      <3>1. i % m = 0
        BY <1>10, <2>1
      <3>2. e[1] = c[j] /\ e[m] = c[n]
        BY <1>6, <1>9, <1>10
      <3>3. QED
        BY <1>8, <2>1, <3>1, <3>2
    <2>2. CASE i < m
      <3>1. i % m = i
        <4>1. m \in Nat /\ i \in 1..m /\ i < m
          BY <1>10, <2>2
        <4> HIDE DEF m
        <4>2. QED
          BY <4>1, SmallRemainder
      <3>2. e[i + 1] = c[i + j] /\ e[i] = c[i + j - 1] /\ i + j - 1 \in 1..n /\ i + j - 1 < n
        BY <1>6, <1>9, <1>10, <2>2
      <3>3. c[(i + j - 1) + 1] = f[c[i + j - 1]]
        BY <1>5, <3>2
      <3>4. (i + j - 1) + 1 = i + j
        BY <1>6
      <3>5. QED
        BY <3>1, <3>2, <3>3, <3>4
    <2>3. QED
      BY <1>10, <2>1, <2>2
  <1> HIDE DEF m, e
  <1>14. QED
    BY <1>10, <1>12, <1>13 DEF ComesBack

(* Requests that all wait wait in a cycle.                                 *)
LEMMA AllWaitInCycle ==
    ASSUME IInv, WaitInv, \E r \in Requests : pc[r] \in Running,
           \A r \in Requests : pc[r] \in Running => Blockers(r) # {}
    PROVE  \E r \in Requests : pc[r] \in Running /\ InCycle(r)
  <1> DEFINE S == {r \in Requests : pc[r] \in Running}
             f == [s \in S |-> CHOOSE b \in Blockers(s) : TRUE]
  <1>1. IsFiniteSet(S) /\ S # {} /\ Cardinality(S) <= Cardinality(Requests)
    <2>1. S \subseteq Requests
      OBVIOUS
    <2>2. QED
      BY <2>1, FS_Subset, FS_CardinalityType
  <1>2. \A s \in S : f[s] \in Blockers(s)
    OBVIOUS
  <1>3. ASSUME NEW s \in S
        PROVE  f[s] \in S /\ f[s] # s
    <2>0. \A b \in Blockers(s) : \E k \in Keys : b = wlock[k] /\ b \notin {None, s}
      BY DEF Blockers, NextKeys
    <2> HIDE DEF f
    <2>1. PICK k \in Keys : f[s] = wlock[k] /\ f[s] \notin {None, s}
      BY <1>2, <2>0
    <2>2. wlock[k] \in Requests /\ pc[wlock[k]] \in Running
      BY <2>1 DEF WaitInv, OwnersRun, IInv, TypeOK
    <2>3. QED
      BY <2>1, <2>2
  <1>4. f \in [S -> S]
    BY <1>3
  <1>5. PICK n \in 2..Cardinality(S) : \E c \in [1..n -> S] :
            \A i \in 1..n : c[(i % n) + 1] = f[c[i]]
    <2>1. IsFiniteSet(S) /\ S # {} /\ \A s \in S : f[s] # s
      BY <1>1, <1>3
    <2> HIDE DEF f, S
    <2>2. ComesBack(S, f)
      BY <1>4, <2>1, CycleExists
    <2>3. QED
      BY <2>2 DEF ComesBack
  <1>6. PICK c \in [1..n -> S] : \A i \in 1..n : c[(i % n) + 1] = f[c[i]]
    BY <1>5
  <1>7. n \in 2..Cardinality(Requests)
    BY <1>1, FS_CardinalityType
  <1>8. c \in [1..n -> Requests] /\ c[1] \in S
    BY <1>7
  <1>9. \A i \in 1..n : Waits(c[i], c[(i % n) + 1])
    BY <1>2, <1>6 DEF Waits
  <1>10. InCycle(c[1])
    BY <1>7, <1>8, <1>9 DEF InCycle
  <1>11. QED
    BY <1>8, <1>10

(* In every state of every history where requests are under way, one of    *)
(* them can take its next step: its statement, be it the UPDATE of a       *)
(* removed event, that of a found one at the flush (last_seen, if nothing  *)
(* else: cli.py:395-396) or an INSERT, waits for no row, or it is in a     *)
(* cycle of waiting ones, of which PostgreSQL aborts one.                  *)
THEOREM SomebodyGoesOn ==
    Spec => []((\E r \in Requests : pc[r] \in Running) =>
                  \E r \in Requests : /\ pc[r] \in Running
                                      /\ Able(r)
                                      /\ (Blockers(r) = {} \/ InCycle(r)))
  <1>1. IInv /\ WaitInv =>
            ((\E r \in Requests : pc[r] \in Running) =>
                \E r \in Requests : /\ pc[r] \in Running
                                    /\ Able(r)
                                    /\ (Blockers(r) = {} \/ InCycle(r)))
    <2>1. ASSUME IInv, WaitInv, \E r \in Requests : pc[r] \in Running
          PROVE  \E r \in Requests : pc[r] \in Running /\ (Blockers(r) = {} \/ InCycle(r))
      BY <2>1, AllWaitInCycle
    <2>2. ASSUME IInv, WaitInv, NEW r \in Requests, pc[r] \in Running
          PROVE  Able(r)
      BY <2>2, RunningIsAble DEF WaitInv
    <2>3. QED
      BY <2>1, <2>2
  <1>2. QED
    BY <1>1, Invariance, Waiting, PTL


-----------------------------------------------------------------------------
(* What a request has left to do, as a number.                             *)

LEMMA WorkValues ==
    ASSUME NEW rest \in Nat, NEW n \in Nat
    PROVE  /\ WorkAt("repo", rest, n) = rest + 5
           /\ WorkAt("mkrepo", rest, n) = rest + 4
           /\ WorkAt("events", rest, n) = rest + n + 3
           /\ WorkAt("read", rest, n) = 4
           /\ WorkAt("flush", rest, n) = n + 2
           /\ WorkAt("commit", rest, n) = 1
  BY DEF WorkAt, Finished

LEMMA NoWork ==
    ASSUME NEW place \in Finished \cup {"idle"}, NEW rest, NEW n
    PROVE  WorkAt(place, rest, n) = 0
  BY DEF WorkAt, Finished

LEMMA SomeWork ==
    ASSUME NEW place \in Running, NEW rest \in Nat, NEW n \in Nat
    PROVE  WorkAt(place, rest, n) \in Nat /\ WorkAt(place, rest, n) > 0
  BY DEF WorkAt, Running, Finished

LEMMA WorkTypes ==
    ASSUME IInv, NEW r \in Requests, InPlace(r)
    PROVE  /\ Rest(r) \in Nat /\ Unwritten(r) \in Nat
           /\ IsFiniteSet(Dirty(r)) /\ Cardinality(Dirty(r)) \in Nat
           /\ pending[r] \in Seq(Hashes) /\ Len(pending[r]) \in Nat
           /\ Work(r) \in Nat
           /\ pc[r] \in Running => Work(r) > 0
  <1>1. Rest(r) \in Nat
    <2>1. CASE job[r].kind = "events"
      <3>1. job[r] \in Jobs \cup {NoJob}
        BY DEF IInv, TypeOK
      <3>2. Len(job[r].batch) \in Nat /\ next[r] \in Nat
        BY <2>1, <3>1 DEF Jobs, NoJob, IInv, TypeOK
      <3>3. next[r] <= Len(job[r].batch) + 1
        BY <2>1 DEF InPlace
      <3>4. QED
        BY <2>1, <3>2, <3>3 DEF Rest
    <2>2. QED
      BY <2>1 DEF Rest
  <1>2. IsFiniteSet(Dirty(r)) /\ Cardinality(Dirty(r)) \in Nat
    <2>1. Dirty(r) \subseteq Hashes
      BY DEF Dirty, IInv, TypeOK
    <2>2. QED
      BY <2>1, FS_Subset, FS_CardinalityType
  <1>3. pending[r] \in Seq(Hashes) /\ Len(pending[r]) \in Nat
    BY DEF IInv, TypeOK
  <1>4. Unwritten(r) \in Nat
    BY <1>2, <1>3 DEF Unwritten
  <1>5. Work(r) \in Nat /\ (pc[r] \in Running => Work(r) > 0)
    <2>1. pc[r] \in {"idle"} \cup Running \cup Finished
      BY DEF IInv, TypeOK
    <2>2. CASE pc[r] \in Running
      BY <1>1, <1>4, <2>2, SomeWork DEF Work
    <2>3. CASE pc[r] \notin Running
      BY <2>1, <2>3, NoWork DEF Work
    <2>4. QED
      BY <2>2, <2>3
  <1>6. QED
    BY <1>1, <1>2, <1>3, <1>4, <1>5

(* A request that ends has nothing left to do.                             *)
LEMMA FinishWorks ==
    ASSUME IInv, NEW r \in Requests, InPlace(r), pc[r] \in Running,
           NEW a \in Finished, Finish(r, a)
    PROVE  Work(r)' < Work(r)
  <1>1. pc'[r] = a
    BY FinishResets DEF IInv
  <1>2. Work(r)' = 0
    BY <1>1, NoWork DEF Work
  <1>3. QED
    BY <1>2, WorkTypes

(* A step that leaves the batch and the session alone is judged by where   *)
(* it leads.                                                               *)
LEMMA GotoWorks ==
    ASSUME IInv, NEW r \in Requests, NEW l \in Running, Goto(r, l),
           UNCHANGED <<job, next, sessionVars>>
    PROVE  Work(r)' = WorkAt(l, Rest(r), Unwritten(r))
  <1>1. pc'[r] = l
    BY DEF Goto, IInv, TypeOK
  <1>2. Dirty(r)' = Dirty(r) /\ pending' = pending
    BY DEF Dirty, sessionVars
  <1>3. Rest(r)' = Rest(r) /\ Unwritten(r)' = Unwritten(r)
    BY <1>2 DEF Rest, Unwritten
  <1>4. QED
    BY <1>1, <1>3 DEF Work

LEMMA MovesWork ==
    ASSUME IInv, BatchInv, NEW r \in Requests, InPlace(r), pc[r] \in Running,
           SelectRepo(r) \/ InsertRepo(r) \/ EndOfBatch(r) \/ Flushed(r) \/ ReadState(r)
    PROVE  Work(r)' < Work(r)
  <1> DEFINE rest == Rest(r)
             n == Unwritten(r)
  <1>1. rest \in Nat /\ n \in Nat
    BY WorkTypes
  <1>2. CASE \E a \in Finished : Finish(r, a)
    BY <1>2, FinishWorks
  <1>3. CASE ~\E a \in Finished : Finish(r, a)
    <2>1. UNCHANGED <<job, next, sessionVars>>
      BY <1>3 DEF SelectRepo, InsertRepo, EndOfBatch, Flushed, ReadState, Fail, Finished
    <2>2. pc[r] \in {"repo", "mkrepo"} => n = 0
      <3> SUFFICES ASSUME pc[r] \in {"repo", "mkrepo"}
                   PROVE  Unwritten(r) = 0
        OBVIOUS
      <3>1. Dirty(r) = {} /\ pending[r] = <<>>
        BY DEF BatchInv, RequestInv, Blank, Dirty
      <3>2. Cardinality({}) = 0 /\ Len(<<>>) = 0
        BY FS_EmptySet
      <3>3. QED
        BY <3>1, <3>2 DEF Unwritten
    <2>3. ASSUME NEW l \in Running, Goto(r, l)
          PROVE  Work(r)' = WorkAt(l, rest, n)
      BY <2>1, <2>3, GotoWorks
    <2>4. Work(r) = WorkAt(pc[r], rest, n)
      BY DEF Work
    <2> HIDE DEF rest, n
    <2>5. CASE SelectRepo(r)
      <3>1. pc[r] = "repo" /\ (Goto(r, "events") \/ Goto(r, "mkrepo"))
        BY <2>5 DEF SelectRepo
      <3>2. \/ Work(r)' = WorkAt("events", rest, n)
            \/ Work(r)' = WorkAt("mkrepo", rest, n)
        BY <2>3, <3>1 DEF Running
      <3>3. Work(r) = rest + 5 /\ n = 0
        BY <1>1, <2>2, <2>4, <3>1, WorkValues
      <3>4. Work(r)' = rest + n + 3 \/ Work(r)' = rest + 4
        BY <1>1, <3>2, WorkValues
      <3>5. QED
        BY <1>1, <3>3, <3>4
    <2>6. CASE InsertRepo(r)
      <3>1. pc[r] = "mkrepo" /\ Goto(r, "events")
        BY <1>3, <2>6 DEF InsertRepo, Fail, Finished
      <3>2. Work(r)' = WorkAt("events", rest, n)
        BY <2>3, <3>1 DEF Running
      <3>3. QED
        BY <1>1, <2>2, <2>4, <3>1, <3>2, WorkValues
    <2>7. CASE EndOfBatch(r)
      <3>1. pc[r] = "events" /\ Goto(r, "flush")
        BY <2>7 DEF EndOfBatch
      <3>2. Work(r)' = WorkAt("flush", rest, n)
        BY <2>3, <3>1 DEF Running
      <3>3. QED
        BY <1>1, <2>4, <3>1, <3>2, WorkValues
    <2>8. CASE Flushed(r)
      <3>1. pc[r] = "flush" /\ Goto(r, "commit")
        BY <1>3, <2>8 DEF Flushed, Fail, Finished
      <3>2. Work(r)' = WorkAt("commit", rest, n)
        BY <2>3, <3>1 DEF Running
      <3>3. QED
        BY <1>1, <2>4, <3>1, <3>2, WorkValues
    <2>9. CASE ReadState(r)
      <3>1. pc[r] = "events" /\ Goto(r, "commit")
        BY <2>9 DEF ReadState
      <3>2. Work(r)' = WorkAt("commit", rest, n)
        BY <2>3, <3>1 DEF Running
      <3>3. QED
        BY <1>1, <2>4, <3>1, <3>2, WorkValues
    <2>10. QED
      BY <2>5, <2>6, <2>7, <2>8, <2>9
  <1>4. QED
    BY <1>2, <1>3

(* An event is one less of the batch, and at most one more to write.       *)
LEMMA EventWorks ==
    ASSUME IInv, NEW r \in Requests, InPlace(r), NEW t, AtEvent(r, t),
           next'[r] = next[r] + 1, job'[r] = job[r], pc'[r] = pc[r],
           NEW n \in Nat, Unwritten(r)' = n, n <= Unwritten(r) + 1
    PROVE  Work(r)' < Work(r)
  <1>1. /\ pc[r] = "events" /\ job[r].kind = "events"
        /\ next[r] \in 1..Len(job[r].batch) /\ Len(job[r].batch) \in Nat
    BY AtAnEvent
  <1>2. PICK rest \in Nat : Rest(r) = rest + 2 /\ Rest(r)' = rest
    <2>1. 2 * (Len(job[r].batch) - next[r]) \in Nat
      BY <1>1
    <2>2. Rest(r) = 2 * (Len(job[r].batch) - next[r]) + 2
      BY <1>1 DEF Rest
    <2>3. Rest(r)' = 2 * (Len(job[r].batch) + 1 - (next[r] + 1))
      BY <1>1 DEF Rest
    <2>4. Rest(r)' = 2 * (Len(job[r].batch) - next[r])
      BY <1>1, <2>3
    <2>5. QED
      BY <2>1, <2>2, <2>4
  <1>3. Work(r) = rest + 2 + Unwritten(r) + 3
    <2>1. rest + 2 \in Nat /\ Unwritten(r) \in Nat
      BY WorkTypes
    <2>2. QED
      BY <1>1, <1>2, <2>1, WorkValues DEF Work
  <1>4. Work(r)' = rest + n + 3
    BY <1>1, <1>2, WorkValues DEF Work
  <1>5. Unwritten(r) \in Nat
    BY WorkTypes
  <1>6. QED
    BY <1>3, <1>4, <1>5

LEMMA OneMore ==
    ASSUME NEW S, IsFiniteSet(S), NEW x, NEW T, T \subseteq S \cup {x}
    PROVE  /\ IsFiniteSet(T) /\ Cardinality(T) \in Nat /\ Cardinality(S) \in Nat
           /\ Cardinality(T) <= Cardinality(S) + 1
  <1>1. /\ IsFiniteSet(S \cup {x})
        /\ Cardinality(S \cup {x}) \in {Cardinality(S), Cardinality(S) + 1}
    BY FS_AddElement
  <1>2. IsFiniteSet(T) /\ Cardinality(T) <= Cardinality(S \cup {x})
    BY <1>1, FS_Subset
  <1>3. /\ Cardinality(T) \in Nat /\ Cardinality(S) \in Nat
        /\ Cardinality(S \cup {x}) \in Nat
    BY <1>1, <1>2, FS_CardinalityType
  <1>4. QED
    BY <1>1, <1>2, <1>3

LEMMA BatchWorks ==
    ASSUME IInv, NEW r \in Requests, InPlace(r),
           FoundKnown(r) \/ FoundNew(r) \/ RemovedActive(r) \/ RemovedOther(r)
    PROVE  Work(r)' < Work(r)
  <1> DEFINE h == EventAt(r).hash
  <1>1. PICK t : AtEvent(r, t)
    BY DEF FoundKnown, FoundNew, RemovedActive, RemovedOther
  <1>2. next'[r] = next[r] + 1 /\ job' = job /\ pc' = pc
    BY DEF FoundKnown, FoundNew, RemovedActive, RemovedOther, IInv, TypeOK
  <1>3. h \in Hashes
    BY <1>1, AtAnEvent
  <1>4. /\ IsFiniteSet(Dirty(r)) /\ Cardinality(Dirty(r)) \in Nat
        /\ pending[r] \in Seq(Hashes) /\ Len(pending[r]) \in Nat
    BY WorkTypes
  <1> SUFFICES ASSUME TRUE
               PROVE  \E n \in Nat : Unwritten(r)' = n /\ n <= Unwritten(r) + 1
    BY <1>1, <1>2, EventWorks
  <1>5. CASE FoundKnown(r) \/ RemovedActive(r) \/ RemovedOther(r)
    <2>1. pending' = pending
      BY <1>5 DEF FoundKnown, RemovedActive, RemovedOther
    <2>2. Dirty(r)' \subseteq Dirty(r) \cup {h}
      <3>1. CASE FoundKnown(r)
        <4>1. /\ loaded'[r] = loaded[r] \cup {h}
              /\ touched'[r] = touched[r] \cup {h}
              /\ \A g \in Hashes : g # h => cur'[r][g] = cur[r][g] /\ old'[r][g] = old[r][g]
          BY <1>3, <3>1 DEF FoundKnown, IInv, TypeOK
        <4>2. loaded[r] \subseteq Hashes
          BY DEF IInv, TypeOK
        <4>3. QED
          BY <4>1, <4>2 DEF Dirty
      <3>2. CASE RemovedActive(r) \/ RemovedOther(r)
        <4>1. /\ loaded'[r] = loaded[r] \ {h}
              /\ cur' = cur /\ old' = old /\ touched' = touched
          BY <3>2 DEF RemovedActive, RemovedOther, Forget, IInv, TypeOK
        <4>2. QED
          BY <4>1 DEF Dirty
      <3>3. QED
        BY <1>5, <3>1, <3>2
    <2>3. /\ Cardinality(Dirty(r)') \in Nat
          /\ Cardinality(Dirty(r)') <= Cardinality(Dirty(r)) + 1
      BY <1>4, <2>2, OneMore
    <2>4. PICK d \in Nat : d = Cardinality(Dirty(r)') /\ d <= Cardinality(Dirty(r)) + 1
      BY <2>3
    <2>5. Unwritten(r)' = d + Len(pending[r])
      BY <2>1, <2>4 DEF Unwritten
    <2>6. d + Len(pending[r]) \in Nat /\ d + Len(pending[r]) <= Unwritten(r) + 1
      BY <1>4, <2>4 DEF Unwritten
    <2>7. QED
      BY <2>5, <2>6
  <1>6. CASE FoundNew(r)
    <2>1. Dirty(r)' = Dirty(r)
      BY <1>6 DEF FoundNew, Dirty
    <2>2. pending'[r] = Append(pending[r], h)
      BY <1>6 DEF FoundNew, IInv, TypeOK
    <2>3. Len(Append(pending[r], h)) = Len(pending[r]) + 1
      BY <1>3, <1>4
    <2>4. Unwritten(r)' = Cardinality(Dirty(r)) + (Len(pending[r]) + 1)
      BY <2>1, <2>2, <2>3 DEF Unwritten
    <2>5. /\ Cardinality(Dirty(r)) + (Len(pending[r]) + 1) \in Nat
          /\ Cardinality(Dirty(r)) + (Len(pending[r]) + 1) <= Unwritten(r) + 1
      BY <1>4 DEF Unwritten
    <2>6. QED
      BY <2>4, <2>5
  <1>7. QED
    BY <1>5, <1>6

(* A statement of a flush is one less to write.                            *)
LEMMA FlushWorks ==
    ASSUME IInv, NEW r \in Requests, InPlace(r), FlushUpdate(r) \/ FlushInsert(r)
    PROVE  Work(r)' < Work(r)
  <1>1. /\ IsFiniteSet(Dirty(r)) /\ Cardinality(Dirty(r)) \in Nat
        /\ pending[r] \in Seq(Hashes) /\ Len(pending[r]) \in Nat
        /\ Rest(r) \in Nat /\ Unwritten(r) \in Nat
    BY WorkTypes
  <1>2. pc[r] = "flush" /\ pc[r] \in Running
    BY DEF FlushUpdate, FlushInsert, Running
  <1>3. ASSUME pc' = pc, job' = job, next' = next,
               NEW n \in Nat, Unwritten(r)' = n, Unwritten(r) = n + 1
        PROVE  Work(r)' < Work(r)
    <2>1. Rest(r)' = Rest(r)
      BY <1>3 DEF Rest
    <2>2. Work(r)' = n + 2
      <3>1. Work(r)' = WorkAt("flush", Rest(r), n)
        BY <1>2, <1>3, <2>1 DEF Work
      <3>2. QED
        BY <1>1, <3>1, WorkValues
    <2>3. Work(r) = Unwritten(r) + 2
      BY <1>1, <1>2, WorkValues DEF Work
    <2>4. QED
      BY <1>3, <2>2, <2>3
  <1>4. CASE FlushUpdate(r)
    <2>1. PICK h \in NextKeys(r) :
              /\ old' = [old EXCEPT ![r][h] = cur[r][h]]
              /\ touched' = [touched EXCEPT ![r] = @ \ {h}]
      BY <1>4 DEF FlushUpdate
    <2>2. /\ Dirty(r) # {}
          /\ UNCHANGED <<pc, job, next, loaded, cur, pending>>
      BY <1>4 DEF FlushUpdate
    <2>3. h \in Dirty(r) /\ h \in Hashes
      BY <1>2, <2>2 DEF NextKeys, Dirty, IInv, TypeOK
    <2>4. /\ old'[r][h] = cur[r][h] /\ touched'[r] = touched[r] \ {h}
          /\ \A g \in Hashes : g # h => old'[r][g] = old[r][g]
      BY <2>1, <2>3 DEF IInv, TypeOK
    <2>5. loaded[r] \subseteq Hashes
      BY DEF IInv, TypeOK
    <2>6. Dirty(r)' = Dirty(r) \ {h}
      BY <2>2, <2>3, <2>4, <2>5 DEF Dirty
    <2>7. Cardinality(Dirty(r) \ {h}) = Cardinality(Dirty(r)) - 1
      BY <1>1, <2>3, FS_RemoveElement
    <2>8. Cardinality(Dirty(r) \ {h}) \in Nat
      BY <1>1, FS_RemoveElement, FS_CardinalityType
    <2>9. Unwritten(r)' = Cardinality(Dirty(r) \ {h}) + Len(pending[r])
      BY <2>2, <2>6 DEF Unwritten
    <2>10. Unwritten(r) = Cardinality(Dirty(r) \ {h}) + Len(pending[r]) + 1
      BY <1>1, <2>7 DEF Unwritten
    <2>11. Cardinality(Dirty(r) \ {h}) + Len(pending[r]) \in Nat
      BY <1>1, <2>8
    <2>12. QED
      BY <1>3, <2>2, <2>9, <2>10, <2>11
  <1>5. CASE FlushInsert(r) /\ Fail(r, "conflict")
    BY <1>2, <1>5, FinishWorks DEF Fail, Finished
  <1>6. CASE FlushInsert(r) /\ ~Fail(r, "conflict")
    <2>1. /\ pending' = [pending EXCEPT ![r] = Tail(@)] /\ pending[r] # <<>>
          /\ UNCHANGED <<pc, job, next, loaded, cur, old, touched>>
      BY <1>6 DEF FlushInsert
    <2>2. Dirty(r)' = Dirty(r)
      BY <2>1 DEF Dirty
    <2>3. pending'[r] = Tail(pending[r])
      BY <2>1 DEF IInv, TypeOK
    <2>4. Len(Tail(pending[r])) = Len(pending[r]) - 1 /\ Len(Tail(pending[r])) \in Nat
      BY <1>1, <2>1
    <2>5. Unwritten(r)' = Cardinality(Dirty(r)) + Len(Tail(pending[r]))
      BY <2>2, <2>3 DEF Unwritten
    <2>6. Unwritten(r) = Cardinality(Dirty(r)) + Len(Tail(pending[r])) + 1
      BY <1>1, <2>4 DEF Unwritten
    <2>7. Cardinality(Dirty(r)) + Len(Tail(pending[r])) \in Nat
      BY <1>1, <2>4
    <2>8. QED
      BY <1>3, <2>1, <2>5, <2>6, <2>7
  <1>7. QED
    BY <1>4, <1>5, <1>6

(* A triage leaves one row to write.                                       *)
LEMMA TriageWorks ==
    ASSUME IInv, BatchInv, NEW r \in Requests, InPlace(r), Triage(r)
    PROVE  Work(r)' < Work(r)
  <1>1. /\ pc[r] = "read" /\ pc[r] \in Running /\ Rest(r) \in Nat
        /\ pending[r] = <<>> /\ touched[r] = {}
    BY WorkTypes DEF Triage, Running, BatchInv, RequestInv, Blank
  <1>2. CASE Fail(r, "notfound")
    BY <1>1, <1>2, FinishWorks DEF Fail, Finished
  <1>3. CASE ~Fail(r, "notfound")
    <2> DEFINE h == job[r].hash
    <2>1. /\ loaded'[r] = {h} /\ touched'[r] = {} /\ pc'[r] = "flush"
          /\ UNCHANGED <<job, next, pending>>
      BY <1>1, <1>3 DEF Triage, Goto, IInv, TypeOK
    <2>2. Dirty(r)' \subseteq {} \cup {h}
      BY <2>1 DEF Dirty
    <2>3. PICK d \in Nat : d = Cardinality(Dirty(r)') /\ d <= 1
      <3>1. IsFiniteSet({}) /\ Cardinality({}) = 0
        BY FS_EmptySet
      <3>2. Cardinality(Dirty(r)') \in Nat /\ Cardinality(Dirty(r)') <= 0 + 1
        BY <2>2, <3>1, OneMore
      <3>3. QED
        BY <3>2
    <2>4. Unwritten(r)' = d
      BY <1>1, <2>1, <2>3 DEF Unwritten
    <2>5. Rest(r)' = Rest(r)
      BY <2>1 DEF Rest
    <2>6. Work(r)' = d + 2
      BY <1>1, <2>1, <2>4, <2>5, WorkValues DEF Work
    <2>7. Work(r) = 4
      <3>1. Unwritten(r) \in Nat
        BY WorkTypes
      <3>2. QED
        BY <1>1, <3>1, WorkValues DEF Work
    <2>8. QED
      BY <2>3, <2>6, <2>7
  <1>4. QED
    BY <1>2, <1>3

LEMMA StepWorks ==
    ASSUME IInv, BatchInv, NEW r \in Requests, InPlace(r), Step(r)
    PROVE  Work(r)' < Work(r)
  <1>1. pc[r] \in Running
    BY StepsRun
  <1>2. CASE Commit(r) \/ DeadlockVictim(r)
    BY <1>1, <1>2, FinishWorks DEF Commit, DeadlockVictim, Fail, Finished
  <1>3. QED
    BY <1>1, <1>2, MovesWork, BatchWorks, FlushWorks, TriageWorks DEF Step

(* In every history each statement of a handler, and each abort of it by   *)
(* the database, leaves its request less to do, and the others no more.    *)
THEOREM WorkRunsOut ==
    Spec => [][\A r \in Requests :
                  Step(r) => /\ Work(r) \in Nat /\ Work(r)' < Work(r)
                             /\ \A s \in Requests \ {r} : Work(s)' = Work(s)]_vars
  <1>1. IInv /\ BatchInv /\ WaitInv /\ [Next]_vars
          => [\A r \in Requests :
                 Step(r) => /\ Work(r) \in Nat /\ Work(r)' < Work(r)
                            /\ \A s \in Requests \ {r} : Work(s)' = Work(s)]_vars
    <2>1. ASSUME IInv, BatchInv, WaitInv, NEW r \in Requests, Step(r)
          PROVE  Work(r) \in Nat /\ Work(r)' < Work(r)
      BY <2>1, StepWorks, WorkTypes DEF WaitInv
    <2>2. ASSUME IInv, NEW r \in Requests, Step(r), NEW s \in Requests \ {r}
          PROVE  Work(s)' = Work(s)
      <3>1. Same(s)
        BY <2>2, OthersSame DEF IInv, Acts
      <3>2. Dirty(s)' = Dirty(s) /\ Rest(s)' = Rest(s)
        BY <3>1 DEF Same, Dirty, Rest
      <3>3. QED
        BY <3>1, <3>2 DEF Same, Unwritten, Work
    <2>3. QED
      BY <2>1, <2>2
  <1>2. QED
    BY <1>1, Invariance, Counting, Waiting, PTL DEF Spec
=============================================================================
