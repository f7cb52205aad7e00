# FlashAudit in TLA+

FlashAudit is a secrets scanner: a Rust command line tool that looks for
secrets in a working directory, a FastAPI backend that keeps the findings of
an organization, and a dashboard over it. This directory holds TLA+ modules of
the parts whose correctness depends on order, time, concurrency and failure,
TLC configurations that check them on small instances, and proofs that TLAPS
checks for every value of the constants. Paths below are relative to the
repository's root; the Rust sources are in `src/`, the backend in `backend/`,
and the dashboard in `dashboard/src/` (`src/src/...`, `src/backend/...` and
`src/dashboard/...` where `PROJECT.json` names them).

    tlc -workers 2 -config MCTelemetry.cfg MCTelemetry     # one run
    tlapm TelemetryProofs.tla                              # one proof module

## The system

| Part | State | Operations | Talks to |
|---|---|---|---|
| Scan run (`src/main.rs`, `utils/file_loader.rs`) | files to scan, results | discovery (walk, `--staged`, `--git-diff`), parallel scan, post-scan, exit code | files, git, state engine, telemetry |
| State engine (`utils/state.rs`) | `previous_hashes`, `current_hashes`, the file `.flashaudit_state.json` | `fetch`, `load_from`, `track`, `get_fixed`, `get_new`, `save` | `GET /state`, cache file |
| Telemetry client (`utils/telemetry.rs`) | bounded channel, the worker's batch | `send`, worker loop, `send_batch`, `flush`, `Drop` | `POST /events` |
| Scanner (`scanner.rs`, `entropy.rs`, `config.rs`) | rules, Aho-Corasick automaton | `extract_keyword`, `scan`, `scan_entropy`, `generate_fingerprint` | none, pure |
| Ingestion (`backend/routers/cli.py`) | `repositories`, `findings` rows | `post_events`, `get_state`, `_upsert_finding`, `_mark_finding_fixed` | database, policies, webhooks |
| Triage and queries (`routers/findings.py`) | `findings` rows | `triage_finding`, lists | database, audit log |
| Sessions of the database (`database.py`) | unit of work, transaction | `get_session` | PostgreSQL or SQLite |
| Rate limiter (`services/rate_limiter.py`) | timestamps per key | `is_allowed`, `get_retry_after` | clock |
| Accounts (`routers/auth.py`, `dependencies/auth.py`, `routers/settings.py`) | users, sessions, webhooks, policies | register, login, logout, roles, deactivation | database, rate limiter |
| Organizations and API keys (`routers/cli.py`) | organization rows | create, rotate key | database |
| Webhooks (`services/webhooks.py`) | none | `dispatch_webhooks` as a background task | the request's session, HTTP |
| Policies, audit, analytics, exports, remediation | rows, none | pure evaluation and read-only queries | database |
| Findings page (`dashboard/src/app/findings`) | filters, search, sort, page, the answer on display, the open panel | the controls, the debounce timer, `fetchFindings`, `handleTriage`, the remediation panel | `GET /findings`, triage |
| Settings page (`app/settings`) | of each tab a list, a form, an error | load, create, delete or deactivate, change of tab | webhooks, policies, users |
| Home, repositories, analytics, exports (`app/...`) | answers, period and days, the report under way | load at the mount, choose, generate | analytics, exports |
| Session and navigation (`lib/auth-context.tsx`, `app/login`, `components/dashboard-layout.tsx`, `app-sidebar.tsx`) | user, loading, route, the form | check, login, setup, logout, redirect, links | `/auth`, the router |
| Sidebar (`components/ui/sidebar.tsx`, `hooks/use-mobile.ts`) | open, openMobile, isMobile, a cookie | trigger, shortcut, resize | the window |

What is hard, and what makes each part correct:

- *Telemetry.* Scan threads, a worker thread and an exit that does not wait.
  Correct: nothing is lost between the channel and the POST, nothing is sent
  twice or out of order, no batch is too large, a scan that is small enough
  drops nothing, what an exit leaves behind is bounded, the scanner always ends.
- *Scan and state.* Files change while they are read; full scans and partial
  ones share one cache; runs overlap, fail and are killed. Correct: a present
  secret is not taken for removed, exit code 0 means clean, and a secret is
  counted as new and as fixed in turn.
- *Ingestion.* Handlers interleave at every SQL statement; an `UPDATE` leaves
  at once while assignments wait for a flush; row locks and unique constraints
  make requests wait, fail or deadlock. Correct: a batch is taken as a whole or
  not at all, its counters tell what it did, only active findings become fixed,
  a rotation is never forgotten, every request is answered.
- *Rate limiter.* The clock is read twice and may be set back. Correct: no
  window of real time holds too many requests, none is refused without need,
  and the `Retry-After` is right to the second.
- *Scanner.* Keywords are shared, begin one another and are missing, and a
  pattern may match without its keyword. Correct: what a rule reports depends on
  the rule alone, and a rule whose pattern matches is not kept from running.
- *Accounts.* Handlers read a right and use it statements later, while others
  register, sign out and deactivate. Correct: who had no right when a request
  came does not get what it asks for, and an administrator remains.
- *Webhooks.* Background tasks share a session that the request closes.
- *Dashboard.* Fetches are never cancelled and carry no number; answers,
  failures, timers and clicks come in any order, handlers go on after an `await`
  with the values of an older render, and pages are left with requests under
  way. Correct: what is shown belongs to the controls, a change that was made is
  shown, pages are whole, the user is that of the session, nobody waits for ever.

`PROJECT.json` lists each hazard at its line, with the properties that cover it.

## The modules

| Module | What it is |
|---|---|
| `Telemetry`, `MCTelemetry`, `TelemetryProofs` | the telemetry client and the end of `main` |
| `ScanState`, `MCScanState`, `ScanStateProofs` | scanner runs, the state engine and the cache file |
| `Ingest`, `MCIngest`, `IngestProofs` | batches, state queries and triage over the findings of a repository |
| `SlidingWindow` | what a rate limiter promises |
| `RateLimiter` | the limiter, which implements `SlidingWindow` |
| `Accounts`, `MCRateLimiter`, `RateLimiterProofs` | registration, login, logout, creation and deactivation of users, composed with the limiter a login asks; the proofs are about both |
| `Keyword` | `extract_keyword`, and what small patterns match |
| `Prefilter` | the scanner's tables and the two phases of a scan |
| `KeywordPrefilter`, `MCPrefilter`, `PrefilterProofs` | `Prefilter` with the keywords of `Keyword`; the proofs are about both |
| `RemoteView` | what a page promises about a resource it reads with parameters |
| `FindingsPage`, `FindingsPageProofs` | the findings page against the rows of the server; its list implements `RemoteView` |
| `SettingsTabs` | the three tabs of the settings, which have one shape |
| `ReadPages` | home, repositories, analytics and exports; the trends implement `RemoteView` |
| `Session`, `SessionProofs` | the authentication context, the login form, the redirect, the cookie and the server's sessions |
| `Sidebar` | the sidebar and the width of the window |
| `Dashboard`, `MCDashboard`, `DashboardProofs` | the six put together |

Operators that a comment calls a *Variant* are no part of any specification:
each is a plausible slip in the definition after it, and shows that a property
can tell the two apart.

### Telemetry

The n-th `send` offers event n. `chan` is the crossbeam channel, `batch` the
worker's vector, `handed` what went into a POST, `delivered` what the server
got: a POST that fails and one that succeeds look the same to the worker
(`PostDone`), so both are always possible. Time is in ticks: `idle` ages the
worker's `recv_timeout`, `pause` the main thread's sleep. `phase` follows `main`
from the scan over the removed events and `flush` to one of its ends: `exit(1)`
with findings, which runs no destructor; the normal return, where `Drop` sleeps
and then the sender goes; the early returns; `exit(2)`.

`prompt` is a scenario chosen at the start: time does not pass while the worker
has something to do. Only `LossBound` and `FlushSendsAll` look at it; everything
else holds for any scheduling. The exit looks at nothing but the sleep of
`flush`: what is left behind at `ExitWithFindings` depends on what the worker got
done in it. `hung` remembers that a POST took some of that time.

### ScanState

Processes run the scanner over and over in one directory while its files are
edited. A secret is its fingerprint, which does not depend on the file. A file
is read at one instant. `Discover` may list any non-empty set of files: the walk
lists all of them, git some. `OpenCache` and `WriteCache` are the two halves of
`fs::write`, so a kill or another process can come between them. The `code` of a
run is its exit code. `absent` and `added` remember, for a run, which secrets
were missing at some moment and which came to some file: `Steady` are the
others. `open` is the ledger of what was counted as new and not as fixed, and
`tidy` says that all runs so far were alone, used the cache, wrote it and were
not killed.

### Ingest

One repository. A request is a batch, a state query or a triage; each action is
one SQL statement, or the code between two. Rows are either committed (`rows`)
or written and not committed (`written`, `buf`), in which case `wlock` makes
other writers wait. The session is `loaded`, `old`, `cur` (objects, as loaded
and as assigned), `pending` (added, not inserted: the factory says
`autoflush=False`), `touched` and `expired`. A found event on a known row always
has something to write, its `last_seen` (`cli.py:396`), also when the row is
active already; `touched` are the objects of which that is still to be written.
So the flush locks every row that was found (`Dirty`), in the order of the keys,
after the removed events have locked theirs in the order of the batch:
`[removed 1, found 2]` and `[removed 2, found 1]` wait for each other, as do two
batches that remove in opposite orders. What SQLAlchemy and PostgreSQL do is taken
from their documented behaviour and marked external: a flush writes only the
columns that changed (`Merge`), an ORM `UPDATE` drops what the session had
pending for the columns it writes (`Forget`), `READ COMMITTED` statements see
what is committed and their own writes (`View`), a deadlock costs one of its
transactions. `Interrupted` is a lost connection or a restarted server, at any
point of a handler; `Commit` may be done and its answer `"lost"`.

The model is of PostgreSQL. On the default SQLite URL all sessions share one
connection, which is another system and not modelled.

### RateLimiter

`is_allowed` and `get_retry_after` never suspend without a Redis client, so a
request is served before the next asks, but each call reads the clock
(`Tick` may come in between). `now` is `time.time()`; `SetBack` sets it back.
A clock that is set *forward* makes entries expire early and lets more in; this
is not modelled. The Redis branch cannot be reached: nothing calls `connect()`.

`SlidingWindow` is the promise: a request is let in only if its window of real
time has room, and as long as the clock was not set back it is refused only if
it has none.

### Accounts

Each request has a record in `req`: what was asked, `pc` (the statement it is
at), and `me`, the account the cookie led to. The actions are the SQL statements
of the handlers in their order (`ReadSession`, `ReadUser`, `CountUsers`,
`ReadEmail`, `ReadOrg`, `Insert`, `ReadTarget`, `Deactivate`, `Logout`,
`ReadAccount`, `Login`); what a request has read may be out of date at the next
one. `get_current_user`, `require_role` and the two reads at the top of
`register` are the same steps. A rival that inserts the same e-mail or the same
organization waits for the first to commit and then fails, or goes on if that
one failed, so an insert is one step with its commit. `Login` issues a cookie
nobody had; `Expire` ends a session at any time; deactivation leaves sessions in
place, as the code does. A password may always be wrong (`ReadAccount`).

A login asks the limiter with its own action (`AskLimiter`), for any address;
while that request waits for its `Retry-After` nothing else runs, since nothing
suspends there. `unwelcome` remembers, when a request arrives, whether it had no
right to what it asks for, and `raced` whether two deactivations overlapped.

### FindingsPage

`want` is the state that `fetchFindings` depends on (page, filters, search, sort
order), `typed` the search box and `timer` the 300 ms timer. A control changes
`want`, and the effect fetches in the same render (`Adopt`); the timer fires once
after the mount too. A fetch is in `sent` until the server executes it, then in
`answered` until the page gets it: any fetch may be overtaken, and may fail at
either place. `data` is whatever answer came last. `triages` are the PATCHes;
`TriageAnswer` refetches with the parameters of the render in which the button
was clicked (`params`), as the closure in the code does; `TriageFail` does
nothing, as nobody catches it. The panel of a row is mounted again, and asks
again, whenever the table comes back (`PanelAfter`). Rows with equal sort keys
have no order, so a page of an answer is any set of matching rows of the right
size. Leaving the page forgets its state and stops nothing that was sent.

History variables: `refetch` says that the last fetch was that of a triage,
`unseen` that a change came that it may have missed, `astray` that a row has
moved or that Next was pressed over the table of other filters. What they name
is something the page really does wrong or leaves open; see "What no property
asks for".

### SettingsTabs, ReadPages, Sidebar

The three tabs of the settings are one model: `Load` at the mount and after each
change, a form that is filled in or not, a button per row. They differ in what a
removal does (a user becomes inactive) and in who may edit. `missed` plays the
part of `unseen`.

A page of `ReadPages` asks for its `parts` at the mount; `Settles` is the
`Promise.all` of the home page. The trends are asked for at every choice, the
report of the exports page once at a time.

`Sidebar` has one state for wide windows and one for narrow ones; `isMobile` is
what the hook has measured and lags behind `narrow`.

### Session and Dashboard

`cookie` is the browser's, `valid` the sessions the server accepts. The context
asks once at the mount (`check`) and sets `user` from the answer, whenever that
comes; `calls` are login, registration and logout under way, which are executed
and answered in two steps, either of which may fail. `blame` records why the
user may rightly differ from the cookie's session: an answer was lost, the
session ended elsewhere, or the check of the mount overtook a login.

`Dashboard` composes the parts: a step of the router (`GoTo`) mounts and unmounts
pages, any other step of the session (`Stay`) takes the tabs and the sidebar with
it where the layout shows them only to a user; controls are within reach of a
signed-in user; the server executes requests of a session it accepts. Answers
and failures come whatever page is on screen.

### Prefilter and Keyword

`Prefilter` builds the tables rule by rule and scans files one after the other,
for any operators `KeywordOf`, `Occurs` and `Matches`; the proofs are about it.
The automaton reports keywords in any order (`Nominate`), the regexes run in the
order of the rules. Several matches of a regex are one report.

`Keyword` is `extract_keyword`, with its loop as a function of the number of
characters read (`Loop`, one `Turn` a character), and for the same patterns,
built from items, the words they match. `KeywordPrefilter` puts the two together:
`KeywordAssumption` says that the keyword of a pattern is the one of its
characters, that the automaton ignores case, and that a match of a regex is one of
its words somewhere in the text. `MCPrefilter` gives values to both. There a
keyword has at least 2 characters instead of 3 and there are two known ones, of
which one begins the other in another case, as `SK` begins `sk_live_`.

## What the runs check

| Run | Instance | Shows |
|---|---|---|
| `telemetry` | channel 2, batch 2, 4 events, timeout 2 ticks, sleeps 1 | `HandOver`, `DeliveredOnceInOrder`, `PostFitsBackend`, `NoDropBelowCapacity`, `LossBound`, `ExitReached`, `EventuallyHanded` |
| `telemetry_flush` | the same | **violated**: `FlushSendsAll`, what the comment on `flush` says |
| `ingest_one` | 3 requests, 1 fingerprint, batches of up to 2 events in every order, 3 initial rows | `ResponseCountsCommit`, `OnlyActiveIsFixed`, `RotationKept`, `LastEventDecides` |
| `ingest_two` | 2 requests, 2 fingerprints, batches in opposite orders, 3 initial tables | `ConflictHasCause`, `EventuallyAnswered` |
| `ingest_upsert` | 2 requests, 1 fingerprint | **violated**: `UpsertNeverConflicts` |
| `ingest_rotated` | 2 requests, 1 fingerprint | **violated**: `RotatedOnce` |
| `scan_state` | 2 processes, 2 files, 1 secret | `FixedHasCause`, `CleanExit`, `CountedInTurn`, `CacheIsOpen` |
| `scan_fixed` | 1 process, 2 files, 1 secret | **violated**: `FixedIsGone` |
| `prefilter` | 8 items, every pattern of up to 3, 7 patterns in rulesets of up to 3, 71 texts | `RuleAlone`, `PrefixedRulesFire` |
| `prefilter_guaranteed` | 8 patterns with an alternation | **violated**: `KeywordIsGuaranteed` |
| `rate_limiter` | 2 keys, 4 requests, limit 2, window of 4 ticks = 2 s, 6 ticks; or 3 requests of 3 accounts with 3 cookies | `WindowBound`, `RetryAfterIsClose`, `Refinement`, `UnwelcomeIsRefused`, `AdminRemains` |
| `dashboard` | 2 findings on pages of 1, 2 rows per tab, 2 sessions, 1 to 4 inputs | `FilterShown`, `EmptyPageHasCause`, `RowsFresh`, `RowsListed`, `LoadedWhole`, `UserIsSession`, `ListingIsView`, `TrendsIsView`, `TogglesShow`, `FindingsSettle`, `VisitorsMoveOn` |

`IInv` of the first five systems, the inductive invariant of their proofs, is an
invariant of their main run. The invariants of the dashboard are proved and are
not checked by a run.

Why the bounds are enough:

- *telemetry*: with 4 events, a channel and a batch of 2 there can be a full
  batch in a POST, a full channel behind it and an event that is dropped; the
  timeout is longer than the sleeps, as in the code (1000 ms against 100 and
  200 ms).
- *ingest*: three requests on one row are enough for a write between another's
  read and write, and for a third that sees the result; cycles of row locks need
  two requests and two rows. Batches contain each order of a found and a removed
  event and a repeated one. Requests run once; a fourth would repeat one of these
  roles.
- *scan_state*: two files are what a secret needs to move between a file that
  was read and one that was not; two processes are what overlaps; secrets do not
  interact, and the proofs hold for any number of them.
- *rate_limiter*: more requests than the limit on one key, time for one and a
  half windows, and a second that is two ticks long, so that the answer is cut.
  Time and accounts are not varied at once: `Plans` gives either time alone, or
  the first accounts (with the organization of a scanner or without), or two
  administrators with a member or a free e-mail. Three requests are what it takes
  for one to be overtaken by a second that makes the third unwelcome; three
  logins from one address are one more than the limit.
- *dashboard*: `Budgets` gives the inputs of one state to one part at a time, so
  that the parts meet through navigation, cookies and roles: 2 inputs on the
  findings page, or 1 and a change by somebody else; 3 in the settings; 2 on the
  pages that read; 3 of the sidebar and 1 of the session; 4 of the session, which
  sign in, out and in again. Two inputs put three list requests under way with
  that of the mount, and the timer sends a fourth; two findings on pages of one
  make a page that can disappear.
- *prefilter*: three rules can share a keyword, hide one another's and have none;
  three items are a literal run, what ends it and what follows, and the texts are
  as long as what they match.

Deadlock is checked in every run but `dashboard`; where a model really ends (the
process has exited, every request was answered, time is used up) an action says
so. The dashboard may stop wherever its user does nothing more, so its run says
`CHECK_DEADLOCK FALSE`; that it does not get stuck is `FindingsSettle` and
`VisitorsMoveOn`.

### Fairness

- `ExitReached` assumes only that the main thread and the clock go on: nothing of
  the worker or of the network. `EventuallyHanded` assumes that the worker thread
  is scheduled and that a POST ends, which its 10 s timeout guarantees; nothing of
  the main thread.
- `FairSpec` of `Ingest` assumes weak fairness for each handler: the event loop
  runs whatever the database answers, and PostgreSQL resolves deadlocks. Nothing
  makes a request arrive or a connection break.
- `Spec` of `Dashboard` assumes that a timer that was set fires (`Debounce`),
  that the browser answers or fails a list request and the check of the mount
  (`ListProgress`, `CheckProgress`) and that React runs the effect of the layout
  (`Redirect`). It does not assume which of answer and failure it is, that any
  other request ends, or that anybody clicks.

## Where the code and its comments disagree

- `telemetry.rs:94`, "ensure all events are sent": up to `BATCH_SIZE - 1`
  events wait in the worker when `exit(1)` ends the process. `LossBound` is what
  does hold: the sleep is enough to empty the channel if the worker runs and no
  POST takes any of it. With no sleep at all even that is gone
  (`BeginFlushAwake`).
- `cli.py:384`, "Upsert a finding": a batch with the same new fingerprint twice,
  which the scanner sends when a secret occurs twice, is refused as a whole.
  `ConflictHasCause` says that, besides races, nothing else is.
- `findings.py:229`, "Write-once": two triages at once both write `rotated_at`.
  `RotationKept` is what does hold.
- `state.rs:100`, "fixed secrets": a staged, diff or partly unreadable scan
  reports as fixed what it did not look at. `FixedHasCause` is what does hold.
- `scanner.rs:131`, "a pattern whose only literals sit inside an alternation"
  has no keyword: a known keyword is taken wherever the pattern contains it, and
  literals are joined across a class or a group. No rule of `rules.yaml` is
  affected. `PrefixedRulesFire` says for which patterns the pre-filter is safe.

Seen while modelling, with no run of their own: `sidebar.tsx:85` says that the
cookie keeps the state of the sidebar, and nothing reads it, so that every page
starts expanded (`CookieKeepsState` of `Sidebar` is what holds in between);
`exports/page.tsx:74` speaks of the current filters where the link has none, and
the CSV link of the findings page leaves the search out; `auth.py:10` announces a
lockout after 10 failures that no code implements; `analytics.py:62-64` counts
weeks from the day of the cutoff, while `_date_to_bucket_key` names them by their
Mondays, so that unless the cutoff is a Monday no finding falls into a bucket.

## What no property asks for

Several properties except a case that the code does get wrong, or that it leaves
open. The model has the behaviour in each of these cases, but nothing here says
that it is right:

- `FilterShown`, `ListingIsView`, `TrendsIsView`: answers may arrive in any order,
  and the older one stays on display; the refetch of a triage goes by the filters
  of the render in which the button was clicked.
- `EmptyPageHasCause`: Next over the table of other filters, or after rows have
  moved, leads to a page that does not exist.
- `RowsFresh`, `RowsListed`: after a change whose answer is lost there is no
  refetch; of two loads the older may come last.
- `UserIsSession`: where the answer of a login or logout is lost, or the check of
  the mount comes in after a login, the context and the cookie differ until the
  page is loaded again. `VisitorsMoveOn` is content with the form, too.
- `TogglesShow`: before the width is measured, and between a resize and its event,
  a toggle changes the sidebar that is not on display.
- `UnwelcomeIsRefused`: a request is judged by what was so when it came. Two first
  registrations both become administrators unless they race for the organization,
  and a session that ends in the middle of a request is not noticed.
- `AdminRemains`: two administrators who deactivate each other at once leave none.
- `CleanExit`, `FixedHasCause`: these hold whatever is in the cache. After a kill,
  or beside another run in the directory, known secrets are counted as new again;
  `CountedInTurn` is about runs one after another.

## What is proved

Each `...Proofs` module proves its invariant (`IInv`; in `Session` and
`Dashboard` one named after the part, for the accounts `ServerInv`) inductive
(`Init => IInv`, and one lemma per action for `IInv /\ [Next]_vars => IInv'`) and
derives the rest from it. The only assumptions are the `ASSUME`s on the
constants: sizes are positive, sets that the code enumerates are finite, the
special values are no members. `AccountsAssumption` also says how a run of the
accounts may begin: a session is of an account that exists, and if there are
accounts one of them is an active administrator, as registration leaves it.

- `TelemetryProofs`: `NothingLostInside` (`HandOver`), `ServerSeesOrder`
  (`DeliveredOnceInOrder`), `PostsFit` (`PostFitsBackend`), `SmallScansDropNothing`
  (`NoDropBelowCapacity`). `DeliveredOnceInOrder` is not inductive: `InOrder`
  adds that what was delivered, what the worker holds and the channel are
  together increasing and not beyond the last send. `LossIsBounded` (`LossBound`)
  needs a second invariant, `Leaving`: only `exit(1)` ends a scan with findings,
  nothing is sent once `flush` has begun, and from the first tick of its sleep on
  a prompt worker that is not in a POST waits for an event, with an empty channel
  and a batch that is not full (`SleepDrains`); the sleep has such a tick, since
  `SleepTicks` is positive.
- `IngestProofs`: `TriagedIsNotFixed` (`OnlyActiveIsFixed`), `RotationIsKept`
  (`RotationKept`), `FindingsStay` (no row is ever deleted). The invariant says
  that a row with an uncommitted write belongs to one transaction (`OneWriter`),
  so that what it saw when it wrote is still there when it commits
  (`ClosesOnlyActive`, `KeepsRotation`), and that no assignment ever carries
  FIXED (`NeverAssignsFixed`).

  `ResponsesCount` (`ResponseCountsCommit`), `BatchesAreFollowed`
  (`LastEventDecides`) and `ConflictsHaveCause` (`ConflictHasCause`) speak of whole
  batches, of any length. They follow from a second invariant over `IInv`,
  `BatchInv`. Its first half holds of every request (`Counted`): what was counted
  as new is still pending or was written where no row is, and what a transaction
  is going to close was counted. Rows that it wrote cannot change under it
  (`OneWriter`), so the steps of the others disturb neither count. The second half
  is about a request beside which none has run: what it has loaded is as it was
  (`StillSo`), the latest event so far of each fingerprint has had its effect
  (`Followed`: a reported one is an active object, pending, or inserted; a
  withdrawn one is no object and not active in what the transaction sees), and
  without a repeated event nothing pending was inserted (`Unrepeated`). Each
  action has a lemma for its own request (`...Own`), and one lemma says what the
  steps of the others keep (`OthersKeep`).

  Of `EventuallyAnswered`, the part that is no liveness is proved for any number
  of requests. A third invariant, `WaitInv`, says that rows are locked only by
  requests that are under way. So if all of these wait, who follows from each to
  one it waits for comes back in a circle (`CycleExists`), which is what
  PostgreSQL looks for: somebody can always go on (`SomebodyGoesOn`; `Able` lists
  the guards of the actions). And each step of a request leaves it less to do,
  and the others no more (`WorkRunsOut`, with the number `Work`).
- `ScanStateProofs`: `FixedSecretsHaveCause`, `ZeroIsClean`, `CountsAlternate`,
  `CacheIsTheLedger`. `SteadyIsTracked` ties what a run has tracked to the files
  it has left behind; `LedgerIsKept` follows the ledger through the steps of a
  run. `ZeroIsClean` also needs that an exit code is only there after the end.
- `RateLimiterProofs`: `WindowHolds` (`WindowBound`), `ImplementsSlidingWindow`
  (`Refinement`). The clock only ever loses time against real time
  (`ClockIsLate`), so what the limiter forgets has left the window of real time
  (`RecentIsKept`). `RetryAfterHolds` (`RetryAfterIsClose`): while a client waits
  for its answer the list of its key stays full (`FullWhileAsking`), so the oldest
  entry decides when there is room, and seconds are cut from ticks within one.

  Of the accounts: `UnwelcomeRefused` (`UnwelcomeIsRefused`) and
  `AdministratorRemains` (`AdminRemains`), from `ServerInv`. What a request lacks
  when it arrives, a session, an active account or the role, no step of another
  gives it: accounts and issued cookies only grow, and nobody is activated again
  or promoted, so `TurnedAway` survives every interleaving. An administrator
  remains because who is about to deactivate somebody else is one and stays one
  (`Stays`): only another deactivation could change that (`OneDeactivates`).
  `ServerRunsLimiter` shows that the server is a run of the limiter;
  `ServerHoldsWindow` takes its theorems over.
- `PrefilterProofs`: `RulesDoNotInterfere` (`RuleAlone`), `ReportsAreOrdered`
  (`RuleOrder`), `SoundKeywordsMissNothing`: given sound keywords, every match is
  reported. The invariant follows the tables (`TablesFollowRules`), what is
  nominated (`NominationFollowsReports`) and how far the second phase is
  (`ReportsAreRules`).

  `LiteralsMissNothing` (`PrefixedRulesFire`) is about the keywords of concrete
  patterns, under `KeywordAssumption`, for any least length of a keyword. After
  the literals that a pattern begins with, the loop holds their letters
  (`LoopLead`). The next item either makes it stop there, or cannot be left out
  and adds only to them what every match has too (`NextItem`), and the rest
  cannot change it any more. Every word of the pattern begins with the same
  letters (`LeadIsMatched`, `BeginningStays`), and a known keyword is in them by
  `Prefixed`. So the keyword is in every text that is matched, whatever its case
  (`PrefixedIsReachable`), and the tables do the rest. The inductions over items
  and characters go through sets: the library's induction theorem takes a
  predicate, which the provers cannot instantiate, so `Induction` states it for a
  set of numbers and `RecursionExists` gives the recursive functions their values.

- `FindingsPageProofs`: `FilterShownHolds`, `RowsFreshHolds`,
  `EmptyPageHasCauseHolds`, `ListingImplements` (`ListingIsView`). None of them is
  inductive. The invariant adds that requests are numbered in the order they were
  sent, each number once (`Numbering`), that the last one asks for what the
  controls show (`Asking`), that its answer agrees with the rows while nothing was
  missed (`Agreement`), and that every page asked for exists and every answer
  fills it while no row has moved (`Paging`); `Presence` says that a page that is
  not on screen has asked for nothing. The refinement goes through the actions one
  by one: each is one step of `RemoteView` or leaves it alone.
- `SessionProofs`: `UserIsSessionHolds`. The check of the mount is compared with
  the cookie of now and with the one it was sent with (`CheckHolds`): a login that
  came in between has a younger session (`Logins`).
- `DashboardProofs`: `RowsListedHolds`, from the agreement of the last load with
  the rows (`LoadsAgree`); `LoadedWholeHolds`; `TrendsImplement`;
  `TogglesAreShown`; and `DashboardIsItsParts`: each step of the dashboard is, for
  each part, a step of its own specification or a stutter. From it and the
  theorems of the parts follows `DashboardKeepsPromises`, the safety properties of
  all parts of the whole application.

Model-checked only: liveness, which is out of the prover's reach (`ExitReached`,
`EventuallyHanded`, `FindingsSettle`, `VisitorsMoveOn`, and the step from
`SomebodyGoesOn` and `WorkRunsOut` to `EventuallyAnswered`). Every other property
of a passing run is proved.

## Not modelled

Formatting (SARIF, exports, remediation), read-only queries, the audit log,
migrations and the styling of the dashboard keep no state that these properties
are about; its wrappers of interface components and the query hooks, which no
page uses, are left out with them. Further:

- the one connection that all sessions share on SQLite, which is meant for
  development, and the webhook tasks on the closed session of their request:
  what happens there is the choice of the libraries;
- organizations: users, findings and policies are those of one; the creation of
  an organization and the change of its key are one row and one commit each;
- what an administrator could do with the setup form once there is an account,
  and two clicks on the logout button before the first is answered, which are one
  call in `Session`; links that a hidden sidebar does not show can be followed;
- the count and the page of a list, two statements in the code, are one step in
  `FindingsPage`: a row that moves in between gives an answer whose total is off
  by one until the next fetch;
- `ScanState`, `Telemetry` and `Ingest` are not composed: what the backend holds
  when several scanners report, lose and repeat is left open;
- the buckets and totals of the analytics, pure functions of the rows that were
  read (`backend/services/analytics.py:53-123`).
