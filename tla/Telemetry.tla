----------------------------- MODULE Telemetry -----------------------------
(***************************************************************************)
(* The telemetry client of the scanner (src/src/utils/telemetry.rs) and    *)
(* the part of main.rs that drives it: the scan threads and then the main  *)
(* thread offer events to a bounded channel, one worker thread collects    *)
(* them into batches and POSTs them, and the main thread sleeps a little   *)
(* before the process ends.                                                *)
(*                                                                         *)
(* An event is the number of its send call: event n is the n-th one that   *)
(* was offered, whichever scan thread offered it.  Time is counted in      *)
(* ticks; idle is the age of the worker's pending recv_timeout and pause   *)
(* what is left of the main thread's sleep.                                *)
(***************************************************************************)
EXTENDS Naturals, Sequences

CONSTANTS
    Capacity,     \* size of the bounded channel (1000 in the code)
    BatchSize,    \* BATCH_SIZE (50)
    FlushTicks,   \* FLUSH_INTERVAL_MS in ticks (1000 ms)
    SleepTicks,   \* the sleep of flush (100 ms)
    DropTicks,    \* the sleep of Drop (200 ms)
    MaxEvents     \* bound of the model: events one scan may offer

ASSUME TelemetryAssumption ==
    /\ Capacity \in Nat \ {0}
    /\ BatchSize \in Nat \ {0}
    /\ FlushTicks \in Nat \ {0}
    /\ SleepTicks \in Nat \ {0}
    /\ DropTicks \in Nat
    /\ MaxEvents \in Nat

VARIABLES
    prompt,       \* scenario: a runnable worker runs before time passes
    enabled,      \* --report-to was given: new(), otherwise disabled()
    phase,        \* where the main thread is
    pause,        \* ticks left of the sleep the main thread is in
    offered,      \* number of send calls so far
    found,        \* some scan thread reported a vulnerability
    hung,         \* history: a POST took time while flush slept
    accepted,     \* history: events try_send put into the channel
    chan,         \* the channel
    worker,       \* "recv": in recv_timeout, "post": in the POST, "done"
    batch,        \* the worker's pending batch
    idle,         \* age of the pending recv_timeout
    handed,       \* history: events given to the HTTP client
    delivered     \* history: events the server received

mainVars   == <<prompt, enabled, phase, pause, offered, found, hung>>
workerVars == <<worker, batch, idle, handed, delivered>>
vars == <<mainVars, accepted, chan, workerVars>>

Phases == {"scan", "report", "flush", "drop", "closed", "exited"}
Events == 1..MaxEvents

TypeOK ==
    /\ prompt \in BOOLEAN
    /\ enabled \in BOOLEAN
    /\ phase \in Phases
    /\ pause \in Nat
    /\ offered \in 0..MaxEvents
    /\ found \in BOOLEAN
    /\ hung \in BOOLEAN
    /\ accepted \in Seq(Events)
    /\ chan \in Seq(Events) /\ Len(chan) <= Capacity
    /\ worker \in {"recv", "post", "done"}
    /\ batch \in Seq(Events)
    /\ idle \in 0..FlushTicks
    /\ handed \in Seq(Events)
    /\ delivered \in Seq(Events)

Init ==
    /\ prompt \in BOOLEAN
    /\ enabled \in BOOLEAN
    /\ phase = "scan"
    /\ pause = 0
    /\ offered = 0
    /\ found = FALSE
    /\ hung = FALSE
    /\ accepted = <<>>
    /\ chan = <<>>
    /\ worker = IF enabled THEN "recv" ELSE "done"
    /\ batch = <<>>
    /\ idle = 0
    /\ handed = <<>>
    /\ delivered = <<>>

-----------------------------------------------------------------------------
(* The sending side.                                                       *)

\* Variant: a channel one slot short.
TrySendOneShort(e) ==
    \/ /\ enabled
       /\ Len(chan) + 1 < Capacity
       /\ chan' = Append(chan, e)
       /\ accepted' = Append(accepted, e)
    \/ /\ ~enabled \/ Len(chan) + 1 >= Capacity
       /\ UNCHANGED <<chan, accepted>>

\* try_send: the event goes into the channel, or is dropped silently when
\* the channel is full or, for a disabled client, has no receiver.
TrySend(e) ==
    \/ /\ enabled
       /\ Len(chan) < Capacity
       /\ chan' = Append(chan, e)
       /\ accepted' = Append(accepted, e)
    \/ /\ ~enabled \/ Len(chan) >= Capacity
       /\ UNCHANGED <<chan, accepted>>

\* A scan thread reports one vulnerability (kind Found).
SendFound ==
    /\ phase = "scan"
    /\ offered < MaxEvents
    /\ offered' = offered + 1
    /\ found' = TRUE
    /\ TrySend(offered + 1)
    /\ UNCHANGED <<prompt, enabled, phase, pause, hung, workerVars>>

\* The parallel phase has joined; the main thread reports what is gone.
EndScan ==
    /\ phase = "scan"
    /\ phase' = "report"
    /\ UNCHANGED <<prompt, enabled, pause, offered, found, hung, accepted, chan, workerVars>>

\* The main thread reports one fixed secret (kind Removed).
SendRemoved ==
    /\ phase = "report"
    /\ offered < MaxEvents
    /\ offered' = offered + 1
    /\ TrySend(offered + 1)
    /\ UNCHANGED <<prompt, enabled, phase, pause, found, hung, workerVars>>

\* Variant: flush does not sleep.
BeginFlushAwake ==
    /\ phase = "report"
    /\ phase' = "flush"
    /\ pause' = 0
    /\ UNCHANGED <<prompt, enabled, offered, found, hung, accepted, chan, workerVars>>

\* flush: sleep, and nothing else.
BeginFlush ==
    /\ phase = "report"
    /\ phase' = "flush"
    /\ pause' = SleepTicks
    /\ UNCHANGED <<prompt, enabled, offered, found, hung, accepted, chan, workerVars>>

-----------------------------------------------------------------------------
(* The worker thread.                                                      *)

\* send_batch: the request leaves; its outcome is not looked at.
Post(b) ==
    /\ worker' = "post"
    /\ handed' = handed \o b
    /\ idle' = 0

\* Variant: the size test is "more than BATCH_SIZE".
ReceiveOverfull ==
    /\ phase # "exited"
    /\ worker = "recv"
    /\ chan # <<>>
    /\ chan' = Tail(chan)
    /\ batch' = Append(batch, Head(chan))
    /\ IF Len(batch') > BatchSize
       THEN Post(batch')
       ELSE idle' = 0 /\ UNCHANGED <<worker, handed>>
    /\ UNCHANGED <<mainVars, accepted, delivered>>

\* recv_timeout returned an event; a full batch is posted.
Receive ==
    /\ phase # "exited"
    /\ worker = "recv"
    /\ chan # <<>>
    /\ chan' = Tail(chan)
    /\ batch' = Append(batch, Head(chan))
    /\ IF Len(batch') >= BatchSize
       THEN Post(batch')
       ELSE idle' = 0 /\ UNCHANGED <<worker, handed>>
    /\ UNCHANGED <<mainVars, accepted, delivered>>

\* Variant: the timeout only starts the wait again.
TimeoutIgnored ==
    /\ phase # "exited"
    /\ worker = "recv"
    /\ chan = <<>>
    /\ phase # "closed"
    /\ idle = FlushTicks
    /\ idle' = 0
    /\ UNCHANGED <<mainVars, accepted, chan, worker, batch, handed, delivered>>

\* recv_timeout timed out: a pending batch is posted.
Timeout ==
    /\ phase # "exited"
    /\ worker = "recv"
    /\ chan = <<>>
    /\ phase # "closed"
    /\ idle = FlushTicks
    /\ IF batch # <<>>
       THEN Post(batch)
       ELSE idle' = 0 /\ UNCHANGED <<worker, handed>>
    /\ UNCHANGED <<mainVars, accepted, chan, batch, delivered>>

\* The channel is empty and its sender is gone: post the rest, then break.
Disconnected ==
    /\ phase = "closed"
    /\ worker = "recv"
    /\ chan = <<>>
    /\ IF batch # <<>>
       THEN Post(batch)
       ELSE worker' = "done" /\ UNCHANGED <<idle, handed>>
    /\ UNCHANGED <<mainVars, accepted, chan, batch, delivered>>

\* Variant: batch.clear() is missing.
PostDoneUncleared ==
    /\ phase # "exited"
    /\ worker = "post"
    /\ worker' = "recv"
    /\ idle' = 0
    /\ delivered' \in {delivered, delivered \o batch}
    /\ UNCHANGED <<mainVars, accepted, chan, batch, handed>>

\* The POST returned or failed, which the worker cannot tell apart: the
\* server has the events or not, and the batch is cleared either way.
PostDone ==
    /\ phase # "exited"
    /\ worker = "post"
    /\ worker' = "recv"
    /\ batch' = <<>>
    /\ idle' = 0
    /\ delivered' \in {delivered, delivered \o batch}
    /\ UNCHANGED <<mainVars, accepted, chan, handed>>

-----------------------------------------------------------------------------
(* Time and the end of the process.                                        *)

\* The worker waits for an event, the clock or the network.
WorkerBlocked ==
    \/ worker \in {"post", "done"}
    \/ chan = <<>> /\ idle < FlushTicks /\ phase # "closed"

Tick ==
    /\ phase # "exited"
    /\ prompt => WorkerBlocked
    /\ pause' = IF pause > 0 THEN pause - 1 ELSE 0
    /\ idle' = IF worker = "recv" /\ idle < FlushTicks THEN idle + 1 ELSE idle
    /\ hung' = (hung \/ (phase = "flush" /\ worker = "post"))
    /\ UNCHANGED <<prompt, enabled, phase, offered, found, accepted, chan, worker,
                   batch, handed, delivered>>

\* The process dies with whatever the worker still holds; a request that is
\* on the wire reaches the server or not.
Die ==
    /\ phase' = "exited"
    /\ delivered' \in IF worker = "post" THEN {delivered, delivered \o batch}
                                         ELSE {delivered}
    /\ UNCHANGED <<prompt, enabled, pause, offered, found, hung, accepted, chan, worker,
                   batch, idle, handed>>

\* main returns and drops the client, whose Drop sleeps before the sender goes.
BeginDrop ==
    /\ phase' = "drop"
    /\ pause' = IF enabled THEN DropTicks ELSE 0
    /\ UNCHANGED <<prompt, enabled, offered, found, hung, accepted, chan, workerVars>>

\* No file to scan: main returns at once.
NothingToScan ==
    /\ phase = "scan"
    /\ offered = 0
    /\ BeginDrop

\* git failed: exit(2).
DiscoveryFailed ==
    /\ phase = "scan"
    /\ offered = 0
    /\ Die

\* Variant: flush waits for the worker to finish.
ExitAfterWorker ==
    /\ phase = "flush"
    /\ pause = 0
    /\ found
    /\ worker = "recv" /\ chan = <<>> /\ batch = <<>>
    /\ Die

\* With vulnerabilities the process ends by exit(1), which runs no destructor.
ExitWithFindings ==
    /\ phase = "flush"
    /\ pause = 0
    /\ found
    /\ Die

\* Without vulnerabilities main returns normally.
Return ==
    /\ phase = "flush"
    /\ pause = 0
    /\ ~found
    /\ BeginDrop

\* Drop has slept; the sender field is dropped and the channel disconnects.
DropSender ==
    /\ phase = "drop"
    /\ pause = 0
    /\ phase' = "closed"
    /\ UNCHANGED <<prompt, enabled, pause, offered, found, hung, accepted, chan, workerVars>>

\* main has returned: the process ends at once, without joining the worker.
ExitAfterReturn ==
    /\ phase = "closed"
    /\ Die

MainStep ==
    \/ EndScan
    \/ BeginFlush
    \/ ExitWithFindings
    \/ Return
    \/ DropSender
    \/ ExitAfterReturn

WorkerStep ==
    \/ Receive
    \/ Timeout
    \/ Disconnected
    \/ PostDone

\* The process has ended and stays so.
Terminated == phase = "exited" /\ UNCHANGED vars

Next ==
    \/ SendFound
    \/ SendRemoved
    \/ NothingToScan
    \/ DiscoveryFailed
    \/ MainStep
    \/ WorkerStep
    \/ Tick
    \/ Terminated

Spec == Init /\ [][Next]_vars

\* The main thread and the clock go on; nothing is assumed of the worker or
\* of the network, which can hang for the 10 s of a POST.
MainFairness == WF_vars(MainStep) /\ WF_vars(Tick)

\* The worker is scheduled, a POST ends by its timeout at the latest, and the
\* clock goes on; nothing is assumed of the main thread.
WorkerFairness == WF_vars(WorkerStep) /\ WF_vars(Tick)

-----------------------------------------------------------------------------
(* Properties.                                                             *)

\* What the worker has collected and not yet given to the HTTP client.
Pending == IF worker = "post" THEN <<>> ELSE batch

\* The hand-over loses, repeats and reorders nothing: what try_send accepted
\* is, in this order, what was given to the HTTP client, what the worker has
\* collected, and what the channel holds.  (worker_loop clears the batch
\* after, and only after, it was posted.)
HandOver == accepted = handed \o Pending \o chan

Increasing(s) == \A i, j \in 1..Len(s) : i < j => s[i] < s[j]

\* What reached the server, what the worker holds and what the channel holds.
Pipe == delivered \o batch \o chan

AtMost(s, n) == \A i \in 1..Len(s) : s[i] <= n

\* While the process lives these follow each other in the order of the scan.
InOrder ==
    /\ Increasing(delivered)
    /\ phase # "exited" => Increasing(Pipe) /\ AtMost(Pipe, offered)

\* The server sees no event twice and none out of the order of the scan:
\* send_batch never retries, and a batch never leaves again.
DeliveredOnceInOrder == Increasing(delivered)

\* Every POST carries what the backend's EventBatch takes: at least one event
\* and at most BATCH_SIZE, the MAX_BATCH_SIZE of models.py.
PostFitsBackend == worker = "post" => Len(batch) \in 1..BatchSize

\* A scan that offers no more events than the channel holds drops none, even
\* if the worker never runs.
NoDropBelowCapacity == enabled /\ offered <= Capacity => Len(accepted) = offered

\* What holds of every state, and of every step from a state where it holds.
IInv ==
    /\ TypeOK
    /\ HandOver
    /\ InOrder
    /\ PostFitsBackend
    /\ worker = "recv" => Len(batch) < BatchSize
    /\ NoDropBelowCapacity

\* What the 100 ms of flush are worth: when a runnable worker runs while main
\* sleeps and no POST takes any of that time, a scan with findings ends with
\* less than one batch unsent and nothing in the channel, although exit(1)
\* looks at neither (telemetry.rs:96-100, main.rs:342, 367).
LossBound ==
    prompt /\ phase = "exited" /\ found /\ ~hung
        => chan = <<>> /\ Len(Pending) < BatchSize

\* Telemetry never keeps the scanner from ending, whatever the worker and the
\* network do ("zero scan latency impact", telemetry.rs:55).
ExitReached == MainFairness /\ ~prompt => <>(phase = "exited")

\* An accepted event is posted while the process lives: the recv_timeout
\* drains a batch that does not fill up.
EventuallyHanded ==
    WorkerFairness =>
        \A n \in Events :
            (\E i \in 1..Len(accepted) : accepted[i] = n)
                ~> (phase = "exited" \/ \E i \in 1..Len(handed) : handed[i] = n)

\* What the comment on flush says: "Flush remaining events and wait for
\* completion. Call this before program exit to ensure all events are sent."
FlushSendsAll ==
    prompt /\ phase = "exited" /\ found => handed = accepted
=============================================================================
