-------------------------- MODULE TelemetryProofs --------------------------
(***************************************************************************)
(* What holds of the telemetry client for every channel and batch size,    *)
(* every timing and every number of events.                                *)
(***************************************************************************)
EXTENDS Telemetry, SequenceTheorems, TLAPS

USE TelemetryAssumption

Before(s, t) == \A i \in 1..Len(s), j \in 1..Len(t) : s[i] < t[j]

LEMMA Regroup ==
    ASSUME NEW s \in Seq(Events), NEW t \in Seq(Events), NEW u \in Seq(Events)
    PROVE  (s \o t) \o u = s \o (t \o u)
  BY ConcatAssociative

(* A concatenation is in order when its parts are and follow each other.   *)
LEMMA IncreasingConcat ==
    ASSUME NEW s \in Seq(Events), NEW t \in Seq(Events)
    PROVE  Increasing(s \o t) <=> Increasing(s) /\ Increasing(t) /\ Before(s, t)
  <1>0. /\ s \o t \in Seq(Events) /\ Len(s \o t) = Len(s) + Len(t)
        /\ Len(s) \in Nat /\ Len(t) \in Nat
        /\ \A i \in 1..Len(s) : (s \o t)[i] = s[i]
        /\ \A i \in 1..Len(t) : (s \o t)[Len(s) + i] = t[i]
    OBVIOUS
  <1>1. ASSUME Increasing(s \o t)
        PROVE  Increasing(s) /\ Increasing(t) /\ Before(s, t)
    <2>1. Increasing(s)
      BY <1>0, <1>1 DEF Increasing
    <2>2. ASSUME NEW i \in 1..Len(t), NEW j \in 1..Len(t), i < j
          PROVE  t[i] < t[j]
      <3>0. /\ Len(s) + i \in 1..Len(s \o t) /\ Len(s) + j \in 1..Len(s \o t)
            /\ Len(s) + i < Len(s) + j
        BY <1>0, <2>2
      <3>1. (s \o t)[Len(s) + i] < (s \o t)[Len(s) + j]
        BY <1>1, <3>0 DEF Increasing
      <3>2. (s \o t)[Len(s) + i] = t[i] /\ (s \o t)[Len(s) + j] = t[j]
        BY <1>0
      <3>3. QED
        BY <3>1, <3>2
    <2>3. ASSUME NEW i \in 1..Len(s), NEW j \in 1..Len(t)
          PROVE  s[i] < t[j]
      <3>0. /\ i \in 1..Len(s \o t) /\ Len(s) + j \in 1..Len(s \o t)
            /\ i < Len(s) + j
        BY <1>0
      <3>1. (s \o t)[i] < (s \o t)[Len(s) + j]
        BY <1>1, <3>0 DEF Increasing
      <3>2. (s \o t)[i] = s[i] /\ (s \o t)[Len(s) + j] = t[j]
        BY <1>0
      <3>3. QED
        BY <3>1, <3>2
    <2>4. QED
      BY <2>1, <2>2, <2>3 DEF Increasing, Before
  <1>2. ASSUME Increasing(s), Increasing(t), Before(s, t)
        PROVE  Increasing(s \o t)
    <2> SUFFICES ASSUME NEW i \in 1..Len(s \o t), NEW j \in 1..Len(s \o t), i < j
                 PROVE  (s \o t)[i] < (s \o t)[j]
      BY DEF Increasing
    <2>1. CASE j <= Len(s)
      BY <1>0, <1>2, <2>1 DEF Increasing
    <2>2. CASE i <= Len(s) /\ j > Len(s)
      <3>1. j - Len(s) \in 1..Len(t) /\ j = Len(s) + (j - Len(s))
        BY <1>0, <2>2
      <3>2. (s \o t)[j] = t[j - Len(s)]
        BY <1>0, <3>1
      <3>3. QED
        BY <1>0, <1>2, <2>2, <3>1, <3>2 DEF Before
    <2>3. CASE i > Len(s)
      <3>1. /\ i - Len(s) \in 1..Len(t) /\ i = Len(s) + (i - Len(s))
            /\ j - Len(s) \in 1..Len(t) /\ j = Len(s) + (j - Len(s))
        BY <1>0, <2>3
      <3>2. (s \o t)[i] = t[i - Len(s)] /\ (s \o t)[j] = t[j - Len(s)]
        BY <1>0, <3>1
      <3>3. QED
        BY <1>2, <3>1, <3>2 DEF Increasing
    <2>4. QED
      BY <2>1, <2>2, <2>3
  <1>3. QED
    BY <1>1, <1>2

LEMMA AtMostConcat ==
    ASSUME NEW s \in Seq(Events), NEW t \in Seq(Events), NEW n \in Nat
    PROVE  AtMost(s \o t, n) <=> AtMost(s, n) /\ AtMost(t, n)
  <1>0. /\ Len(s \o t) = Len(s) + Len(t) /\ Len(s) \in Nat /\ Len(t) \in Nat
        /\ \A i \in 1..Len(s) : (s \o t)[i] = s[i]
        /\ \A i \in 1..Len(t) : (s \o t)[Len(s) + i] = t[i]
    OBVIOUS
  <1>1. ASSUME AtMost(s \o t, n)
        PROVE  AtMost(s, n) /\ AtMost(t, n)
    <2>1. ASSUME NEW i \in 1..Len(s)
          PROVE  s[i] <= n
      <3>1. (s \o t)[i] <= n
        BY <1>0, <1>1 DEF AtMost
      <3>2. QED
        BY <1>0, <3>1
    <2>2. ASSUME NEW i \in 1..Len(t)
          PROVE  t[i] <= n
      <3>1. Len(s) + i \in 1..Len(s \o t)
        BY <1>0
      <3>2. (s \o t)[Len(s) + i] <= n
        BY <1>1, <3>1 DEF AtMost
      <3>3. (s \o t)[Len(s) + i] = t[i]
        BY <1>0
      <3>4. QED
        BY <3>2, <3>3
    <2>3. QED
      BY <2>1, <2>2 DEF AtMost
  <1>2. ASSUME AtMost(s, n), AtMost(t, n), NEW i \in 1..Len(s \o t)
        PROVE  (s \o t)[i] <= n
    <2>1. CASE i <= Len(s)
      BY <1>0, <1>2, <2>1 DEF AtMost
    <2>2. CASE i > Len(s)
      <3>1. i - Len(s) \in 1..Len(t) /\ i = Len(s) + (i - Len(s))
        BY <1>0, <2>2
      <3>2. (s \o t)[i] = t[i - Len(s)]
        BY <1>0, <3>1
      <3>3. QED
        BY <1>2, <3>1, <3>2 DEF AtMost
    <2>3. QED
      BY <1>0, <2>1, <2>2
  <1>3. QED
    BY <1>1, <1>2 DEF AtMost

(* The newest event goes to the end of what is in order.                   *)
LEMMA AppendInOrder ==
    ASSUME NEW s \in Seq(Events), NEW n \in Nat, n + 1 \in Events,
           Increasing(s), AtMost(s, n)
    PROVE  /\ Increasing(s \o <<n + 1>>)
           /\ AtMost(s \o <<n + 1>>, n + 1)
  <1> DEFINE e == <<n + 1>>
  <1>1. /\ e \in Seq(Events) /\ Len(e) = 1 /\ e[1] = n + 1 /\ Len(s) \in Nat
        /\ \A i \in 1..Len(s) : s[i] \in Nat
    BY DEF Events
  <1> HIDE DEF e
  <1>2. Increasing(e) /\ AtMost(e, n + 1)
    BY <1>1 DEF Increasing, AtMost
  <1>3. Before(s, e) /\ AtMost(s, n + 1)
    BY <1>1 DEF Before, AtMost
  <1>4. QED
    <2>1. Increasing(s \o e)
      BY <1>1, <1>2, <1>3, IncreasingConcat
    <2>2. AtMost(s \o e, n + 1)
      BY <1>1, <1>2, <1>3, AtMostConcat
    <2>3. QED
      BY <2>1, <2>2 DEF e

(* The worker moves the head of the channel to the end of its batch.       *)
LEMMA MoveHead ==
    ASSUME NEW S, NEW b \in Seq(S), NEW c \in Seq(S), c # <<>>
    PROVE  /\ Append(b, Head(c)) \o Tail(c) = b \o c
           /\ Append(b, Head(c)) \in Seq(S) /\ Tail(c) \in Seq(S)
           /\ Len(Append(b, Head(c))) = Len(b) + 1
           /\ Len(Tail(c)) = Len(c) - 1
  <1>1. /\ Head(c) \in S /\ Tail(c) \in Seq(S) /\ <<Head(c)>> \in Seq(S)
        /\ Len(Tail(c)) = Len(c) - 1
    OBVIOUS
  <1>2. Append(b, Head(c)) = b \o <<Head(c)>>
    BY <1>1, AppendIsConcat
  <1>3. <<Head(c)>> \o Tail(c) = c
    BY <1>1
  <1>4. (b \o <<Head(c)>>) \o Tail(c) = b \o (<<Head(c)>> \o Tail(c))
    BY <1>1, ConcatAssociative
  <1>5. QED
    BY <1>1, <1>2, <1>3, <1>4

LEMMA Sequences ==
    ASSUME TypeOK
    PROVE  /\ handed \in Seq(Events) /\ batch \in Seq(Events)
           /\ chan \in Seq(Events) /\ delivered \in Seq(Events)
           /\ accepted \in Seq(Events) /\ offered \in Nat
           /\ Pending \in Seq(Events)
  BY DEF TypeOK, Pending

-----------------------------------------------------------------------------
LEMMA InitHolds == Init => IInv
  <1> SUFFICES ASSUME Init
               PROVE  IInv
    OBVIOUS
  <1>0. <<>> \in Seq(Events) /\ Len(<<>>) = 0 /\ <<>> \o <<>> = <<>>
    OBVIOUS
  <1>1. TypeOK
    <2>1. worker \in {"recv", "post", "done"} /\ phase \in Phases
      BY DEF Init, Phases
    <2>2. 0 \in 0..FlushTicks /\ 0 \in 0..MaxEvents /\ 0 <= Capacity
      BY DEF TelemetryAssumption
    <2>3. QED
      BY <1>0, <2>1, <2>2 DEF Init, TypeOK
  <1>2. HandOver
    BY <1>0 DEF Init, HandOver, Pending
  <1>3. InOrder
    BY <1>0 DEF Init, InOrder, Increasing, AtMost, Pipe
  <1>4. PostFitsBackend /\ (worker = "recv" => Len(batch) < BatchSize)
    BY <1>0 DEF Init, PostFitsBackend
  <1>5. NoDropBelowCapacity
    BY <1>0 DEF Init, NoDropBelowCapacity
  <1>6. QED
    BY <1>1, <1>2, <1>3, <1>4, <1>5 DEF IInv

(* try_send puts the newest event at the end of the channel, or drops it.  *)
LEMMA TrySendKeeps ==
    ASSUME IInv, phase \in {"scan", "report"},
           offered < MaxEvents, offered' = offered + 1, TrySend(offered + 1),
           found' \in BOOLEAN,
           UNCHANGED <<prompt, enabled, phase, pause, hung, workerVars>>
    PROVE  IInv'
  <1> DEFINE e == offered + 1
  <1>0. /\ e \in Events /\ offered \in Nat /\ offered' \in 0..MaxEvents
        /\ phase # "exited"
    BY DEF IInv, TypeOK, Events
  <1>1. CASE UNCHANGED <<chan, accepted>> /\ (~enabled \/ Len(chan) >= Capacity)
    <2>1. TypeOK'
      BY <1>0, <1>1 DEF IInv, TypeOK, workerVars
    <2>2. HandOver' /\ PostFitsBackend' /\ (worker = "recv" => Len(batch) < BatchSize)'
      BY <1>1 DEF IInv, HandOver, Pending, PostFitsBackend, workerVars
    <2>3. InOrder'
      <3>1. Pipe' = Pipe /\ Increasing(Pipe) /\ AtMost(Pipe, offered)
        BY <1>0, <1>1 DEF IInv, InOrder, Pipe, workerVars
      <3>2. Pipe \in Seq(Events)
        BY Sequences DEF IInv, Pipe
      <3>3. AtMost(Pipe, offered + 1)
        BY <1>0, <3>1, <3>2 DEF AtMost, Events
      <3>4. QED
        BY <3>1, <3>3 DEF IInv, InOrder, workerVars
    <2>4. NoDropBelowCapacity'
      <3>1. CASE ~enabled
        BY <3>1 DEF NoDropBelowCapacity
      <3>2. CASE Len(chan) >= Capacity
        <4>1. Len(accepted) = Len(handed) + Len(Pending) + Len(chan)
          BY Sequences, ConcatProperties DEF IInv, HandOver
        <4>2. Len(accepted) >= Capacity
          BY <3>2, <4>1, Sequences DEF IInv, TypeOK, TelemetryAssumption
        <4>3. enabled => offered >= Capacity
          BY <1>0, <4>2 DEF IInv, NoDropBelowCapacity, TelemetryAssumption
        <4>4. QED
          BY <1>0, <4>3 DEF NoDropBelowCapacity, TelemetryAssumption
      <3>3. QED
        BY <1>1, <3>1, <3>2
    <2>5. QED
      BY <2>1, <2>2, <2>3, <2>4 DEF IInv
  <1>2. CASE /\ enabled /\ Len(chan) < Capacity
             /\ chan' = Append(chan, e) /\ accepted' = Append(accepted, e)
    <2> DEFINE new == <<e>>
    <2>0. /\ chan' = chan \o new /\ accepted' = accepted \o new
          /\ new \in Seq(Events)
      BY <1>0, <1>2, Sequences, AppendIsConcat DEF IInv
    <2>1. TypeOK'
      BY <1>0, <1>2 DEF IInv, TypeOK, workerVars, TelemetryAssumption
    <2>2. PostFitsBackend' /\ (worker = "recv" => Len(batch) < BatchSize)'
      BY DEF IInv, PostFitsBackend, workerVars
    <2> HIDE DEF new
    <2>3. HandOver'
      <3>1. accepted = (handed \o Pending) \o chan
        BY DEF IInv, HandOver
      <3>2. handed \o Pending \in Seq(Events) /\ chan \in Seq(Events)
        BY Sequences DEF IInv
      <3>3. ((handed \o Pending) \o chan) \o new
               = (handed \o Pending) \o (chan \o new)
        <4>1. /\ handed \in Seq(Events) /\ Pending \in Seq(Events)
              /\ chan \in Seq(Events) /\ new \in Seq(Events)
          BY <2>0, Sequences DEF IInv
        <4>2. QED
          BY <3>2, <4>1, Regroup
      <3>4. QED
        BY <2>0, <3>1, <3>3 DEF HandOver, Pending, workerVars
    <2>4. InOrder'
      <3>1. delivered \o batch \in Seq(Events) /\ Pipe \in Seq(Events)
        BY Sequences DEF IInv, Pipe
      <3>2. Pipe' = Pipe \o new
        <4>1. /\ delivered \in Seq(Events) /\ batch \in Seq(Events)
              /\ chan \in Seq(Events) /\ new \in Seq(Events)
          BY <2>0, Sequences DEF IInv
        <4>2. ((delivered \o batch) \o chan) \o new
                 = (delivered \o batch) \o (chan \o new)
          BY <3>1, <4>1, Regroup
        <4>3. QED
          BY <2>0, <4>2 DEF Pipe, workerVars
      <3>3. Increasing(Pipe) /\ AtMost(Pipe, offered)
        BY <1>0 DEF IInv, InOrder
      <3>4. Increasing(Pipe \o new) /\ AtMost(Pipe \o new, e)
        BY <1>0, <3>1, <3>3, AppendInOrder DEF new
      <3>5. QED
        BY <3>2, <3>4 DEF IInv, InOrder, workerVars
    <2>5. NoDropBelowCapacity'
      BY <1>0, <1>2, Sequences
         DEF IInv, NoDropBelowCapacity, TelemetryAssumption
    <2>6. QED
      BY <2>1, <2>2, <2>3, <2>4, <2>5 DEF IInv
  <1>3. QED
    BY <1>1, <1>2 DEF TrySend

(* Steps that move no event: of the main thread and of the clock.          *)
LEMMA IdleKeeps ==
    ASSUME IInv, TypeOK', phase # "exited",
           UNCHANGED <<enabled, offered, accepted, chan, worker, batch, handed,
                       delivered>>
    PROVE  IInv'
  BY DEF IInv, HandOver, Pending, InOrder, Pipe, PostFitsBackend,
         NoDropBelowCapacity

LEMMA EmptyConcat ==
    ASSUME NEW s \in Seq(Events)
    PROVE  s \o <<>> = s /\ <<>> \o s = s
  BY ConcatEmptySeq

(* What has left the pipe at its front, or the middle of it, leaves the    *)
(* rest in order.                                                          *)
LEMMA DropMiddle ==
    ASSUME NEW s \in Seq(Events), NEW t \in Seq(Events), NEW u \in Seq(Events),
           NEW n \in Nat, Increasing((s \o t) \o u), AtMost((s \o t) \o u, n)
    PROVE  /\ Increasing(s) /\ Increasing(s \o t)
           /\ Increasing(s \o u) /\ AtMost(s \o u, n)
  <1> DEFINE st == s \o t
             tu == t \o u
  <1>1. st \in Seq(Events) /\ tu \in Seq(Events)
    BY ConcatProperties
  <1>2. (s \o t) \o u = s \o tu
    BY Regroup
  <1> HIDE DEF st, tu
  <1>3. Increasing(st \o u) /\ AtMost(st \o u, n)
    BY DEF st
  <1>4. Increasing(st) /\ Increasing(u) /\ AtMost(st, n) /\ AtMost(u, n)
    BY <1>1, <1>3, IncreasingConcat, AtMostConcat
  <1>5. Increasing(s) /\ AtMost(s, n)
    BY <1>4, IncreasingConcat, AtMostConcat DEF st
  <1>6. Before(s, u)
    <2>1. Before(s, tu)
      <3>1. Increasing(s \o tu)
        BY <1>2
      <3>2. QED
        BY <1>1, <3>1, IncreasingConcat
    <2>2. ASSUME NEW i \in 1..Len(s), NEW j \in 1..Len(u)
          PROVE  s[i] < u[j]
      <3>1. Len(t) + j \in 1..Len(tu) /\ tu[Len(t) + j] = u[j]
        BY DEF tu
      <3>2. QED
        BY <2>1, <3>1 DEF Before
    <2>3. QED
      BY <2>2 DEF Before
  <1>7. Increasing(s \o u)
    BY <1>4, <1>5, <1>6, IncreasingConcat
  <1>8. AtMost(s \o u, n)
    BY <1>4, <1>5, AtMostConcat
  <1>9. QED
    BY <1>4, <1>5, <1>7, <1>8 DEF st

LEMMA ReceiveKeeps ==
    ASSUME IInv, Receive
    PROVE  IInv'
  <1> DEFINE new == Append(batch, Head(chan))
             rest == Tail(chan)
  <1>0. /\ batch \in Seq(Events) /\ chan \in Seq(Events) /\ chan # <<>>
        /\ handed \in Seq(Events) /\ delivered \in Seq(Events)
        /\ worker = "recv" /\ phase # "exited"
    BY Sequences DEF IInv, Receive
  <1>1. /\ new \o rest = batch \o chan
        /\ new \in Seq(Events) /\ rest \in Seq(Events)
        /\ Len(new) = Len(batch) + 1 /\ Len(rest) = Len(chan) - 1
    BY <1>0, MoveHead
  <1>2. /\ batch' = new /\ chan' = rest
        /\ UNCHANGED <<mainVars, accepted, delivered>>
        /\ \/ /\ Len(new) >= BatchSize
              /\ worker' = "post" /\ handed' = handed \o new /\ idle' = 0
           \/ /\ Len(new) < BatchSize
              /\ worker' = "recv" /\ handed' = handed /\ idle' = 0
    <2>1. batch' = new
      BY DEF Receive
    <2>2. Len(new) >= BatchSize \/ Len(new) < BatchSize
      BY <1>0, <1>1 DEF TelemetryAssumption
    <2>3. QED
      BY <1>0, <2>1, <2>2 DEF Receive, Post, TelemetryAssumption
  <1> HIDE DEF new, rest
  <1>3. TypeOK'
    <2>1. handed' \in Seq(Events)
      <3>1. handed \o new \in Seq(Events)
        BY <1>0, <1>1
      <3>2. QED
        BY <1>0, <1>2, <3>1
    <2>2. Len(chan') <= Capacity
      BY <1>0, <1>1, <1>2 DEF IInv, TypeOK, TelemetryAssumption
    <2>3. 0 \in 0..FlushTicks
      BY DEF TelemetryAssumption
    <2>4. QED
      BY <1>1, <1>2, <2>1, <2>2, <2>3 DEF IInv, TypeOK, mainVars
  <1>4. HandOver'
    <2>1. accepted = (handed \o batch) \o chan
      BY <1>0 DEF IInv, HandOver, Pending
    <2>2. (handed \o batch) \o chan = handed \o (batch \o chan)
      BY <1>0, Regroup
    <2>3. (handed \o new) \o rest = handed \o (new \o rest)
      BY <1>0, <1>1, Regroup
    <2>4. accepted = (handed \o new) \o rest
      BY <1>1, <2>1, <2>2, <2>3
    <2>5. CASE worker' = "post" /\ handed' = handed \o new
      <3>1. handed \o new \in Seq(Events)
        BY <1>0, <1>1, ConcatProperties
      <3>2. (handed \o new) \o <<>> = handed \o new
        BY <3>1, EmptyConcat
      <3>3. QED
        BY <1>2, <2>4, <2>5, <3>2 DEF HandOver, Pending
    <2>6. CASE worker' = "recv" /\ handed' = handed
      BY <1>2, <2>4, <2>6 DEF HandOver, Pending
    <2>7. QED
      BY <1>2, <2>5, <2>6
  <1>5. InOrder'
    <2>1. (delivered \o batch) \o chan = delivered \o (batch \o chan)
      BY <1>0, Regroup
    <2>2. (delivered \o new) \o rest = delivered \o (new \o rest)
      BY <1>0, <1>1, Regroup
    <2>3. Pipe' = Pipe
      BY <1>1, <1>2, <2>1, <2>2 DEF Pipe
    <2>4. QED
      BY <1>0, <1>2, <2>3 DEF IInv, InOrder, mainVars
  <1>6. PostFitsBackend' /\ (worker = "recv" => Len(batch) < BatchSize)'
    <2>1. Len(new) \in 1..BatchSize
      BY <1>0, <1>1 DEF IInv, TelemetryAssumption
    <2>2. QED
      BY <1>2, <2>1 DEF PostFitsBackend
  <1>7. NoDropBelowCapacity'
    BY <1>2 DEF IInv, NoDropBelowCapacity, mainVars
  <1>8. QED
    BY <1>3, <1>4, <1>5, <1>6, <1>7 DEF IInv

(* A batch that is not empty goes to the HTTP client as it is.             *)
LEMMA PostKeeps ==
    ASSUME IInv, worker = "recv", phase # "exited", chan = <<>>, batch # <<>>,
           Post(batch),
           UNCHANGED <<mainVars, accepted, chan, batch, delivered>>
    PROVE  IInv'
  <1>0. /\ batch \in Seq(Events) /\ handed \in Seq(Events)
        /\ handed \o batch \in Seq(Events) /\ Len(batch) \in 1..BatchSize
    BY Sequences DEF IInv, TelemetryAssumption
  <1>1. TypeOK'
    <2>1. 0 \in 0..FlushTicks
      BY DEF TelemetryAssumption
    <2>2. QED
      BY <1>0, <2>1 DEF IInv, TypeOK, Post, mainVars
  <1>2. HandOver'
    <2>1. (handed \o batch) \o <<>> = handed \o batch
      BY <1>0, EmptyConcat
    <2>2. accepted = (handed \o batch) \o <<>>
      BY DEF IInv, HandOver, Pending
    <2>3. QED
      BY <2>1, <2>2 DEF HandOver, Pending, Post
  <1>3. InOrder'
    BY DEF IInv, InOrder, Pipe, mainVars
  <1>4. PostFitsBackend' /\ (worker = "recv" => Len(batch) < BatchSize)'
    BY <1>0 DEF PostFitsBackend, Post
  <1>5. NoDropBelowCapacity'
    BY DEF IInv, NoDropBelowCapacity, mainVars
  <1>6. QED
    BY <1>1, <1>2, <1>3, <1>4, <1>5 DEF IInv

LEMMA TimeoutKeeps ==
    ASSUME IInv, Timeout
    PROVE  IInv'
  <1>1. CASE batch # <<>>
    BY <1>1, PostKeeps DEF Timeout
  <1>2. CASE batch = <<>>
    <2>1. TypeOK'
      BY <1>2 DEF IInv, TypeOK, Timeout, mainVars, TelemetryAssumption
    <2>2. QED
      BY <1>2, <2>1, IdleKeeps DEF Timeout, mainVars
  <1>3. QED
    BY <1>1, <1>2

LEMMA DisconnectedKeeps ==
    ASSUME IInv, Disconnected
    PROVE  IInv'
  <1>1. CASE batch # <<>>
    BY <1>1, PostKeeps DEF Disconnected
  <1>2. CASE batch = <<>>
    <2>1. worker' = "done" /\ UNCHANGED <<mainVars, accepted, chan, batch, idle,
                                          handed, delivered>>
      BY <1>2 DEF Disconnected
    <2>2. TypeOK'
      BY <2>1 DEF IInv, TypeOK, mainVars
    <2>3. HandOver' /\ InOrder' /\ PostFitsBackend' /\ NoDropBelowCapacity'
      BY <2>1 DEF IInv, HandOver, Pending, InOrder, Pipe, PostFitsBackend,
                  NoDropBelowCapacity, mainVars, Disconnected
    <2>4. QED
      BY <2>1, <2>2, <2>3 DEF IInv
  <1>3. QED
    BY <1>1, <1>2

LEMMA PostDoneKeeps ==
    ASSUME IInv, PostDone
    PROVE  IInv'
  <1>0. /\ batch \in Seq(Events) /\ chan \in Seq(Events)
        /\ delivered \in Seq(Events) /\ handed \in Seq(Events)
        /\ offered \in Nat /\ phase # "exited" /\ worker = "post"
    BY Sequences DEF IInv, PostDone
  <1>1. /\ worker' = "recv" /\ batch' = <<>> /\ idle' = 0
        /\ delivered' \in {delivered, delivered \o batch}
        /\ UNCHANGED <<mainVars, accepted, chan, handed>>
    BY DEF PostDone
  <1>2. delivered \o batch \in Seq(Events) /\ delivered' \in Seq(Events)
    <2>1. delivered \o batch \in Seq(Events)
      BY <1>0
    <2>2. QED
      BY <1>0, <1>1, <2>1
  <1>3. TypeOK'
    <2>1. 0 \in 0..FlushTicks /\ <<>> \in Seq(Events)
      BY DEF TelemetryAssumption
    <2>2. QED
      BY <1>1, <1>2, <2>1 DEF IInv, TypeOK, mainVars
  <1>4. HandOver'
    <2>1. accepted = (handed \o <<>>) \o chan
      BY <1>0 DEF IInv, HandOver, Pending
    <2>2. QED
      BY <1>1, <2>1 DEF HandOver, Pending
  <1>5. InOrder'
    <2>1. /\ Increasing(delivered) /\ Increasing(delivered \o batch)
          /\ Increasing(delivered \o chan) /\ AtMost(delivered \o chan, offered)
          /\ Increasing((delivered \o batch) \o chan)
          /\ AtMost((delivered \o batch) \o chan, offered)
      BY <1>0, DropMiddle DEF IInv, InOrder, Pipe
    <2>2. delivered' \o <<>> = delivered'
      BY <1>2, EmptyConcat
    <2>3. Pipe' \in {delivered \o chan, (delivered \o batch) \o chan}
      BY <1>1, <2>2 DEF Pipe
    <2>4. Increasing(Pipe') /\ AtMost(Pipe', offered)
      BY <2>1, <2>3
    <2>5. QED
      BY <1>1, <2>1, <2>4 DEF InOrder, mainVars
  <1>6. PostFitsBackend' /\ (worker = "recv" => Len(batch) < BatchSize)'
    BY <1>1 DEF PostFitsBackend, TelemetryAssumption
  <1>7. NoDropBelowCapacity'
    BY <1>1 DEF IInv, NoDropBelowCapacity, mainVars
  <1>8. QED
    BY <1>3, <1>4, <1>5, <1>6, <1>7 DEF IInv

LEMMA DieKeeps ==
    ASSUME IInv, Die, phase # "exited"
    PROVE  IInv'
  <1>0. /\ batch \in Seq(Events) /\ chan \in Seq(Events)
        /\ delivered \in Seq(Events) /\ offered \in Nat
    BY Sequences DEF IInv
  <1>1. delivered' \in {delivered, delivered \o batch}
    BY DEF Die
  <1>2. TypeOK'
    <2>1. delivered \o batch \in Seq(Events)
      BY <1>0
    <2>2. delivered' \in Seq(Events)
      BY <1>0, <1>1, <2>1
    <2>3. QED
      BY <2>2 DEF IInv, TypeOK, Die, Phases
  <1>3. InOrder'
    <2>1. Increasing(delivered) /\ Increasing(delivered \o batch)
      BY <1>0, DropMiddle DEF IInv, InOrder, Pipe
    <2>2. QED
      BY <1>1, <2>1 DEF InOrder, Die
  <1>4. HandOver' /\ PostFitsBackend' /\ (worker = "recv" => Len(batch) < BatchSize)'
        /\ NoDropBelowCapacity'
    BY DEF IInv, HandOver, Pending, PostFitsBackend, NoDropBelowCapacity, Die
  <1>5. QED
    BY <1>2, <1>3, <1>4 DEF IInv

LEMMA TickKeeps ==
    ASSUME IInv, Tick
    PROVE  IInv'
  <1>1. TypeOK'
    BY DEF IInv, TypeOK, Tick, TelemetryAssumption
  <1>2. QED
    BY <1>1, IdleKeeps DEF Tick

(* The moves of the main thread that neither send nor exit.                *)
LEMMA MainKeeps ==
    ASSUME IInv, EndScan \/ BeginFlush \/ BeginDrop \/ DropSender,
           phase # "exited"
    PROVE  IInv'
  <1>1. TypeOK'
    BY DEF IInv, TypeOK, EndScan, BeginFlush, BeginDrop, DropSender, workerVars,
           Phases, TelemetryAssumption
  <1>2. UNCHANGED <<enabled, offered, accepted, chan, worker, batch, handed,
                    delivered>>
    BY DEF EndScan, BeginFlush, BeginDrop, DropSender, workerVars
  <1>3. QED
    BY <1>1, <1>2, IdleKeeps

LEMMA NextKeeps == IInv /\ [Next]_vars => IInv'
  <1> SUFFICES ASSUME IInv, [Next]_vars
               PROVE  IInv'
    OBVIOUS
  <1>1. CASE SendFound
    <2>1. found' \in BOOLEAN
      BY <1>1 DEF SendFound
    <2>2. QED
      BY <1>1, <2>1, TrySendKeeps DEF SendFound
  <1>2. CASE SendRemoved
    <2>1. found' \in BOOLEAN
      BY <1>2 DEF SendRemoved, IInv, TypeOK
    <2>2. QED
      BY <1>2, <2>1, TrySendKeeps DEF SendRemoved
  <1>3. CASE NothingToScan \/ Return \/ EndScan \/ BeginFlush \/ DropSender
    BY <1>3, MainKeeps DEF NothingToScan, Return, EndScan, BeginFlush, DropSender
  <1>4. CASE DiscoveryFailed \/ ExitWithFindings \/ ExitAfterReturn
    BY <1>4, DieKeeps DEF DiscoveryFailed, ExitWithFindings, ExitAfterReturn
  <1>5. CASE WorkerStep
    BY <1>5, ReceiveKeeps, TimeoutKeeps, DisconnectedKeeps, PostDoneKeeps
       DEF WorkerStep
  <1>6. CASE Tick
    BY <1>6, TickKeeps
  <1>7. CASE UNCHANGED vars
    BY <1>7 DEF vars, mainVars, workerVars, IInv, TypeOK, HandOver, Pending,
                InOrder, Pipe, PostFitsBackend, NoDropBelowCapacity
  <1>8. QED
    BY <1>1, <1>2, <1>3, <1>4, <1>5, <1>6, <1>7
       DEF Next, MainStep, Terminated

(* In every state, for every channel and batch size, every timing and      *)
(* number of events: the types and bounds of channel and batch, the        *)
(* hand-over, the order, and what try_send promises.                       *)
THEOREM Invariance == Spec => []IInv
  BY InitHolds, NextKeeps, PTL DEF Spec

(* The hand-over from the scan threads to the HTTP client loses, repeats   *)
(* and reorders nothing.                                                   *)
THEOREM NothingLostInside == Spec => []HandOver
  <1>1. IInv => HandOver
    BY DEF IInv
  <1>2. QED
    BY <1>1, Invariance, PTL

(* The server never sees an event twice or before an older one.            *)
THEOREM ServerSeesOrder == Spec => []DeliveredOnceInOrder
  <1>1. IInv => DeliveredOnceInOrder
    BY DEF IInv, InOrder, DeliveredOnceInOrder
  <1>2. QED
    BY <1>1, Invariance, PTL

(* No POST is empty or larger than a batch.                                *)
THEOREM PostsFit == Spec => []PostFitsBackend
  <1>1. IInv => PostFitsBackend
    BY DEF IInv
  <1>2. QED
    BY <1>1, Invariance, PTL

(* A scan with no more events than the channel holds drops none, however   *)
(* slow the worker and the network are.                                    *)
THEOREM SmallScansDropNothing == Spec => []NoDropBelowCapacity
  <1>1. IInv => NoDropBelowCapacity
    BY DEF IInv
  <1>2. QED
    BY <1>1, Invariance, PTL

(* What is left behind.  Only exit(1) ends a scan with findings, so that the *)
(* worker it leaves has not seen the channel close; a disabled client holds  *)
(* nothing.  Once time has passed in the sleep of flush, the channel is      *)
(* empty: nobody sends any more, and the worker was waiting for an event.    *)
Leaving ==
    /\ offered = 0 => ~found
    /\ phase \in {"drop", "closed"} => ~found
    /\ ~enabled => chan = <<>> /\ batch = <<>>
    /\ worker = "done" => ~enabled \/ (~found /\ phase \in {"closed", "exited"})
    /\ phase = "flush" => pause <= SleepTicks
    /\ prompt /\ phase = "flush" /\ pause < SleepTicks /\ ~hung => chan = <<>>
    /\ LossBound

(* Time passes while flush sleeps.                                          *)
LEMMA SleepDrains ==
    ASSUME IInv, Leaving, Tick, prompt, phase = "flush", ~hung'
    PROVE  chan' = <<>>
  <1>1. WorkerBlocked /\ worker # "post" /\ chan' = chan
    BY DEF Tick
  <1>2. CASE worker = "done"
    BY <1>1, <1>2 DEF Leaving
  <1>3. CASE worker = "recv"
    BY <1>1, <1>3 DEF WorkerBlocked
  <1>4. QED
    BY <1>1, <1>2, <1>3 DEF IInv, TypeOK

(* The sleep is over, and it was one: what is left is in the batch, which    *)
(* is not full.                                                             *)
LEMMA ExitLeavesLittle ==
    ASSUME IInv, Leaving, ExitWithFindings
    PROVE  LossBound'
  <1> SUFFICES ASSUME prompt, found, ~hung
               PROVE  chan' = <<>> /\ Len(Pending') < BatchSize
    BY DEF LossBound, ExitWithFindings, Die
  <1>1. /\ phase = "flush" /\ pause = 0
        /\ worker' = worker /\ batch' = batch /\ chan' = chan
    BY DEF ExitWithFindings, Die
  <1>2. chan' = <<>>
    BY <1>1, TelemetryAssumption DEF Leaving
  <1>3. CASE worker = "post"
    BY <1>1, <1>2, <1>3, TelemetryAssumption DEF Pending
  <1>4. CASE worker = "done"
    BY <1>1, <1>2, <1>4, TelemetryAssumption DEF Pending, Leaving
  <1>5. CASE worker = "recv"
    BY <1>1, <1>2, <1>5 DEF Pending, IInv
  <1>6. QED
    BY <1>3, <1>4, <1>5 DEF IInv, TypeOK

LEMMA LeavingKept == IInv /\ Leaving /\ [Next]_vars => Leaving'
  <1> SUFFICES ASSUME IInv, Leaving, [Next]_vars
               PROVE  Leaving'
    OBVIOUS
  <1> USE TelemetryAssumption
  <1>0. /\ offered \in Nat /\ found \in BOOLEAN /\ enabled \in BOOLEAN /\ hung \in BOOLEAN
        /\ chan \in Seq(Events) /\ batch \in Seq(Events) /\ pause \in Nat
    BY DEF IInv, TypeOK
  <1>1. CASE SendFound \/ SendRemoved
    BY <1>0, <1>1 DEF SendFound, SendRemoved, TrySend, workerVars, Leaving, LossBound
  <1>2. CASE NothingToScan \/ Return \/ EndScan \/ BeginFlush \/ DropSender
    BY <1>0, <1>2
       DEF NothingToScan, Return, EndScan, BeginFlush, DropSender, BeginDrop, workerVars, Leaving,
           LossBound
  <1>3. CASE ExitWithFindings
    BY <1>0, <1>3, ExitLeavesLittle DEF ExitWithFindings, Die, Leaving
  <1>4. CASE DiscoveryFailed \/ ExitAfterReturn
    BY <1>0, <1>4 DEF DiscoveryFailed, ExitAfterReturn, Die, Leaving, LossBound
  <1>5. CASE Receive \/ Timeout \/ PostDone
    BY <1>0, <1>5 DEF Receive, Timeout, PostDone, Post, mainVars, Leaving, LossBound
  <1>6. CASE Disconnected
    BY <1>0, <1>6 DEF Disconnected, Post, mainVars, Leaving, LossBound
  <1>7. CASE Tick
    <2>1. prompt /\ phase = "flush" /\ ~hung' => chan' = <<>>
      BY <1>7, SleepDrains
    <2>2. phase = "flush" => pause' <= SleepTicks
      BY <1>0, <1>7 DEF Tick, Leaving
    <2>3. QED
      BY <1>0, <1>7, <2>1, <2>2 DEF Tick, Leaving, LossBound
  <1>8. CASE UNCHANGED vars
    BY <1>8 DEF vars, mainVars, workerVars, Leaving, LossBound, Pending
  <1>9. QED
    BY <1>1, <1>2, <1>3, <1>4, <1>5, <1>6, <1>7, <1>8
       DEF Next, MainStep, WorkerStep, Terminated

(* A scan with findings whose worker kept up, and whose flush no POST has    *)
(* delayed, leaves the channel empty and less than a batch unsent, for every *)
(* channel, batch and timing with a sleep in it: exit(1) looks at neither,   *)
(* but the sleep before it has lasted until the worker waited for an event   *)
(* (main.rs:342, 356-370, telemetry.rs:96-121).                              *)
THEOREM LossIsBounded == Spec => []LossBound
  <1>1. Init => Leaving
    BY DEF Init, Leaving, LossBound
  <1>2. Leaving => LossBound
    BY DEF Leaving
  <1>3. QED
    BY <1>1, <1>2, LeavingKept, Invariance, PTL DEF Spec
=============================================================================
