---------------------------- MODULE OutcomeWorker ----------------------------
(***************************************************************************)
(* The prospective outcome engine: VerifiedOutcomeIngestor of              *)
(* src/src/outcome-ingest.js, the outcome_enrichment rows it writes through *)
(* upsertEnrichmentState, the one-minute due poll of src/src/server.js, and *)
(* the feed, the provider, crashes and failing writes as its environment.  *)
(*                                                                         *)
(* One unit of time stands for about a minute.  Times are relative: age[m] *)
(* is the time since the launch of m (told apart up to MaxAge), due[m] the *)
(* time to next_attempt_at (told apart down to -MaxLate).                  *)
(***************************************************************************)
EXTENDS WorkQueue

CONSTANTS
    Mints,        \* launches the feed may announce
    Pools,        \* pools the provider may rank first
    Results,      \* derived results a window may be given
    Windows,      \* horizons after launch (5 m, 15 m, 1 h, 6 h, 24 h)
    CohortLimit,  \* admitted launches (120)
    MaxQueue,     \* queued refreshes (8)
    AdmitBy,      \* oldest launch that is admitted (5 m)
    SelectBy,     \* end of the pool-selection window (2 m)
    BaselineBy,   \* age at which a missing baseline is final (5 m)
    Grace,        \* settling time after a horizon (90 s)
    Soon,         \* retry while no pool is selected (60 s)
    Later,        \* retry of a failed candle request (5 m)
    SixHours,     \* refresh of settled rows, retry of a rejected request
    RateDelays,   \* retry-after values of the provider
    PollEvery,    \* period of the due poll (60 s)
    MaxAge, MaxLate, MaxEvents, MaxFaults,   \* bounds of the model
    None,         \* no pool, no result
    Never         \* next_attempt_at is NULL

ASSUME WorkerAssumption ==
    /\ IsFiniteSet(Mints)
    /\ Windows \subseteq Nat \ {0} /\ Windows # {} /\ IsFiniteSet(Windows)
    /\ CohortLimit \in Nat \ {0} /\ MaxQueue \in Nat \ {0}
    /\ AdmitBy \in Nat /\ SelectBy \in Nat /\ BaselineBy \in Nat /\ Grace \in Nat
    /\ \A w \in Windows : SelectBy < w /\ w + Grace <= MaxAge
    /\ Soon \in Nat \ {0} /\ Later \in Nat \ {0} /\ SixHours \in Nat \ {0}
    /\ RateDelays \subseteq Nat \ {0} /\ RateDelays # {}
    /\ PollEvery \in Nat \ {0} /\ MaxAge \in Nat /\ MaxLate \in Nat
    /\ AdmitBy < MaxAge /\ SelectBy < MaxAge /\ BaselineBy < MaxAge
    /\ MaxEvents \in Nat /\ MaxFaults \in Nat
    /\ None \notin Pools \cup Results /\ Never \notin Int

VARIABLES
    row,         \* row[m]: the outcome_enrichment row of m
    due,         \* due[m]: next_attempt_at minus now, or Never
    age,         \* age[m]: time since the persisted launch of m
    known,       \* mints with a row in the tokens table
    up,          \* the process runs
    admitted,    \* admittedMints
    selections,  \* mints at the front of the queue, stage "selection"
    outcomes,    \* mints behind them, stage "outcome"
    timer,       \* the drain timer is set
    running,     \* a refresh is running
    flight,      \* refreshes awaiting the provider: what they read and chose
    poll,        \* time to the next due poll
    events,      \* events[m]: feed events about m so far
    faults       \* crashes and failed writes so far

rows == <<row, due>>
queue == <<selections, outcomes>>
vars == <<row, due, age, known, up, admitted, selections, outcomes, timer,
          running, flight, poll, events, faults>>

-----------------------------------------------------------------------------
\* Rows.

Unobserved == [w \in Windows |-> None]
Absent == [status |-> "absent", pool |-> None, baseline |-> FALSE, result |-> Unobserved]

Persisted == {m \in Mints : row[m].status # "absent"}

Least(S) == CHOOSE x \in S : \A y \in S : x <= y

\* nextOutcomeAttemptAt: the next horizon that has not settled, or six hours.
Ahead(a) == {w + Grace - a : w \in {x \in Windows : x + Grace > a}}
NextAttempt(a) == IF Ahead(a) = {} THEN SixHours ELSE Least(Ahead(a))

-----------------------------------------------------------------------------
\* The queue: selections go before outcomes and displace the last of them
\* when it is full; an outcome that finds it full is dropped.

Queued == Contents(selections) \cup Contents(outcomes)
QueueLength == Len(selections) + Len(outcomes)

\* enqueue, for a list of mints without and a list of mints with a pool.
Insert(sel, out) ==
    /\ selections' = Take(selections \o sel, MaxQueue)
    /\ outcomes' = Take(outcomes \o out, MaxQueue - Len(selections'))

\* One refresh at a time: asked by #schedule and again by #drainOne.
MutantIdle == TRUE
Idle == ~running

\* #schedule, with the timer and the worker as they are by then: the drain
\* timer is set when the worker is idle and the queue is not empty.
Schedule(set, idle) == timer' = (set \/ (idle /\ (selections' # <<>> \/ outcomes' # <<>>)))

Unchosen(m) == row[m].pool = None

\* The queue after enqueueing an admitted mint, new or known.
Enqueued(m) ==
    /\ IF Unchosen(m) THEN Insert(<<m>>, <<>>) ELSE Insert(<<>>, <<m>>)
    /\ Schedule(timer, Idle)

-----------------------------------------------------------------------------
\* Feed events: upsert in server.js calls enqueue for every token it stores.

\* Whether enqueue treats m as a member of the cohort, or makes it one now.
Member(m) == m \in admitted \cup Persisted
Admissible(m) == age'[m] <= AdmitBy /\ Cardinality(admitted) < CohortLimit

\* enqueue for a mint that is neither admitted nor persisted.  When the row
\* cannot be written, the exception ends the process: see Crash.
Admit(m) ==
    /\ ~Member(m) /\ Admissible(m)
    /\ admitted' = admitted \cup {m}
    /\ row' = [row EXCEPT ![m] = [Absent EXCEPT !.status = "queued"]]
    /\ due' = [due EXCEPT ![m] = 0]
    /\ Enqueued(m)

Enqueue(m) ==
    \/ Admit(m)
    \/ /\ Member(m)
       /\ IF m \in Queued THEN UNCHANGED <<queue, timer>> ELSE Enqueued(m)
       /\ UNCHANGED <<rows, admitted>>
    \/ /\ ~Member(m) /\ ~Admissible(m)
       /\ UNCHANGED <<rows, admitted, queue, timer>>

\* A launch, or a later update or migration of a stored token.
FeedEvent(m) ==
    /\ up /\ events[m] < MaxEvents
    /\ events' = [events EXCEPT ![m] = @ + 1]
    /\ known' = known \cup {m}
    /\ age' = [age EXCEPT ![m] = IF m \in known THEN @ ELSE 0]
    /\ Enqueue(m)
    /\ UNCHANGED <<up, running, flight, poll, faults>>

\* dueEnrichmentTokens in the order of next_attempt_at; equal times tie.
DueMints == {m \in Persisted : due[m] # Never /\ due[m] <= 0}
EnqueueDue ==
    \E sel \in InOrder({m \in DueMints : Unchosen(m)} \ Queued, due),
       out \in InOrder({m \in DueMints : ~Unchosen(m)} \ Queued, due) :
        Insert(sel, out)

\* The one-minute interval.
Poll ==
    /\ up /\ poll = 0
    /\ poll' = PollEvery
    /\ EnqueueDue
    /\ Schedule(timer, Idle)
    /\ UNCHANGED <<rows, age, known, up, admitted, running, flight, events, faults>>

-----------------------------------------------------------------------------
\* The worker: one refresh at a time.

\* What a failed refresh records.  pool is the selection it holds, if any;
\* kind is "missed", "no-pool", "invalid", "transient" or "rate-limited", the
\* last with the retry-after of the provider in wait.
Terminal(pool, kind) == kind = "missed" \/ (pool = None /\ kind = "invalid")

FailureDelay(pool, kind, wait) ==
    IF Terminal(pool, kind) THEN Never
    ELSE IF pool # None /\ kind \in {"no-pool", "invalid"} THEN SixHours
    ELSE IF kind = "rate-limited" THEN wait
    ELSE IF pool = None THEN Soon ELSE Later

FailureRow(read, pool, kind) ==
    [status |-> IF kind \in {"missed", "invalid"} THEN "invalid-response" ELSE "unavailable",
     pool |-> pool, baseline |-> read.baseline, result |-> read.result]

Write(m, r, delay) ==
    /\ row' = [row EXCEPT ![m] = r]
    /\ due' = [due EXCEPT ![m] = delay]

\* The finally block of #drainOne.
MutantFinished(f) ==
    /\ flight' = flight \ {f}
    /\ UNCHANGED <<running, queue, timer>>
Finished(f) ==
    /\ flight' = flight \ {f}
    /\ running' = FALSE
    /\ UNCHANGED queue
    /\ Schedule(timer, TRUE)

Late(m) == age[m] > SelectBy
Deferred(m) == row[m].status # "absent" /\ due[m] # Never /\ due[m] > 0

\* refreshToken up to its first await.  It ends at once when the time of the
\* row has not come or the selection window is over.
Refresh(m) ==
    \/ /\ Deferred(m)
       /\ Schedule(FALSE, TRUE)
       /\ UNCHANGED <<rows, running, flight, faults>>
    \/ /\ ~Deferred(m) /\ Unchosen(m) /\ Late(m)
       /\ \/ Write(m, FailureRow(row[m], None, "missed"), Never) /\ UNCHANGED faults
          \/ UNCHANGED rows /\ faults < MaxFaults /\ faults' = faults + 1
       /\ Schedule(FALSE, TRUE)
       /\ UNCHANGED <<running, flight>>
    \/ /\ ~Deferred(m) /\ ~(Unchosen(m) /\ Late(m))
       /\ flight' = flight \cup {[mint |-> m, read |-> row[m], pool |-> row[m].pool]}
       /\ running' = TRUE
       /\ timer' = FALSE
       /\ UNCHANGED <<rows, faults>>

\* The drain timer fires: #drainOne takes the head of the queue.
Drain ==
    /\ up /\ timer /\ Idle /\ QueueLength > 0
    /\ IF selections # <<>>
       THEN selections' = Tail(selections) /\ UNCHANGED outcomes
       ELSE outcomes' = Tail(outcomes) /\ UNCHANGED selections
    /\ Refresh(Head(selections \o outcomes))
    /\ UNCHANGED <<age, known, up, admitted, poll, events>>

\* poolForToken answers with the pool it picked, in time.  The selection is
\* recorded; when that write fails, the catch block records a failure that
\* holds the selection, or nothing either.
MutantInTime(m) == TRUE
InTime(m) == ~Late(m)
PoolAnswer(f, p) ==
    /\ up /\ f \in flight /\ f.pool = None /\ InTime(f.mint)
    /\ \/ /\ Write(f.mint, [Absent EXCEPT !.status = "pool-selected", !.pool = p],
                   Least(Windows) + Grace - age[f.mint])
          /\ UNCHANGED faults
       \/ /\ \/ Write(f.mint, FailureRow(f.read, p, "transient"), Later)
             \/ UNCHANGED rows
          /\ faults < MaxFaults /\ faults' = faults + 1
    /\ Finished(f)
    /\ UNCHANGED <<age, known, up, admitted, poll, events>>

\* What calculateVerifiedOutcome may find in the candles now: results only for
\* horizons that have passed, and only with a baseline.
Candidates(m) ==
    {c \in [baseline : BOOLEAN, result : [Windows -> Results \cup {None}]] :
        \A w \in Windows : c.result[w] # None => c.baseline /\ age[m] >= w}

\* mergeOutcomeHistory: what was observed first is kept.
Merge(read, c) ==
    [baseline |-> read.baseline \/ c.baseline,
     result |-> [w \in Windows |-> IF read.result[w] # None THEN read.result[w] ELSE c.result[w]]]

OutcomeStatus(o, a) ==
    IF \A w \in Windows : o.result[w] # None THEN "complete"
    ELSE IF o.baseline THEN "observing"
    ELSE IF a >= BaselineBy THEN "baseline-unavailable" ELSE "awaiting-price"

OutcomeDelay(o, a) ==
    IF o.baseline THEN NextAttempt(a)
    ELSE IF a >= BaselineBy THEN Never ELSE Soon

\* ohlcv answers, and the outcome is recorded; or writing it fails.
CandleAnswer(f) ==
    /\ up /\ f \in flight /\ f.pool # None
    /\ \/ /\ \E c \in Candidates(f.mint) :
              LET o == Merge(f.read, c)
                  a == age[f.mint]
              IN Write(f.mint, [status |-> OutcomeStatus(o, a), pool |-> f.pool,
                                baseline |-> o.baseline, result |-> o.result],
                       OutcomeDelay(o, a))
          /\ UNCHANGED faults
       \/ /\ \/ Write(f.mint, FailureRow(f.read, f.pool, "transient"), Later)
             \/ UNCHANGED rows
          /\ faults < MaxFaults /\ faults' = faults + 1
    /\ Finished(f)
    /\ UNCHANGED <<age, known, up, admitted, poll, events>>

\* A request fails, or its answer is refused.  A failure without a selection
\* after the selection window counts as missed, whatever it was.
FailureKind(f, kind) == IF f.pool = None /\ Late(f.mint) THEN "missed" ELSE kind

FailedAnswer(f) ==
    /\ up /\ f \in flight
    /\ \/ /\ \E code \in {"no-pool", "invalid", "transient", "rate-limited"}, wait \in RateDelays :
              LET kind == FailureKind(f, code)
              IN Write(f.mint, FailureRow(f.read, f.pool, kind), FailureDelay(f.pool, kind, wait))
          /\ UNCHANGED faults
       \/ UNCHANGED rows /\ faults < MaxFaults /\ faults' = faults + 1
    /\ Finished(f)
    /\ UNCHANGED <<age, known, up, admitted, poll, events>>

Answer(f) == (\E p \in Pools : PoolAnswer(f, p)) \/ CandleAnswer(f) \/ FailedAnswer(f)

-----------------------------------------------------------------------------
\* Crashes, restarts and time.

\* The process dies, perhaps between storing a new token and enqueueing it:
\* so it does when the admission row cannot be written, as nothing catches
\* what a handler of the socket throws.
Crash ==
    /\ up /\ faults < MaxFaults /\ faults' = faults + 1
    /\ \/ UNCHANGED <<known, age>>
       \/ \E m \in Mints \ known :
            known' = known \cup {m} /\ age' = [age EXCEPT ![m] = 0]
    /\ up' = FALSE
    /\ admitted' = {} /\ selections' = <<>> /\ outcomes' = <<>>
    /\ timer' = FALSE /\ running' = FALSE /\ flight' = {} /\ poll' = 0
    /\ UNCHANGED <<rows, events>>

\* A new process admits the persisted cohort and starts with what is due.
MutantRestored == {}
Restored == Persisted
Restart ==
    /\ ~up /\ up' = TRUE
    /\ admitted' = Restored
    /\ EnqueueDue
    /\ Schedule(FALSE, TRUE)
    /\ poll' = PollEvery
    /\ UNCHANGED <<rows, age, known, running, flight, events, faults>>

\* A unit of time passes.  Timers that are due fire within their unit.
Tick ==
    /\ up => poll > 0 /\ ~timer
    /\ due' = [m \in Mints |-> IF due[m] # Never /\ due[m] > -MaxLate THEN due[m] - 1 ELSE due[m]]
    /\ age' = [m \in Mints |-> IF m \in known /\ age[m] < MaxAge THEN age[m] + 1 ELSE age[m]]
    /\ poll' = IF up THEN poll - 1 ELSE poll
    /\ UNCHANGED <<row, known, up, admitted, queue, timer, running, flight, events, faults>>

-----------------------------------------------------------------------------
Init ==
    /\ row = [m \in Mints |-> Absent]
    /\ due = [m \in Mints |-> Never]
    /\ age = [m \in Mints |-> 0] /\ known = {}
    /\ up = TRUE /\ admitted = {} /\ selections = <<>> /\ outcomes = <<>>
    /\ timer = FALSE /\ running = FALSE /\ flight = {} /\ poll = PollEvery
    /\ events = [m \in Mints |-> 0] /\ faults = 0

Next ==
    \/ \E m \in Mints : FeedEvent(m)
    \/ Poll
    \/ Drain
    \/ \E f \in flight : Answer(f)
    \/ Crash
    \/ Restart
    \/ Tick

Spec == Init /\ [][Next]_vars

\* Timers fire, the process is restarted, and every request ends: fetch is aborted
\* after 8 s, and in the client's queue, sorted by priority (geckoterminal.js 247), nothing
\* goes before the requests of this worker, which asks one at a time (WaitIsBounded of
\* Upstream: one turn for each that goes before it, and pauses).
Fairness ==
    /\ WF_vars(Tick) /\ WF_vars(Poll) /\ WF_vars(Drain)
    /\ WF_vars(\E f \in flight : Answer(f))
    /\ WF_vars(Restart)

FairSpec == Spec /\ Fairness

-----------------------------------------------------------------------------
\* Properties.

Statuses == {"absent", "queued", "pool-selected", "observing", "complete", "awaiting-price",
             "baseline-unavailable", "unavailable", "invalid-response"}
RowType == [status : Statuses, pool : Pools \cup {None}, baseline : BOOLEAN,
            result : [Windows -> Results \cup {None}]]
FlightType == [mint : Mints, read : RowType, pool : Pools \cup {None}]

\* Type correctness of the rows, the queue and the worker.
TypeOK ==
    /\ row \in [Mints -> RowType] /\ due \in [Mints -> Int \cup {Never}]
    /\ age \in [Mints -> 0..MaxAge] /\ known \in SUBSET Mints
    /\ up \in BOOLEAN /\ admitted \in SUBSET Mints
    /\ selections \in Seq(Mints) /\ outcomes \in Seq(Mints)
    /\ timer \in BOOLEAN /\ running \in BOOLEAN /\ flight \in SUBSET FlightType
    /\ poll \in 0..PollEvery
    /\ events \in [Mints -> Nat] /\ faults \in Nat

\* The cohort is fixed: at no time are more than CohortLimit launches
\* persisted, whatever crashes, restarts and failed writes happen, and no other
\* launch is worked for: what is queued or in flight has a row.
CohortIsBounded ==
    /\ Cardinality(Persisted) <= CohortLimit
    /\ Queued \cup {f.mint : f \in flight} \subseteq Persisted

\* One refresh at a time, and the row it read before the await is the row its
\* answer will overwrite.
RefreshIsCurrent ==
    /\ \A f, g \in flight : f = g
    /\ \A f \in flight : up /\ running /\ f.read = row[f.mint]

\* The pool of a launch is selected once, within SelectBy of the launch, and
\* never changed: no retry, restart or later ranking picks another.
Held(m) == ({row[m].pool} \cup {f.pool : f \in {g \in flight : g.mint = m}}) \ {None}
PoolIsProspective ==
    [][\A m \in Mints : Held(m)' \subseteq Held(m) \/ (Held(m) = {} /\ ~Late(m))]_vars

\* Every admitted launch with a next attempt is refreshed at last: neither a
\* full queue, nor displacement, nor a restart keeps it waiting for ever.
Scheduled(m) == row[m].status # "absent" /\ due[m] # Never
Refreshing(m) == \E f \in flight : f.mint = m
DueIsRefreshed == \A m \in Mints : Scheduled(m) ~> Refreshing(m) \/ ~Scheduled(m)

=============================================================================
