----------------------------- MODULE RiskWorker -----------------------------
(***************************************************************************)
(* The risk and identity evidence worker: RiskIdentityIngestor of          *)
(* src/src/risk-ingest.js, the risk_identity_enrichment rows it writes, the *)
(* due poll and the startup of src/src/server.js, with the feed, the       *)
(* provider, parser upgrades, crashes and failing writes around it.        *)
(*                                                                         *)
(* One unit of time stands for about a quarter of an hour.  due[m] is the  *)
(* time to next_attempt_at, told apart down to -MaxLate.  Evidence is the  *)
(* set of factors it holds.                                                *)
(***************************************************************************)
EXTENDS WorkQueue

CONSTANTS
    Mints,         \* launches, as numbers: the audit sample follows their order
    Factors,       \* the factors an observation may hold
    Core,          \* the factors whose absence asks for the retry
    CohortLimit,   \* admitted launches (120)
    SampleSize,    \* launches audited after a parser upgrade (16)
    MaxQueue,      \* queued refreshes (16)
    MaxAttempts,   \* ordinary attempts of a launch (2)
    AdmitBy,       \* oldest launch that is admitted (20 m)
    InitialDelay,  \* age at the first attempt (15 m)
    RetryDelay,    \* delay of the retry (60 m)
    RetryAfters,   \* retry-after values of the provider, 0 for none
    PollEvery,     \* period of the due poll (60 s)
    MaxRevision, MaxLate, MaxFaults,   \* bounds of the model
    Never          \* next_attempt_at is NULL

ASSUME RiskAssumption ==
    /\ Mints \subseteq Nat /\ IsFiniteSet(Mints)
    /\ Core \subseteq Factors /\ IsFiniteSet(Factors)
    /\ CohortLimit \in Nat \ {0} /\ SampleSize \in Nat \ {0} /\ MaxQueue \in Nat \ {0}
    /\ MaxAttempts \in Nat \ {0}
    /\ AdmitBy \in Nat /\ InitialDelay \in Nat /\ RetryDelay \in Nat \ {0}
    /\ RetryAfters \subseteq Nat /\ RetryAfters # {}
    /\ PollEvery \in Nat \ {0}
    /\ MaxRevision \in Nat \ {0} /\ MaxLate \in Nat /\ MaxFaults \in Nat
    /\ Never \notin Int

VARIABLES
    row,       \* row[m]: the risk_identity_enrichment row of m
    due,       \* due[m]: next_attempt_at minus now, or Never
    up,        \* the process runs
    revision,  \* RISK_IDENTITY_PARSER_REVISION of the process
    admitted,  \* admittedMints
    queue,     \* queued refreshes: the mint, and whether it is an audit
    timer,     \* the drain timer is set
    running,   \* a refresh is running
    flight,    \* refreshes awaiting the provider, with the row they read
    poll,      \* time to the next due poll
    asked,     \* history: ordinary attempts begun for m
    audits,    \* history: audits of m begun, by revision
    faults     \* crashes and failed writes so far

rows == <<row, due>>
history == <<asked, audits>>
vars == <<row, due, up, revision, admitted, queue, timer, running, flight, poll,
          asked, audits, faults>>

-----------------------------------------------------------------------------
\* Rows.  disposed is the latest revision whose parser an attempt has met:
\* parserRevision, parserAuditRevision and parserAttemptRevision together.

Absent == [persisted |-> FALSE, attempts |-> 0, succeeded |-> FALSE, evidence |-> {}, disposed |-> 0]
Persisted == {m \in Mints : row[m].persisted}
QueuedMints == {item.mint : item \in Contents(queue)}

\* enqueue accepts a persisted mint when an attempt is left and its time has come.
Ready(m) ==
    /\ row[m].persisted /\ row[m].attempts < MaxAttempts
    /\ due[m] # Never /\ due[m] <= 0

Idle == ~running
Schedule(set, idle) == timer' = (set \/ (idle /\ queue' # <<>>))

Normal(m) == [mint |-> m, audit |-> FALSE]
Audit(m) == [mint |-> m, audit |-> TRUE]

-----------------------------------------------------------------------------
\* Feed events.  age is the age of the launch the event carries: a late or
\* repeated event may be old.  The row is written before the mint is added to
\* admittedMints, so that a failed write leaves no trace.

Room == Cardinality(admitted) < CohortLimit

Admit(m, age) ==
    /\ ~row[m].persisted /\ Room /\ age <= AdmitBy
    /\ row' = [row EXCEPT ![m] = [Absent EXCEPT !.persisted = TRUE]]
    /\ due' = [due EXCEPT ![m] = IF age < InitialDelay THEN InitialDelay - age ELSE 0]
    /\ admitted' = admitted \cup {m}
    /\ IF age < InitialDelay \/ Len(queue) >= MaxQueue THEN UNCHANGED queue
       ELSE queue' = Append(queue, Normal(m))
    /\ Schedule(timer, Idle)

\* An update of a persisted mint is one more chance to be queued.
Repeat(m) ==
    /\ m \notin QueuedMints /\ Ready(m) /\ Len(queue) < MaxQueue
    /\ queue' = Append(queue, Normal(m))
    /\ Schedule(timer, Idle)
    /\ UNCHANGED <<rows, admitted>>

FeedEvent(m) ==
    /\ up
    /\ (\E age \in 0..AdmitBy : Admit(m, age)) \/ Repeat(m)
    /\ UNCHANGED <<up, revision, running, flight, poll, history, faults>>

\* dueRiskIdentityTokens, in the order of next_attempt_at.
DueMints == {m \in Persisted : due[m] # Never /\ due[m] <= 0}
Items(s) == [i \in DOMAIN s |-> Normal(s[i])]

Poll ==
    /\ up /\ poll = 0
    /\ poll' = PollEvery
    /\ \E s \in InOrder({m \in DueMints : Ready(m)} \ QueuedMints, due) :
        queue' = queue \o Take(Items(s), MaxQueue - Len(queue))
    /\ Schedule(timer, Idle)
    /\ UNCHANGED <<rows, up, revision, admitted, running, flight, history, faults>>

-----------------------------------------------------------------------------
\* The worker: one refresh at a time.

\* hasCurrentParserDisposition
Current(r) == r.disposed = revision

\* #drainOne takes the head of the queue; #refreshToken up to its first await.
Skipped(item) ==
    IF item.audit THEN Current(row[item.mint]) ELSE ~Ready(item.mint)

Drain ==
    /\ up /\ timer /\ Idle /\ queue # <<>>
    /\ queue' = Tail(queue)
    /\ LET item == Head(queue)
       IN \/ /\ Skipped(item)
             /\ Schedule(FALSE, TRUE)
             /\ UNCHANGED <<running, flight, history>>
          \/ /\ ~Skipped(item)
             /\ flight' = flight \cup
                    {[mint |-> item.mint, audit |-> item.audit, read |-> row[item.mint]]}
             /\ running' = TRUE
             /\ timer' = FALSE
             /\ IF item.audit
                THEN /\ audits' = [audits EXCEPT ![item.mint][revision] = @ + 1]
                     /\ UNCHANGED asked
                ELSE /\ asked' = [asked EXCEPT ![item.mint] = @ + 1]
                     /\ UNCHANGED audits
    /\ UNCHANGED <<rows, up, revision, admitted, poll, faults>>

\* The finally block of #drainOne.
Finished(f) ==
    /\ flight' = flight \ {f}
    /\ running' = FALSE
    /\ UNCHANGED queue
    /\ Schedule(timer, TRUE)

\* An audit keeps the schedule it found; an ordinary attempt is counted, and
\* retried once after RetryDelay or later.
MutantUncounted(f) == f.read.attempts
Attempts(f) == IF f.audit THEN f.read.attempts ELSE f.read.attempts + 1
MutantMayRetry(f) == Attempts(f) <= MaxAttempts
MayRetry(f) == Attempts(f) < MaxAttempts
Rescheduled(f, again, delay) ==
    due' = [due EXCEPT ![f.mint] =
        IF f.audit THEN @ ELSE IF again /\ MayRetry(f) THEN delay ELSE Never]

\* Prior factors are kept when the new observation lacks one of them or holds
\* fewer values (fewer: less website domains under the same factors).
MutantRetained(prior, found, fewer) == Cardinality(prior) > Cardinality(found) \/ fewer
Retained(prior, found, fewer) == prior # {} /\ (fewer \/ ~(prior \subseteq found))

\* tokenInfo and currentPoolForToken have answered, and the row is written.
Observed(f) ==
    /\ up /\ f \in flight
    /\ \E found \in SUBSET Factors, stale \in BOOLEAN, fewer \in BOOLEAN :
        /\ row' = [row EXCEPT ![f.mint] =
                [persisted |-> TRUE, attempts |-> Attempts(f), succeeded |-> TRUE,
                 evidence |-> IF Retained(f.read.evidence, found, fewer) THEN f.read.evidence ELSE found,
                 disposed |-> revision]]
        /\ Rescheduled(f, stale \/ ~(Core \subseteq found), RetryDelay)
    /\ Finished(f)
    /\ UNCHANGED <<up, revision, admitted, poll, history, faults>>

\* A request fails, its answer is refused, or the success could not be written
\* (which is recorded as an invalid response).  Prior evidence is kept.
Failed(f) ==
    /\ up /\ f \in flight
    /\ \E wait \in RetryAfters :
        Rescheduled(f, TRUE, IF wait > RetryDelay THEN wait ELSE RetryDelay)
    /\ row' = [row EXCEPT ![f.mint] =
            [persisted |-> TRUE, attempts |-> Attempts(f), succeeded |-> f.read.succeeded,
             evidence |-> IF f.read.succeeded THEN f.read.evidence ELSE {},
             disposed |-> revision]]
    /\ Finished(f)
    /\ UNCHANGED <<up, revision, admitted, poll, history, faults>>

\* Neither the result nor the failure could be written.
Unwritten(f) ==
    /\ up /\ f \in flight
    /\ faults < MaxFaults /\ faults' = faults + 1
    /\ Finished(f)
    /\ UNCHANGED <<rows, up, revision, admitted, poll, history>>

Answer(f) == Observed(f) \/ Failed(f) \/ Unwritten(f)

-----------------------------------------------------------------------------
\* Crashes, restarts and time.

Crash ==
    /\ up /\ faults < MaxFaults /\ faults' = faults + 1
    /\ up' = FALSE
    /\ admitted' = {} /\ queue' = <<>> /\ timer' = FALSE /\ running' = FALSE
    /\ flight' = {} /\ poll' = 0
    /\ UNCHANGED <<rows, revision, history>>

\* fixedParserRevisionSample: the first SampleSize persisted mints.
Rank(m) == Cardinality({n \in Persisted : n < m})
Sampled(m) == Rank(m) < SampleSize

\* #enqueueParserRevisionAudit: only when the cohort is full, the settled
\* launches of the sample this parser has not met.
AuditDue ==
    IF Cardinality(Persisted) < CohortLimit THEN {}
    ELSE {m \in Persisted : Sampled(m) /\ row[m].disposed # revision'
                /\ (row[m].attempts >= MaxAttempts \/ due[m] = Never)}
Ascending(S) == {s \in Listings(S) : \A i, j \in DOMAIN s : i < j => s[i] < s[j]}
AuditItems(s) == [i \in DOMAIN s |-> Audit(s[i])]

\* A new process, perhaps with a new parser: audits first, then what is due.
Restart ==
    /\ ~up /\ up' = TRUE
    /\ revision' \in {revision, revision + 1} \cap 1..MaxRevision
    /\ admitted' = Persisted
    /\ \E a \in Ascending(AuditDue), s \in Listings({m \in Persisted : Ready(m)} \ AuditDue) :
        queue' = Take(AuditItems(a) \o Items(s), MaxQueue)
    /\ Schedule(FALSE, TRUE)
    /\ poll' = PollEvery
    /\ UNCHANGED <<rows, running, flight, history, faults>>

\* A unit of time passes.  Timers that are due fire within their unit.
Tick ==
    /\ up => poll > 0 /\ ~timer
    /\ due' = [m \in Mints |-> IF due[m] # Never /\ due[m] > -MaxLate THEN due[m] - 1 ELSE due[m]]
    /\ poll' = IF up THEN poll - 1 ELSE poll
    /\ UNCHANGED <<row, up, revision, admitted, queue, timer, running, flight, history, faults>>

-----------------------------------------------------------------------------
Init ==
    /\ row = [m \in Mints |-> Absent]
    /\ due = [m \in Mints |-> Never]
    /\ up = TRUE /\ revision = 1 /\ admitted = {} /\ queue = <<>>
    /\ timer = FALSE /\ running = FALSE /\ flight = {} /\ poll = PollEvery
    /\ asked = [m \in Mints |-> 0]
    /\ audits = [m \in Mints |-> [r \in 1..MaxRevision |-> 0]]
    /\ faults = 0

Next ==
    \/ \E m \in Mints : FeedEvent(m)
    \/ Poll
    \/ Drain
    \/ \E f \in flight : Answer(f)
    \/ Crash
    \/ Restart
    \/ Tick

Spec == Init /\ [][Next]_vars

\* Timers fire, the process is restarted, and every request ends.  The client sorts its
\* queue (geckoterminal.js 247), so token information waits one turn for each request the
\* outcome worker asks for meanwhile (WaitIsBounded of Upstream): that it ends assumes that
\* the outcome worker, whose cohort is fixed, does not ask without a gap for ever.
Fairness ==
    /\ WF_vars(Tick) /\ WF_vars(Poll) /\ WF_vars(Drain)
    /\ WF_vars(\E f \in flight : Answer(f))
    /\ WF_vars(Restart)

FairSpec == Spec /\ Fairness

-----------------------------------------------------------------------------
\* Properties.

RowType == [persisted : BOOLEAN, attempts : 0..MaxAttempts, succeeded : BOOLEAN,
            evidence : SUBSET Factors, disposed : 0..MaxRevision]

\* Type correctness of the rows, the queue and the worker.
TypeOK ==
    /\ row \in [Mints -> RowType] /\ due \in [Mints -> Int \cup {Never}]
    /\ up \in BOOLEAN /\ revision \in 1..MaxRevision
    /\ admitted \in SUBSET Mints
    /\ queue \in Seq([mint : Mints, audit : BOOLEAN])
    /\ timer \in BOOLEAN /\ running \in BOOLEAN
    /\ flight \in SUBSET [mint : Mints, audit : BOOLEAN, read : RowType]
    /\ poll \in 0..PollEvery
    /\ asked \in [Mints -> Nat] /\ audits \in [Mints -> [1..MaxRevision -> Nat]]
    /\ faults \in Nat

\* A weaker observation, a failure, an audit or a restart never erases a
\* factor that an earlier observation found.
EvidenceIsKept ==
    [][\A m \in Mints : row[m].evidence \subseteq row'[m].evidence]_vars

\* A launch is asked about MaxAttempts times at most, and once more only for
\* a crash or a failed write that lost the count of an attempt.
\* A parser upgrade audits the same SampleSize launches after every restart,
\* and each of them once (again only when its outcome was lost).
AttemptsAreBounded ==
    /\ \A m \in Mints : asked[m] <= MaxAttempts + faults
    /\ Cardinality({m \in Mints : \E r \in 1..MaxRevision : audits[m][r] > 0}) <= SampleSize
    /\ \A m \in Mints, r \in 1..MaxRevision : audits[m][r] <= 1 + faults

\* Every admitted launch is settled at last: the attempts it has left are
\* made, or a complete observation ends them.
LaunchesAreSettled == \A m \in Mints : row[m].persisted ~> due[m] = Never

=============================================================================
