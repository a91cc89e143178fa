----------------------------- MODULE AlertOutbox -----------------------------
(***************************************************************************)
(* The durable Telegram outbox: the alerts table of src/src/store.js and   *)
(* the single-timer delivery loop of src/src/server.js, with the provider, *)
(* process crashes and failing database writes as its environment.         *)
(*                                                                         *)
(* Times are relative: due[k] is how long until telegram_next_attempt_at,  *)
(* so that the state space stays finite without bounding the run.  Ages    *)
(* below -MaxLate are not told apart (MaxLate is a bound of the model).    *)
(***************************************************************************)
EXTENDS Integers, FiniteSets

CONSTANTS
    Keys,          \* dedupe keys of the alerts that may be recorded
    MaxAttempts,   \* attempts before a retryable failure dead-letters (5)
    Throttle,      \* least time between two sends (1 s)
    RetryBase,     \* first backoff after an ambiguous result (5 s)
    RetryCap,      \* largest backoff after an ambiguous result (60 s)
    RateDelays,    \* the retry_after values a 429 may carry (1 s .. 3600 s)
    PollEvery,     \* period of the backstop interval (30 s)
    MaxLate,       \* bound: how far past due two rows are told apart
    MaxFaults,     \* bound: crashes and failed writes of a run
    None           \* no timer is set

ASSUME OutboxAssumption ==
    /\ IsFiniteSet(Keys)
    /\ MaxAttempts \in Nat \ {0}
    /\ Throttle \in Nat \ {0} /\ RetryBase \in Nat \ {0} /\ RetryCap \in Nat \ {0}
    /\ RateDelays \subseteq Nat \ {0} /\ RateDelays # {}
    /\ PollEvery \in Nat \ {0} /\ MaxLate \in Nat /\ MaxFaults \in Nat
    /\ None \notin Int

VARIABLES
    row,        \* row[k]: telegram_* columns of the alert with dedupe key k
    due,        \* due[k]: telegram_next_attempt_at minus now, for queued rows
    process,    \* "down", "booting" (startup code of server.js) or "up"
    configured, \* telegramAlertStatus() of this process
    timer,      \* telegramDeliveryTimer: time left, or None
    poll,       \* time to the next firing of the 30 s interval
    running,    \* telegramDeliveryRunning
    flight,     \* sends awaiting their answer: the row read, and its fate
    since,      \* time since telegramLastAttemptAt, Throttle when longer
    wire,       \* wire[k]: abandoned requests that may still reach the chat
    posted,     \* posted[k]: copies of k the chat has received
    sends,      \* history: requests made for k
    faults      \* history: crashes and failed writes so far

outbox == <<row, due>>
memory == <<process, configured, timer, poll, running, flight, since>>
history == <<sends, faults>>
vars == <<row, due, process, configured, timer, poll, running, flight, since,
          wire, posted, sends, faults>>

-----------------------------------------------------------------------------
\* Rows and timers.

Lower(x, y) == IF x <= y THEN x ELSE y

Queued(k) == row[k].status \in {"pending", "retrying"}
Settled(k) == row[k].status \in {"sent", "dead-letter"}

\* The next id of the alerts table: rows are never deleted.
NextId == Cardinality({k \in Keys : row[k].status # "absent"}) + 1

\* dueTelegramAlerts: queued rows whose time has come, in the order of
\* telegram_next_attempt_at and then id.  Rows -MaxLate late or more tie.
Due == {k \in Keys : Queued(k) /\ due[k] <= 0}
FirstDue ==
    {k \in Due : \A j \in Due :
        \/ due[k] < due[j]
        \/ due[k] = due[j] /\ (row[k].id <= row[j].id \/ due[k] = -MaxLate)}

\* scheduleTelegramDelivery: a timer that is set is never replaced.
Schedule(t, delay) ==
    IF configured /\ t = None THEN (IF delay >= 0 THEN delay ELSE 0) ELSE t

\* telegramRetryPlan: whether the n-th attempt may be followed by another.
MutantMayRetry(n) == n <= MaxAttempts
MayRetry(n) == n < MaxAttempts

\* telegramRetryPlan's exponential delay for the n-th attempt.
Backoff(n) == Lower(RetryBase * 2^(n - 1), RetryCap)

-----------------------------------------------------------------------------
\* Alerts are recorded.

\* INSERT OR IGNORE under the unique dedupe_key index.
MutantInsertable(k) == ~Queued(k)
Insertable(k) == row[k].status = "absent"

\* addAlert inside upsertTokenWithAlerts or commitIntelligenceBatch, then
\* broadcastMaterialAlerts -> maybeSendTelegram.  What throws between the
\* commit and the broadcast is caught by nobody and ends the process (Crash).
Record(k) ==
    /\ process # "down"
    /\ Insertable(k)
    /\ row' = [row EXCEPT ![k] = [status |-> IF configured THEN "pending" ELSE "unqueued",
                                  attempts |-> 0, id |-> NextId]]
    /\ due' = [due EXCEPT ![k] = 0]
    /\ timer' = Schedule(timer, 0)
    /\ UNCHANGED <<process, configured, poll, running, flight, since, wire, posted, history>>

-----------------------------------------------------------------------------
\* The delivery loop.

\* The timer fires and processTelegramOutbox runs up to its await: it returns
\* when a send is running or no row is due, defers while the last attempt is
\* less than Throttle ago, and otherwise sends the first due row.
MutantMayStart == since = Throttle
MayStart == ~running /\ since = Throttle

StartSend(k) ==
    /\ running' = TRUE
    /\ flight' = flight \cup {[key |-> k, count |-> row[k].attempts, posted |-> FALSE]}
    /\ sends' = [sends EXCEPT ![k] = @ + 1]

Fire ==
    /\ process = "up" /\ timer = 0
    /\ UNCHANGED <<outbox, process, configured, poll, since, wire, posted, faults>>
    /\ \/ /\ MayStart
          /\ timer' = None
          /\ \E k \in FirstDue : StartSend(k)
       \/ /\ ~MayStart \/ Due = {}
          /\ timer' = IF running \/ Due = {} THEN None ELSE Throttle - since
          /\ UNCHANGED <<running, flight, sends>>

\* setInterval(() => scheduleTelegramDelivery(), 30_000), set only when
\* delivery is configured.
Poll ==
    /\ process = "up" /\ configured /\ poll = 0
    /\ poll' = PollEvery
    /\ timer' = Schedule(timer, 0)
    /\ UNCHANGED <<outbox, process, configured, running, flight, since, wire, posted, history>>

-----------------------------------------------------------------------------
\* The provider and the network.

\* The chat receives the message of a send in flight, or of one given up on.
PostInFlight(f) ==
    /\ f \in flight /\ ~f.posted
    /\ flight' = (flight \ {f}) \cup {[key |-> f.key, count |-> f.count, posted |-> TRUE]}
    /\ posted' = [posted EXCEPT ![f.key] = @ + 1]
    /\ UNCHANGED <<outbox, process, configured, timer, poll, running, since, wire, history>>

PostLate(k) ==
    /\ wire[k] > 0
    /\ wire' = [wire EXCEPT ![k] = @ - 1]
    /\ posted' = [posted EXCEPT ![k] = @ + 1]
    /\ UNCHANGED <<outbox, memory, history>>

DropLate(k) ==
    /\ wire[k] > 0
    /\ wire' = [wire EXCEPT ![k] = @ - 1]
    /\ UNCHANGED <<outbox, memory, posted, history>>

-----------------------------------------------------------------------------
\* The answer arrives: the rest of processTelegramOutbox.

\* recordAlertTelegramAttempt: one attempt more, whatever the status was.
Recorded(k, status) ==
    row' = [row EXCEPT ![k].status = status, ![k].attempts = @ + 1]

\* finally: the attempt ends now and the loop is scheduled again, unless the
\* timer, as the try and catch blocks leave it (t), is already set.
MutantFinally(f, t) ==
    /\ flight' = flight \ {f}
    /\ since' = 0
    /\ timer' = Schedule(t, Throttle)
    /\ UNCHANGED <<process, configured, poll, running>>
Finally(f, t) ==
    /\ flight' = flight \ {f}
    /\ running' = FALSE
    /\ since' = 0
    /\ timer' = Schedule(t, Throttle)
    /\ UNCHANGED <<process, configured, poll>>

\* A request whose effect is unknown when its answer is given up on.
Doubt(f) == wire' = IF f.posted THEN wire ELSE [wire EXCEPT ![f.key] = @ + 1]

\* sendTelegramAlert returns only for a 2xx answer with ok and a message id.
MutantAcknowledged(f) == TRUE
Acknowledged(f) == f.posted

Confirm(f) ==
    /\ process = "up" /\ f \in flight /\ Acknowledged(f)
    /\ Recorded(f.key, "sent")
    /\ Finally(f, timer)
    /\ UNCHANGED <<due, wire, posted, history>>

\* Telegram confirms, but recording "sent" throws inside the try: the error
\* carries no retryable code, so the catch block dead-letters the row, and
\* that write may throw as well and is swallowed.
ConfirmUnrecorded(f) ==
    /\ process = "up" /\ f \in flight /\ Acknowledged(f)
    /\ faults < MaxFaults /\ faults' = faults + 1
    /\ \/ Recorded(f.key, "dead-letter")
       \/ UNCHANGED row
    /\ Finally(f, timer)
    /\ UNCHANGED <<due, wire, posted, sends>>

\* A retryable failure: an ambiguous result backs off exponentially, a 429
\* waits as long as it asks.  The attempt number is the one read with the row.
RetryWith(f, delay) ==
    /\ process = "up" /\ f \in flight /\ MayRetry(f.count + 1)
    /\ Recorded(f.key, "retrying")
    /\ due' = [due EXCEPT ![f.key] = delay]
    /\ Finally(f, Schedule(timer, delay))

RetryAmbiguous(f) ==
    /\ RetryWith(f, Backoff(f.count + 1))
    /\ Doubt(f)
    /\ UNCHANGED <<posted, history>>

RetryRateLimited(f) ==
    /\ ~f.posted
    /\ \E delay \in RateDelays : RetryWith(f, delay)
    /\ UNCHANGED <<wire, posted, history>>

\* A permanent failure, or the last attempt of a retryable one.  The request
\* was refused, or (only on the last attempt) its effect is unknown; the
\* failure of the dead-letter write is swallowed.
GiveUp(f) ==
    /\ process = "up" /\ f \in flight
    /\ \/ Recorded(f.key, "dead-letter") /\ UNCHANGED faults
       \/ UNCHANGED row /\ faults < MaxFaults /\ faults' = faults + 1
    /\ \/ ~f.posted /\ UNCHANGED wire
       \/ ~MayRetry(f.count + 1) /\ Doubt(f)
    /\ Finally(f, timer)
    /\ UNCHANGED <<due, posted, sends>>

-----------------------------------------------------------------------------
\* Crashes, restarts and time.

\* The process dies at any point; so it does when recording "retrying" throws,
\* as that rejection is unhandled.  The database stays as last committed.
Crash ==
    /\ process # "down" /\ faults < MaxFaults
    /\ faults' = faults + 1
    /\ process' = "down" /\ timer' = None /\ running' = FALSE /\ flight' = {}
    /\ since' = Throttle /\ poll' = 0
    /\ wire' = [k \in Keys |-> wire[k] + Cardinality({f \in flight : f.key = k /\ ~f.posted})]
    /\ UNCHANGED <<outbox, configured, posted, sends>>

\* A new process: telegramLastAttemptAt is 0, and the environment may differ.
Restart ==
    /\ process = "down"
    /\ process' = "booting"
    /\ configured' \in BOOLEAN
    /\ UNCHANGED <<outbox, timer, poll, running, flight, since, wire, posted, history>>

\* The end of the startup code: the first scheduled run and the interval.
Booted ==
    /\ process = "booting"
    /\ process' = "up"
    /\ timer' = Schedule(timer, Throttle)
    /\ poll' = PollEvery
    /\ UNCHANGED <<outbox, configured, running, flight, since, wire, posted, history>>

Closer(t) == IF t > 0 THEN t - 1 ELSE t

\* One unit of time passes.  Timers may fire late, so this is never blocked.
Tick ==
    /\ due' = [k \in Keys |-> IF Queued(k) /\ due[k] > -MaxLate THEN due[k] - 1 ELSE due[k]]
    /\ timer' = IF timer = None THEN None ELSE Closer(timer)
    /\ poll' = Closer(poll)
    /\ since' = Lower(since + 1, Throttle)
    /\ UNCHANGED <<row, process, configured, running, flight, wire, posted, sends, faults>>

-----------------------------------------------------------------------------
Init ==
    /\ row = [k \in Keys |-> [status |-> "absent", attempts |-> 0, id |-> 0]]
    /\ due = [k \in Keys |-> 0]
    /\ process = "booting" /\ configured \in BOOLEAN
    /\ timer = None /\ poll = 0 /\ running = FALSE /\ flight = {} /\ since = Throttle
    /\ wire = [k \in Keys |-> 0] /\ posted = [k \in Keys |-> 0]
    /\ sends = [k \in Keys |-> 0] /\ faults = 0

Answer(f) ==
    Confirm(f) \/ ConfirmUnrecorded(f) \/ RetryAmbiguous(f) \/ RetryRateLimited(f) \/ GiveUp(f)

Next ==
    \/ \E k \in Keys : Record(k)
    \/ Fire
    \/ Poll
    \/ \E f \in flight : PostInFlight(f)
    \/ \E f \in flight : Answer(f)
    \/ \E k \in Keys : PostLate(k) \/ DropLate(k)
    \/ Crash
    \/ Restart
    \/ Booted
    \/ Tick

Spec == Init /\ [][Next]_vars

\* Timers run, startup completes, and every send ends: sendTelegramAlert
\* aborts after 8 s, so an answer always comes.
Fairness ==
    /\ WF_vars(Tick) /\ WF_vars(Fire) /\ WF_vars(Poll)
    /\ WF_vars(\E f \in flight : Answer(f))
    /\ WF_vars(Restart) /\ WF_vars(Booted)

FairSpec == Spec /\ Fairness

-----------------------------------------------------------------------------
\* Properties.

RowType == [status : {"absent", "unqueued", "pending", "retrying", "sent", "dead-letter"},
            attempts : Nat, id : Nat]
FlightType == [key : Keys, count : Nat, posted : BOOLEAN]

\* Type correctness of the outbox, the process memory and the chat.
TypeOK ==
    /\ row \in [Keys -> RowType]
    /\ due \in [Keys -> Int]
    /\ process \in {"down", "booting", "up"} /\ configured \in BOOLEAN
    /\ timer \in Nat \cup {None} /\ poll \in Nat
    /\ running \in BOOLEAN /\ flight \in SUBSET FlightType
    /\ since \in 0..Throttle
    /\ wire \in [Keys -> Nat] /\ posted \in [Keys -> Nat]
    /\ sends \in [Keys -> Nat] /\ faults \in Nat

\* telegramDeliveryRunning serializes the sends: one is outstanding at most,
\* only in a live process, and for a row whose status and attempt count are
\* still the ones that were read before the await.
OneSendAtATime ==
    /\ \A f, g \in flight : f = g
    /\ running <=> flight # {}
    /\ \A f \in flight : process = "up" /\ Queued(f.key) /\ row[f.key].attempts = f.count

\* The attempt bound: an alert is sent MaxAttempts times at most, and once
\* more only for a crash or a failed write that lost the count of a send.
SendsAreBounded ==
    \A k \in Keys : sends[k] <= MaxAttempts + faults

\* A row marked sent was received by the chat: no failure path and no restart
\* turns an unanswered request into a confirmed one.
SentWasPosted == \A k \in Keys : row[k].status = "sent" => posted[k] > 0

\* An alert recorded while delivery is not configured (telegram_status NULL)
\* never reaches the chat, whatever later processes are configured to do.
UnqueuedNeverSent == \A k \in Keys : row[k].status = "unqueued" => sends[k] = 0

\* What a row says of its delivery is true, both ways: "sent" was received, and
\* an alert that was never to be delivered was never asked to be.
StatusIsHonest == SentWasPosted /\ UnqueuedNeverSent

\* The outbox implements at-least-once delivery with final outcomes.
DeliveryState(k) ==
    IF row[k].status \in {"absent", "unqueued"} THEN row[k].status
    ELSE IF Queued(k) THEN "queued"
    ELSE IF row[k].status = "sent" THEN "confirmed" ELSE "abandoned"
InDoubt(k) == wire[k] + Cardinality({f \in flight : f.key = k /\ ~f.posted})

Delivery == INSTANCE AlertDelivery WITH
    Alerts <- Keys,
    state <- [k \in Keys |-> DeliveryState(k)],
    asked <- [k \in Keys |-> InDoubt(k)],
    posted <- posted

\* Every step of the loop is a step of the abstract delivery, or a stutter.
ImplementsDelivery == Delivery!DeliverySpec

\* A queued alert is settled at last, if delivery stays configured: no
\* schedule of timers, throttling, backoffs, lost counts and restarts strands it.
QueuedIsSettled ==
    <>[]configured => \A k \in Keys : Queued(k) ~> Settled(k)

=============================================================================
