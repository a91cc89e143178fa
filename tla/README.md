# Pump War Room: a verification project

TLA+ models of the server in this repository (`pump-war-room`, one Node process
with one SQLite database), TLC configurations that check them on small
instances, and TLAPS proofs of what matters most for every instance.  Every
definition is translated from the source; `PROJECT.json` ("map") names the file,
the lines and the function each one stands for.  Paths below are relative to the
repository (`src/server.js`), line numbers are those of the modelled commit.

    tlasany AlertOutbox.tla
    tlc -workers 2 -config AlertOutbox.cfg AlertOutbox
    tlapm AlertOutboxProofs.tla

Contents: 1 the system, 2 the inventory, 3 the modules, 4 the runs, 5 what is
proved, 6 disagreements with the documentation, 7 the plan, 8 what is left out.

## 1. The system

A feed of Solana token launches is read from a WebSocket, stored, enriched by
three background workers that ask two public APIs, ranked and shown in a browser;
changes that matter become alerts, and alerts may be sent to a Telegram chat.

      PumpPortal feed ──> ingest.js ──┐                   ┌──> outcome-ingest.js ──┐
      Bark callouts ──> callouts.js ──┼─> server.js upsert ┼──> risk-ingest.js ─────┼─> geckoterminal.js
                                      │        │           └──> actor-ingest.js ───┴─> solana-rpc.js
                                      │        v                     │
                                      │     store.js (SQLite) <──────┘ rows, results, observations
                                      │        │
                                      │        ├─> action-intelligence.js: material alerts
                                      │        │        └─> alerts table ──> Telegram outbox ──> chat
                                      │        └─> snapshot, event stream (http.js) ──> public/*.js
      command line tools (scripts/*.js): identity, vault, backup, maintenance: other processes,
      same database

What the modules share:

* **One thread.**  Code between two `await`s is atomic.  Each asynchronous handler
  is therefore split at its awaits: one action up to the request, one per answer.
  What it read before the await is kept in the record of its request (`flight`).
* **Memory and rows.**  Queues, timers, flags and the admitted sets live in
  memory; rows live in SQLite.  There is no shutdown handler: the process may die
  between any two statements that are not in one transaction.  `railway.json`
  restarts a failed process at most five times in a row; the models bound crashes
  by `MaxFaults`, below that limit.
* **Failing writes.**  The database is opened without a busy timeout while command
  line tools write to it too, so any single write may throw.  Where a handler
  catches that, its error path is part of its action.  Where nothing does, in a socket
  handler or an interval callback, the exception ends the process (`server.js` 75
  installs a monitor, not a handler), which is a crash of the model.
* **The provider.**  Requests are aborted after 8 s, so each one ends; answers may
  be late, refused, rate limited, malformed, or different from an earlier one.

## 2. Inventory

State, operations and what makes each part correct.  "Hard" names what tests
hardly reach; every item has its line in `PROJECT.json` ("hazards").

| Component | State | Operations | Hard | Correct when |
|---|---|---|---|---|
| **Telegram outbox** (`server.js` 363-420, `store.js` alerts, `action-intelligence.js` 540-632) | `telegram_*` columns; one timer, `telegramDeliveryRunning`, `telegramLastAttemptAt` | record with an alert, fire, send, sent / retrying / dead-letter, 30 s interval, startup | crash after the provider accepted; failed write of the result; one timer slot for four purposes; sends that end late | one send at a time, bounded attempts, sent only when posted, every queued alert settled |
| **Outcome worker** (`outcome-ingest.js`, outcome rows of `store.js`, the due poll) | `outcome_enrichment` rows; `admittedMints`, two-stage queue, timer, running flag | enqueue (admit), due poll, drain, refresh: pool selection, candles page by page, merge, failure | cohort counted in memory but kept in rows; deadlines against late answers; a full queue that drops work; row read before awaits and spread into the write | cohort bounded, pool chosen once and in time, all scheduled work done |
| **Risk and identity worker** (`risk-ingest.js`, `risk-identity.js`) | `risk_identity_enrichment` rows; admitted set, queue of refreshes and audits | admit, due poll, drain, observe, fail, parser audit at startup | audits and attempts share queue and row; retained evidence decided from a row read before two awaits; restart in an audit | attempts and audits bounded over restarts, evidence never weakened, every launch settled |
| **Early-actor worker** (`actor-ingest.js`, `early-actors.js`, actor tables) | `actor_cohort`, `actor_observations`, `actor_summaries`, method revision; running flag | admit, drain, save observations, summarise, prune, upgrade | observations saved between awaits, summary and count after the last; retention and attempts race | attempts bounded, first sighting kept, summaries miss nothing retained, parsers never mixed |
| **Material alerts** (`server.js` 431-578, `action-intelligence.js` 68-179, `store.js` 1155-1232) | intelligence events (the baseline), alerts | detect on upsert and on evidence, commit events with alerts, seed the baseline | a crash between evidence and detection; repeated and reordered feed frames | each change alerts once, none is lost |
| **GeckoTerminal client** (`geckoterminal.js`) | priority queue, `nextRequestAt`, loop flag | enqueue, pace, send, retry-after | priorities decided after the pacing sleep; both workers share one pacing | spacing and pauses kept, a selection overtakes the rest, no request waits for more than what goes before it |
| **Solana RPC client** (`solana-rpc.js`) | promise chain | paced requests; extraction of trades from a finalized transaction | failure in the chain; keys, balances and instructions that agree only in part | one at a time, spaced; a trade attributed to the actor whose balances show it |
| **PumpPortal socket** (`ingest.js` 47-381) | socket, reconnect and connect timers, backoff, subscriptions | open, message, error, close, reconnect | events of replaced sockets | one live socket, always reconnecting |
| **Bark socket** (`callouts.js`) | socket, reconnect timer | the same | no connect timeout | as above |
| **HTTP surface** (`http.js`, `server.js` routes) | limiter windows, stream clients, snapshot cache | allow, evict, add/remove client, cache | eviction of live windows, stale cache | limits kept, cache fresh |
| **Browser refresh** (`public/snapshot-refresh.js`) | pending, timers, in-flight request, generation | request, start, stop, complete | stop and start during a request | one request at a time, nothing lost |
| **Identity registry** (`canonical-registry.js`, `identity-proposals.js`, `store.js` 2041-2352, `identity-cli.js`) | proposals, decisions, registry | propose, prune, decide, import | two processes; read outside the transaction | one decision per proposal |
| **Backup** (`database-backup.js`, `database-cli.js`) | staging directory, published directory | stage, verify, publish, restore drill | kill, failing operation or loss of power at any step; two runs to one destination | never overwrites, never half a backup, what is reported survives |
| **Migrations and purge** (`store.js` 779-985, 1487-1553) | schema version, tables and their forms, actor method, WAL and journal mode | migrate, prepare, purge | stop between migration and preparation; the lock of the purge against a server that starts; vacuum and checkpoint after its commit | forward only, nothing committed lost, served only when prepared, success only when nothing remains |
| **Outcome arithmetic** (`outcomes.js`, `geckoterminal.js` 330-470, `outcome-ingest.js` 36-120) | the stored record | pool selection, candles to results, checks, merge with the stored record | boundaries of windows; answers that differ from refresh to refresh | a result is what completed candles say, the first one is kept, no record rejects itself |
| **Projections** (`signals.js`, `ranking.js`, `analyst.js`, `risk-public.js`, `live-token.js`, `privacy.js`, `entity-intelligence.js`) | none | rows to public views | — | pure functions |
| **Briefs and vault** (`vault.js`, briefs in `server.js`) | brief rows, files | write once per period, export | — | one brief per period |
| **Telemetry, demo, tools** (`observability.js`, `demo.js`, `smoke.js`) | counters | — | — | — |

Interactions: `upsert` in `server.js` stores a token and then calls `enqueue` of the
outcome worker, and `admit` of the others (the actor worker only for a token it had
not stored before); workers write rows through the store and poll them back;
rows that change raise alerts; an alert and its outbox entry are one transaction.

## 3. The modules

| Module | Models | Kind |
|---|---|---|
| `AlertDelivery` | what the outbox promises: at-least-once delivery with final outcomes | abstract specification |
| `AlertOutbox` | the alerts table, the single-timer loop, Telegram, crashes | detailed, implements `AlertDelivery` |
| `WorkQueue` | queue contents, truncation, and orders with ties | operators |
| `OutcomeWorker` | `VerifiedOutcomeIngestor`, its rows, its poll | state machine |
| `RiskWorker` | `RiskIdentityIngestor`, its rows, its poll and audits | state machine |
| `ActorEvidence` | what a finalized transaction shows: keys, instructions, balances | operators |
| `ActorMetrics` | the summary of the observations of a launch | operators |
| `ActorWorker` | `EarlyActorIngestor`, its tables, the retention timer | state machine |
| `FeedSocket`, `CalloutSocket` | the connectors of the launch feed and of the callout stream | state machines |
| `Feeds` | both connectors in one process | composition |
| `Materiality` | `upsert`, `evaluateRiskMateriality`, factor events and alerts | state machine |
| `SnapshotRefresh`, `SnapshotCache` | the refresh scheduler of a page with its stream; the snapshot the server keeps | state machines |
| `LivePage` | a page and its server on one clock | composition |
| `IdentityLedger` | reviewed entities, relationships and proposals; operator and server | state machine |
| `DatabaseSchema` | a database file as migrations and checks see it | operators |
| `Database` | the database, the server's start, backups, the drill, the purge, the operator | state machine |
| `GeckoTerminalClient`, `SolanaRpcClient` | the paced clients of the two providers | state machines |
| `Upstream` | both clients in one process | composition |
| `OutcomeCalculation` | pool selection, candles, windows, checks and the merge of records | operators |
| `OutcomeRecord` | the record of one launch over its refreshes | state machine |
| `AlertOutboxProofs`, `RiskWorkerProofs`, `ActorWorkerProofs`, `MaterialityProofs`, `IdentityLedgerProofs`, `DatabaseProofs` | theorems about the module of that name | TLAPS |
| `OutcomeWorkerProofs` | theorems about `OutcomeWorker` and `OutcomeRecord` | TLAPS |
| `EdgeProofs` | theorems about `LivePage`, `Feeds` and `Upstream`, the components at the edge of the process | TLAPS |
| `MCActorWorker`, `MCDatabase`, `MCUpstream`, `MCOutcomeRecord` | the instances that a configuration cannot write down: transactions, releases, answers | for TLC |

The definitions keep the code's names where they have one.  A configuration gives the
constants their values and nothing else; where a value is a structure, an MC module
defines it.
Conventions in all of them: times are relative to now (`due`, `left`, `age`) and not
told apart beyond a named bound (`MaxLate`, `MaxAge`), so that runs need no bound on
time; crashes and failed writes are counted in `faults` and bounded by `MaxFaults`;
`None`, `Never`, `Gone` are model values for SQL NULL, an unset timer or no row.

### 3.1 AlertOutbox

| Variable | Code |
|---|---|
| `row`, `due` | `telegram_status`, `telegram_attempt_count`, `id`; `telegram_next_attempt_at` minus now |
| `process`, `configured` | the process and its `telegramAlertStatus()`; "booting" is the startup code, which may record alerts before the timer is set |
| `timer`, `poll` | `telegramDeliveryTimer`; the 30 s interval |
| `running`, `flight`, `since` | `telegramDeliveryRunning`, the sends awaited, age of `telegramLastAttemptAt` |
| `wire`, `posted` | requests the process gave up on that Telegram may still execute; copies in the chat |

`Record` is `addAlert` in its transaction and the broadcast after it, which schedules
delivery; `Fire` is `processTelegramOutbox` up to its await (return, throttle or send);
`Confirm`, `ConfirmUnrecorded`, `RetryAmbiguous`, `RetryRateLimited`, `GiveUp` are the
paths after it, each with the `finally` block; `Poll`, `Booted`, `Crash`, `Restart` are
what their names say.  `ConfirmUnrecorded` is the one a reader may miss: recording
"sent" throws inside the `try`, so the `catch` block dead-letters a message that was
delivered.  `AlertDelivery` says what remains once timers, retries and crashes are
forgotten; `DeliveryState` and `InDoubt` are the refinement mapping.

### 3.2 OutcomeWorker

`row` is the enrichment row (status, selected pool, whether a baseline was found, one
result per horizon), `due` its `next_attempt_at`; `admitted` is `admittedMints`;
`selections` and `outcomes` are the two stages of the queue, which
`enqueue` keeps in this order; `flight` is the refresh in progress with the
row it read and the pool it chose.  `FeedEvent` is `upsert` calling `enqueue`; an
admission whose row cannot be written ends the process (`Crash`), because the
exception leaves the socket handler.  `Drain` is `#drainOne` and `refreshToken` up to
the first await; `PoolAnswer`, `CandleAnswer` and `FailedAnswer` are the rest.
`calculateVerifiedOutcome` is abstracted to what it may return: results only for
horizons that have passed, only with a baseline, and not necessarily those of an
earlier answer; `Merge` is `mergeOutcomeHistory`.  A refresh asks for up to two pages of candles, one after
the other; here they are one request, whose answer or failure is that of the last; 3.11
has the pages.

### 3.3 RiskWorker

`row` holds the attempt count, whether an observation succeeded, the factors it holds
and the latest parser revision that met it; the queue holds ordinary refreshes and
audits.  `Admit` and `Repeat` are `enqueue` for a new and a known launch; `Observed`,
`Failed` and `Unwritten` are the ends of `#refreshToken`.  `Retained` decides, as the code
does from the row read before the awaits, whether earlier factors stay.  `Restart`
may bring a new parser and queues its audit sample before what is due.

### 3.4 ActorWorker

A trade is a transaction and an actor, as in the code's `event_key`.  `left[m][t]` is how
long the observation of trade `t` in launch `m` is still retained; `summary[m]` is the
set of trades its summary row was computed from, by `CoinSummary`; `attempts` and `age` determine `next_attempt_at`.  `Drain` is `drainDue` up to
its await; `Signatures` and `Transaction` are the answers of the RPC.  The observations of a
transaction are saved one by one, so that the process may die between two of them.
`Ends` is the last answer or any failure, followed by summary, pruning and count, each of
which may fail alone.
`Enforce` is the retention timer.  `Restart` may bring a new parser, which clears cohort,
observations and summaries in one transaction; the retention sweep at startup may fail.

Which trades a transaction shows is `Extract` of `ActorEvidence`: the keys and who signs,
outer and inner instructions, and the balances before and after, which must agree with the
instruction about the actor, the mint and the direction.  Base58, the lengths of an
instruction and the derivation of program addresses are one field of it, `sound`.
`ObservationsAreAttributed` states independently of that order of checks whose trade may be
recorded: a signer's, whose own balance moved that way.  `ActorMetrics` is the summary:
holding times, bursts, concentration, the gates below which figures are withheld.
Shares are pairs of amounts; medians, decimals and the row's status and error code are
left out.  `Measurable` compares bursts and holding times with a direct definition.

### 3.5 Materiality

`row[m]` is what the store knows of a launch: its token (creator, migration), whether it
has a risk row, and its evidence.  `share`, `keys` and `counts` are the factor events: the
latest value of each factor, which later evaluations compare with, and the event keys of
the shares.  `alerts` and `moves` hold the dedupe keys of share and migration alerts, `told`
counts the alerts whose key is new each time.
`Upsert` is the handler both kinds of frame share: token and migration alert in one
transaction, admission to the risk cohort, and an evaluation when a row was added.
`Commit` is the batch of an evaluation of the whole cohort, `Missed` an evaluation that
throws or never runs; `Acquire` (an answer of the risk worker), `Interval` and `Restart` are
the other callers.  An alert that this module records is a `Record` of `AlertOutbox`.

Migrations are told twice over, by `upsert` when the stored token had none and by every
evaluation: what an evaluation compares with (`priorRiskToken`) has no migration, so that it
finds each stored migration new, and only the key of the alert, launch and stored time, keeps
it from being told again.  A repeated migration frame stores a new time; `moved[m]` numbers
these frames and is their time.  Rows of an upgrade may have migrated (`inherited`), which
the seeding leaves untold and the evaluation after it tells (section 6).

An event whose key exists is ignored (`INSERT OR IGNORE`).  `ChangesAreTold` therefore
requires that the provider dates its changes: after A at t1, B at t2 and again A at t1, the
alert for the return to A is recorded but the event is not, the baseline stays B, and a
later B is not told.

### 3.6 FeedSocket, CalloutSocket, Feeds

`sock[s]` is the runtime's state of a socket, `ws` the one the connector listens to; one
the connector has closed may still deliver events until it is "gone".  Each listener is an
action (`Opened`, `Message`, `Failed`, `Closed`), and so are the two timers (`Timeout`,
`Reconnect`) and `Stop`; `Current` is the comparison by identity every listener starts
with.  Delays are not told apart: a timer that is set may fire at any time, `backoff`
counts the doublings.  The callout connector has no connect timeout, gives its socket up
when the login cannot be sent, and answers a callout that cannot be parsed or stored with
the status "degraded", which lasts until it connects again.  `Feeds` starts both in one
process, which an exception in a listener of the feed ends (`Ended`).

### 3.7 SnapshotRefresh, SnapshotCache, LivePage

`SnapshotRefresh` is `public/snapshot-refresh.js` with the page around it.  `pendingFor`,
`requestedFor`, `completedFor` are the ages of the code's three timestamps, `timerIn` and
`fallbackIn` its two timers, `inFlight` the run it waits for, `runs` every request that has
not settled, each with whether it is of the current generation (`own`).  `PageShown` is the
page's load and `pageshow` of a page that was kept, `PageHidden` is `pagehide`;
`RefreshTimerFires` is `runPending`, including the early firing after which it schedules
itself again; `Settled` is the `finally` of a run, of this generation or an earlier one.
`Failed` covers what a fetch may end with when there is no snapshot: an abort, the
network, a status such as the rate limiter's 429.  A stream that is lost is retried by the
browser, one that is answered 503 is not.  Only a hidden page, which is frozen, leaves an
aborted fetch unsettled.

`SnapshotCache` is `snapshot()` of the server.  A snapshot is reduced to how long ago the
oldest change that it misses was made, which is all that staleness needs.  The
cache is keyed on `PRAGMA data_version`, which moves for commits of other connections only:
the server's own commits are seen when the snapshot's age is up, or not before.

In `LivePage`, `StalenessIsBounded` sums what may come between a change and the page: the
cached snapshot served once more, the request that carries it, the cooldown that follows and
the request after that.  With the code's values this is 5 + 10 + 15 + 10 = 40 s (the
instance loses a tick where the cache expires on a whole tick); the stream plays no part in
it, and a bound one tick shorter is violated.  The bound needs that the interval of the page is
no longer than a cooldown and a deadline (`IntervalAssumption`; 15 s against 15 s + 10 s, the
defaults with which `app.js` 1268 creates the scheduler): with an interval of 5 against 3 + 1
TLC finds it exceeded.

### 3.8 IdentityLedger

`registry` holds the rows of entities, variants (mints) and relationships, and for each entity
and relationship the decision that counts.  `SaveEntity` and `SaveRelationship` are the two
saves of an import with everything they check: the release of a mint by the entity that has
it, the rejection of variants an entry leaves out, ends that are published, the duplicate
fact, and the capacity of what would be published afterwards (`Save`).  `Latest` is where the
ledger of decisions enters: a decision dated before another one changes the rows but is not the
latest, so rows and decision may disagree, and what is published needs both.  An import is a
transaction over several entries; each entry is a step here, because what stands between two
of them is also what a shorter import leaves behind.

`proposal` is the queue of proposals.  `Refresh` is the server's batch, with pruning:
what was refreshed stays, and of the older rows any may be the oldest.  The operator's decide command reads
the row (`ReadProposal`) and records the decision in a later transaction (`Decide`), whose update
of the row is not checked for having found one.  `recorded` holds the decisions of the ledger,
`overtaken` the proposals that were pruned between the two halves.  `DecidedIsRetained` says that
a decision and the row of its proposal stay together, whatever is proposed, refreshed and
pruned, but for the proposals in `overtaken`: their decision is recorded, no row has its status, and
they may come again (section 6).

The server reads what it publishes with several statements outside a transaction.  An import
between two of them may give it the entity of one registry with the variants of the next; the
constructor of `CanonicalRegistry` then throws, or the page shows the mixture once: the
check of the data version at the next read drops it.  The model publishes one registry.

### 3.9 DatabaseSchema, Database

An image is what a database file tells those who open it: the release that wrote its schema,
the groups of tables and the forms of the two that changed, the installation secret, the actor
method, and of the rows what a migration or a check looks at.  `DatabaseSchema` has the
migrations and the checks as functions of an image.  `live` is the database as a reader
sees it, `files` its WAL, journal mode and free pages.  `Start`, `Prepare`, `Write` and `Stop`
are the server: the constructor of the store migrates in transactions of its own and
`server.js` prepares the actor evidence afterwards, so it may stop between them.  A run of the
backup command goes through reading (a snapshot while the server writes), staging,
verification, publication by a hard link, synchronisation and cleanup; `failing` is its error
path, which takes away only what it made itself.  The drill copies an artifact that exists
and checks the copy, and its source again.  The purge opens the database, leaves WAL mode,
locks, deletes, vacuums and restores the mode; it goes on only when it can lock.  `dest` is
what lies at the destination, `durable` what a loss of power would leave of it: contents
once the file, names once the directory is synchronised.  `Discard` and `Adopt` are the
operator, who may delete an artifact and may replace the database of a stopped server with
one the drill accepted.  Commits of the live database are atomic and durable.

### 3.10 GeckoTerminalClient, SolanaRpcClient, Upstream

`pending`, `drain`, `current` and `nextRequestAt` are the fields of the first client; `Wake` is
the end of its pacing sleep, which sorts the queue and takes the head, so a selection that
was asked for during the sleep still goes first; `Answer` and `Limited` are the ends of a
request.  The second client chains operations to one promise: `tail` is what is chained,
`Turn` what the head does when it is reached, `Settle` any result, which always moves
the next start.  In `Upstream` both run on one clock, a timer fires when it is due, and
the clock does not jump.  `SelectionIsPrompt` is what the worker's two-minute deadline relies
on.  `ahead[c]` counts what goes before the request of a caller: the ones as urgent that it
found in the queue, and the more urgent ones that were asked for since.  `WaitIsBounded` says that a
request waits one turn for each of these and one for the request in execution, and nothing
else.  It is no bound on time for token information, the least urgent: selections and
candles that are asked for in each pacing sleep keep it waiting, and the run never stops asking.

### 3.11 OutcomeCalculation, OutcomeRecord

`OutcomeCalculation` is the way from candle rows to a record: `SelectPool`, `Parse`, the
baseline, a window per horizon with its return and draw-downs and the reasons when there is
none, the checks (`Accepted`) that the store applies to a record, and `MergeHistory`.
`OutcomeRecord` applies it over the refreshes of one launch, at several times and with
answers that lack, revise or contradict minutes.  A refresh begins (`Begin`), asks for a page of
candles and, when that is full and does not reach back to the launch, for another (`Fetch`,
`MorePages`), each from whatever the provider's chart is by then, and completes or fails
(`Complete`, `Fail`).  The second page is asked for up to and with the first minute of the first
(`BeforeMinute`), so that one minute may be answered twice; when the two differ,
`normalizeCandles` throws (`Conflicting`).  Time passes between these steps, so a horizon may
pass while a refresh is under way: candles are cut where it began, results judged when it
completes.  A candle's close stands for its close and its volume.

`ResultsAreHonest` compares what a refresh newly records with the provider's own answers (`Trades`:
all that any page said of minutes that were over), not with what the code made of them.  Of a
horizon that had passed when the refresh began: the last close at or before the target, the
deepest fall of any two trades in order between baseline and target, and a result whenever
there is one.  Of a horizon that passed while it was under way: if a result is recorded, one by a close
that was fresh enough, not necessarily the last (section 6).  Time is in half minutes, so
that a launch lies within a minute; percentages are whole numbers, exact for the closes of
the run.

## 4. The runs

| Run | Instance | Shows |
|---|---|---|
| `alert_outbox` | 2 alerts, 2 attempts, 1 fault | `OneSendAtATime`, `SendsAreBounded`, `StatusIsHonest`; implements `AlertDelivery` (`ImplementsDelivery`); every queued alert settled (`QueuedIsSettled`) |
| `outcome_worker` | 2 launches, cohort 1, queue 1, 2 pools, 2 results, 2 faults | `CohortIsBounded`, `RefreshIsCurrent`, `PoolIsProspective` |
| `outcome_cohort` | 2 launches, cohort 2, queue 1, 2 events, 2 faults | `DueIsRefreshed`: full queues, restarts and failed writes drop work, displace work, and lose nothing for ever |
| `risk_worker` | 2 launches, queue 1, sample 1, 2 parsers, 2 faults | `AttemptsAreBounded`, `EvidenceIsKept`, `LaunchesAreSettled` |
| `actor_worker` | 2 launches, 19 transactions, 2 attempts, 2 parsers, 1 fault, 2 rows kept | `SettledIsSummarised`, `EvidenceIsCurrent`, `ObservationsAreAttributed`, `FirstSightIsKept`, `LaunchesAreAttempted` |
| `materiality` | 2 launches (one with 2 more create and migration frames), 3 shares, 2 times, 2 answers, 1 fault, any upgraded rows, migrated or not | `OncePerAnswer`, `CrossedIsTold`, `ChangesAreTold`, `OwedIsTold` |
| `feeds` | 3 and 2 sockets | `OneSocketEach`, `AttemptsEnd` |
| `live_page` | debounce 1, maximum wait 2, cooldown and interval 3, deadline 1, cache 2 ticks; 2 requests | `NoOverlap`, `StalenessIsBounded`, `RequestsAreServed` |
| `identity_ledger` | 2 entities (1 published), 3 mints, 2 relationships (1 published), 2 proposals (1 pending), symmetric | `RegistryConstructs`, `CapacityIsKept`, `DecidedIsRetained` |
| `database` | databases of schema 800 and of a newer release, an artifact of schema 900; 2 backup runs, 1 write, 1 fault | `BackupsAreWhole`, `ServingIsPrepared`, `NeverReplaced`, `MigrationIsForward`, `PurgeFailsClosed` |
| `upstream` | 2 callers of one client, 1 of the other; they ask until the clock ends at 11 | `PacingIsKept`, `SelectionIsPrompt`, `WaitIsBounded` |
| `outcome_record` | a launch at half past a minute, horizons of 4 and 6 minutes, 3 pools, refreshes from 2 times on, up to 2 pages of 3 rows with or without delay, each from one of 24 charts | `RecordsAreAccepted`, `ResultsAreHonest`, `FirstResultIsKept` |

`PROJECT.json` gives for every property of a passing run a mutant: a plausible bug in
one mapped definition under which TLC finds the property violated, such as retrying
once too often, forgetting to restore the cohort at startup, or keeping no earlier
result.

**Why these bounds.**  Two attempts show a first, a middle and a last failure (the
decision depends only on whether attempts are left), two alerts show one that waits
for another, one fault suffices for each recovery path and its bound (the proofs of
section 5 cover any number).  In `outcome_worker` the cohort is smaller than the launches; in `outcome_cohort`
the queue is smaller than the cohort, and two faults allow a crash, and a write that
fails after it.  The delays keep the order of the real ones
where the code depends on it (a selection window shorter than the first horizon,
`SelectBy < BaselineBy`, a retry-after longer than the largest backoff, an attempt offset
shorter than the retention), not their size.  `MaxAge` is past the last deadline, where
age no longer matters; beyond `MaxLate` two rows tie, which allows more orders than the
code has, never fewer.  In `actor_worker` two rows are kept of three, so that the prune bound bites and
the gate of two trades by two actors is met or missed.  Its transactions are one
that shows a trade, one that shows two, one after the window, and the second with one
thing wrong each: in the balances, the instructions, the keys, the envelope.  The busy
launch is referred to by all of them, the other one by those that show nothing.
In `materiality` the shares 1, 2, 4 with limit 2 and step 2 separate a crossing that is no
step from a step that is no crossing; two answers and the evidence of the upgrade give
two changes, one of which may be missed; a launch that is upgraded with evidence or a migration takes one
of them.  Migration alerts depend on one launch alone, so one launch with more than its create
frame suffices, and two such frames repeat a migration, or forget and repeat it.  The run takes
two and a half minutes.  Three sockets are the one in use, one
that is closing and one that closed before it is done; a fourth would repeat the second.
In `live_page` the scheduler's durations keep the order of the real ones (0.5, 5, 15, 15 s).
The deadline (10 s) and the age of the cache (5 s) are compared with none of them, and are
the smallest that separate a prompt answer from a late one and a new snapshot from an old
one.  `MaxRuns` leaves room for the overlap that `NoOverlap` excludes; ages count to one
past `Bound`.
In `identity_ledger` three mints allow a relationship to be dormant while another one is
published, so that accepting an entity again brings two together; the limit of one then
refuses it.  Dates of decisions need no bound.  One of two proposals
is pruned at each refresh.  The run takes about three minutes.
In `database` the old database passes through every form of the tables that changed, and its
pending alert has a due time that only the preparation repairs; two runs of the command
compete for the destination; one fault is a kill, a failed operation or a loss of power at any
step.  One write separates a backup that holds it from one that does not.  The method of a
stored actor evidence and the secret are told apart as far as a migration treats
them differently.
In `upstream` the pace of the first client is shorter than a timeout and its pauses are one
shorter and one longer than the pace.  Both workers ask whenever they may, so that candles
overtake token information again and again; until 11 there are three to five turns, a pause or
several among them.
In `outcome_record` times count from half a minute before the launch.  Refreshes begin at 7 and
14, and each request may take a minute, so that the horizon at 9 passes while the refresh of 7
asks for its first or its second page, or before the refresh of 14, for which that at 13 has
passed as well; other refreshes repeat at the same time.  A chart of four rows or five is two
pages of three, which share a minute; its rows are absent, revised or doubled before, in and
after each window.  One pool is too old to be selected, one is created at 2, when the provider's
clock is ahead of a selection at 1.  `MaxRevisions` 1 is exceeded by a third refresh.

**Fairness.** `Tick`, timers and polls are weakly fair because Node's event loop runs them
and no handler blocks; a request is aborted after 8 s once it is sent
(`AbortSignal.timeout`), so it always gets an answer when its turn in the queue of the
client comes; a crashed process is restarted by the platform. Nothing is assumed of the
feed, of alerts being recorded, of a successful answer, or of a message given up on
arriving; in `Feeds` the peer may never answer a handshake. In `OutcomeWorker`, `RiskWorker`
and `ActorWorker` timers that are due fire within the same unit of time (a unit is a minute
or more); `AlertOutbox` makes no such assumption. In `ActorWorker` an acquisition does not
run for ever (`[]<>~(up /\ running)`): it asks for a bounded number of transactions and each
request ends. The queue of the GeckoTerminal client goes by priority, so whether the turn
comes depends on what the callers ask (`WaitIsBounded`). The outcome worker's requests are
overtaken by nothing: it has one in flight, and the risk worker's are the least urgent.
`RiskWorker` assumes that the outcome worker leaves a gap at last. It does while its
refreshes are hours apart; while the provider fails for every launch, its retries (five
minutes later, for up to 120 launches, at a pace of 6.5 s) may fill all of the time, and
`LaunchesAreSettled` says nothing for as long as that lasts (section 6). In `LivePage` time
passes, due timers fire (in the same tick, the refresh timer possibly a tick early) and an
aborted fetch rejects; no answer is assumed. `QueuedIsSettled` is conditional on delivery
staying configured, because a process without a destination leaves queued rows alone on
purpose.

Deadlock is checked in every run but two: time can always pass, or a frame can arrive.
In `upstream` and `outcome_record` the clock ends at its bound, and so does the run.

Each module has a type invariant (`TypeOK`, `RecordTypeOK`; for `LivePage`, `Feeds` and
`IdentityLedger` it stands with the proofs).  They are theorems of section 5, and no invariants
of the runs, whose properties say more.

## 5. What is proved

The theorems hold for every value of the constants that the named assumptions of the
modules allow (`OutboxAssumption`, `WorkerAssumption`, `RiskAssumption`, ...): any number of
launches, alerts, mints, sockets, commands and requests, any limits and delays, any number
of crashes and failed writes.  Every property of section 4 that is an invariant or an action
property is a theorem.

| Module | Theorems | State |
|---|---|---|
| `AlertOutboxProofs` | `Invariance`, `TypeCorrect`, `Serialized`, `BoundedSends`, `HonestStatus`, `ConfirmedIsPosted`, `UnqueuedIsSilent`, `Refinement` | `OneSendAtATime`, `SendsAreBounded`, `StatusIsHonest` and its two halves, `ImplementsDelivery` |
| `OutcomeWorkerProofs` | `Invariance`, `TypeCorrect`, `BoundedCohort`, `CurrentRefresh`, `ProspectivePool` | `CohortIsBounded`, `RefreshIsCurrent`, `PoolIsProspective` |
| | `RecordInvariance`, `RecordTypeCorrect`, `AcceptedRecords`, `KeptResults`, `HonestResults` | `RecordsAreAccepted`, `FirstResultIsKept`, `ResultsAreHonest` |
| `RiskWorkerProofs` | `Invariance`, `TypeCorrect`, `BoundedAttempts`, `KeptEvidence` | `AttemptsAreBounded`, `EvidenceIsKept` |
| `ActorWorkerProofs` | `Attribution`, `Measurement`, `Invariance`, `TypeCorrect`, `CurrentParser`, `SettledSummaries`, `AttributedObservations`, `FirstSight` | `EvidenceIsCurrent`, `SettledIsSummarised`, `ObservationsAreAttributed`, `FirstSightIsKept` |
| `MaterialityProofs` | `Invariance`, `TypeCorrect`, `AlertedOnce`, `ToldCrossings`, `ToldChanges` | `OncePerAnswer`, `CrossedIsTold`, `ChangesAreTold` |
| `EdgeProofs` | `LivePageInvariance`, `OneDownload`, `BoundedStaleness` | `NoOverlap`, `StalenessIsBounded` |
| | `FeedsInvariance`, `SocketsAreOne` | `OneSocketEach` |
| | `UpstreamInvariance`, `ClientsTypeCorrect`, `PromptSelection`, `BoundedWait`, `KeptPace` | `SelectionIsPrompt`, `WaitIsBounded`, `PacingIsKept` |
| `IdentityLedgerProofs` | `Invariance`, `TypeCorrect`, `RegistryIsSound`, `KeptCapacity`, `RetainedDecisions` | `RegistryConstructs`, `CapacityIsKept`, `DecidedIsRetained` |
| `DatabaseProofs` | `Invariance`, `TypeCorrect`, `WholeBackups`, `PreparedServing`, `ArtifactsStay`, `ForwardMigration`, `FailClosedPurge` | `BackupsAreWhole`, `ServingIsPrepared`, `NeverReplaced`, `MigrationIsForward`, `PurgeFailsClosed` |

Each proof module states its inductive invariant first, as a conjunction of named parts, then
the lemmas on the operators, one lemma or step per action, and the theorems last.

### 5.1 The arguments

**AlertOutbox.**  `SendsAreBounded` is not inductive: a send raises `sends` long before
its answer raises the attempt count.  `SendsAccounted` closes the gap: each send is
counted in the row, is the one in flight, or was lost to a fault.  It needs
`OneSendAtATime` (so that "the one in flight" is one, and the count read before the await
is still the row's) and `AttemptsLeft` (a queued row has attempts left, so the send that
is in flight still fits under the limit).  `SentWasPosted` needs `ChatHolds`, that a send
marked posted is in the chat.  The refinement takes one lemma per kind of step: a record is an
`Accept`, a send an `Ask`, an answer that gives up a request in doubt moves it from `flight`
to `wire` and so changes nothing in `asked`, a refused request is a `Lose`, a crash
is a stutter.

**OutcomeWorker.**  The cohort is counted in memory and kept in rows; the two agree because
`admitted = IF up THEN Persisted ELSE {}` (`AdmittedIsCohort`): an admission whose write fails
takes the process down with it, and a start reads the rows before it admits.  `FlightPool` says
that a refresh carries the pool of the row it read, which with `RefreshIsCurrent` makes every
write keep the pool.

**OutcomeRecord.**  `RecordInv`: the selection was made in time, the stored record obeys every rule
that does not concern the selection (`Valid`) and is no younger than the clock, what it retains
from several refreshes fits together (`Derived`), and each page was fetched by now.  With
`PoolExisted` a record that is `Valid` is `Accepted`; without it every record of the launch is
rejected (section 6), and the properties say nothing of it.  The work is in lemmas on the operators.
`DrawdownIsDeepest` is about the one pass over the closes: by induction over the sets of
later candles, what it has seen of a set is its highest close and the deepest fall of any two
closes in order (`Deepest`), since from the highest close so far a fall is the deepest
(`FallGrows`).  So a draw-down lies between the baseline and the target and in 0..100
(`DrawdownInRange`), and with it `CalculationIsSound`: what is calculated from any candles, absent,
doubled or revised, obeys every rule of the checks.  `MergeIsSound`: merging two
accepted records gives one that is accepted and keeps the first baseline and the first
result of each horizon.  So `refreshToken` throws for what it computed itself only when two pages
disagree on a minute (`PagesDisagree`); anything else would have the launch retried for ever.
`WindowIsHonest` shows that the two searches of the code, for the
first candle after the launch and the last before the horizon, find the candles that the
definition of the method names, and find them exactly when they are there.  That definition
is over all the provider said; what the code leaves out of it, before the launch and after the
refresh began, is shown to matter to no horizon that had passed by then.

**RiskWorker.**  `AttemptsAreBounded` is the accounting argument of the outbox twice, for
attempts and for audits (`AttemptsAccounted`, `AuditsAccounted`).  That the audits of all
revisions concern `SampleSize` launches needs that an audit happens only when the cohort is full
(`Auditable`), since the sample of a cohort that still grows would change.  `EvidenceIsKept`
needs `FlightIsSound`: the row read before two awaits is still the row.

**ActorWorker.**  `Attribution` is about the extraction alone and needs no invariant: whatever keys,
instructions and balances a transaction lists, a trade that is extracted is the whole change in
what its actor owns.  The code checks accounts one at a time and the statement sums
over all of them, so the proof is about sums of sequences (`Total...` lemmas).  `Measurement`
is about the summary alone.  A listing of the trades by time exists (`ListingExists`), and
`Tracked` says of each prefix of it which buys are open and which pairs are closed, one for
each holding, and that no pairing of the prefix has more pairs: a sell adds one to any pairing
at most (`TrackedSell`), and one that closes nothing finds every earlier buy in a pair
already, so a pairing has no more pairs than there are such buys (`TrackedIdle`).  For a burst,
the window that ends with the last trade of a stretch has every trade of the stretch
(`WindowsOfTrades`).  Of the worker, `SpentIsSummarised` holds between the last answer and the
summary only because an acquisition is of a launch with an attempt left (`FlightIsDue`).

**Materiality.**  A step changes the rows and then evaluates them, or fails to; so the parts of
the invariant take the rows and counts as parameters, and `Mid` is the invariant between the
two halves: new rows, old baseline.  `OncePerAnswer` needs that an alert that is *due* still
has an answer of its own (`SharesAreAnswered`, `ReuseIsAnswered`), and that launches of a creator
only become more (`LaunchesGrow`).  `ChangesAreTold` needs `DatesAreKept`: an event or alert of the latest time
is about the present value.  `CrossedIsTold` of migrations
needs, in `MigrationIsTold`, that no key has a time above the frames so far: a new frame has a new
key, and an evaluation adds none but that of the stored time, which has one.  The premise `ordered`
of `ChangesAreTold` is as weak as it may be: when it only says that
each change is later than the answer before it, TLC refutes the property with one launch and
five answers, because an answer that repeats the value may be dated back.

**LivePage.**  `NoOverlap` is `OneRun` and `Scheduled`, for any durations.  For
`StalenessIsBounded` the invariant `Fresh` says where the lag of a page comes from: after an
answer it is at most cache and request; then the interval or the timer of the next request
runs down as fast as the lag grows, so that the sum stays within `Tolerated`; during a request
its age is added.

**Feeds.**  `OneSocket` is almost inductive; what is missing is that the socket in use is
connecting or open, and that a connector which was never started has none.

**Upstream.**  `SelectionIsPrompt` needs that a selection in the queue was asked for after the
last start (`Overtakes`: it would have been taken otherwise), and that the next start is due no
later than pace or pause allow (`Paced`).  It needs the assumption that only one caller asks for
selections (`UpstreamAssumption`): the worker that does has one refresh in flight.  `WaitIsBounded` needs the turns
that a request has left (`TurnsLeft`): those it is allowed, its own and one for each that goes before it,
less those of what still goes before it in the queue.  `InTurn` says that one is left at least, and
that the next turn ends no later than the turns left allow; a start takes one from what goes
before each of the others (`StartTurn`), a request that overtakes others allows each of them one more
(`AskedTurn`), a pause moves the time from which turns count (`LaterPause`).

**IdentityLedger.**  `RegistryConstructs` speaks of published entities; the invariant,
`PrimaryIsVariant`, of verified ones, published or not, because a later decision may publish
them again without touching their rows.  `RetainedDecisions` needs `DecidingHasRow`: the proposal of a decision
that is under way has its row still, or was overtaken; a decision is an update of one or of none.

**Database.**  `BackupsAreWhole` is what each step of a run knows of its file
(`BackupsAreFaithful`): inspected, consistent, with every row of the time the command was given,
from staging on also synchronised.  `DestinationIsWhole` covers the name and its durable form.
`LiveIsKnown` says that the live database is one that some release left or an interruption
between migration and preparation; the lemmas on `Migrate` show that the migration leads from
each such image to the exact schema of this release.  `ServingIsPrepared` for an adopted artifact
rests on `DrillHasInspected`.

### 5.2 Assumptions of the theorems

Most only type the constants.  Those that say more: `IntervalAssumption` (3.7),
`UpstreamAssumption` (above), `CalculationAssumption` (a record has a horizon), `RecordAssumption`
(the rows have positive closes: `parseGeckoTerminalOhlcv` rejects any others, `geckoterminal.js` 164)
and `NothingAssumption`, `AbsenceAssumption`, `SocketsAssumption` (the value for "none" is not one of
the others), `EvidenceAssumption` (finitely many transactions refer to a launch, each is made of
lists, its amounts are natural numbers).  `WindowAssumption` is that of the code's defaults: a pool is created at most two minutes
after the launch (one in the code), so that the window that is asked for leaves out nothing a
baseline needs, and no horizon lies beyond it.  In `LimitsAssumption` the value for "no proposal"
is no proposal.  Nothing is assumed of the provider's clock.
The bounds that exist only for TLC (`MaxFaults`, `MaxTime`, `MaxRuns`, ...) are constants
too, so the theorems hold for every value of them.

### 5.3 How induction is done

The library's induction theorems take an operator, which the provers cannot instantiate.
Induction over numbers and finite sets is replaced by a least counterexample:
`FS_StrictSubsetOrderingWellFounded` and `WFMin`, whose parameters are sets, give a minimal element of
any set of finite sets, hence the least number of a set (`LeastNumber`), the greatest of a
finite one, and induction over a set (`SubsetInduction`).  With them sums over functions and sequences
(`Answers`, `Total`) are proved to change with one summand.  What a function defined by recursion in a
LET computes (`HoldingDurations`, `ActivityBurst`) is a CHOOSE to the prover; `RunExists` gives a
function that satisfies the equation, so that the one chosen does.

### 5.4 Only model-checked

* Liveness: `QueuedIsSettled`, `DueIsRefreshed`, `LaunchesAreSettled`, `LaunchesAreAttempted`, `OwedIsTold`,
  `AttemptsEnd`, `RequestsAreServed`.  TLAPS has no rules here for fairness and ENABLED.

## 6. Disagreements with the documentation

Met while modelling; the models do what the code does, and no run depends on the documents.

* **retry-after is not kept by the chat** (`README.md` 129 "honor Bot API
  `retry_after`").  The refused row waits, the chat does not: the pause exists only as
  the delivery timer, which is already set when an alert was recorded or the interval
  fired during the send, and which a restart forgets.  The next due alert then goes
  out a second after the 429 (`RetryRateLimited`, then `Fire`).
* **A terminal baseline is asked for again** (`README.md` 66 "a still-missing baseline
  becomes terminal after five minutes").  NULL in `next_attempt_at` keeps the row out of
  the due query, but `refreshToken` takes NULL for "now", so the next feed event
  about the launch requests its candles again (`FeedEvent` in `OutcomeWorker`).
* **A late attempt replaces a summary** (`README.md` 153 "aggregate per-mint summaries
  remain auditable after observation expiry").  An attempt recomputes the summary from what
  is retained at its end; when the process was down while observations expired,
  what an earlier attempt had counted is gone (`Ends` in `ActorWorker`).
* **A pool created after its selection rewrites results** (`README.md` 66 on first results).
  `selectGeckoTerminalPool` accepts a pool created up to a minute after the launch, by the
  provider's clock; when that is after the selection, `validateProviderObservedOutcome`
  (`outcomes.js` 870) rejects every record of the launch, and `mergeOutcomeHistory`
  (`outcome-ingest.js` 57-61) then returns the new one in place of the merge.  `OutcomeRecord.cfg` has
  such a pool (`ProviderAhead = 1`); `FirstResultIsKept` and `RecordsAreAccepted` except it
  (`PoolExisted`), and without the exception both are violated.
* **A horizon that passes during a refresh may get an older close** (`README.md` 66 "last completed
  close at or before its target").  Candles are cut where the refresh began (`outcome-ingest.js`
  383, 401-404), a horizon counts as passed when the refresh completes (415-420).  A minute that ends
  between the two is dropped though it was answered; the result is taken from the one before, if
  that is fresh enough, and is then kept (`Collected`, `Complete`).  Refreshes are due some time
  after a horizon, so it takes one that a retry starts just before the next horizon.
* **Two pages of one refresh may fail it** (`outcomes.js` 157-160; `test/outcome-ingest.test.js` 80 has
  overlapping pages that agree).  A minute that the provider revises between the two requests
  makes `normalizeCandles` throw; the refresh is retried with nothing stored
  (`PagesDisagree` in `RecordsAreAccepted`).
* **A migration is announced again** (`README.md` 127 "the first processed-feed migration
  observation", "committed together during upgrade instead of manufacturing historical
  alerts").  What an evaluation compares with (`priorRiskToken`, `server.js` 439-462)
  carries no migration, so every evaluation finds each stored one new (509;
  `action-intelligence.js` 86-95), and the first one after the seeding alerts those the
  upgrade found (`inherited`).  A repeated migration frame replaces the stored time
  (`server.js` 1252-1262), so the next evaluation alerts it as another (`MigrationAlerts`); the
  bound that holds is one alert for each frame.
* **A decision may be lost to its proposal** (`README.md` 108 "accepted, rejected, and
  superseded review records remain retained").  The row that the decide command has read may be
  pruned before it decides; the update (`store.js` 2244) then changes no row, the command prints
  `proposal: null` and succeeds, and the decided proposal may be proposed again (`overtaken` in
  `IdentityLedger`).
* **Token information may wait for ever** (`README.md` 82 "at most one retry about one hour
  later"). Selections and candles go first whenever they were asked for (`geckoterminal.js` 6,
  247), so an outcome worker that always has a request in the queue keeps the risk worker's
  waiting, and with it the worker, which asks for one launch at a time (`WaitIsBounded` bounds
  the wait by what goes before, and in `Upstream` that has no end).

## 7. The plan

Modelled and checked: all modules of section 3.  Proved: section 5.  Left: more that the
invariants give at little cost, that the outbox never sends while paused by its own throttle and that
an outcome row is written only by the refresh that read it.

Not modelled yet: the windows, eviction and stream clients of `http.js`; briefs, once per
period over restarts.

## 8. What is left out

Not modelled: ranking scores and the other projections, wording and layout, routing,
observability counters, the demo feed; they keep no state the other parts depend on.
`scripts/smoke.js` is a list of release checks over files and a started server.
`early-actors.js` also has a class `EarlyActorCore`, which the server does not use.
Cryptography, base58 and the derivation of program addresses are a Boolean of an instruction.
What the verification of a backup looks for in the rows themselves (`inspectOpenDatabase`,
`verifyApplicationWrites`) is data: an image is sound or not.
`summarizeVerifiedOutcomes` is a view over finished records.
The HTTP limits and the briefs are small and left to the plan.

Within the modelled parts: the sizes of payloads, the content of messages, prices and factors' values are model values or sets;
corrupt rows that the code's parsers reject are not produced; the clock is monotonic;
Telegram does not edit or delete messages; SQLite commits are durable and its
constraints hold as declared.  Components without a module are listed in
`PROJECT.json` with the reason.
