---------------------------- MODULE ActorWorker ----------------------------
(***************************************************************************)
(* The early-actor worker: EarlyActorIngestor of src/src/actor-ingest.js,  *)
(* the actor_cohort, actor_observations and actor_summaries tables, the    *)
(* retention timer of src/src/server.js, and the feed, the Solana RPC,     *)
(* parser upgrades, crashes and failing writes around it.                  *)
(*                                                                         *)
(* An observation is one event_key: a trade (of ActorMetrics), made by an  *)
(* actor in a transaction of the launch.                                   *)
(* left[m][t] is the time to its retained_until, or Gone without a row.    *)
(* next_attempt_at is always the launch plus an offset that attempts[m]    *)
(* determines, so a launch is due by its age.                              *)
(***************************************************************************)
EXTENDS ActorMetrics

CONSTANTS
    Mints,          \* launches the feed may announce
    Signed,         \* Signed[m]: transactions getSignaturesForAddress lists for m
    CohortLimit,    \* admitted launches (32)
    Offsets,        \* ages at which a launch is attempted (2, 10 and 30 m)
    AdmitBy,        \* oldest launch that is admitted (2 m)
    TransactionLimit,  \* transactions inspected by an attempt (8)
    Retention,      \* how long an observation is kept (72 h)
    MaxRows,        \* observations kept in all (4096)
    MaxRevision, MaxFaults,   \* bounds of the model
    Gone            \* no such row

Attempts == Cardinality(Offsets)
MaxAge == CHOOSE o \in Offsets : \A p \in Offsets : p <= o

ASSUME ActorAssumption ==
    /\ IsFiniteSet(Mints) /\ Signed \in [Mints -> SUBSET DOMAIN Ledger]
    /\ CohortLimit \in Nat \ {0} /\ MaxRows \in Nat \ {0}
    /\ Offsets \subseteq Nat /\ Offsets # {} /\ IsFiniteSet(Offsets)
    /\ AdmitBy \in Nat /\ AdmitBy <= MaxAge /\ MaxAge < Retention
    /\ Retention \in Nat /\ TransactionLimit \in Nat
    /\ MaxRevision \in Nat \ {0} /\ MaxFaults \in Nat
    /\ Gone \notin Int

VARIABLES
    cohort,     \* mints with an actor_cohort row
    attempts,   \* attempts[m]: attempt_count of its row
    age,        \* age[m]: time since its launch (told apart up to MaxAge)
    left,       \* the actor_observations rows
    summary,    \* the trades its actor_summaries row summarises, by CoinSummary
    method,     \* method_revision of the installation
    known,      \* mints with a row in the tokens table
    up,         \* the process runs
    running,    \* an acquisition is running
    flight,     \* the acquisition that awaits the RPC
    sweep,      \* the retention timer is due
    parsers,    \* history: parser revisions behind the evidence of m
    lost,       \* history: mints whose last summary could not be written
    faults      \* crashes and failed writes so far

tables == <<cohort, attempts, left, summary, method>>
worker == <<running, flight>>
history == <<parsers, lost>>
vars == <<cohort, attempts, age, left, summary, method, known, up, running, flight,
          sweep, parsers, lost, faults>>

-----------------------------------------------------------------------------
\* Observations.

Rows(l) == {x \in Mints \X Trades : l[x[1]][x[2]] # Gone}
Left(l, x) == l[x[1]][x[2]]
Keep(l, S) == [m \in Mints |-> [t \in Trades |-> IF <<m, t>> \in S THEN l[m][t] ELSE Gone]]

\* pruneActorObservations, by a clock that is lag behind: rows that have
\* expired are deleted, and of the others all but the MaxRows newest.
Newest(l, fresh) ==
    {T \in SUBSET fresh :
        /\ Cardinality(T) = MaxRows
        /\ \A x \in T, y \in fresh \ T : Left(l, x) >= Left(l, y)}
Pruned(l, lag) ==
    LET fresh == {x \in Rows(l) : Left(l, x) + lag > 0}
    IN IF Cardinality(fresh) > MaxRows THEN {Keep(l, S) : S \in Newest(l, fresh)}
       ELSE {Keep(l, fresh)}

Retained(m) == {t \in Trades : left[m][t] # Gone}

\* saveActorObservation for the trades found by an attempt that began since
\* ago: INSERT OR IGNORE, an event_key that is there stays as it is.
Stamp(since) == Retention - since
MutantSaved(m, found, since) ==
    [left EXCEPT ![m] = [t \in Trades |-> IF t \in found THEN Stamp(since) ELSE @[t]]]
Saved(m, found, since) ==
    [left EXCEPT ![m] = [t \in Trades |->
        IF t \in found /\ @[t] = Gone THEN Stamp(since) ELSE @[t]]]

\* The server's retention timer, and its failure.
Enforce ==
    /\ up /\ sweep /\ sweep' = FALSE
    /\ \/ left' \in Pruned(left, 0) /\ UNCHANGED faults
       \/ UNCHANGED left /\ faults < MaxFaults /\ faults' = faults + 1
    /\ UNCHANGED <<cohort, attempts, age, summary, method, known, up, worker, history>>

-----------------------------------------------------------------------------
\* Admission: upsert calls admit only for a token it had not stored before.

\* A token announced a after its launch; it may fail to be admitted for lack
\* of room or for its age.  When its row cannot be written, the process dies.
FeedEvent(m) ==
    /\ up /\ m \notin known
    /\ known' = known \cup {m}
    /\ \/ /\ Cardinality(cohort) < CohortLimit
          /\ cohort' = cohort \cup {m}
          /\ age' \in {[age EXCEPT ![m] = a] : a \in 0..AdmitBy}
       \/ UNCHANGED <<cohort, age>>
    /\ UNCHANGED <<attempts, left, summary, method, up, worker, sweep, history, faults>>

-----------------------------------------------------------------------------
\* The worker: one acquisition at a time, driven by a 15-second timer.

\* nextAttemptAt, as an age.
NextAttempt(n) == CHOOSE o \in Offsets : Cardinality({p \in Offsets : p < o}) = n
NextAt(m) == NextAttempt(attempts[m])

MutantDue == {m \in cohort : attempts[m] + 1 < Attempts /\ age[m] >= NextAt(m)}
Due == {m \in cohort : attempts[m] < Attempts /\ age[m] >= NextAt(m)}

\* The ORDER BY next_attempt_at; ages that are not told apart may be either way.
Earliest(m) == \A n \in Due : age[m] = MaxAge \/ NextAt(m) - age[m] <= NextAt(n) - age[n]

\* drainDue: prune, then take the first due launch.  asked is the number of
\* transactions still to inspect, or Gone while the signatures are awaited.
Drain ==
    /\ up /\ ~running   \* the guard of drainDue
    /\ running' = TRUE
    /\ left' \in Pruned(left, 0)
    /\ \E m \in Due :
        /\ Earliest(m)
        /\ flight' = {[mint |-> m, asked |-> Gone, since |-> 0]}
    /\ UNCHANGED <<cohort, attempts, age, summary, method, known, up, sweep, history, faults>>

\* The end of #acquire, without an await: the summary of what is retained
\* now (l), the pruning by the clock of the attempt, and the attempt, counted
\* whether it succeeded or not.  Each of the writes may fail; only the last
\* leaves the launch due when it does.
MutantSummarised(f, l) == Retained(f.mint)
Summarised(f, l) == {t \in Trades : l[f.mint][t] # Gone}

Finish(f, l) ==
    \E failing \in SUBSET {"summary", "prune", "count"} :
        /\ IF failing = {} THEN UNCHANGED faults ELSE faults < MaxFaults /\ faults' = faults + 1
        /\ IF "summary" \in failing
           THEN UNCHANGED summary /\ lost' = lost \cup {f.mint}
           ELSE /\ summary' = [summary EXCEPT ![f.mint] = Summarised(f, l)]
                /\ lost' = lost \ {f.mint}
        /\ left' \in IF "prune" \in failing THEN {l} ELSE Pruned(l, f.since)
        /\ attempts' = IF "count" \in failing THEN attempts
                       ELSE [attempts EXCEPT ![f.mint] = @ + 1]

\* The signatures of the launch, of which n are in the early window.
Signatures(f) ==
    /\ up /\ f \in flight /\ f.asked = Gone
    /\ \E n \in 1..TransactionLimit :
        flight' = {[mint |-> f.mint, asked |-> n, since |-> f.since]}
    /\ UNCHANGED <<tables, age, known, up, running, sweep, history, faults>>

Show(f, found) ==
    parsers' = [parsers EXCEPT ![f.mint] = IF found = {} THEN @ ELSE @ \cup {method}]

\* What a transaction of the window may show, none when it is missing; and
\* what was saved of it when the saving of an observation fails.
Found == [m \in Mints |-> {Shown(i) : i \in Signed[m] \cap Candidates} \cup {{}}]
FoundPartly == [m \in Mints |-> UNION {SUBSET S : S \in Found[m]}]

\* A transaction, with the trades it shows: none when it is missing or refused.
Transaction(f) ==
    /\ up /\ f \in flight /\ f.asked # Gone /\ f.asked > 1
    /\ flight' = {[mint |-> f.mint, asked |-> f.asked - 1, since |-> f.since]}
    /\ \E found \in Found[f.mint] :
        /\ Show(f, found)
        /\ left' = Saved(f.mint, found, f.since)
    /\ UNCHANGED <<cohort, attempts, age, summary, method, known, up, running, sweep, lost, faults>>

\* The last transaction; or no signature is in the window; or a request or the
\* saving of an observation fails, and what was saved before that counts.
Ends(f) ==
    /\ up /\ f \in flight
    /\ running' = FALSE /\ flight' = {}
    /\ UNCHANGED <<cohort, method, age, known, up, sweep>>
    /\ \E found \in IF f.asked = Gone THEN {{}} ELSE FoundPartly[f.mint] :
        /\ Show(f, found)
        /\ Finish(f, Saved(f.mint, found, f.since))

Answer(f) == Signatures(f) \/ Transaction(f) \/ Ends(f)

-----------------------------------------------------------------------------
\* Crashes, restarts and time.

\* The process dies, perhaps between storing a new token and admitting it, or
\* between two observations of a transaction.
Crash ==
    /\ up /\ faults < MaxFaults /\ faults' = faults + 1
    /\ up' = FALSE
    /\ \/ /\ \E S \in SUBSET Mints : Cardinality(S) <= 1 /\ known' = known \cup S
          /\ UNCHANGED <<left, parsers>>
       \/ /\ UNCHANGED known
          /\ \E f \in flight : \E found \in FoundPartly[f.mint] :
                /\ f.asked # Gone
                /\ Show(f, found)
                /\ left' = Saved(f.mint, found, f.since)
    /\ running' = FALSE /\ flight' = {} /\ sweep' = FALSE
    /\ UNCHANGED <<cohort, attempts, summary, method, age, lost>>

\* prepareActorMethodRevision for a new parser: one transaction.
MutantReset ==
    /\ cohort' = {} /\ attempts' = [m \in Mints |-> 0]
    /\ UNCHANGED summary
    /\ parsers' = [m \in Mints |-> IF summary[m] = {} THEN {} ELSE parsers[m]]
Reset ==
    /\ cohort' = {} /\ attempts' = [m \in Mints |-> 0]
    /\ summary' = [m \in Mints |-> {}]
    /\ parsers' = [m \in Mints |-> {}]

\* A new process, perhaps with a new parser; then the retention is enforced,
\* which may fail.
Restart ==
    /\ ~up /\ up' = TRUE
    /\ \/ /\ UNCHANGED <<cohort, attempts, summary, method, history>>
          /\ \/ left' \in Pruned(left, 0) /\ UNCHANGED faults
             \/ UNCHANGED left /\ faults < MaxFaults /\ faults' = faults + 1
       \/ /\ method < MaxRevision /\ method' = method + 1
          /\ Reset
          /\ left' = [m \in Mints |-> [t \in Trades |-> Gone]]
          /\ lost' = {}
          /\ UNCHANGED faults
    /\ UNCHANGED <<age, known, worker, sweep>>

\* A unit of time passes.  Timers that are due fire within their unit.
Elapsed(f) == IF f.since < Retention THEN f.since + 1 ELSE f.since
Tick ==
    /\ up => ~sweep /\ (running \/ Due = {})
    /\ sweep' = up
    /\ age' = [m \in Mints |-> IF m \in cohort /\ age[m] < MaxAge THEN age[m] + 1 ELSE age[m]]
    /\ left' = [m \in Mints |-> [t \in Trades |->
        IF left[m][t] = Gone \/ left[m][t] = 0 THEN left[m][t] ELSE left[m][t] - 1]]
    /\ flight' = {[mint |-> f.mint, asked |-> f.asked, since |-> Elapsed(f)] : f \in flight}
    /\ UNCHANGED <<cohort, attempts, summary, method, known, up, running, history, faults>>

-----------------------------------------------------------------------------
Init ==
    /\ cohort = {} /\ attempts = [m \in Mints |-> 0] /\ age = [m \in Mints |-> 0]
    /\ left = [m \in Mints |-> [t \in Trades |-> Gone]]
    /\ summary = [m \in Mints |-> {}]
    /\ method = 1 /\ known = {} /\ up = TRUE /\ running = FALSE /\ flight = {}
    /\ sweep = FALSE
    /\ parsers = [m \in Mints |-> {}] /\ lost = {} /\ faults = 0

Next ==
    \/ \E m \in Mints : FeedEvent(m)
    \/ Enforce
    \/ Drain
    \/ \E f \in flight : Answer(f)
    \/ Crash
    \/ Restart
    \/ Tick

Spec == Init /\ [][Next]_vars

\* Timers fire, the process is restarted, and an acquisition does not run for
\* ever: it makes a bounded number of requests, each aborted after 8 s.
Fairness ==
    /\ WF_vars(Tick) /\ WF_vars(Enforce) /\ WF_vars(Drain) /\ WF_vars(Restart)
    /\ []<>~(up /\ running)

FairSpec == Spec /\ Fairness

-----------------------------------------------------------------------------
\* Properties.

FlightType == [mint : Mints, asked : 0..TransactionLimit \cup {Gone}, since : 0..Retention]

\* Type correctness; in particular attempt_count keeps the CHECK of its table.
TypeOK ==
    /\ cohort \in SUBSET Mints /\ attempts \in [Mints -> 0..Attempts]
    /\ age \in [Mints -> 0..MaxAge]
    /\ left \in [Mints -> [Trades -> 0..Retention \cup {Gone}]]
    /\ summary \in [Mints -> SUBSET Trades]
    /\ method \in 1..MaxRevision /\ known \in SUBSET Mints
    /\ up \in BOOLEAN /\ running \in BOOLEAN /\ flight \in SUBSET FlightType
    /\ sweep \in BOOLEAN
    /\ parsers \in [Mints -> SUBSET (1..MaxRevision)] /\ lost \in SUBSET Mints
    /\ faults \in Nat

\* Acquiring the same evidence again, by a later attempt or after a crash,
\* never moves the time at which a retained observation expires.
FirstSightIsKept ==
    [][\A m \in Mints, t \in Trades :
        left[m][t] # Gone /\ left'[m][t] # Gone => left'[m][t] <= left[m][t]]_vars

\* When the attempts of a launch are spent, its summary counts every
\* observation of it that is retained, whatever was cut short on the way,
\* unless the last summary itself could not be written; and what a summary
\* says of bursts and holdings is what its trades show, by the definition of
\* the words: the most trades in any stretch of the window's length, and as
\* many pairs of a buy and a later sell of one actor as can be made.
MostInAWindow(S) ==
    LET counts == {Cardinality({x \in S : x.at \in t..(t + BurstWindow)}) : t \in 0..EarlyWindow}
    IN CHOOSE n \in counts : \A p \in counts : p <= n
Pairings(S, a) ==
    {P \in SUBSET (OnSide(Of(S, a), "buy") \X OnSide(Of(S, a), "sell")) :
        /\ \A p \in P : p[1].at < p[2].at
        /\ \A p, q \in P : p # q => p[1] # q[1] /\ p[2] # q[2]}
MeasuredRight(S) ==
    \A r \in CoinSummary(S).metrics :
        /\ r.burst = MostInAWindow(S)
        /\ \A a \in ActorsOf(S) :
            /\ \E P \in Pairings(S, a) : Cardinality(P) = Len(r.held[a])
            /\ \A P \in Pairings(S, a) : Cardinality(P) <= Len(r.held[a])
            /\ \A n \in DOMAIN r.held[a] : r.held[a][n] > 0
Measurable == {S \in SUBSET Trades : MeasuredRight(S)}

SpentIsSummarised ==
    \A m \in cohort \ lost : attempts[m] = Attempts => Retained(m) \subseteq summary[m]

SettledIsSummarised ==
    /\ SpentIsSummarised
    /\ \A m \in Mints : summary[m] \in Measurable

\* A retained observation is the whole of what its actor did: over all the
\* accounts it owns, before and after the transaction, the balance of the
\* launch's token changed by the amount that is kept, on the side that is
\* kept.
Held(rows, a) ==
    Total([r \in DOMAIN rows |->
        IF rows[r].mint = Mint /\ rows[r].owner = a THEN rows[r].amount ELSE 0])
NetChange(tx, a) == Held(tx.post, a) - Held(tx.pre, a)
Attributed(x) ==
    /\ x.amount > 0
    /\ NetChange(Ledger[x.tx], x.actor) = IF x.side = "buy" THEN x.amount ELSE -x.amount
AttributedTrades == {x \in Trades : Attributed(x)}
ObservationsAreAttributed == \A m \in Mints : Retained(m) \subseteq AttributedTrades

\* No evidence of an earlier parser survives an upgrade.
EvidenceIsCurrent == \A m \in Mints : parsers[m] \subseteq {method}

\* Every admitted launch gets all its attempts, or is cleared by an upgrade.
LaunchesAreAttempted ==
    \A m \in Mints : m \in cohort ~> m \notin cohort \/ attempts[m] = Attempts

=============================================================================
