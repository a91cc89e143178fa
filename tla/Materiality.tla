---------------------------- MODULE Materiality ----------------------------
(***************************************************************************)
(* Material alerts: upsert, evaluateRiskMateriality and their callers in   *)
(* src/src/server.js, detectMaterialAlerts of action-intelligence.js, the  *)
(* batch of store.js that records factor events with alerts, and what the  *)
(* evidence rows of the risk worker show of each launch (risk-public.js,   *)
(* risk-identity.js).                                                      *)
(*                                                                         *)
(* Three kinds of factor stand for all: the top-10 share, a percentage     *)
(* with the provider's own time; and two counts computed at evaluation,    *)
(* how many others declare the same identifier, and how many launches have *)
(* the same creator.  The developer's holding is a share whose time is     *)
(* always new; the pool reserve and the radar score have no baseline that  *)
(* could go stale and are left out.                                        *)
(***************************************************************************)
EXTENDS Integers, FiniteSets, Functions

CONSTANTS
    Mints,       \* launches
    Creators,    \* creators the feed may name
    Levels,      \* values of the top-10 share
    Times,       \* the provider's times of a share, in their order
    Identifiers, \* identifiers a launch may declare
    Limit,       \* the share whose crossing is material (50 %)
    Step,        \* the change of a share that is material (10 points)
    Noticed,     \* launches of which the feed sends more than the create frame
    MaxAnswers, MaxFrames, MaxFaults,   \* bounds of the model
    None,        \* unavailable
    Gone         \* no row

ASSUME MaterialityAssumption ==
    /\ IsFiniteSet(Mints) /\ Noticed \subseteq Mints
    /\ Levels \subseteq Int /\ Times \subseteq Nat \ {0}
    /\ Limit \in Int /\ Step \in Nat \ {0}
    /\ MaxAnswers \in Nat /\ MaxFrames \in Nat /\ MaxFaults \in Nat
    /\ None \notin Int \cup Creators \cup Identifiers

VARIABLES
    row,       \* row[m]: the token of m, its admission as a risk row, and its evidence
    share,     \* share[m]: value of the latest share event of m
    keys,      \* event keys of the share events: mint, value and time
    counts,    \* counts[m][f]: value of the latest event of the count f of m
    seeded,    \* the marker MATERIAL_BASELINE_EVENT_KEY is stored
    alerts,    \* dedupe keys of share alerts: mint, value before, value and time
    told,      \* told[m][f]: alerts of the count f
    moves,     \* dedupe keys of migration alerts: mint and time
    up,        \* the process runs
    upgraded,  \* history: launches that had evidence before the marker
    inherited, \* history: launches that had migrated before the marker
    exempt,    \* history: counts that were over their threshold at the seeding
    crossed,   \* history: other counts an evaluation has seen over their threshold
    seen,      \* history: share of m at the last evaluation that committed
    latest,    \* history: latest time of a share of m
    ordered,   \* history: no time of m went back, and each new share had a later one
    acquired,  \* history: answers of the provider about m
    frames,    \* history: repeated create frames of m
    moved,     \* history: migration frames of m, whose number is their time
    faults     \* crashes and failed batches so far

baseline == <<share, keys, counts, seeded, alerts, told>>
evaluated == <<exempt, crossed, seen>>
history == <<upgraded, inherited, latest, ordered, acquired, frames, moved>>
vars == <<row, share, keys, counts, seeded, alerts, told, moves, up, upgraded, inherited, exempt,
          crossed, seen, latest, ordered, acquired, frames, moved, faults>>

-----------------------------------------------------------------------------
\* Rows, and the factors they show.

Document == [level : Levels, at : Times, id : Identifiers \cup {None}]
Token == [creator : Creators \cup {None}, migrated : Nat \cup {None}, tracked : BOOLEAN,
          evidence : Document \cup {None}]

ASSUME AbsenceAssumption == None \notin Document /\ Gone \notin Token

Tracked(r) == {m \in Mints : r[m] # Gone /\ r[m].tracked}
Observed(r) == {m \in Tracked(r) : r[m].evidence # None}

\* Other launches of the cohort that declare the same identifier.
Duplicates(r, m) == {n \in Observed(r) \ {m} : r[n].evidence.id = r[m].evidence.id}

Reuse(r, m) ==
    IF m \in Observed(r) /\ r[m].evidence.id # None THEN Cardinality(Duplicates(r, m)) ELSE None

\* Launches of the cohort by the same creator, its own included.
Launches(r, m) ==
    IF r[m].creator = None THEN None
    ELSE Cardinality({n \in Tracked(r) : r[n].creator = r[m].creator})

Counted == {"reuse", "launches"}
Count(r, m, f) == IF f = "reuse" THEN Reuse(r, m) ELSE Launches(r, m)
Threshold == [reuse |-> 1, launches |-> 2]

-----------------------------------------------------------------------------
\* What detectMaterialAlerts finds between the recorded value and the current one.

Reaches(prior, value, limit) ==
    value # None /\ value >= limit /\ (prior = None \/ prior < limit)

Moves(prior, value) ==
    prior # None /\ value # None /\ (value - prior >= Step \/ prior - value >= Step)

Material(prior, value) == Reaches(prior, value, Limit) \/ Moves(prior, value)

ShareAlerts(r) ==
    {<<m, share[m], r[m].evidence.level, r[m].evidence.at>> :
        m \in {n \in Observed(r) : Material(share[n], r[n].evidence.level)}}

\* The token that stands for what is recorded has no migration evidence (priorRiskToken),
\* so each evaluation finds every migration new; its time is the one stored.
\* Mutant: the key has the time of the alert.
MutantMigrationAlerts(r) ==
    {<<m, 1 + Cardinality(moves)>> : m \in {n \in Tracked(r) : r[n].migrated # None}}
MigrationAlerts(r) == {<<m, r[m].migrated>> : m \in {n \in Tracked(r) : r[n].migrated # None}}

Crossing(r, f) ==
    {m \in Tracked(r) : Reaches(counts[m][f], Count(r, m, f), Threshold[f])}

\* The factor events: each value that is not the recorded one.  An event whose
\* key is stored is ignored, and the recorded value stays.
ShareEvents(r) ==
    {<<m, r[m].evidence.level, r[m].evidence.at>> :
        m \in {n \in Observed(r) : r[n].evidence.level # share[n]}}

NewEvents(r) == ShareEvents(r) \ keys

-----------------------------------------------------------------------------
\* commitIntelligenceBatch: the events of every tracked launch, with the alerts, or
\* with the marker when seedOnly; an alert whose key is stored is ignored.  before is
\* moves as the handler's own token write leaves it.

Over(r, f) == {m \in Tracked(r) : Count(r, m, f) # None /\ Count(r, m, f) >= Threshold[f]}

Remember(r) ==
    /\ exempt' = IF seeded THEN exempt ELSE [f \in Counted |-> Over(r, f)]
    /\ crossed' = IF seeded THEN [f \in Counted |-> crossed[f] \cup Over(r, f)] ELSE crossed
    /\ seen' = [m \in Mints |-> IF m \in Observed(r) THEN r[m].evidence.level ELSE seen[m]]

Commit(r, before, seedOnly) ==
    /\ keys' = keys \cup NewEvents(r)
    /\ share' = [m \in Mints |->
           IF \E k \in NewEvents(r) : k[1] = m THEN r[m].evidence.level ELSE share[m]]
    /\ counts' = [m \in Mints |-> [f \in Counted |->
           IF m \in Tracked(r) /\ Count(r, m, f) # None THEN Count(r, m, f) ELSE counts[m][f]]]
    /\ seeded' = (seeded \/ seedOnly)
    /\ alerts' = IF seedOnly THEN alerts ELSE alerts \cup ShareAlerts(r)
    /\ told' = [m \in Mints |-> [f \in Counted |->
           IF ~seedOnly /\ m \in Crossing(r, f) THEN told[m][f] + 1 ELSE told[m][f]]]
    /\ moves' = IF seedOnly THEN before ELSE before \cup MigrationAlerts(r)
    /\ Remember(r)
    /\ UNCHANGED faults

\* The batch fails and the caller catches it, or the process ends before it.
Missed(before) ==
    /\ faults < MaxFaults /\ faults' = faults + 1
    /\ moves' = before
    /\ UNCHANGED <<baseline, evaluated>>

\* The first evaluation of all only seeds the baseline.
MutantSeedOnly == FALSE
SeedOnly == ~seeded

Evaluate(r, before) ==
    \/ Commit(r, before, SeedOnly) /\ UNCHANGED up
    \/ Missed(before) /\ up' \in BOOLEAN

-----------------------------------------------------------------------------
\* The feed.

\* upsert tells a migration that is new to the stored token.
Announces(m, at) == at # None /\ (row[m] = Gone \/ row[m].migrated = None)

\* upsert: the token with its migration alert in one transaction, then the
\* admission to the risk cohort, and an evaluation if that has added a row.
Upsert(m, creator, at) ==
    \E tracked \in BOOLEAN :
        LET known == row[m] # Gone
            new == [creator |-> creator, migrated |-> at, tracked |-> tracked,
                    evidence |-> IF known THEN row[m].evidence ELSE None]
            before == IF Announces(m, at) THEN moves \cup {<<m, at>>} ELSE moves
        IN  /\ known /\ row[m].tracked => tracked
            /\ row' = [row EXCEPT ![m] = new]
            /\ IF tracked /\ ~(known /\ row[m].tracked)
               THEN Evaluate(row', before)
               ELSE moves' = before /\ UNCHANGED <<baseline, evaluated, up, faults>>

\* onToken: a create frame; a repeated one replaces the token, and with it what
\* is known of its migration.
Create(m) ==
    /\ up
    /\ \E creator \in Creators \cup {None} :
        /\ row[m] # Gone => creator = row[m].creator
        /\ Upsert(m, creator, None)
    /\ IF row[m] = Gone THEN UNCHANGED frames
       ELSE m \in Noticed /\ frames[m] + moved[m] < MaxFrames /\ frames' = [frames EXCEPT ![m] = @ + 1]
    /\ UNCHANGED <<upgraded, inherited, latest, ordered, acquired, moved>>

\* onMigration: ignored for a launch that is not stored; a repeated frame dates the
\* migration anew.
Migrate(m) ==
    /\ up /\ row[m] # Gone /\ m \in Noticed
    /\ frames[m] + moved[m] < MaxFrames /\ moved' = [moved EXCEPT ![m] = @ + 1]
    /\ Upsert(m, row[m].creator, moved[m] + 1)
    /\ UNCHANGED <<upgraded, inherited, latest, ordered, acquired, frames>>

-----------------------------------------------------------------------------
\* The risk worker, the interval, the process.

\* An answer that lacks what is known already is not kept.
Kept(m, answer) ==
    IF row[m].evidence # None /\ row[m].evidence.id # None /\ answer.id = None
    THEN row[m].evidence ELSE answer

Answers == FoldFunction(+, 0, acquired)

\* The history of the times of m when its evidence becomes new.
Dated(m, new) ==
    LET changed == row[m].evidence # None /\ new.level # row[m].evidence.level
    IN  /\ ordered' = [ordered EXCEPT ![m] =
               @ /\ new.at >= latest[m] /\ (changed => new.at > latest[m])]
        /\ latest' = [latest EXCEPT ![m] = IF new.at > @ THEN new.at ELSE @]

\* A refresh of the risk worker ends with an answer; onStatus evaluates.
Acquire(m, answer) ==
    /\ up /\ m \in Tracked(row)
    /\ Answers + Cardinality(upgraded \cup inherited) < MaxAnswers
    /\ acquired' = [acquired EXCEPT ![m] = @ + 1]
    /\ row' = [row EXCEPT ![m].evidence = Kept(m, answer)]
    /\ Dated(m, Kept(m, answer))
    /\ Evaluate(row', moves)
    /\ UNCHANGED <<upgraded, inherited, frames, moved>>

\* The recovery interval (300 s).
MutantInterval ==
    /\ up /\ SeedOnly
    /\ Evaluate(row, moves)
    /\ UNCHANGED <<row, history>>
Interval ==
    /\ up
    /\ Evaluate(row, moves)
    /\ UNCHANGED <<row, history>>

Crash ==
    /\ up /\ faults < MaxFaults
    /\ up' = FALSE /\ faults' = faults + 1
    /\ UNCHANGED <<row, baseline, moves, evaluated, history>>

\* Startup evaluates before anything is asked of the provider; nothing catches
\* its failure, and the process ends.
MutantRestart ==
    /\ ~up
    /\ Commit(row, moves, TRUE) /\ up' = TRUE
    /\ UNCHANGED <<row, history>>
Restart ==
    /\ ~up
    /\ \/ Commit(row, moves, SeedOnly) /\ up' = TRUE
       \/ Missed(moves) /\ up' = FALSE
    /\ UNCHANGED <<row, history>>

\* The version that knows alerts starts on the rows of the one before it; the model
\* takes those whose creator is named, with evidence of the first time if any, and of
\* those that had migrated says so with the time 0.
Init ==
    /\ row \in [Mints -> {Gone} \cup
           {t \in [creator : Creators, migrated : {None, 0}, tracked : {TRUE},
                   evidence : Document \cup {None}] :
               t.evidence = None \/ \A at \in Times : t.evidence.at <= at}]
    /\ \A m \in Mints \ Noticed : row[m] # Gone => row[m].migrated = None
    /\ upgraded = Observed(row)
    /\ inherited = {m \in Tracked(row) : row[m].migrated # None}
    /\ share = [m \in Mints |-> None] /\ keys = {}
    /\ counts = [m \in Mints |-> [f \in Counted |-> None]]
    /\ seeded = FALSE /\ alerts = {} /\ up = FALSE
    /\ told = [m \in Mints |-> [f \in Counted |-> 0]] /\ moves = {}
    /\ exempt = [f \in Counted |-> {}] /\ crossed = [f \in Counted |-> {}]
    /\ seen = [m \in Mints |-> None]
    /\ latest = [m \in Mints |-> IF m \in Observed(row) THEN row[m].evidence.at ELSE 0]
    /\ ordered = [m \in Mints |-> TRUE]
    /\ acquired = [m \in Mints |-> 0] /\ frames = [m \in Mints |-> 0]
    /\ moved = [m \in Mints |-> 0] /\ faults = 0

Next ==
    \/ \E m \in Mints : Create(m) \/ Migrate(m)
    \/ \E m \in Mints, answer \in Document : Acquire(m, answer)
    \/ Interval \/ Crash \/ Restart

Spec == Init /\ [][Next]_vars

\* The interval fires and the platform restarts the process; of the feed and of the
\* provider nothing is assumed.
FairSpec == Spec /\ WF_vars(Interval) /\ WF_vars(Restart)

-----------------------------------------------------------------------------
\* Properties.

\* Every variable has its type: a count of others never falls below zero, and the
\* recorded share of a launch is the value of one of its events.
TypeOK ==
    /\ row \in [Mints -> Token \cup {Gone}]
    /\ keys \subseteq Mints \X Levels \X Times
    /\ share \in [Mints -> Levels \cup {None}]
    /\ \A m \in Mints : share[m] # None => \E k \in keys : k[1] = m /\ k[2] = share[m]
    /\ counts \in [Mints -> [Counted -> Nat \cup {None}]]
    /\ alerts \subseteq Mints \X (Levels \cup {None}) \X Levels \X Times
    /\ told \in [Mints -> [Counted -> Nat]]
    /\ moves \subseteq Mints \X Nat
    /\ seeded \in BOOLEAN /\ up \in BOOLEAN
    /\ up => seeded

\* Whatever was missed in between, by a crash or a failed batch: when an evaluation
\* sees a share that differs materially from the one seen by the evaluation before,
\* it records an alert that names the new value, provided the provider dates its
\* changes (README.md 127, "startup evaluation recover the pending change").
ChangesAreTold ==
    [][\A m \in Mints :
          seeded /\ ordered[m]' /\ seen'[m] # seen[m] /\ Material(seen[m], seen'[m])
            => \E k \in alerts' \ alerts : k[1] = m /\ k[3] = seen'[m]]_vars

\* Evaluations repeat, over restarts and failures, but alerts do not: there are no
\* more share alerts of a launch than answers about it since the upgrade, no more
\* reuse alerts than answers about any, and one alert for a creator's second launch.
\* A share, a reuse or a creator's launches that the upgrade found are told to nobody.
OncePerAnswer ==
    \A m \in Mints :
        /\ Cardinality({k \in alerts : k[1] = m}) <= acquired[m]
        /\ told[m].reuse <= Answers
        /\ told[m].launches <= 1

\* A launch that an evaluation has seen over the threshold of a count has been
\* alerted for it, also when the launch or the answer that raised the count was
\* another's; the ones over it at the seeding excepted.
\* And a stored migration has been alerted, unless an upgrade found the launch migrated,
\* by the transaction that stored it or one before; no frame is alerted twice, over
\* evaluations, frames that repeat and create frames that make the server forget it.
MigrationsOf(m) == {k \in moves : k[1] = m}
CrossedIsTold ==
    /\ \A f \in Counted : \A m \in crossed[f] \ exempt[f] : told[m][f] > 0
    /\ \A m \in Mints :
        /\ row[m] # Gone /\ row[m].migrated # None => m \in inherited \/ MigrationsOf(m) # {}
        /\ Cardinality(MigrationsOf(m)) <= moved[m] + (IF m \in inherited THEN 1 ELSE 0)

\* The rows show what neither an alert nor the baseline has taken up.
Owed ==
    /\ seeded
    /\ \/ ~(ShareAlerts(row) \subseteq alerts) \/ ~(MigrationAlerts(row) \subseteq moves)
       \/ \E f \in Counted : Crossing(row, f) # {}

\* Nothing stays owed: what an evaluation missed, because it failed or the process
\* died, is made up for by the interval or the next start.
OwedIsTold == Owed ~> ~Owed
=============================================================================
