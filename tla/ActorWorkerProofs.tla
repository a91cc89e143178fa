-------------------------- MODULE ActorWorkerProofs --------------------------
(***************************************************************************)
(* Safety of the early-actor worker for any launches and transactions, any *)
(* limits and offsets, parser upgrades, crashes and failed writes; the     *)
(* extraction of trades from any transaction that the RPC may answer; and  *)
(* what the summary of any trades says of bursts and holdings.             *)
(***************************************************************************)
EXTENDS ActorWorker, FiniteSetTheorems, WellFoundedInduction, TLAPS

-----------------------------------------------------------------------------
\* The inductive invariant.

\* What may be saved of a launch: the trades of its signed transactions.
Discoverable(m) == UNION Found[m]

\* The acquisition is the only one, of a launch that has an attempt left.
FlightIsDue ==
    /\ \A f, g \in flight : f = g
    /\ \A f \in flight : up /\ running /\ f.mint \in cohort /\ attempts[f.mint] < Attempts

\* Only launches with a row have spent attempts, or a summary that was lost.
AttemptsAreOfCohort == \A m \in Mints : m \notin cohort => attempts[m] = 0

\* A retained observation was shown by a transaction of its launch.
EvidenceIsShown == \A m \in Mints : Retained(m) \subseteq Discoverable(m)

IInv ==
    /\ TypeOK /\ FlightIsDue /\ AttemptsAreOfCohort
    /\ SpentIsSummarised /\ EvidenceIsCurrent /\ EvidenceIsShown

-----------------------------------------------------------------------------
\* Lemmas on the operators: offsets, saving and pruning.

\* A finite set of numbers has a greatest member: the one above which the
\* fewest lie.
LEMMA GreatestExists ==
    ASSUME NEW T \in SUBSET Nat, IsFiniteSet(T), T # {}
    PROVE  \E x \in T : \A y \in T : y <= x
<1> DEFINE Above(x) == {y \in T : y > x}
           A == {Above(x) : x \in T}
<1>1. A \subseteq FiniteSubsetsOf(Nat) /\ A # {}
    <2>1. \A x \in T : Above(x) \subseteq Nat /\ IsFiniteSet(Above(x)) BY FS_Subset
    <2> QED BY <2>1 DEF FiniteSubsetsOf
<1>2. PICK u \in A : \A v \in A : <<v, u>> \notin StrictSubsetOrdering(Nat)
    BY <1>1, FS_StrictSubsetOrderingWellFounded, WFMin, Zenon
<1>3. PICK x \in T : u = Above(x) OBVIOUS
<1>4. \A y \in T : y <= x
    <2> SUFFICES ASSUME NEW y \in T, x < y PROVE FALSE OBVIOUS
    <2>1. Above(y) \subseteq Above(x) /\ Above(y) # Above(x)
        <3>1. x \in Nat /\ y \in Nat /\ \A z \in T : z \in Nat OBVIOUS
        <3>2. \A z \in T : z > y => z > x BY <3>1
        <3>3. y \in Above(x) /\ y \notin Above(y) BY <3>1
        <3>4. Above(y) \subseteq Above(x) BY <3>2
        <3> QED BY <3>3, <3>4
    <2>2. Above(y) \in SUBSET Nat /\ Above(x) \in SUBSET Nat OBVIOUS
    <2>3. <<Above(y), Above(x)>> \in StrictSubsetOrdering(Nat)
        BY <2>1, <2>2 DEF StrictSubsetOrdering
    <2> QED BY <1>2, <1>3, <2>3
<1> QED BY <1>4

LEMMA OffsetsType == MaxAge \in Nat /\ AdmitBy <= MaxAge /\ Attempts \in Nat \ {0}
<1>1. MaxAge \in Offsets BY ActorAssumption, GreatestExists DEF MaxAge
<1>2. Attempts \in Nat /\ Attempts # 0
    BY ActorAssumption, FS_CardinalityType, FS_EmptySet DEF Attempts
<1> QED BY <1>1, <1>2, ActorAssumption

Lefts == [Mints -> [Trades -> 0..Retention \cup {Gone}]]

\* Pruning deletes rows and changes none.
LEMMA PrunedProperties ==
    ASSUME NEW l \in Lefts, NEW lag, NEW p \in Pruned(l, lag)
    PROVE  /\ p \in Lefts
           /\ \A m \in Mints, t \in Trades : p[m][t] = l[m][t] \/ p[m][t] = Gone
<1>1. PICK S : p = Keep(l, S) BY DEF Pruned
<1> QED BY <1>1 DEF Keep, Lefts

\* Saving adds rows of trades that were found, and changes none.
LEMMA SavedProperties ==
    ASSUME left \in Lefts, NEW m \in Mints, NEW found \in SUBSET Trades, NEW since \in 0..Retention
    PROVE  /\ Saved(m, found, since) \in Lefts
           /\ \A n \in Mints, t \in Trades :
                \/ Saved(m, found, since)[n][t] = left[n][t]
                \/ n = m /\ t \in found /\ left[n][t] = Gone
<1> DEFINE r == [t \in Trades |->
                    IF t \in found /\ left[m][t] = Gone THEN Stamp(since) ELSE left[m][t]]
<1>1. Stamp(since) \in 0..Retention BY ActorAssumption DEF Stamp
<1>2. r \in [Trades -> 0..Retention \cup {Gone}] BY <1>1 DEF Lefts
<1>3. Saved(m, found, since) = [left EXCEPT ![m] = r] BY DEF Saved
<1>4. \A t \in Trades : r[t] = left[m][t] \/ (t \in found /\ left[m][t] = Gone) OBVIOUS
<1> HIDE DEF r
<1> QED BY <1>2, <1>3, <1>4 DEF Lefts

LEMMA FoundType ==
    ASSUME NEW m \in Mints
    PROVE  /\ Discoverable(m) \subseteq Trades
           /\ \A found \in Found[m] : found \in SUBSET Discoverable(m)
           /\ \A found \in FoundPartly[m] : found \in SUBSET Discoverable(m)
<1>1. Found[m] = {Shown(i) : i \in Signed[m] \cap Candidates} \cup {{}} BY DEF Found
<1>2. FoundPartly[m] = UNION {SUBSET S : S \in Found[m]} BY DEF FoundPartly
<1> QED BY <1>1, <1>2 DEF Discoverable, Trades

\* Nothing is retained that was not, whatever is pruned.
LEMMA Shrunk ==
    ASSUME TypeOK, NEW lag, left' \in Pruned(left, lag) \/ left' = left
    PROVE  left' \in Lefts /\ \A m \in Mints : Retained(m)' \subseteq Retained(m)
<1>1. left \in Lefts BY DEF TypeOK, Lefts
<1>2. left' \in Lefts
      /\ \A m \in Mints, t \in Trades : left'[m][t] = left[m][t] \/ left'[m][t] = Gone
    BY <1>1, PrunedProperties
<1> QED BY <1>2 DEF Retained

\* What is shown, is shown to the current parser.
LEMMA CurrentEvidence ==
    ASSUME TypeOK, EvidenceIsCurrent, NEW f \in flight, NEW found, Show(f, found), method' = method
    PROVE  parsers' \in [Mints -> SUBSET (1..MaxRevision)] /\ EvidenceIsCurrent'
<1>1. f.mint \in Mints /\ method \in 1..MaxRevision BY DEF TypeOK, FlightType
<1>2. parsers' \in [Mints -> SUBSET (1..MaxRevision)] BY <1>1 DEF TypeOK, Show
<1>3. \A m \in Mints : parsers'[m] \subseteq parsers[m] \cup {method} BY <1>1 DEF TypeOK, Show
<1> QED BY <1>2, <1>3 DEF EvidenceIsCurrent

-----------------------------------------------------------------------------
\* The invariant is inductive.

LEMMA InitIInv == Init => IInv
<1> SUFFICES ASSUME Init PROVE IInv OBVIOUS
<1> USE DEF Init
<1>1. TypeOK
    <2>1. attempts \in [Mints -> 0..Attempts] /\ age \in [Mints -> 0..MaxAge] BY OffsetsType
    <2>2. left \in [Mints -> [Trades -> 0..Retention \cup {Gone}]] OBVIOUS
    <2>3. summary \in [Mints -> SUBSET Trades] /\ parsers \in [Mints -> SUBSET (1..MaxRevision)]
        OBVIOUS
    <2>4. method \in 1..MaxRevision /\ faults \in Nat BY ActorAssumption
    <2>5. cohort \in SUBSET Mints /\ known \in SUBSET Mints /\ flight \in SUBSET FlightType
          /\ lost \in SUBSET Mints
        OBVIOUS
    <2> QED BY <2>1, <2>2, <2>3, <2>4, <2>5 DEF TypeOK
<1>2. \A m \in Mints : Retained(m) = {} BY DEF Retained
<1> QED BY <1>1, <1>2
    DEF IInv, FlightIsDue, AttemptsAreOfCohort, SpentIsSummarised, EvidenceIsCurrent, EvidenceIsShown

LEMMA FeedEventIInv == ASSUME IInv, NEW m \in Mints, FeedEvent(m) PROVE IInv'
<1> USE DEF IInv, FeedEvent
<1>1. cohort \subseteq cohort' /\ cohort' \subseteq cohort \cup {m} OBVIOUS
<1>2. UNCHANGED <<attempts, left, summary, method, up, running, flight, sweep, parsers, lost, faults>>
    BY DEF worker, history
<1>3. age' \in [Mints -> 0..MaxAge]
    <2>1. CASE UNCHANGED age BY <2>1 DEF TypeOK
    <2>2. CASE \E a \in 0..AdmitBy : age' = [age EXCEPT ![m] = a]
        BY <2>2, OffsetsType, ActorAssumption DEF TypeOK
    <2> QED BY <2>1, <2>2
<1>4. known' \in SUBSET Mints /\ cohort' \in SUBSET Mints BY DEF TypeOK
<1>5. TypeOK' BY <1>2, <1>3, <1>4 DEF TypeOK
<1>6. FlightIsDue' /\ AttemptsAreOfCohort' BY <1>1, <1>2 DEF FlightIsDue, AttemptsAreOfCohort
<1>7. SpentIsSummarised'
    <2>1. \A n \in Mints : n \notin cohort => attempts[n] # Attempts
        BY OffsetsType DEF AttemptsAreOfCohort
    <2> QED BY <1>1, <1>2, <1>4, <2>1 DEF SpentIsSummarised, Retained
<1>8. EvidenceIsCurrent' /\ EvidenceIsShown' BY <1>2 DEF EvidenceIsCurrent, EvidenceIsShown, Retained
<1> QED BY <1>5, <1>6, <1>7, <1>8

LEMMA EnforceIInv == ASSUME IInv, Enforce PROVE IInv'
<1> USE DEF IInv, Enforce
<1>1. left' \in Lefts /\ \A m \in Mints : Retained(m)' \subseteq Retained(m) BY Shrunk
<1>2. UNCHANGED <<cohort, attempts, age, summary, method, known, up, running, flight, parsers, lost>>
    BY DEF worker, history
<1>3. faults' \in Nat
    <2>1. faults' = faults \/ faults' = faults + 1 OBVIOUS
    <2> QED BY <2>1 DEF TypeOK
<1>4. TypeOK' BY <1>1, <1>2, <1>3 DEF TypeOK, Lefts
<1>5. \A m \in cohort : m \in Mints BY DEF TypeOK
<1>6. SpentIsSummarised' BY <1>1, <1>2, <1>5 DEF SpentIsSummarised
<1>7. EvidenceIsShown' BY <1>1 DEF EvidenceIsShown
<1> QED BY <1>2, <1>4, <1>6, <1>7 DEF FlightIsDue, AttemptsAreOfCohort, EvidenceIsCurrent

LEMMA DrainIInv == ASSUME IInv, Drain PROVE IInv'
<1> USE DEF IInv
<1>1. left' \in Lefts /\ \A m \in Mints : Retained(m)' \subseteq Retained(m)
    BY Shrunk DEF Drain
<1>2. /\ UNCHANGED <<cohort, attempts, age, summary, method, known, up, sweep, parsers, lost, faults>>
      /\ running' = TRUE /\ up
    BY DEF Drain, history
<1>3. PICK m \in Due : flight' = {[mint |-> m, asked |-> Gone, since |-> 0]} BY DEF Drain
<1>4. m \in cohort /\ m \in Mints /\ attempts[m] < Attempts BY <1>3 DEF Due, TypeOK
<1>5. flight' \in SUBSET FlightType BY <1>3, <1>4, ActorAssumption DEF FlightType
<1>6. TypeOK' BY <1>1, <1>2, <1>5 DEF TypeOK, Lefts
<1>7. FlightIsDue' BY <1>2, <1>3, <1>4 DEF FlightIsDue
<1>8. \A n \in cohort : n \in Mints BY DEF TypeOK
<1>9. SpentIsSummarised' BY <1>1, <1>2, <1>8 DEF SpentIsSummarised
<1>10. EvidenceIsShown' BY <1>1 DEF EvidenceIsShown
<1> QED BY <1>2, <1>6, <1>7, <1>9, <1>10 DEF AttemptsAreOfCohort, EvidenceIsCurrent

LEMMA FlightProperties ==
    ASSUME IInv, NEW f \in flight
    PROVE  /\ f.mint \in Mints /\ f.mint \in cohort /\ attempts[f.mint] < Attempts
           /\ f.asked \in 0..TransactionLimit \cup {Gone} /\ f.since \in 0..Retention
           /\ up /\ running /\ \A g \in flight : g = f
BY DEF IInv, TypeOK, FlightType, FlightIsDue

LEMMA SignaturesIInv == ASSUME IInv, NEW f \in flight, Signatures(f) PROVE IInv'
<1> USE DEF IInv
<1>1. PICK n \in 1..TransactionLimit :
          flight' = {[mint |-> f.mint, asked |-> n, since |-> f.since]}
    BY DEF Signatures
<1>2. UNCHANGED <<cohort, attempts, age, left, summary, method, known, up, running, sweep,
                  parsers, lost, faults>>
    BY DEF Signatures, tables, history
<1>3. n \in 0..TransactionLimit BY ActorAssumption
<1>4. flight' \in SUBSET FlightType BY <1>1, <1>3, FlightProperties DEF FlightType
<1>5. TypeOK' BY <1>2, <1>4 DEF TypeOK
<1>6. FlightIsDue' BY <1>1, <1>2, FlightProperties DEF FlightIsDue
<1> QED BY <1>2, <1>5, <1>6
    DEF AttemptsAreOfCohort, SpentIsSummarised, EvidenceIsCurrent, EvidenceIsShown, Retained

\* What is saved of a launch with an attempt left disturbs no spent launch.
LEMMA SavedIInv ==
    ASSUME IInv, NEW f \in flight, NEW found \in SUBSET Discoverable(f.mint)
    PROVE  /\ Saved(f.mint, found, f.since) \in Lefts
           /\ \A m \in Mints, t \in Trades :
                 Saved(f.mint, found, f.since)[m][t] # Gone
                    => t \in Retained(m) \/ (m = f.mint /\ t \in Discoverable(m))
<1>1. found \in SUBSET Trades BY FlightProperties, FoundType
<1>2. left \in Lefts BY DEF IInv, TypeOK, Lefts
<1>3. /\ Saved(f.mint, found, f.since) \in Lefts
      /\ \A m \in Mints, t \in Trades :
            \/ Saved(f.mint, found, f.since)[m][t] = left[m][t]
            \/ m = f.mint /\ t \in found /\ left[m][t] = Gone
    BY <1>1, <1>2, FlightProperties, SavedProperties
<1> QED BY <1>3 DEF Retained

LEMMA TransactionIInv == ASSUME IInv, NEW f \in flight, Transaction(f) PROVE IInv'
<1> USE DEF IInv
<1>1. PICK found \in Found[f.mint] : Show(f, found) /\ left' = Saved(f.mint, found, f.since)
    BY DEF Transaction
<1>2. /\ UNCHANGED <<cohort, attempts, age, summary, method, known, up, running, sweep, lost, faults>>
      /\ flight' = {[mint |-> f.mint, asked |-> f.asked - 1, since |-> f.since]}
      /\ f.asked # Gone /\ f.asked > 1
    BY DEF Transaction
<1>3. found \in SUBSET Discoverable(f.mint) BY <1>1, FlightProperties, FoundType
<1>4. left' \in Lefts
      /\ \A m \in Mints : Retained(m)' \subseteq Retained(m) \cup
            (IF m = f.mint THEN Discoverable(m) ELSE {})
    BY <1>1, <1>3, SavedIInv DEF Retained
<1>5. parsers' \in [Mints -> SUBSET (1..MaxRevision)] /\ EvidenceIsCurrent'
    BY <1>1, <1>2, CurrentEvidence
<1>6. flight' \in SUBSET FlightType
    <2>1. f.asked - 1 \in 0..TransactionLimit BY <1>2, FlightProperties, ActorAssumption
    <2> QED BY <1>2, <2>1, FlightProperties DEF FlightType
<1>7. TypeOK' BY <1>2, <1>4, <1>5, <1>6 DEF TypeOK, Lefts
<1>8. FlightIsDue' BY <1>2, FlightProperties DEF FlightIsDue
<1>9. SpentIsSummarised'
    <2>1. attempts[f.mint] # Attempts BY FlightProperties, OffsetsType DEF TypeOK
    <2> QED BY <1>2, <1>4, <2>1 DEF SpentIsSummarised, TypeOK
<1>10. EvidenceIsShown' BY <1>4 DEF EvidenceIsShown
<1> QED BY <1>2, <1>5, <1>7, <1>8, <1>9, <1>10 DEF AttemptsAreOfCohort

\* The summary that ends an attempt is of all that is retained then; if it is
\* not written, that is remembered, and if the attempt is not counted, another
\* one follows.
LEMMA EndsIInv == ASSUME IInv, NEW f \in flight, Ends(f) PROVE IInv'
<1> USE DEF IInv
<1>1. PICK found \in IF f.asked = Gone THEN {{}} ELSE FoundPartly[f.mint] :
          Show(f, found) /\ Finish(f, Saved(f.mint, found, f.since))
    BY DEF Ends
<1>2. /\ UNCHANGED <<cohort, method, age, known, up, sweep>>
      /\ running' = FALSE /\ flight' = {}
    BY DEF Ends
<1>3. found \in SUBSET Discoverable(f.mint) BY <1>1, FlightProperties, FoundType
<1> DEFINE l == Saved(f.mint, found, f.since)
<1>4. l \in Lefts
      /\ \A m \in Mints, t \in Trades :
            l[m][t] # Gone => t \in Retained(m) \/ (m = f.mint /\ t \in Discoverable(m))
    BY <1>3, SavedIInv
<1>5. Finish(f, l) BY <1>1
<1> HIDE DEF l
<1>6. PICK failing \in SUBSET {"summary", "prune", "count"} :
        /\ IF failing = {} THEN UNCHANGED faults ELSE faults < MaxFaults /\ faults' = faults + 1
        /\ IF "summary" \in failing
           THEN UNCHANGED summary /\ lost' = lost \cup {f.mint}
           ELSE /\ summary' = [summary EXCEPT ![f.mint] = Summarised(f, l)]
                /\ lost' = lost \ {f.mint}
        /\ left' \in IF "prune" \in failing THEN {l} ELSE Pruned(l, f.since)
        /\ attempts' = IF "count" \in failing THEN attempts
                       ELSE [attempts EXCEPT ![f.mint] = @ + 1]
    BY <1>5 DEF Finish
<1>7. left' \in Lefts
      /\ \A m \in Mints, t \in Trades : left'[m][t] = l[m][t] \/ left'[m][t] = Gone
    BY <1>4, <1>6, PrunedProperties
<1>8. parsers' \in [Mints -> SUBSET (1..MaxRevision)] /\ EvidenceIsCurrent'
    BY <1>1, <1>2, CurrentEvidence
<1>9. faults' \in Nat
    <2>1. faults' = faults \/ faults' = faults + 1 BY <1>6
    <2> QED BY <2>1 DEF TypeOK
<1>10. /\ attempts' \in [Mints -> 0..Attempts]
       /\ \A m \in Mints \ {f.mint} : attempts'[m] = attempts[m]
    <2>1. attempts[f.mint] + 1 \in 0..Attempts BY FlightProperties, OffsetsType DEF TypeOK
    <2> QED BY <1>6, <2>1, FlightProperties DEF TypeOK
<1>11. /\ summary' \in [Mints -> SUBSET Trades] /\ lost' \in SUBSET Mints
       /\ \A m \in Mints \ {f.mint} : summary'[m] = summary[m] /\ (m \in lost' <=> m \in lost)
       /\ f.mint \in lost' \/ summary'[f.mint] = Summarised(f, l)
    <2>1. Summarised(f, l) \subseteq Trades BY DEF Summarised
    <2> QED BY <1>6, <2>1, FlightProperties DEF TypeOK
<1>12. TypeOK' BY <1>2, <1>7, <1>8, <1>9, <1>10, <1>11 DEF TypeOK, Lefts
<1>13. FlightIsDue' BY <1>2 DEF FlightIsDue
<1>14. AttemptsAreOfCohort' BY <1>2, <1>10, FlightProperties DEF AttemptsAreOfCohort
<1>15. SpentIsSummarised'
    <2> SUFFICES ASSUME NEW m \in cohort', m \notin lost', attempts'[m] = Attempts
                 PROVE  Retained(m)' \subseteq summary'[m]
        BY DEF SpentIsSummarised
    <2>1. m \in Mints /\ m \in cohort BY <1>2 DEF TypeOK
    <2>2. CASE m = f.mint
        <3>1. summary'[m] = Summarised(f, l) BY <1>11, <2>2
        <3> QED BY <1>7, <2>1, <2>2, <3>1 DEF Summarised, Retained
    <2>3. CASE m # f.mint
        <3>1. Retained(m) \subseteq summary[m]
            BY <1>10, <1>11, <2>1, <2>3 DEF SpentIsSummarised
        <3> QED BY <1>4, <1>7, <1>11, <2>1, <2>3, <3>1 DEF Retained
    <2> QED BY <2>2, <2>3
<1>16. EvidenceIsShown' BY <1>4, <1>7 DEF EvidenceIsShown, Retained
<1> QED BY <1>8, <1>12, <1>13, <1>14, <1>15, <1>16
LEMMA CrashIInv == ASSUME IInv, Crash PROVE IInv'
<1> USE DEF IInv
<1>1. /\ UNCHANGED <<cohort, attempts, summary, method, age, lost>>
      /\ up' = FALSE /\ running' = FALSE /\ flight' = {} /\ sweep' = FALSE
    BY DEF Crash
<1>2. faults' \in Nat
    <2>1. faults' = faults + 1 BY DEF Crash
    <2> QED BY <2>1 DEF TypeOK
<1>3. /\ left' \in Lefts /\ known' \in SUBSET Mints
      /\ parsers' \in [Mints -> SUBSET (1..MaxRevision)] /\ EvidenceIsCurrent'
      /\ \A m \in Mints : Retained(m)' \subseteq Retained(m) \cup
            (IF attempts[m] # Attempts THEN Discoverable(m) ELSE {})
    <2>1. CASE /\ \E S \in SUBSET Mints : Cardinality(S) <= 1 /\ known' = known \cup S
               /\ UNCHANGED <<left, parsers>>
        <3>1. known' \in SUBSET Mints BY <2>1 DEF TypeOK
        <3>2. left' \in Lefts /\ parsers' \in [Mints -> SUBSET (1..MaxRevision)]
            BY <2>1 DEF TypeOK, Lefts
        <3>3. EvidenceIsCurrent' BY <1>1, <2>1 DEF EvidenceIsCurrent
        <3>4. \A m \in Mints : Retained(m)' = Retained(m) BY <2>1 DEF Retained
        <3> QED BY <3>1, <3>2, <3>3, <3>4
    <2>2. ASSUME NEW f \in flight, NEW found \in FoundPartly[f.mint], UNCHANGED known,
                 Show(f, found), left' = Saved(f.mint, found, f.since)
          PROVE  /\ left' \in Lefts /\ known' \in SUBSET Mints
                 /\ parsers' \in [Mints -> SUBSET (1..MaxRevision)] /\ EvidenceIsCurrent'
                 /\ \A m \in Mints : Retained(m)' \subseteq Retained(m) \cup
                        (IF attempts[m] # Attempts THEN Discoverable(m) ELSE {})
        <3>1. found \in SUBSET Discoverable(f.mint) BY <2>2, FlightProperties, FoundType
        <3>2. left' \in Lefts
              /\ \A m \in Mints : Retained(m)' \subseteq Retained(m) \cup
                    (IF m = f.mint THEN Discoverable(m) ELSE {})
            BY <2>2, <3>1, SavedIInv DEF Retained
        <3>3. attempts[f.mint] # Attempts BY FlightProperties, OffsetsType DEF TypeOK
        <3>4. known' \in SUBSET Mints BY <2>2 DEF TypeOK
        <3>5. parsers' \in [Mints -> SUBSET (1..MaxRevision)] /\ EvidenceIsCurrent'
            BY <1>1, <2>2, CurrentEvidence
        <3> QED BY <3>2, <3>3, <3>4, <3>5
    <2> QED BY <2>1, <2>2 DEF Crash
<1>4. TypeOK' BY <1>1, <1>2, <1>3 DEF TypeOK, Lefts
<1>5. FlightIsDue' /\ AttemptsAreOfCohort' BY <1>1 DEF FlightIsDue, AttemptsAreOfCohort
<1>6. SpentIsSummarised' BY <1>1, <1>3 DEF SpentIsSummarised, TypeOK
<1>7. EvidenceIsShown' BY <1>3 DEF EvidenceIsShown
<1> QED BY <1>3, <1>4, <1>5, <1>6, <1>7

LEMMA RestartIInv == ASSUME IInv, Restart PROVE IInv'
<1> USE DEF IInv
<1>1. UNCHANGED <<age, known, running, flight, sweep>> /\ ~up /\ up' = TRUE
    BY DEF Restart, worker
<1>2. flight = {} BY <1>1 DEF FlightIsDue
<1>3. CASE /\ UNCHANGED <<cohort, attempts, summary, method, history>>
           /\ \/ left' \in Pruned(left, 0) /\ UNCHANGED faults
              \/ UNCHANGED left /\ faults < MaxFaults /\ faults' = faults + 1
    <2>1. left' \in Lefts /\ \A m \in Mints : Retained(m)' \subseteq Retained(m)
        BY <1>3, Shrunk
    <2>2. faults' \in Nat
        <3>1. faults' = faults \/ faults' = faults + 1 BY <1>3
        <3> QED BY <3>1 DEF TypeOK
    <2>3. UNCHANGED <<parsers, lost>> BY <1>3 DEF history
    <2>4. TypeOK' BY <1>1, <1>3, <2>1, <2>2, <2>3 DEF TypeOK, Lefts
    <2>5. FlightIsDue' BY <1>1, <1>2 DEF FlightIsDue
    <2>6. SpentIsSummarised' BY <1>3, <2>1, <2>3 DEF SpentIsSummarised, TypeOK
    <2>7. EvidenceIsShown' BY <2>1 DEF EvidenceIsShown
    <2> QED BY <1>3, <2>3, <2>4, <2>5, <2>6, <2>7 DEF AttemptsAreOfCohort, EvidenceIsCurrent
<1>4. CASE /\ method < MaxRevision /\ method' = method + 1
           /\ Reset
           /\ left' = [m \in Mints |-> [t \in Trades |-> Gone]]
           /\ lost' = {}
           /\ UNCHANGED faults
    <2>1. /\ cohort' = {} /\ attempts' = [m \in Mints |-> 0]
          /\ summary' = [m \in Mints |-> {}] /\ parsers' = [m \in Mints |-> {}]
        BY <1>4 DEF Reset
    <2>2. method' \in 1..MaxRevision BY <1>4, ActorAssumption DEF TypeOK
    <2>3. /\ attempts' \in [Mints -> 0..Attempts] /\ summary' \in [Mints -> SUBSET Trades]
          /\ parsers' \in [Mints -> SUBSET (1..MaxRevision)]
          /\ left' \in [Mints -> [Trades -> 0..Retention \cup {Gone}]]
        BY <1>4, <2>1, OffsetsType
    <2>4. TypeOK' BY <1>1, <1>4, <2>1, <2>2, <2>3 DEF TypeOK
    <2>5. \A m \in Mints : Retained(m)' = {} BY <1>4 DEF Retained
    <2> QED BY <1>1, <1>2, <2>1, <2>4, <2>5
        DEF FlightIsDue, AttemptsAreOfCohort, SpentIsSummarised, EvidenceIsCurrent, EvidenceIsShown
<1> QED BY <1>3, <1>4 DEF Restart

LEMMA Aged ==
    ASSUME left \in Lefts,
           left' = [m \in Mints |-> [t \in Trades |->
             IF left[m][t] = Gone \/ left[m][t] = 0 THEN left[m][t] ELSE left[m][t] - 1]]
    PROVE  /\ left' \in Lefts
           /\ \A m \in Mints, t \in Trades :
                /\ left'[m][t] = Gone <=> left[m][t] = Gone
                /\ left[m][t] # Gone => left'[m][t] <= left[m][t]
<1>1. ASSUME NEW m \in Mints, NEW t \in Trades
      PROVE  /\ left'[m][t] \in 0..Retention \cup {Gone}
             /\ left'[m][t] = Gone <=> left[m][t] = Gone
             /\ left[m][t] # Gone => left'[m][t] <= left[m][t]
    <2>1. left[m][t] \in 0..Retention \cup {Gone} BY DEF Lefts
    <2>2. left'[m][t] = IF left[m][t] = Gone \/ left[m][t] = 0 THEN left[m][t] ELSE left[m][t] - 1
        OBVIOUS
    <2>3. Retention \in Nat /\ Gone \notin Int BY ActorAssumption
    <2>4. CASE left[m][t] = Gone BY <2>1, <2>2, <2>4
    <2>5. CASE left[m][t] \in 0..Retention
        <3>1. left[m][t] # Gone BY <2>3, <2>5
        <3>2. left'[m][t] \in 0..Retention /\ left'[m][t] <= left[m][t]
            BY <2>2, <2>3, <2>5
        <3>3. left'[m][t] # Gone BY <2>3, <3>2
        <3> QED BY <3>1, <3>2, <3>3
    <2> QED BY <2>1, <2>4, <2>5
<1>2. DOMAIN left' = Mints /\ \A m \in Mints : left'[m] \in [Trades -> 0..Retention \cup {Gone}]
    BY <1>1
<1>3. left' \in Lefts BY <1>2 DEF Lefts
<1> QED BY <1>1, <1>3

LEMMA TickIInv == ASSUME IInv, Tick PROVE IInv'
<1> USE DEF IInv
<1>1. /\ UNCHANGED <<cohort, attempts, summary, method, known, up, running, parsers, lost, faults>>
      /\ flight' = {[mint |-> f.mint, asked |-> f.asked, since |-> Elapsed(f)] : f \in flight}
      /\ sweep' = up
    BY DEF Tick, history
<1>2. age' \in [Mints -> 0..MaxAge] BY OffsetsType DEF Tick, TypeOK
<1>3. /\ left' \in Lefts
      /\ \A m \in Mints, t \in Trades : left'[m][t] = Gone <=> left[m][t] = Gone
    BY Aged DEF Tick, TypeOK, Lefts
<1>4. \A m \in Mints : Retained(m)' = Retained(m) BY <1>3 DEF Retained
<1>5. \A f \in flight : Elapsed(f) \in 0..Retention
    BY FlightProperties, ActorAssumption DEF Elapsed
<1>6. flight' \in SUBSET FlightType BY <1>1, <1>5, FlightProperties DEF FlightType
<1>7. TypeOK' BY <1>1, <1>2, <1>3, <1>6 DEF TypeOK, Lefts
<1>8. FlightIsDue' BY <1>1 DEF FlightIsDue
<1>9. SpentIsSummarised' BY <1>1, <1>4 DEF SpentIsSummarised, TypeOK
<1>10. EvidenceIsShown' BY <1>4 DEF EvidenceIsShown
<1> QED BY <1>1, <1>7, <1>8, <1>9, <1>10 DEF AttemptsAreOfCohort, EvidenceIsCurrent

LEMMA StepIInv == ASSUME IInv, [Next]_vars PROVE IInv'
<1>1. CASE UNCHANGED vars
    <2> USE <1>1 DEF vars, IInv
    <2>1. TypeOK' BY DEF TypeOK
    <2>2. \A m : Retained(m)' = Retained(m) BY DEF Retained
    <2> QED BY <2>1, <2>2
        DEF FlightIsDue, AttemptsAreOfCohort, SpentIsSummarised, EvidenceIsCurrent, EvidenceIsShown
<1>2. CASE \E f \in flight : Answer(f)
    BY <1>2, SignaturesIInv, TransactionIInv, EndsIInv DEF Answer
<1> QED BY <1>1, <1>2, FeedEventIInv, EnforceIInv, DrainIInv, CrashIInv, RestartIInv, TickIInv
    DEF Next
-----------------------------------------------------------------------------
\* Sums of sequences of numbers.  Zeroes(n) has nothing but zeroes.

\* A set of numbers with zero and with each successor has them all: the least
\* that it lacked would have a predecessor in it.
LEMMA Successors ==
    ASSUME NEW S, 0 \in S, \A n \in S \cap Nat : n + 1 \in S
    PROVE  Nat \subseteq S
<1> SUFFICES ASSUME NEW x0 \in Nat, x0 \notin S PROVE FALSE OBVIOUS
<1> DEFINE T == {0..x : x \in Nat \ S}
<1>1. T \subseteq FiniteSubsetsOf(Nat) /\ T # {}
    <2>1. \A x \in Nat : 0..x \subseteq Nat /\ IsFiniteSet(0..x) BY FS_Interval
    <2> QED BY <2>1 DEF FiniteSubsetsOf
<1>2. PICK u \in T : \A v \in T : <<v, u>> \notin StrictSubsetOrdering(Nat)
    BY <1>1, FS_StrictSubsetOrderingWellFounded, WFMin, Zenon
<1>3. PICK x \in Nat \ S : u = 0..x OBVIOUS
<1>4. x - 1 \in Nat /\ x - 1 \notin S
    <2>1. x # 0 BY <1>3
    <2>2. x - 1 \in Nat /\ (x - 1) + 1 = x BY <1>3, <2>1
    <2> QED BY <1>3, <2>2
<1>5. 0..(x - 1) \in T BY <1>4
<1>6. 0..(x - 1) \subseteq 0..x /\ 0..(x - 1) # 0..x
    <2>1. x \in 0..x /\ x \notin 0..(x - 1) BY <1>3
    <2> QED BY <1>3, <2>1
<1>7. <<0..(x - 1), 0..x>> \in StrictSubsetOrdering(Nat)
    BY <1>3, <1>4, <1>6 DEF StrictSubsetOrdering
<1> QED BY <1>2, <1>3, <1>5, <1>7

\* A run of n steps from start; F[k] is the k-th.
Run(n, D, start, F, f) ==
    f \in [0..n -> D] /\ f[0] = start /\ \A k \in 1..n : f[k] = F[k][f[k - 1]]

LEMMA RunExists ==
    ASSUME NEW n \in Nat, NEW D, NEW start \in D, NEW F \in [1..n -> [D -> D]]
    PROVE  \E f : Run(n, D, start, F, f)
<1> DEFINE I == {m \in Nat : m <= n => \E f : Run(m, D, start, F, f)}
<1>1. 0 \in I
    <2> DEFINE f == [i \in 0..0 |-> start]
    <2>1. Run(0, D, start, F, f) BY DEF Run
    <2> QED BY <2>1
<1>2. ASSUME NEW m \in I \cap Nat PROVE m + 1 \in I
    <2> SUFFICES ASSUME m + 1 <= n PROVE \E f : Run(m + 1, D, start, F, f) OBVIOUS
    <2>1. PICK f : Run(m, D, start, F, f) BY <1>2
    <2> DEFINE g == [i \in 0..(m + 1) |-> IF i = m + 1 THEN F[m + 1][f[m]] ELSE f[i]]
    <2>2. m + 1 \in 1..n /\ f[m] \in D BY <1>2, <2>1 DEF Run
    <2>3. F[m + 1][f[m]] \in D BY <2>2
    <2>4. g \in [0..(m + 1) -> D] BY <2>1, <2>3 DEF Run
    <2>5. g[0] = start BY <2>1 DEF Run
    <2>6. ASSUME NEW k \in 1..(m + 1) PROVE g[k] = F[k][g[k - 1]]
        <3>1. CASE k = m + 1
            <4>1. g[k] = F[m + 1][f[m]] /\ g[k - 1] = f[m] BY <3>1
            <4> QED BY <3>1, <4>1
        <3>2. CASE k \in 1..m
            <4>1. g[k] = f[k] /\ g[k - 1] = f[k - 1] BY <3>2
            <4> QED BY <2>1, <3>2, <4>1 DEF Run
        <3> QED BY <3>1, <3>2
    <2> QED BY <2>4, <2>5, <2>6 DEF Run
<1>3. n \in I BY <1>1, <1>2, Successors
<1> QED BY <1>3

Weights(n) == [1..n -> Int]

Sums(w, n, f) == f \in [0..n -> Int] /\ f[0] = 0 /\ \A k \in 1..n : f[k] = f[k - 1] + w[k]

LEMMA SumsExist == ASSUME NEW n \in Nat, NEW w \in Weights(n) PROVE \E f : Sums(w, n, f)
<1> DEFINE F == [k \in 1..n |-> [x \in Int |-> x + w[k]]]
<1>1. F \in [1..n -> [Int -> Int]] BY DEF Weights
<1>2. PICK f : Run(n, Int, 0, F, f)
    <2>1. PICK D, zero : D = Int /\ zero = 0 OBVIOUS
    <2> HIDE DEF F
    <2>2. zero \in D /\ F \in [1..n -> [D -> D]] BY <1>1, <2>1
    <2>3. \E f : Run(n, D, zero, F, f) BY <2>2, RunExists
    <2> QED BY <2>1, <2>3
<1>3. ASSUME NEW k \in 1..n PROVE f[k] = f[k - 1] + w[k]
    <2>1. f[k - 1] \in Int BY <1>2 DEF Run
    <2> QED BY <1>2, <2>1 DEF Run
<1> QED BY <1>2, <1>3 DEF Run, Sums

LEMMA TotalIsSum ==
    ASSUME NEW n \in Nat, NEW w \in Weights(n)
    PROVE  \E f : Sums(w, n, f) /\ Total(w) = f[n]
<1>1. Len(w) = n BY DEF Weights
<1> DEFINE Rec(f) == f = [i \in 0..Len(w) |-> IF i = 0 THEN 0 ELSE f[i - 1] + w[i]]
<1>2. PICK f : Sums(w, n, f) BY SumsExist
<1>3. Rec(f)
    <2>1. \A i \in 0..n : f[i] = IF i = 0 THEN 0 ELSE f[i - 1] + w[i] BY <1>2 DEF Sums
    <2> QED BY <1>1, <1>2, <2>1 DEF Sums
<1> DEFINE g == CHOOSE f2 : Rec(f2)
<1>4. Rec(g) BY <1>3
<1>5. Total(w) = g[n] BY <1>1 DEF Total
<1>6. g = f
    <2> HIDE DEF g
    <2>1. g = [i \in 0..n |-> IF i = 0 THEN 0 ELSE g[i - 1] + w[i]] BY <1>1, <1>4
    <2>2. \A i \in 0..n : g[i] = IF i = 0 THEN 0 ELSE g[i - 1] + w[i] BY <2>1, Zenon
    <2> DEFINE S == {k \in Nat : k <= n => g[k] = f[k]}
    <2>3. 0 \in S BY <1>2, <2>2 DEF Sums
    <2>4. ASSUME NEW k \in S \cap Nat PROVE k + 1 \in S
        <3> SUFFICES ASSUME k + 1 <= n PROVE g[k + 1] = f[k + 1] OBVIOUS
        <3>1. g[k] = f[k] /\ (k + 1) - 1 = k /\ k + 1 \in 1..n BY <2>4
        <3> QED BY <1>2, <2>2, <3>1 DEF Sums
    <2>5. \A k \in Nat : k \in S BY <2>3, <2>4, Successors
    <2>6. \A k \in 0..n : g[k] = f[k] BY <2>5
    <2>7. DOMAIN g = 0..n /\ DOMAIN f = 0..n /\ f = [k \in 0..n |-> f[k]] BY <1>2, <2>1 DEF Sums
    <2>8. g = [k \in 0..n |-> g[k]] BY <2>1
    <2> QED BY <2>6, <2>7, <2>8
<1> QED BY <1>2, <1>5, <1>6
\* One weight changes, and the sum by as much.
LEMMA TotalUpdate ==
    ASSUME NEW n \in Nat, NEW w \in Weights(n), NEW v \in Weights(n), NEW k \in 1..n,
           \A i \in 1..n : i # k => v[i] = w[i]
    PROVE  Total(v) = Total(w) + v[k] - w[k]
<1>1. PICK f : Sums(w, n, f) /\ Total(w) = f[n] BY TotalIsSum
<1>2. PICK g : Sums(v, n, g) /\ Total(v) = g[n] BY TotalIsSum
<1> DEFINE S == {i \in Nat : i <= n => g[i] = f[i] + (IF i < k THEN 0 ELSE v[k] - w[k])}
<1>3. 0 \in S BY <1>1, <1>2 DEF Sums
<1>4. ASSUME NEW i \in S \cap Nat PROVE i + 1 \in S
    <2> SUFFICES ASSUME i + 1 <= n
                 PROVE  g[i + 1] = f[i + 1] + (IF i + 1 < k THEN 0 ELSE v[k] - w[k])
        OBVIOUS
    <2>1. g[i] = f[i] + (IF i < k THEN 0 ELSE v[k] - w[k]) BY <1>4
    <2>2. i + 1 \in 1..n /\ (i + 1) - 1 = i /\ i \in 0..n BY <1>4
    <2>3. g[i + 1] = g[i] + v[i + 1] /\ f[i + 1] = f[i] + w[i + 1]
        BY <1>1, <1>2, <2>2 DEF Sums
    <2>4. f[i] \in Int /\ v[i + 1] \in Int /\ w[i + 1] \in Int /\ v[k] \in Int /\ w[k] \in Int
        BY <1>1, <2>2 DEF Sums, Weights
    <2>5. CASE i + 1 = k BY <2>1, <2>3, <2>4, <2>5
    <2>6. CASE i + 1 # k
        <3>1. v[i + 1] = w[i + 1] BY <2>2, <2>6
        <3>2. i < k <=> i + 1 < k BY <2>6
        <3> QED BY <2>1, <2>3, <2>4, <3>1, <3>2
    <2> QED BY <2>5, <2>6
<1>5. n \in S BY <1>3, <1>4, Successors
<1>6. g[n] = f[n] + (v[k] - w[k]) BY <1>5
<1>7. f[n] \in Int /\ v[k] \in Int /\ w[k] \in Int BY <1>1 DEF Sums, Weights
<1> QED BY <1>1, <1>2, <1>6, <1>7

LEMMA TotalOfZeroes ==
    ASSUME NEW n \in Nat, NEW w \in Weights(n), \A i \in 1..n : w[i] = 0
    PROVE  Total(w) = 0
<1>1. PICK f : Sums(w, n, f) /\ Total(w) = f[n] BY TotalIsSum
<1> DEFINE S == {i \in Nat : i <= n => f[i] = 0}
<1>2. 0 \in S BY <1>1 DEF Sums
<1>3. ASSUME NEW i \in S \cap Nat PROVE i + 1 \in S
    <2> SUFFICES ASSUME i + 1 <= n PROVE f[i + 1] = 0 OBVIOUS
    <2>1. f[i] = 0 /\ i + 1 \in 1..n /\ (i + 1) - 1 = i BY <1>3
    <2> QED BY <1>1, <2>1 DEF Sums
<1>4. n \in S BY <1>2, <1>3, Successors
<1> QED BY <1>1, <1>4

LEMMA TotalIsPositive ==
    ASSUME NEW n \in Nat, NEW w \in Weights(n), \A i \in 1..n : w[i] >= 0,
           NEW k \in 1..n, w[k] > 0
    PROVE  Total(w) > 0
<1>1. PICK f : Sums(w, n, f) /\ Total(w) = f[n] BY TotalIsSum
<1> DEFINE S == {i \in Nat : i <= n => f[i] >= 0 /\ (i >= k => f[i] > 0)}
<1>2. 0 \in S BY <1>1 DEF Sums
<1>3. ASSUME NEW i \in S \cap Nat PROVE i + 1 \in S
    <2> SUFFICES ASSUME i + 1 <= n
                 PROVE  f[i + 1] >= 0 /\ (i + 1 >= k => f[i + 1] > 0)
        OBVIOUS
    <2>1. f[i] >= 0 /\ (i >= k => f[i] > 0) BY <1>3
    <2>2. i + 1 \in 1..n /\ (i + 1) - 1 = i /\ i \in 0..n BY <1>3
    <2>3. f[i + 1] = f[i] + w[i + 1] BY <1>1, <2>2 DEF Sums
    <2>4. f[i] \in Int /\ w[i + 1] \in Int /\ w[i + 1] >= 0
        BY <1>1, <2>2 DEF Sums, Weights
    <2>5. i + 1 = k => w[i + 1] > 0 OBVIOUS
    <2> QED BY <2>1, <2>3, <2>4, <2>5
<1>4. n \in S BY <1>2, <1>3, Successors
<1> QED BY <1>1, <1>4

\* The weights of a list, of which each but zero is that of an account of its
\* own, add up to the weights of the accounts.
LEMMA TotalByAccount ==
    ASSUME NEW n \in Nat, NEW u \in Weights(n), NEW c \in Nat, NEW w \in Weights(c),
           NEW M \in SUBSET (1..n), NEW account \in [M -> 1..c],
           \A r, s \in M : account[r] = account[s] => r = s,
           \A r \in (1..n) \ M : u[r] = 0,
           \A r \in M : w[account[r]] = u[r],
           \A k \in 1..c : (\A r \in M : account[r] # k) => w[k] = 0
    PROVE  Total(u) = Total(w)
<1> DEFINE U(i) == [r \in 1..n |-> IF r <= i THEN u[r] ELSE 0]
           W(i) == [k \in 1..c |-> IF \E r \in M : r <= i /\ account[r] = k THEN w[k] ELSE 0]
           S == {i \in Nat : i <= n => Total(U(i)) = Total(W(i))}
<1>1. \A i \in Nat : U(i) \in Weights(n) /\ W(i) \in Weights(c) BY DEF Weights
<1>2. 0 \in S
    <2>1. \A r \in 1..n : U(0)[r] = 0 OBVIOUS
    <2>2. \A k \in 1..c : W(0)[k] = 0 OBVIOUS
    <2>3. U(0) \in Weights(n) /\ W(0) \in Weights(c) BY <1>1
    <2> HIDE DEF U, W
    <2>4. Total(U(0)) = 0 BY <2>1, <2>3, TotalOfZeroes
    <2>5. Total(W(0)) = 0 BY <2>2, <2>3, TotalOfZeroes
    <2> QED BY <2>4, <2>5
<1>3. ASSUME NEW i \in S \cap Nat PROVE i + 1 \in S
    <2> SUFFICES ASSUME i + 1 <= n PROVE Total(U(i + 1)) = Total(W(i + 1)) OBVIOUS
    <2>1. Total(U(i)) = Total(W(i)) BY <1>3
    <2>2. i + 1 \in 1..n /\ i \in Nat /\ i + 1 \in Nat BY <1>3
    <2>3. /\ \A r \in 1..n : r # i + 1 => U(i + 1)[r] = U(i)[r]
          /\ U(i)[i + 1] = 0 /\ U(i + 1)[i + 1] = u[i + 1]
        BY <2>2
    <2>4. U(i) \in Weights(n) /\ U(i + 1) \in Weights(n) BY <1>1, <2>2
    <2>5. W(i) \in Weights(c) /\ W(i + 1) \in Weights(c) BY <1>1, <2>2
    <2>6. Total(U(i + 1)) = Total(U(i)) + u[i + 1] - 0
        <3> HIDE DEF U, W
        <3> QED BY <2>2, <2>3, <2>4, TotalUpdate
    <2>7. CASE i + 1 \in M
        <3> DEFINE k == account[i + 1]
        <3>1. k \in 1..c BY <2>7
        <3>2. /\ \A j \in 1..c : j # k => W(i + 1)[j] = W(i)[j]
              /\ W(i)[k] = 0 /\ W(i + 1)[k] = u[i + 1]
            <4>1. W(i + 1)[k] = w[k] BY <2>2, <2>7, <3>1
            <4>2. ~\E r \in M : r <= i /\ account[r] = k BY <2>2, <2>7
            <4>3. W(i)[k] = 0 BY <3>1, <4>2
            <4>4. ASSUME NEW j \in 1..c, j # k PROVE W(i + 1)[j] = W(i)[j]
                <5>1. \A r \in M : r <= i + 1 /\ account[r] = j => r <= i BY <2>2, <4>4
                <5>2. \A r \in M : r <= i => r <= i + 1 BY <2>2
                <5> QED BY <5>1, <5>2
            <4> QED BY <2>7, <4>1, <4>3, <4>4
        <3>3. Total(W(i + 1)) = Total(W(i)) + u[i + 1] - 0
            <4> HIDE DEF U, W, k
            <4> QED BY <2>5, <3>1, <3>2, TotalUpdate
        <3> QED BY <2>1, <2>6, <3>3
    <2>8. CASE i + 1 \notin M
        <3>1. W(i + 1) = W(i)
            <4>1. \A r \in M : r <= i + 1 <=> r <= i BY <2>2, <2>8
            <4> QED BY <4>1
        <3>2. u[i + 1] = 0 BY <2>2, <2>8
        <3>3. Total(U(i)) \in Int
            <4>1. PICK f : Sums(U(i), n, f) /\ Total(U(i)) = f[n] BY <2>4, TotalIsSum
            <4> QED BY <4>1 DEF Sums
        <3>4. Total(W(i + 1)) = Total(W(i)) BY <3>1
        <3> HIDE DEF U, W
        <3> QED BY <2>1, <2>6, <3>2, <3>3, <3>4
    <2> QED BY <2>7, <2>8
<1>4. Total(U(n)) = Total(W(n))
    <2>1. n \in S
        <3> HIDE DEF S
        <3> QED BY <1>2, <1>3, Successors
    <2> QED BY <2>1
<1>5. U(n) = u
    <2>1. \A r \in 1..n : U(n)[r] = u[r] OBVIOUS
    <2> QED BY <2>1 DEF Weights
<1>6. W(n) = w
    <2>1. \A k \in 1..c : W(n)[k] = w[k] OBVIOUS
    <2> QED BY <2>1 DEF Weights
<1> HIDE DEF U, W
<1> QED BY <1>4, <1>5, <1>6
-----------------------------------------------------------------------------
\* The extraction: what an observation says of its transaction.

\* The weights of the accounts that a owns, by the position of their keys.
KeyWeights(tx, rows, a) ==
    [k \in 1..Len(tx.keys) |->
        IF k \in DOMAIN Balances(rows) /\ Balances(rows)[k].owner = a
        THEN Balances(rows)[k].amount ELSE 0]

\* A list of rows that an answer may hold.
RowList(rows) == List(rows) /\ \A r \in DOMAIN rows : rows[r].amount \in Nat

\* Each row of the launch is the balance of its account, and no balance is of
\* another row.
LEMMA BalanceIsRow ==
    ASSUME NEW tx, NEW rows, RowsAreSound(tx, rows)
    PROVE  /\ \A r \in RowsOf(rows) :
                /\ rows[r].account \in DOMAIN Balances(rows)
                /\ Balances(rows)[rows[r].account] = rows[r]
           /\ \A k \in DOMAIN Balances(rows) :
                /\ k \in DOMAIN tx.keys
                /\ \E r \in RowsOf(rows) : rows[r].account = k /\ Balances(rows)[k] = rows[r]
<1>1. DOMAIN Balances(rows) = {rows[r].account : r \in RowsOf(rows)} BY DEF Balances
<1>2. ASSUME NEW r \in RowsOf(rows)
      PROVE  Balances(rows)[rows[r].account] = rows[r]
    <2> DEFINE s == CHOOSE s \in RowsOf(rows) : rows[s].account = rows[r].account
    <2>1. s \in RowsOf(rows) /\ rows[s].account = rows[r].account OBVIOUS
    <2>2. s = r BY <2>1 DEF RowsAreSound
    <2>3. Balances(rows)[rows[r].account] = rows[s] BY DEF Balances
    <2> QED BY <2>2, <2>3
<1> QED BY <1>1, <1>2 DEF RowsAreSound

\* What an actor holds, row by row, is what its accounts hold.
LEMMA HeldByAccount ==
    ASSUME NEW tx, List(tx.keys), NEW rows, RowList(rows), RowsAreSound(tx, rows), NEW a
    PROVE  /\ KeyWeights(tx, rows, a) \in Weights(Len(tx.keys))
           /\ Held(rows, a) = Total(KeyWeights(tx, rows, a))
<1> DEFINE n == Len(rows)
           c == Len(tx.keys)
           M == {r \in RowsOf(rows) : rows[r].owner = a}
           u == [r \in 1..n |->
                    IF rows[r].mint = Mint /\ rows[r].owner = a THEN rows[r].amount ELSE 0]
           w == KeyWeights(tx, rows, a)
           account == [r \in M |-> rows[r].account]
<1>1. n \in Nat /\ DOMAIN rows = 1..n BY DEF RowList, List
<1>2. c \in Nat /\ DOMAIN tx.keys = 1..c BY DEF List
<1>3. u \in Weights(n) BY <1>1 DEF RowList, Weights
<1>4. w \in Weights(c)
    <2>1. \A k \in DOMAIN Balances(rows) : Balances(rows)[k].amount \in Nat
        BY BalanceIsRow DEF RowList, RowsOf
    <2> QED BY <2>1 DEF KeyWeights, Weights
<1>5. M \in SUBSET (1..n) BY <1>1 DEF RowsOf
<1>6. account \in [M -> 1..c] BY <1>2 DEF RowsAreSound
<1>7. \A r, s \in M : account[r] = account[s] => r = s BY DEF RowsAreSound
<1>8. \A r \in (1..n) \ M : u[r] = 0 BY <1>1 DEF RowsOf
<1>9. \A r \in M : w[account[r]] = u[r]
    <2> SUFFICES ASSUME NEW r \in M PROVE w[account[r]] = u[r] OBVIOUS
    <2>1. u[r] = rows[r].amount BY <1>1 DEF RowsOf
    <2>2. account[r] = rows[r].account /\ account[r] \in 1..c BY <1>6
    <2>3. account[r] \in DOMAIN Balances(rows) /\ Balances(rows)[account[r]] = rows[r]
        BY <2>2, BalanceIsRow
    <2>4. rows[r].owner = a OBVIOUS
    <2> HIDE DEF account
    <2> QED BY <2>1, <2>2, <2>3, <2>4 DEF KeyWeights
<1>10. ASSUME NEW k \in 1..c, \A r \in M : account[r] # k PROVE w[k] = 0
    <2>1. ASSUME k \in DOMAIN Balances(rows), Balances(rows)[k].owner = a PROVE FALSE
        <3>1. PICK r \in RowsOf(rows) : rows[r].account = k /\ Balances(rows)[k] = rows[r]
            BY <2>1, BalanceIsRow
        <3>2. r \in M BY <2>1, <3>1
        <3> QED BY <1>10, <3>1, <3>2
    <2> QED BY <2>1 DEF KeyWeights
<1>11. Held(rows, a) = Total(u) BY <1>1 DEF Held
<1>12. Total(u) = Total(w)
    <2> HIDE DEF n, c, M, u, w, account
    <2> QED BY <1>1, <1>2, <1>3, <1>4, <1>5, <1>6, <1>7, <1>8, <1>9, <1>10, TotalByAccount
<1> QED BY <1>4, <1>11, <1>12
\* The lists of an answer are lists.
AnswerLists(tx) == List(tx.keys) /\ List(tx.instructions) /\ RowList(tx.pre) /\ RowList(tx.post)
    /\ \A i \in DOMAIN tx.instructions : tx.instructions[i].amount \in Nat

LEMMA LedgerLists == ASSUME NEW i \in DOMAIN Ledger PROVE AnswerLists(Ledger[i])
BY EvidenceAssumption DEF AnswerLists, RowList

\* The weight of an account before and after the transaction: it keeps its owner.
LEMMA WeightOfKey ==
    ASSUME NEW tx, NEW a, AnswerLists(tx), Sound(tx), NEW k \in 1..Len(tx.keys)
    PROVE  /\ k \in Touched(tx) /\ Owner(tx, k) = a =>
                /\ KeyWeights(tx, tx.post, a)[k] = Amount(Balances(tx.post), k)
                /\ KeyWeights(tx, tx.pre, a)[k] = Amount(Balances(tx.pre), k)
           /\ ~(k \in Touched(tx) /\ Owner(tx, k) = a) =>
                KeyWeights(tx, tx.post, a)[k] = 0 /\ KeyWeights(tx, tx.pre, a)[k] = 0
<1> DEFINE P == Balances(tx.pre)
           Q == Balances(tx.post)
<1>1. k \in DOMAIN P /\ k \in DOMAIN Q => P[k].owner = Q[k].owner
    BY DEF Sound, DeltasAreSound
<1>2. Owner(tx, k) = IF k \in DOMAIN P THEN P[k].owner ELSE Q[k].owner BY DEF Owner
<1>3. k \in Touched(tx) <=> k \in DOMAIN P \/ k \in DOMAIN Q BY DEF Touched
<1>4. KeyWeights(tx, tx.post, a)[k] = IF k \in DOMAIN Q /\ Q[k].owner = a THEN Q[k].amount ELSE 0
    BY DEF KeyWeights
<1>5. KeyWeights(tx, tx.pre, a)[k] = IF k \in DOMAIN P /\ P[k].owner = a THEN P[k].amount ELSE 0
    BY DEF KeyWeights
<1>6. /\ Amount(P, k) = IF k \in DOMAIN P THEN P[k].amount ELSE 0
      /\ Amount(Q, k) = IF k \in DOMAIN Q THEN Q[k].amount ELSE 0
    BY DEF Amount
<1>7. /\ k \in Touched(tx) /\ Owner(tx, k) = a =>
            /\ KeyWeights(tx, tx.post, a)[k] = Amount(Q, k)
            /\ KeyWeights(tx, tx.pre, a)[k] = Amount(P, k)
      /\ ~(k \in Touched(tx) /\ Owner(tx, k) = a) =>
            KeyWeights(tx, tx.post, a)[k] = 0 /\ KeyWeights(tx, tx.pre, a)[k] = 0
    <2> HIDE DEF P, Q
    <2> QED BY <1>1, <1>2, <1>3, <1>4, <1>5, <1>6
<1> QED BY <1>7

\* In a transaction that is accepted, the net change of all the accounts of an
\* observed actor is what its instructions say.
LEMMA NetIsExpected ==
    ASSUME NEW tx, AnswerLists(tx), Sound(tx), NEW a \in Actors(tx)
    PROVE  NetChange(tx, a) = ExpectedDelta(tx, a)
<1> DEFINE c == Len(tx.keys)
           v == KeyWeights(tx, tx.post, a)
           w == KeyWeights(tx, tx.pre, a)
           d == Designated(tx, a)
<1>1. RowsAreSound(tx, tx.pre) /\ RowsAreSound(tx, tx.post) BY DEF Sound
<1>2. v \in Weights(c) /\ w \in Weights(c)
    BY <1>1, HeldByAccount DEF AnswerLists
<1>3. Held(tx.post, a) = Total(v) /\ Held(tx.pre, a) = Total(w)
    BY <1>1, HeldByAccount DEF AnswerLists
<1>4. c \in Nat /\ DOMAIN tx.keys = 1..c BY DEF AnswerLists, List
<1>5. d \in Touched(tx) /\ Owner(tx, d) = a /\ Delta(tx, d) = ExpectedDelta(tx, a)
    BY DEF Sound, Reconciled
<1>6. \A k \in Touched(tx) : k \in 1..c BY <1>1, <1>4, BalanceIsRow DEF Touched
<1>7. v[d] - w[d] = ExpectedDelta(tx, a)
    <2>1. v[d] = Amount(Balances(tx.post), d) /\ w[d] = Amount(Balances(tx.pre), d)
        BY <1>5, <1>6, WeightOfKey
    <2> QED BY <1>5, <2>1 DEF Delta
<1>8. ASSUME NEW k \in 1..c, k # d PROVE v[k] = w[k]
    <2>1. CASE k \in Touched(tx) /\ Owner(tx, k) = a
        <3>1. Delta(tx, k) = 0
            <4>1. a \in Signers(tx) /\ a \in Actors(tx) BY DEF Actors
            <4> QED BY <1>8, <2>1, <4>1 DEF Sound, Elsewhere
        <3>2. v[k] = Amount(Balances(tx.post), k) /\ w[k] = Amount(Balances(tx.pre), k)
            BY <2>1, WeightOfKey
        <3>3. v[k] \in Int /\ w[k] \in Int BY <1>2 DEF Weights
        <3> HIDE DEF v, w
        <3>4. v[k] - w[k] = 0 BY <3>1, <3>2 DEF Delta
        <3> QED BY <3>3, <3>4
    <2>2. CASE ~(k \in Touched(tx) /\ Owner(tx, k) = a)
        <3>1. v[k] = 0 /\ w[k] = 0 BY <2>2, WeightOfKey
        <3> HIDE DEF v, w
        <3> QED BY <3>1
    <2> QED BY <2>1, <2>2
<1>9. d \in 1..c BY <1>5, <1>6
<1> HIDE DEF v, w, d, c
<1>10. Total(v) = Total(w) + v[d] - w[d] BY <1>2, <1>4, <1>8, <1>9, TotalUpdate
<1>11. Total(w) \in Int /\ v[d] \in Int /\ w[d] \in Int
    <2>1. PICK f : Sums(w, c, f) /\ Total(w) = f[c] BY <1>2, <1>4, TotalIsSum
    <2> QED BY <1>2, <1>4, <1>9, <2>1 DEF Sums, Weights
<1>12. Total(v) - Total(w) = v[d] - w[d] BY <1>10, <1>11
<1> QED BY <1>3, <1>7, <1>12 DEF NetChange

\* What the instructions of an observed actor say is an amount above zero.
LEMMA InstructedIsPositive ==
    ASSUME NEW tx, AnswerLists(tx), Sound(tx), NEW a \in Actors(tx)
    PROVE  Instructed(tx, a) > 0
<1> DEFINE n == Len(tx.instructions)
           w == [i \in 1..n |-> IF i \in By(tx, a) THEN tx.instructions[i].amount ELSE 0]
<1>1. n \in Nat /\ DOMAIN tx.instructions = 1..n BY DEF AnswerLists, List
<1>2. w \in Weights(n) /\ \A i \in 1..n : w[i] >= 0 BY <1>1 DEF AnswerLists, Weights
<1>3. PICK k \in By(tx, a) : TRUE BY DEF Actors
<1>4. k \in 1..n /\ w[k] > 0
    <2> DEFINE ins == tx.instructions[k]
    <2>1. k \in DOMAIN tx.instructions /\ ins.program = Pump /\ ins.name \in Accepted /\ ins.mint = Mint
        BY <1>3 DEF By, Matches
    <2>2. InstructionIsSound(tx, ins) BY <2>1 DEF Sound, Official
    <2>3. ins.amount > 0 BY <2>1, <2>2 DEF InstructionIsSound
    <2> QED BY <1>1, <1>3, <2>1, <2>3
<1>5. Instructed(tx, a) = Total(w) BY <1>1 DEF Instructed
<1> HIDE DEF n, w
<1>6. Total(w) > 0 BY <1>1, <1>2, <1>4, TotalIsPositive
<1> QED BY <1>5, <1>6

\* Whatever the RPC answers, an observation is the whole of what its actor did.
THEOREM Attribution == \A i \in DOMAIN Ledger : \A x \in Shown(i) : Attributed(x)
<1> SUFFICES ASSUME NEW i \in DOMAIN Ledger, NEW x \in Shown(i) PROVE Attributed(x) OBVIOUS
<1> DEFINE tx == Ledger[i]
<1>1. PICK o \in Extract(tx) : x = [tx |-> i, actor |-> o.actor, side |-> o.side,
                                    amount |-> o.amount, at |-> o.at]
    BY DEF Shown
<1>2. Sound(tx) BY <1>1 DEF Extract
<1>3. PICK a \in Actors(tx) : o = Observation(tx, a) BY <1>1, <1>2 DEF Extract
<1>4. x.tx = i /\ x.actor = a /\ x.side = Side(tx, a) /\ x.amount = Instructed(tx, a)
    BY <1>1, <1>3 DEF Observation
<1>5. AnswerLists(tx) BY LedgerLists
<1> HIDE DEF tx
<1>6. Instructed(tx, a) > 0 /\ NetChange(tx, a) = ExpectedDelta(tx, a)
    BY <1>2, <1>5, InstructedIsPositive, NetIsExpected
<1>7. tx = Ledger[x.tx] BY <1>4 DEF tx
<1> QED BY <1>4, <1>6, <1>7 DEF Attributed, ExpectedDelta
-----------------------------------------------------------------------------
\* What a summary says of bursts and holdings.

\* Finitely many trades, at times after the launch, each on a side.
Timed(T) == IsFiniteSet(T) /\ \A x \in T : x.at \in Nat /\ x.side \in {"buy", "sell"}

\* A finite set is in D when a non-empty set is once it is without any one of its members.
LEMMA SubsetInduction ==
    ASSUME NEW S, IsFiniteSet(S), NEW D, {} \in D,
           \A s \in SUBSET S : s # {} /\ (\A x \in s : s \ {x} \in D) => s \in D
    PROVE  SUBSET S \subseteq D
<1> SUFFICES ASSUME NEW s0 \in SUBSET S, s0 \notin D PROVE FALSE OBVIOUS
<1> DEFINE T == {s \in SUBSET S : s \notin D}
<1>1. T \subseteq FiniteSubsetsOf(S) /\ T # {} BY FS_Subset DEF FiniteSubsetsOf
<1>2. PICK u \in T : \A v \in T : <<v, u>> \notin StrictSubsetOrdering(S)
    <2> HIDE DEF T
    <2> QED BY <1>1, FS_StrictSubsetOrderingWellFounded, WFMin, Zenon
<1>3. u \in SUBSET S /\ u # {} /\ u \notin D OBVIOUS
<1>4. PICK x \in u : u \ {x} \notin D BY <1>3
<1>5. u \ {x} \in T BY <1>3, <1>4
<1>6. <<u \ {x}, u>> \in StrictSubsetOrdering(S) BY <1>3, <1>4, <1>5 DEF StrictSubsetOrdering
<1> QED BY <1>2, <1>5, <1>6

\* The trades T in the order of their times.
Listing(q, T) ==
    /\ q \in [1..Cardinality(T) -> T]
    /\ \A i, j \in DOMAIN q : q[i] = q[j] => i = j
    /\ \A i, j \in DOMAIN q : i < j => q[i].at <= q[j].at

\* A trade no earlier than any other.
LEMMA LatestTrade ==
    ASSUME NEW T, Timed(T), T # {}
    PROVE  \E x \in T : \A y \in T : y.at <= x.at
<1> DEFINE f == [x \in T |-> x.at]
           A == {x.at : x \in T}
<1>1. f \in Surjection(T, A) BY DEF Surjection
<1>2. IsFiniteSet(A) BY <1>1, FS_Surjection DEF Timed
<1>3. A \in SUBSET Nat /\ A # {} BY DEF Timed
<1>4. PICK a \in A : \A b \in A : b <= a
    <2> HIDE DEF A
    <2> QED BY <1>2, <1>3, GreatestExists
<1> QED BY <1>4

LEMMA ListingExists == ASSUME NEW T, Timed(T) PROVE \E q : Listing(q, T)
<1> DEFINE D == {s \in SUBSET T : \E q : Listing(q, s)}
<1>1. {} \in D
    <2> DEFINE q == [i \in 1..0 |-> 0]
    <2>1. Cardinality({}) = 0 BY FS_EmptySet
    <2>2. DOMAIN q = {} /\ q \in [1..Cardinality({}) -> {}] BY <2>1
    <2>3. Listing(q, {}) BY <2>2 DEF Listing
    <2> QED BY <2>3
<1>2. ASSUME NEW s \in SUBSET T, s # {}, \A x \in s : s \ {x} \in D PROVE s \in D
    <2>1. Timed(s) BY FS_Subset DEF Timed
    <2>2. PICK x \in s : \A y \in s : y.at <= x.at BY <1>2, <2>1, LatestTrade
    <2>3. PICK p : Listing(p, s \ {x}) BY <1>2
    <2>4. PICK n \in Nat : n = Cardinality(s \ {x}) /\ Cardinality(s) = n + 1
        <3>1. IsFiniteSet(s) BY <2>1 DEF Timed
        <3>2. Cardinality(s) \in Nat /\ IsFiniteSet(s \ {x}) /\ Cardinality(s \ {x}) = Cardinality(s) - 1
            BY <3>1, FS_CardinalityType, FS_RemoveElement
        <3>3. Cardinality(s \ {x}) \in Nat BY <3>2, FS_CardinalityType
        <3> QED BY <3>2, <3>3
    <2>5. /\ p \in [1..n -> s \ {x}]
          /\ \A i, j \in 1..n : p[i] = p[j] => i = j
          /\ \A i, j \in 1..n : i < j => p[i].at <= p[j].at
        BY <2>3, <2>4 DEF Listing
    <2> DEFINE q == [i \in 1..(n + 1) |-> IF i = n + 1 THEN x ELSE p[i]]
    <2>6. q[n + 1] = x /\ \A i \in 1..n : q[i] = p[i] /\ q[i] \in s \ {x} BY <2>5
    <2>7. \A i \in 1..(n + 1) : i \in 1..n \/ i = n + 1 OBVIOUS
    <2>8. q \in [1..(n + 1) -> s] BY <2>5
    <2> HIDE DEF q
    <2>9. \A i, j \in 1..(n + 1) : q[i] = q[j] => i = j BY <2>5, <2>6, <2>7
    <2>10. ASSUME NEW i \in 1..(n + 1), NEW j \in 1..(n + 1), i < j PROVE q[i].at <= q[j].at
        <3>1. i \in 1..n BY <2>10
        <3>2. CASE j = n + 1 BY <2>2, <2>6, <3>1, <3>2
        <3>3. CASE j \in 1..n BY <2>5, <2>6, <2>10, <3>1, <3>3
        <3> QED BY <2>7, <3>2, <3>3
    <2>11. Listing(q, s) BY <2>4, <2>8, <2>9, <2>10 DEF Listing
    <2> QED BY <2>11
<1>3. SUBSET T \subseteq D
    <2> HIDE DEF D
    <2> QED BY <1>1, <1>2, SubsetInduction DEF Timed
<1> QED BY <1>3

\* A listing has each trade.
LEMMA ListingIsOnto ==
    ASSUME NEW T, Timed(T), NEW q, Listing(q, T)
    PROVE  \A x \in T : \E i \in 1..Cardinality(T) : q[i] = x
<1>1. Cardinality(T) \in Nat /\ IsFiniteSet(T) BY FS_CardinalityType DEF Timed
<1>2. q \in Injection(1..Cardinality(T), T) BY DEF Listing, Injection, IsInjective
<1>3. Cardinality(1..Cardinality(T)) = Cardinality(T) BY <1>1, FS_Interval
<1>4. q \in Surjection(1..Cardinality(T), T) BY <1>1, <1>2, <1>3, FS_Injection
<1> QED BY <1>4 DEF Surjection

\* The trades in order are a listing.
LEMMA OrderedIsListing ==
    ASSUME NEW T, Timed(T)
    PROVE  /\ Cardinality(T) \in Nat /\ Len(Ordered(T)) = Cardinality(T)
           /\ Listing(Ordered(T), T)
<1>1. Cardinality(T) \in Nat BY FS_CardinalityType DEF Timed
<1>2. Listing(Ordered(T), T) BY ListingExists DEF Listing, Ordered
<1>3. PICK q : q = Ordered(T) OBVIOUS
<1>4. q \in [1..Cardinality(T) -> T] BY <1>2, <1>3 DEF Listing
<1>5. Len(q) = Cardinality(T) BY <1>1, <1>4
<1> QED BY <1>1, <1>2, <1>3, <1>5

-----------------------------------------------------------------------------
\* Holdings: the pairs of a buy and a later sell.

PairsOf(T) ==
    {P \in SUBSET (OnSide(T, "buy") \X OnSide(T, "sell")) :
        /\ \A p \in P : p[1].at < p[2].at
        /\ \A p, r \in P : p # r => p[1] # r[1] /\ p[2] # r[2]}

\* A sell closes the oldest open buy.
Closing(q, k, s) ==
    IF q[k].side = "buy" THEN [s EXCEPT !.open = Append(@, q[k].at)]
    ELSE IF s.open = <<>> \/ Head(s.open) >= q[k].at THEN s
    ELSE [open |-> Tail(s.open), held |-> Append(s.held, q[k].at - Head(s.open))]

Upto(q, k, side) == {q[i] : i \in {i \in 1..k : q[i].side = side}}

\* After k trades: the buys o are open, oldest first, the pairs P are closed,
\* one for each holding, and no pairing of these trades has more.
Tracked(q, T, k, s, o, P) ==
    /\ o \in Seq(Upto(q, k, "buy"))
    /\ s \in [open : Seq(Nat), held : Seq(Nat \ {0})]
    /\ Len(s.open) = Len(o) /\ \A i \in 1..Len(o) : s.open[i] = o[i].at
    /\ \A i, j \in 1..Len(o) : i < j => o[i] # o[j] /\ o[i].at <= o[j].at
    /\ P \in PairsOf(T) /\ IsFiniteSet(P) /\ Cardinality(P) = Len(s.held)
    /\ \A p \in P : p[2] \in Upto(q, k, "sell") /\ \A i \in 1..Len(o) : o[i] # p[1]
    /\ \A b \in Upto(q, k, "buy") : (\E i \in 1..Len(o) : o[i] = b) \/ (\E p \in P : p[1] = b)
    /\ \A R \in PairsOf(T) : (\A r \in R : r[2] \in Upto(q, k, "sell")) => Cardinality(R) <= Len(s.held)

\* No buy and no sell is in two pairs.
LEMMA PairingIsFinite ==
    ASSUME NEW T, Timed(T), NEW R \in PairsOf(T)
    PROVE  IsFiniteSet(R) /\ Cardinality(R) \in Nat
<1> DEFINE f == [r \in R |-> r[1]]
<1>1. \A r \in R : r \in T \X T /\ r[1] \in T BY DEF PairsOf, OnSide
<1>2. \A r, p \in R : f[r] = f[p] => r = p BY DEF PairsOf
<1>3. f \in [R -> T] BY <1>1
<1> HIDE DEF f
<1>4. f \in Injection(R, T) BY <1>2, <1>3 DEF Injection, IsInjective
<1>5. IsFiniteSet(R) BY <1>4, FS_Injection DEF Timed
<1> QED BY <1>5, FS_CardinalityType

\* What is listed up to a trade, and what it adds.
LEMMA UptoNext ==
    ASSUME NEW T, Timed(T), NEW q, Listing(q, T), Cardinality(T) \in Nat,
           NEW k \in 1..Cardinality(T)
    PROVE  /\ q[k] \in T /\ q[k].at \in Nat
           /\ \A side : Upto(q, k, side) = Upto(q, k - 1, side) \cup (IF q[k].side = side THEN {q[k]} ELSE {})
           /\ \A side : Upto(q, k - 1, side) \subseteq {x \in T : x.side = side /\ x.at <= q[k].at /\ x # q[k]}
           /\ \A x \in T : x.at < q[k].at => \E i \in 1..(k - 1) : q[i] = x
<1> DEFINE n == Cardinality(T)
<1>1. /\ q \in [1..n -> T]
      /\ \A i, j \in 1..n : q[i] = q[j] => i = j
      /\ \A i, j \in 1..n : i < j => q[i].at <= q[j].at
    BY DEF Listing
<1>2. \A i \in 1..n : q[i] \in T /\ q[i].at \in Nat BY <1>1 DEF Timed
<1>3. ASSUME NEW side
      PROVE Upto(q, k, side) = Upto(q, k - 1, side) \cup (IF q[k].side = side THEN {q[k]} ELSE {})
    <2>1. \A i \in 1..k : i \in 1..(k - 1) \/ i = k OBVIOUS
    <2>2. \A i \in 1..(k - 1) : i \in 1..k OBVIOUS
    <2>3. k \in 1..k OBVIOUS
    <2> QED BY <2>1, <2>2, <2>3 DEF Upto
<1>4. ASSUME NEW side, NEW x \in Upto(q, k - 1, side)
      PROVE  x \in T /\ x.side = side /\ x.at <= q[k].at /\ x # q[k]
    <2>1. PICK i \in 1..(k - 1) : x = q[i] /\ q[i].side = side BY DEF Upto
    <2>2. i \in 1..n /\ i < k BY <2>1
    <2> QED BY <1>1, <1>2, <2>1, <2>2
<1>5. ASSUME NEW x \in T, x.at < q[k].at PROVE \E i \in 1..(k - 1) : q[i] = x
    <2>1. PICK i \in 1..n : q[i] = x BY ListingIsOnto
    <2>2. ~(k <= i)
        <3>1. i # k BY <1>2, <1>5, <2>1
        <3>2. ASSUME k < i PROVE FALSE
            <4>1. q[k].at <= q[i].at BY <1>1, <3>2
            <4> QED BY <1>2, <1>5, <2>1, <4>1
        <3> QED BY <3>1, <3>2
    <2> QED BY <2>1, <2>2
<1> QED BY <1>2, <1>3, <1>4, <1>5

LEMMA NextBuy ==
    ASSUME NEW T, Timed(T), NEW q, Listing(q, T), Cardinality(T) \in Nat,
           NEW k \in 1..Cardinality(T), q[k].side = "buy"
    PROVE  /\ Upto(q, k, "buy") = Upto(q, k - 1, "buy") \cup {q[k]}
           /\ Upto(q, k, "sell") = Upto(q, k - 1, "sell")
<1>1. \A side : Upto(q, k, side) = Upto(q, k - 1, side) \cup (IF q[k].side = side THEN {q[k]} ELSE {})
    BY UptoNext
<1>2. Upto(q, k, "sell") = Upto(q, k - 1, "sell") \cup (IF q[k].side = "sell" THEN {q[k]} ELSE {})
    BY <1>1
<1>3. q[k].side # "sell" OBVIOUS
<1> QED BY <1>1, <1>2, <1>3

LEMMA NextSell ==
    ASSUME NEW T, Timed(T), NEW q, Listing(q, T), Cardinality(T) \in Nat,
           NEW k \in 1..Cardinality(T), q[k].side = "sell"
    PROVE  /\ Upto(q, k, "buy") = Upto(q, k - 1, "buy")
           /\ Upto(q, k, "sell") = Upto(q, k - 1, "sell") \cup {q[k]}
<1>1. \A side : Upto(q, k, side) = Upto(q, k - 1, side) \cup (IF q[k].side = side THEN {q[k]} ELSE {})
    BY UptoNext
<1>2. Upto(q, k, "buy") = Upto(q, k - 1, "buy") \cup (IF q[k].side = "buy" THEN {q[k]} ELSE {})
    BY <1>1
<1>3. q[k].side # "buy" OBVIOUS
<1> QED BY <1>1, <1>2, <1>3

\* A buy is opened.
LEMMA TrackedBuy ==
    ASSUME NEW T, Timed(T), NEW q, Listing(q, T), Cardinality(T) \in Nat,
           NEW k \in 1..Cardinality(T), q[k].side = "buy",
           NEW s, NEW o, NEW P, Tracked(q, T, k - 1, s, o, P)
    PROVE  Tracked(q, T, k, Closing(q, k, s), Append(o, q[k]), P)
<1>1. /\ q[k] \in T /\ q[k].at \in Nat
      /\ Upto(q, k, "buy") = Upto(q, k - 1, "buy") \cup {q[k]}
      /\ Upto(q, k, "sell") = Upto(q, k - 1, "sell")
      /\ \A x \in Upto(q, k - 1, "buy") : x \in T /\ x.at <= q[k].at /\ x # q[k]
    BY NextBuy, UptoNext
<1>2. PICK open \in Seq(Nat), held \in Seq(Nat \ {0}) :
         /\ s = [open |-> open, held |-> held] /\ s.open = open /\ s.held = held
    BY DEF Tracked
<1>3. PICK t : t = Closing(q, k, s) OBVIOUS
<1>4. /\ t = [open |-> Append(open, q[k].at), held |-> held]
      /\ t.open = Append(open, q[k].at) /\ t.held = held
    BY <1>2, <1>3 DEF Closing
<1>5. PICK u : u = Append(o, q[k]) OBVIOUS
<1>6. /\ o \in Seq(Upto(q, k - 1, "buy")) /\ Len(open) = Len(o)
      /\ \A i \in 1..Len(o) : open[i] = o[i].at
      /\ \A i, j \in 1..Len(o) : i < j => o[i] # o[j] /\ o[i].at <= o[j].at
    BY <1>2 DEF Tracked
<1>7. \A i \in 1..Len(o) : o[i] \in Upto(q, k - 1, "buy") BY <1>6
<1>8. /\ u \in Seq(Upto(q, k, "buy")) /\ Len(u) = Len(o) + 1 /\ Len(o) \in Nat
      /\ u[Len(o) + 1] = q[k] /\ \A i \in 1..Len(o) : u[i] = o[i]
    BY <1>1, <1>5, <1>6
<1>9. /\ t.open \in Seq(Nat) /\ Len(t.open) = Len(u)
      /\ \A i \in 1..Len(u) : t.open[i] = u[i].at
    <2>1. t.open \in Seq(Nat) /\ Len(t.open) = Len(u) BY <1>1, <1>4, <1>6, <1>8
    <2>2. ASSUME NEW i \in 1..Len(u) PROVE t.open[i] = u[i].at
        <3>1. CASE i \in 1..Len(o) BY <1>1, <1>4, <1>6, <1>8, <3>1
        <3>2. CASE i = Len(o) + 1 BY <1>1, <1>4, <1>6, <1>8, <3>2
        <3> QED BY <1>8, <3>1, <3>2
    <2> QED BY <2>1, <2>2
<1>10. ASSUME NEW i \in 1..Len(u), NEW j \in 1..Len(u), i < j PROVE u[i] # u[j] /\ u[i].at <= u[j].at
    <2>1. i \in 1..Len(o) /\ (j \in 1..Len(o) \/ j = Len(o) + 1) BY <1>8, <1>10
    <2>2. CASE j \in 1..Len(o) BY <1>6, <1>8, <1>10, <2>1, <2>2
    <2>3. CASE j = Len(o) + 1 BY <1>1, <1>7, <1>8, <2>1, <2>3
    <2> QED BY <2>1, <2>2, <2>3
<1>11. ASSUME NEW p \in P
       PROVE  p[2] \in Upto(q, k, "sell") /\ \A i \in 1..Len(u) : u[i] # p[1]
    <2>1. p[2] \in Upto(q, k - 1, "sell") /\ (\A i \in 1..Len(o) : o[i] # p[1]) BY DEF Tracked
    <2>2. q[k] # p[1]
        <3>1. p[1].at < p[2].at /\ p[1] \in T /\ p[2] \in T BY DEF Tracked, PairsOf, OnSide
        <3>2. p[2].at <= q[k].at BY <2>1, UptoNext
        <3> QED BY <3>1, <3>2 DEF Timed
    <2>3. \A i \in 1..Len(u) : i \in 1..Len(o) \/ i = Len(o) + 1 BY <1>8
    <2> QED BY <1>1, <1>8, <2>1, <2>2, <2>3
<1>12. ASSUME NEW b \in Upto(q, k, "buy")
       PROVE  (\E i \in 1..Len(u) : u[i] = b) \/ (\E p \in P : p[1] = b)
    <2>1. CASE b = q[k]
        <3>1. Len(o) + 1 \in 1..Len(u) BY <1>8
        <3> QED BY <1>8, <2>1, <3>1
    <2>2. CASE b \in Upto(q, k - 1, "buy")
        <3>1. (\E i \in 1..Len(o) : o[i] = b) \/ (\E p \in P : p[1] = b) BY <2>2 DEF Tracked
        <3>2. \A i \in 1..Len(o) : i \in 1..Len(u) BY <1>8
        <3> QED BY <1>8, <3>1, <3>2
    <2> QED BY <1>1, <2>1, <2>2
<1>13. /\ P \in PairsOf(T) /\ IsFiniteSet(P) /\ Cardinality(P) = Len(t.held)
       /\ \A R \in PairsOf(T) : (\A r \in R : r[2] \in Upto(q, k, "sell")) => Cardinality(R) <= Len(t.held)
    BY <1>1, <1>2, <1>4 DEF Tracked
<1>14. t \in [open : Seq(Nat), held : Seq(Nat \ {0})] BY <1>4, <1>9
<1> QED BY <1>3, <1>5, <1>8, <1>9, <1>10, <1>11, <1>12, <1>13, <1>14 DEF Tracked

\* A sell closes the oldest open buy.
LEMMA TrackedSell ==
    ASSUME NEW T, Timed(T), NEW q, Listing(q, T), Cardinality(T) \in Nat,
           NEW k \in 1..Cardinality(T), q[k].side = "sell",
           NEW s, NEW o, NEW P, Tracked(q, T, k - 1, s, o, P),
           s.open # <<>>, Head(s.open) < q[k].at
    PROVE  Tracked(q, T, k, Closing(q, k, s), Tail(o), P \cup {<<Head(o), q[k]>>})
<1>1. /\ q[k] \in T /\ q[k].at \in Nat
      /\ Upto(q, k, "buy") = Upto(q, k - 1, "buy")
      /\ Upto(q, k, "sell") = Upto(q, k - 1, "sell") \cup {q[k]}
      /\ \A x \in Upto(q, k - 1, "buy") : x \in T /\ x.side = "buy"
      /\ \A x \in Upto(q, k - 1, "sell") : x # q[k]
    BY NextSell, UptoNext
<1>2. PICK open \in Seq(Nat), held \in Seq(Nat \ {0}) :
         /\ s = [open |-> open, held |-> held] /\ s.open = open /\ s.held = held
    BY DEF Tracked
<1>3. PICK t : t = Closing(q, k, s) OBVIOUS
<1>4. open # <<>> /\ Head(open) < q[k].at /\ Head(open) \in Nat BY <1>2
<1>5. /\ t = [open |-> Tail(open), held |-> Append(held, q[k].at - Head(open))]
      /\ t.open = Tail(open) /\ t.held = Append(held, q[k].at - Head(open))
    <2>1. ~(Head(open) >= q[k].at) BY <1>1, <1>4
    <2> QED BY <1>2, <1>3, <1>4, <2>1 DEF Closing
<1>6. /\ o \in Seq(Upto(q, k - 1, "buy")) /\ Len(open) = Len(o)
      /\ \A i \in 1..Len(o) : open[i] = o[i].at
      /\ \A i, j \in 1..Len(o) : i < j => o[i] # o[j] /\ o[i].at <= o[j].at
    BY <1>2 DEF Tracked
<1>7. PICK b, u : b = Head(o) /\ u = Tail(o) OBVIOUS
<1>8. /\ Len(o) \in Nat \ {0} /\ b = o[1] /\ b \in Upto(q, k - 1, "buy") /\ b.at = Head(open)
      /\ u \in Seq(Upto(q, k, "buy")) /\ Len(u) = Len(o) - 1
      /\ \A i \in 1..Len(u) : u[i] = o[i + 1] /\ i + 1 \in 1..Len(o)
    BY <1>1, <1>4, <1>6, <1>7
<1>9. /\ t.open \in Seq(Nat) /\ Len(t.open) = Len(u)
      /\ \A i \in 1..Len(u) : t.open[i] = u[i].at
    <2>1. t.open \in Seq(Nat) /\ Len(t.open) = Len(open) - 1
          /\ \A i \in 1..Len(t.open) : t.open[i] = open[i + 1]
        BY <1>4, <1>5
    <2>2. Len(t.open) = Len(u) BY <1>6, <1>8, <2>1
    <2>3. ASSUME NEW i \in 1..Len(u) PROVE t.open[i] = u[i].at
        <3>1. t.open[i] = open[i + 1] BY <2>1, <2>2
        <3>2. u[i] = o[i + 1] /\ i + 1 \in 1..Len(o) BY <1>8
        <3> QED BY <1>6, <3>1, <3>2
    <2> QED BY <2>1, <2>2, <2>3
<1>10. ASSUME NEW i \in 1..Len(u), NEW j \in 1..Len(u), i < j PROVE u[i] # u[j] /\ u[i].at <= u[j].at
    <2>1. u[i] = o[i + 1] /\ i + 1 \in 1..Len(o) /\ u[j] = o[j + 1] /\ j + 1 \in 1..Len(o) BY <1>8
    <2>2. i + 1 < j + 1 BY <1>10
    <2> QED BY <1>6, <2>1, <2>2
<1>11. PICK Q : Q = P \cup {<<b, q[k]>>} OBVIOUS
<1>12. \A p \in P : /\ p[2] \in Upto(q, k - 1, "sell") /\ p[2] # q[k] /\ p[1] # b
                    /\ \A i \in 1..Len(u) : u[i] # p[1]
    <2>1. \A p \in P : p[2] \in Upto(q, k - 1, "sell") /\ \A i \in 1..Len(o) : o[i] # p[1]
        BY DEF Tracked
    <2>2. 1 \in 1..Len(o) BY <1>8
    <2> QED BY <1>1, <1>8, <2>1, <2>2
<1>13. Q \in PairsOf(T)
    <2>1. <<b, q[k]>> \in OnSide(T, "buy") \X OnSide(T, "sell") BY <1>1, <1>8 DEF OnSide
    <2>2. b.at < q[k].at BY <1>4, <1>8
    <2>3. P \in PairsOf(T) BY DEF Tracked
    <2>4. Q \subseteq OnSide(T, "buy") \X OnSide(T, "sell") BY <1>11, <2>1, <2>3 DEF PairsOf
    <2>5. \A p \in Q : p[1].at < p[2].at BY <1>11, <2>2, <2>3 DEF PairsOf
    <2>6. ASSUME NEW p \in Q, NEW r \in Q, p # r PROVE p[1] # r[1] /\ p[2] # r[2]
        <3>1. <<b, q[k]>>[1] = b /\ <<b, q[k]>>[2] = q[k] OBVIOUS
        <3>2. CASE p \in P /\ r \in P BY <2>3, <2>6, <3>2 DEF PairsOf
        <3>3. CASE p \in P /\ r = <<b, q[k]>> BY <1>12, <3>1, <3>3
        <3>4. CASE p = <<b, q[k]>> /\ r \in P BY <1>12, <3>1, <3>4
        <3> QED BY <1>11, <2>6, <3>2, <3>3, <3>4
    <2> QED BY <2>4, <2>5, <2>6 DEF PairsOf
<1>14. IsFiniteSet(Q) /\ Cardinality(Q) = Len(held) + 1 /\ Len(t.held) = Len(held) + 1
    <2>1. <<b, q[k]>> \notin P BY <1>12
    <2>2. IsFiniteSet(P) /\ Cardinality(P) = Len(held) BY <1>2 DEF Tracked
    <2>3. Len(t.held) = Len(held) + 1 BY <1>5
    <2> QED BY <1>11, <2>1, <2>2, <2>3, FS_AddElement
<1>15. t \in [open : Seq(Nat), held : Seq(Nat \ {0})]
    <2>1. q[k].at - Head(open) \in Nat \ {0} BY <1>1, <1>4
    <2>2. t.held \in Seq(Nat \ {0}) BY <1>5, <2>1
    <2> QED BY <1>5, <1>9, <2>2
<1>16. \A p \in Q : p[2] \in Upto(q, k, "sell") /\ \A i \in 1..Len(u) : u[i] # p[1]
    <2>1. \A i \in 1..Len(u) : u[i] # b BY <1>6, <1>8
    <2> QED BY <1>1, <1>11, <1>12, <2>1
<1>17. ASSUME NEW c \in Upto(q, k, "buy")
       PROVE  (\E i \in 1..Len(u) : u[i] = c) \/ (\E p \in Q : p[1] = c)
    <2>1. (\E i \in 1..Len(o) : o[i] = c) \/ (\E p \in P : p[1] = c) BY <1>1 DEF Tracked
    <2>2. ASSUME NEW i \in 1..Len(o), o[i] = c, i # 1 PROVE \E j \in 1..Len(u) : u[j] = c
        <3>1. i - 1 \in 1..Len(u) /\ (i - 1) + 1 = i BY <1>8, <2>2
        <3> QED BY <1>8, <2>2, <3>1
    <2>3. \E p \in Q : p[1] = b
        <3>1. <<b, q[k]>> \in Q /\ <<b, q[k]>>[1] = b BY <1>11
        <3> QED BY <3>1
    <2>4. P \subseteq Q BY <1>11
    <2>5. CASE \E p \in P : p[1] = c BY <2>4, <2>5
    <2>6. CASE \E i \in 1..Len(o) : o[i] = c
        <3>1. PICK i \in 1..Len(o) : o[i] = c BY <2>6
        <3>2. CASE i = 1 BY <1>8, <2>3, <3>1, <3>2
        <3>3. CASE i # 1 BY <2>2, <3>1, <3>3
        <3> QED BY <3>2, <3>3
    <2> QED BY <2>1, <2>5, <2>6
<1>18. ASSUME NEW R \in PairsOf(T), \A r \in R : r[2] \in Upto(q, k, "sell")
       PROVE  Cardinality(R) <= Len(t.held)
    <2> DEFINE R0 == {r \in R : r[2] # q[k]}
    <2>1. R0 \in PairsOf(T) /\ \A r \in R0 : r[2] \in Upto(q, k - 1, "sell")
        BY <1>1, <1>18 DEF PairsOf
    <2>2. Cardinality(R0) <= Len(held) BY <1>2, <2>1 DEF Tracked
    <2>3. IsFiniteSet(R) /\ Cardinality(R) \in Nat /\ IsFiniteSet(R0) /\ Cardinality(R0) \in Nat
        BY <2>1, PairingIsFinite
    <2> HIDE DEF R0
    <2>0. Len(held) \in Nat /\ Len(t.held) = Len(held) + 1 BY <1>2, <1>14
    <2>4. CASE R0 = R BY <2>0, <2>2, <2>3, <2>4
    <2>5. CASE R0 # R
        <3>1. PICK r \in R : r[2] = q[k] BY <2>5 DEF R0
        <3>2. \A p \in R : p # r => p[2] # q[k] BY <3>1 DEF PairsOf
        <3>3. R = R0 \cup {r} /\ r \notin R0 BY <3>1, <3>2 DEF R0
        <3>4. Cardinality(R) = Cardinality(R0) + 1 BY <2>3, <3>3, FS_AddElement
        <3> QED BY <2>0, <2>2, <2>3, <3>4
    <2> QED BY <2>4, <2>5
<1>19. Cardinality(Q) = Len(t.held) /\ u \in Seq(Upto(q, k, "buy")) BY <1>8, <1>14
<1>20. Tracked(q, T, k, t, u, Q)
    BY <1>9, <1>10, <1>13, <1>14, <1>15, <1>16, <1>17, <1>18, <1>19 DEF Tracked
<1> QED BY <1>3, <1>7, <1>11, <1>20

\* A sell with no open buy that is earlier: every earlier buy is in a pair.
LEMMA TrackedIdle ==
    ASSUME NEW T, Timed(T), NEW q, Listing(q, T), Cardinality(T) \in Nat,
           NEW k \in 1..Cardinality(T), q[k].side = "sell",
           NEW s, NEW o, NEW P, Tracked(q, T, k - 1, s, o, P),
           s.open = <<>> \/ Head(s.open) >= q[k].at
    PROVE  Tracked(q, T, k, Closing(q, k, s), o, P)
<1>1. /\ q[k] \in T /\ q[k].at \in Nat
      /\ Upto(q, k, "buy") = Upto(q, k - 1, "buy")
      /\ Upto(q, k, "sell") = Upto(q, k - 1, "sell") \cup {q[k]}
    BY NextSell, UptoNext
<1>2. Closing(q, k, s) = s BY DEF Closing
<1>3. /\ o \in Seq(Upto(q, k - 1, "buy")) /\ s.open \in Seq(Nat) /\ Len(s.open) = Len(o)
      /\ \A i \in 1..Len(o) : s.open[i] = o[i].at
      /\ \A i, j \in 1..Len(o) : i < j => o[i] # o[j] /\ o[i].at <= o[j].at
    BY DEF Tracked
<1>4. ASSUME NEW i \in 1..Len(o) PROVE o[i].at >= q[k].at
    <2>1. s.open # <<>> /\ Head(s.open) = s.open[1] /\ 1 \in 1..Len(o) BY <1>3
    <2>2. o[1].at >= q[k].at BY <1>3, <2>1
    <2>3. o[1].at <= o[i].at /\ o[1].at \in Nat /\ o[i].at \in Nat BY <1>3, <2>1
    <2> QED BY <1>1, <2>2, <2>3
<1>5. ASSUME NEW R \in PairsOf(T), \A r \in R : r[2] \in Upto(q, k, "sell")
      PROVE  Cardinality(R) <= Len(s.held)
    <2>1. ASSUME NEW r \in R PROVE \E p \in P : p[1] = r[1]
        <3>1. r[1] \in T /\ r[1].side = "buy" /\ r[2] \in T /\ r[1].at < r[2].at BY DEF PairsOf, OnSide
        <3>2. r[2].at <= q[k].at
            <4>1. CASE r[2] = q[k] BY <1>1, <4>1
            <4>2. CASE r[2] \in Upto(q, k - 1, "sell") BY <4>2, UptoNext
            <4> QED BY <1>1, <1>5, <4>1, <4>2
        <3>3. r[1].at < q[k].at BY <1>1, <3>1, <3>2 DEF Timed
        <3>4. r[1] \in Upto(q, k - 1, "buy")
            <4>1. PICK i \in 1..(k - 1) : q[i] = r[1] BY <3>1, <3>3, UptoNext
            <4> QED BY <3>1, <4>1 DEF Upto
        <3>5. (\E i \in 1..Len(o) : o[i] = r[1]) \/ (\E p \in P : p[1] = r[1]) BY <3>4 DEF Tracked
        <3>6. \A i \in 1..Len(o) : o[i] # r[1] BY <1>1, <1>4, <3>1, <3>3 DEF Timed
        <3> QED BY <3>5, <3>6
    <2> DEFINE f == [r \in R |-> CHOOSE p \in P : p[1] = r[1]]
    <2>2. \A r \in R : f[r] \in P /\ f[r][1] = r[1] BY <2>1
    <2>3. f \in [R -> P] BY <2>2
    <2>4. \A r, p \in R : r[1] = p[1] => r = p BY DEF PairsOf
    <2> HIDE DEF f
    <2>5. ASSUME NEW r \in R, NEW p \in R, f[r] = f[p] PROVE r = p
        <3>1. f[r][1] = r[1] /\ f[p][1] = p[1] BY <2>2
        <3> QED BY <2>4, <2>5, <3>1
    <2>6. f \in Injection(R, P) BY <2>3, <2>5 DEF Injection, IsInjective
    <2>7. IsFiniteSet(P) /\ Cardinality(P) = Len(s.held) BY DEF Tracked
    <2> QED BY <2>6, <2>7, FS_Injection
<1>6. \A p \in P : p[2] \in Upto(q, k, "sell") BY <1>1 DEF Tracked
<1> QED BY <1>1, <1>2, <1>5, <1>6 DEF Tracked

Holdings == [open : Seq(Nat), held : Seq(Nat \ {0})]

LEMMA ClosingType ==
    ASSUME NEW q, NEW k, q[k].at \in Nat, NEW s \in Holdings
    PROVE  Closing(q, k, s) \in Holdings
<1>1. PICK open \in Seq(Nat), held \in Seq(Nat \ {0}) :
         /\ s = [open |-> open, held |-> held] /\ s.open = open /\ s.held = held
    BY DEF Holdings
<1>2. CASE q[k].side = "buy"
    <2>1. Closing(q, k, s) = [open |-> Append(open, q[k].at), held |-> held] BY <1>1, <1>2 DEF Closing
    <2>2. Append(open, q[k].at) \in Seq(Nat) OBVIOUS
    <2> QED BY <2>1, <2>2 DEF Holdings
<1>3. CASE q[k].side # "buy" /\ (open = <<>> \/ Head(open) >= q[k].at)
    <2>1. Closing(q, k, s) = s BY <1>1, <1>3 DEF Closing
    <2> QED BY <2>1
<1>4. CASE q[k].side # "buy" /\ ~(open = <<>> \/ Head(open) >= q[k].at)
    <2>1. Closing(q, k, s) = [open |-> Tail(open), held |-> Append(held, q[k].at - Head(open))]
        BY <1>1, <1>4 DEF Closing
    <2>2. Head(open) \in Nat /\ Tail(open) \in Seq(Nat) BY <1>4
    <2>3. q[k].at - Head(open) \in Nat \ {0} BY <1>4, <2>2
    <2>4. Append(held, q[k].at - Head(open)) \in Seq(Nat \ {0}) BY <2>3
    <2> QED BY <2>1, <2>2, <2>4 DEF Holdings
<1> QED BY <1>2, <1>3, <1>4

\* The states of the pairing, trade after trade.
LEMMA HoldingRun ==
    ASSUME NEW S, NEW a, NEW T, T = Of(S, a), Timed(T), NEW q, q = Ordered(T),
           NEW n \in Nat, n = Cardinality(T)
    PROVE  \E f \in [0..n -> Holdings] :
               /\ f[0] = [open |-> <<>>, held |-> <<>>]
               /\ \A k \in 1..n : f[k] = Closing(q, k, f[k - 1])
               /\ HoldingDurations(S, a) = f[n].held
<1>1. Listing(q, T) /\ Len(q) = n BY OrderedIsListing
<1>2. \A k \in 1..n : q[k].at \in Nat BY <1>1, UptoNext
<1> DEFINE start == [open |-> <<>>, held |-> <<>>]
           F == [k \in 1..n |-> [s \in Holdings |-> Closing(q, k, s)]]
<1>3. start \in Holdings BY DEF Holdings
<1>4. F \in [1..n -> [Holdings -> Holdings]] BY <1>2, ClosingType
<1>5. \A k \in 1..n, s \in Holdings : F[k][s] = Closing(q, k, s) OBVIOUS
<1>6. PICK f : Run(n, Holdings, start, F, f)
    <2> HIDE DEF F, start
    <2> QED BY <1>3, <1>4, RunExists
<1>7. f \in [0..n -> Holdings] /\ f[0] = start BY <1>6 DEF Run
<1>8. ASSUME NEW k \in 1..n PROVE f[k] = Closing(q, k, f[k - 1])
    <2>1. k - 1 \in 0..n OBVIOUS
    <2>2. f[k - 1] \in Holdings BY <1>7, <2>1
    <2> HIDE DEF F
    <2> QED BY <1>5, <1>6, <2>2 DEF Run
<1> DEFINE Rec(step) == step =
        [k \in 0..Len(q) |->
            IF k = 0 THEN [open |-> <<>>, held |-> <<>>]
            ELSE LET s == step[k - 1]
                     at == q[k].at
                 IN IF q[k].side = "buy" THEN [s EXCEPT !.open = Append(@, at)]
                    ELSE IF s.open = <<>> \/ Head(s.open) >= at THEN s
                    ELSE [open |-> Tail(s.open), held |-> Append(s.held, at - Head(s.open))]]
        g == CHOOSE step : Rec(step)
<1>9. \A step : Rec(step) <=>
          step = [k \in 0..n |-> IF k = 0 THEN start ELSE Closing(q, k, step[k - 1])]
    BY <1>1 DEF Closing
<1>10. HoldingDurations(S, a) = g[n].held BY <1>1 DEF HoldingDurations
<1> HIDE DEF Rec, start, F
<1>11. Rec(f)
    <2>1. \A k \in 0..n : f[k] = IF k = 0 THEN start ELSE Closing(q, k, f[k - 1]) BY <1>7, <1>8
    <2>2. f = [k \in 0..n |-> f[k]] BY <1>7
    <2>3. f = [k \in 0..n |-> IF k = 0 THEN start ELSE Closing(q, k, f[k - 1])] BY <2>1, <2>2
    <2> QED BY <1>9, <2>3
<1>12. Rec(g) BY <1>11
<1> HIDE DEF g
<1>13. g = [k \in 0..n |-> IF k = 0 THEN start ELSE Closing(q, k, g[k - 1])] BY <1>9, <1>12
<1>14. \A k \in 0..n : g[k] = IF k = 0 THEN start ELSE Closing(q, k, g[k - 1]) BY <1>13, Zenon
<1> DEFINE I == {k \in Nat : k <= n => g[k] = f[k]}
<1>15. 0 \in I BY <1>7, <1>14
<1>16. ASSUME NEW k \in I \cap Nat PROVE k + 1 \in I
    <2> SUFFICES ASSUME k + 1 <= n PROVE g[k + 1] = f[k + 1] OBVIOUS
    <2>1. g[k] = f[k] /\ (k + 1) - 1 = k /\ k + 1 \in 1..n /\ k + 1 # 0 BY <1>16
    <2> QED BY <1>8, <1>14, <2>1
<1>17. n \in I BY <1>15, <1>16, Successors
<1>18. HoldingDurations(S, a) = f[n].held BY <1>10, <1>17
<1> QED BY <1>7, <1>8, <1>18 DEF start

\* As many pairs of a buy and a later sell of one actor as can be made, each
\* held for a time.
LEMMA HoldingsAreRight ==
    ASSUME NEW S, NEW a, Timed(Of(S, a)), NEW held, held = HoldingDurations(S, a)
    PROVE  /\ \E P \in Pairings(S, a) : Cardinality(P) = Len(held)
           /\ \A P \in Pairings(S, a) : Cardinality(P) <= Len(held)
           /\ \A i \in DOMAIN held : held[i] > 0
<1>1. PICK T : T = Of(S, a) /\ Timed(T) OBVIOUS
<1>2. PICK n \in Nat : n = Cardinality(T) BY <1>1, OrderedIsListing
<1>3. PICK q : q = Ordered(T) /\ n = Cardinality(T) /\ Listing(q, T)
    BY <1>1, <1>2, OrderedIsListing
<1>4. PICK f \in [0..n -> Holdings] :
         /\ f[0] = [open |-> <<>>, held |-> <<>>]
         /\ \A k \in 1..n : f[k] = Closing(q, k, f[k - 1])
         /\ held = f[n].held
    BY <1>1, <1>2, <1>3, HoldingRun
<1> DEFINE I == {k \in Nat : k <= n => \E o, P : Tracked(q, T, k, f[k], o, P)}
<1>5. 0 \in I
    <2>1. Upto(q, 0, "buy") = {} /\ Upto(q, 0, "sell") = {} BY DEF Upto
    <2>2. {} \in PairsOf(T) /\ IsFiniteSet({}) /\ Cardinality({}) = 0 BY FS_EmptySet DEF PairsOf
    <2>3. f[0] \in Holdings /\ f[0].open = <<>> /\ f[0].held = <<>>
        <3>1. 0 \in 0..n OBVIOUS
        <3> QED BY <1>4, <3>1
    <2>4. ASSUME NEW R \in PairsOf(T), \A r \in R : r[2] \in {} PROVE Cardinality(R) <= 0
        <3>1. R = {} BY <2>4
        <3> QED BY <2>2, <3>1
    <2>5. <<>> \in Seq({}) /\ Len(<<>>) = 0 /\ 1..0 = {} OBVIOUS
    <2>6. PICK s, o : s = f[0] /\ o = <<>> OBVIOUS
    <2>7. o \in Seq({}) /\ Len(o) = 0 /\ 1..Len(o) = {} BY <2>5, <2>6
    <2>8. s \in [open : Seq(Nat), held : Seq(Nat \ {0})] /\ Len(s.open) = 0 /\ Len(s.held) = 0
        BY <2>3, <2>5, <2>6 DEF Holdings
    <2>9. Tracked(q, T, 0, s, o, {}) BY <2>1, <2>2, <2>4, <2>7, <2>8 DEF Tracked
    <2> QED BY <2>6, <2>9
<1>6. ASSUME NEW k \in I \cap Nat PROVE k + 1 \in I
    <2> SUFFICES ASSUME k + 1 <= n PROVE \E o, P : Tracked(q, T, k + 1, f[k + 1], o, P) OBVIOUS
    <2>1. k + 1 \in 1..n /\ (k + 1) - 1 = k BY <1>6
    <2>2. PICK o, P : Tracked(q, T, k, f[k], o, P) BY <1>6
    <2>3. PICK s, l : l \in 1..n /\ s = f[k] /\ l = k + 1 /\ l - 1 = k /\ f[l] = Closing(q, l, s)
        <3>1. f[k + 1] = Closing(q, k + 1, f[k]) BY <1>4, <2>1
        <3> QED BY <2>1, <3>1
    <2>4. q[l].side \in {"buy", "sell"}
        <3>1. q[l] \in T BY <1>1, <1>2, <1>3, <2>3, UptoNext
        <3> QED BY <1>1, <3>1 DEF Timed
    <2>5. Tracked(q, T, l - 1, s, o, P) BY <2>2, <2>3
    <2>6. s.open = <<>> \/ Head(s.open) >= q[l].at \/ (s.open # <<>> /\ Head(s.open) < q[l].at)
        <3>1. s \in Holdings
            <4>1. k \in 0..n BY <2>1
            <4> QED BY <1>4, <2>3, <4>1
        <3>2. s.open # <<>> => Head(s.open) \in Nat BY <3>1 DEF Holdings
        <3>3. q[l].at \in Nat BY <1>1, <1>2, <1>3, <2>3, UptoNext
        <3> QED BY <3>2, <3>3
    <2>7. CASE q[l].side = "buy"
        <3>1. Tracked(q, T, l, Closing(q, l, s), Append(o, q[l]), P)
            BY <1>1, <1>2, <1>3, <2>3, <2>5, <2>7, TrackedBuy
        <3> QED BY <2>3, <3>1
    <2>8. CASE q[l].side = "sell" /\ (s.open = <<>> \/ Head(s.open) >= q[l].at)
        <3>1. Tracked(q, T, l, Closing(q, l, s), o, P)
            BY <1>1, <1>2, <1>3, <2>3, <2>5, <2>8, TrackedIdle
        <3> QED BY <2>3, <3>1
    <2>9. CASE q[l].side = "sell" /\ s.open # <<>> /\ Head(s.open) < q[l].at
        <3>1. Tracked(q, T, l, Closing(q, l, s), Tail(o), P \cup {<<Head(o), q[l]>>})
            BY <1>1, <1>2, <1>3, <2>3, <2>5, <2>9, TrackedSell
        <3> QED BY <2>3, <3>1
    <2> QED BY <2>4, <2>6, <2>7, <2>8, <2>9
<1>7. n \in I
    <2> HIDE DEF I
    <2> QED BY <1>5, <1>6, Successors
<1>8. PICK o, P : Tracked(q, T, n, f[n], o, P) BY <1>7
<1>9. Pairings(S, a) = PairsOf(T) BY <1>1 DEF Pairings, PairsOf
<1>10. P \in PairsOf(T) /\ Cardinality(P) = Len(held) BY <1>4, <1>8 DEF Tracked
<1>11. ASSUME NEW R \in PairsOf(T) PROVE Cardinality(R) <= Len(held)
    <2>1. ASSUME NEW r \in R PROVE r[2] \in Upto(q, n, "sell")
        <3>1. r[2] \in T /\ r[2].side = "sell" BY DEF PairsOf, OnSide
        <3>2. PICK i \in 1..n : q[i] = r[2] BY <1>1, <1>3, <3>1, ListingIsOnto
        <3> QED BY <3>1, <3>2 DEF Upto
    <2> QED BY <1>4, <1>8, <2>1 DEF Tracked
<1>12. \A i \in DOMAIN held : held[i] > 0
    <2>1. held \in Seq(Nat \ {0}) BY <1>4 DEF Holdings
    <2>2. \A i \in DOMAIN held : held[i] \in Nat \ {0} BY <2>1
    <2> QED BY <2>2
<1> QED BY <1>9, <1>10, <1>11, <1>12

-----------------------------------------------------------------------------
\* Bursts: the trades of a window.

WindowFrom(S, t) == {x \in S : x.at \in t..(t + BurstWindow)}

\* The trades of the window that ends with a trade, and those of any window.
LEMMA WindowsOfTrades ==
    ASSUME NEW S, Timed(S), \A x \in S : x.at \in 0..EarlyWindow,
           NEW n \in Nat, n = Cardinality(S), NEW q, Listing(q, S)
    PROVE  /\ \A k \in 1..n : EndingAt(q, k) \in SUBSET S /\ EndingAt(q, k) # {}
           /\ \A k \in 1..n : \E t \in 0..EarlyWindow : EndingAt(q, k) \subseteq WindowFrom(S, t)
           /\ \A t \in 0..EarlyWindow : WindowFrom(S, t) # {} =>
                  \E k \in 1..n : WindowFrom(S, t) \subseteq EndingAt(q, k)
<1>1. EarlyWindow \in Nat /\ BurstWindow \in Nat BY MetricsAssumption
<1>2. /\ q \in [1..n -> S]
      /\ \A i, j \in 1..n : i < j => q[i].at <= q[j].at
    BY DEF Listing
<1>3. \A i \in 1..n : q[i] \in S /\ q[i].at \in 0..EarlyWindow BY <1>2
<1>4. \A i, j \in 1..n : i <= j => q[i].at <= q[j].at
    <2> SUFFICES ASSUME NEW i \in 1..n, NEW j \in 1..n, i <= j PROVE q[i].at <= q[j].at OBVIOUS
    <2>1. CASE i = j BY <1>1, <1>3, <2>1
    <2>2. CASE i # j BY <1>2, <2>2
    <2> QED BY <2>1, <2>2
<1>5. ASSUME NEW k \in 1..n
      PROVE  /\ EndingAt(q, k) \in SUBSET S /\ EndingAt(q, k) # {}
             /\ \E t \in 0..EarlyWindow : EndingAt(q, k) \subseteq WindowFrom(S, t)
    <2>1. \A i \in 1..k : i \in 1..n /\ i <= k OBVIOUS
    <2>2. EndingAt(q, k) \in SUBSET S BY <1>3, <2>1 DEF EndingAt
    <2>3. q[k] \in EndingAt(q, k)
        <3>1. k \in 1..k /\ q[k].at - q[k].at <= BurstWindow BY <1>1, <1>3
        <3> QED BY <3>1 DEF EndingAt
    <2>4. PICK t \in 0..EarlyWindow : t <= q[k].at /\ q[k].at <= t + BurstWindow
                                      /\ (t = 0 \/ t = q[k].at - BurstWindow)
        <3>1. q[k].at \in 0..EarlyWindow BY <1>3
        <3>2. CASE q[k].at <= BurstWindow
            <4>1. 0 \in 0..EarlyWindow /\ 0 <= q[k].at /\ q[k].at <= 0 + BurstWindow BY <1>1, <3>1, <3>2
            <4> QED BY <4>1
        <3>3. CASE ~(q[k].at <= BurstWindow)
            <4>1. PICK t : t = q[k].at - BurstWindow OBVIOUS
            <4>2. t \in 0..EarlyWindow /\ t <= q[k].at /\ q[k].at <= t + BurstWindow
                BY <1>1, <3>1, <3>3, <4>1
            <4> QED BY <4>1, <4>2
        <3> QED BY <3>2, <3>3
    <2>5. ASSUME NEW x \in EndingAt(q, k) PROVE x \in WindowFrom(S, t)
        <3>1. PICK i \in 1..k : x = q[i] /\ q[k].at - q[i].at <= BurstWindow BY DEF EndingAt
        <3>2. x \in S /\ x.at \in 0..EarlyWindow /\ x.at <= q[k].at BY <1>3, <1>4, <2>1, <3>1
        <3>3. q[k].at \in 0..EarlyWindow BY <1>3
        <3>4. q[k].at - x.at <= BurstWindow BY <3>1
        <3>5. t <= x.at /\ x.at <= t + BurstWindow BY <1>1, <2>4, <3>2, <3>3, <3>4
        <3>6. x.at \in t..(t + BurstWindow) BY <1>1, <3>2, <3>5
        <3> QED BY <3>2, <3>6 DEF WindowFrom
    <2> QED BY <2>2, <2>3, <2>5
<1>6. ASSUME NEW t \in 0..EarlyWindow, WindowFrom(S, t) # {}
      PROVE  \E k \in 1..n : WindowFrom(S, t) \subseteq EndingAt(q, k)
    <2> DEFINE K == {i \in 1..n : q[i] \in WindowFrom(S, t)}
    <2>1. \A x \in WindowFrom(S, t) : \E i \in K : q[i] = x
        <3>1. \A x \in WindowFrom(S, t) : x \in S BY DEF WindowFrom
        <3> QED BY <3>1, ListingIsOnto
    <2>2. K \in SUBSET Nat /\ K # {} BY <1>6, <2>1
    <2>3. IsFiniteSet(K)
        <3>1. IsFiniteSet(1..n) BY FS_Interval
        <3> QED BY <3>1, FS_Subset
    <2>4. PICK k \in K : \A i \in K : i <= k
        <3> HIDE DEF K
        <3> QED BY <2>2, <2>3, GreatestExists
    <2>5. ASSUME NEW x \in WindowFrom(S, t) PROVE x \in EndingAt(q, k)
        <3>1. PICK i \in K : q[i] = x BY <2>1
        <3>2. i \in 1..k BY <2>4, <3>1
        <3>3. q[i].at \in t..(t + BurstWindow) /\ q[k].at \in t..(t + BurstWindow)
            BY <2>4, <3>1 DEF WindowFrom
        <3>4. q[k].at - q[i].at <= BurstWindow BY <1>1, <3>3
        <3> QED BY <3>1, <3>2, <3>4 DEF EndingAt
    <2> QED BY <2>4, <2>5
<1> QED BY <1>5, <1>6

\* The burst is the trades of a window that ends with one, and no other has more.
LEMMA BurstIsLargest ==
    ASSUME NEW S, Timed(S), \A x \in S : x.at \in 0..EarlyWindow, S # {},
           NEW n \in Nat, n = Cardinality(S), NEW q, q = Ordered(S)
    PROVE  /\ \E k \in 1..n : ActivityBurst(S) = EndingAt(q, k)
           /\ \A k \in 1..n : Cardinality(EndingAt(q, k)) <= Cardinality(ActivityBurst(S))
<1>1. Listing(q, S) /\ Len(q) = n BY OrderedIsListing
<1>2. \A k \in 1..n : EndingAt(q, k) \in SUBSET S BY <1>1, WindowsOfTrades
<1>3. n \in 1..n
    <2>1. IsFiniteSet(S) BY DEF Timed
    <2>2. n # 0 BY <2>1, FS_EmptySet
    <2> QED BY <2>2
<1> DEFINE Keeps(k, B) == k > 1 /\ ~Better(EndingAt(q, k), B)
           F == [k \in 1..n |-> [B \in SUBSET S |-> IF Keeps(k, B) THEN B ELSE EndingAt(q, k)]]
           Rec(best) == best =
               [k \in 1..Len(q) |->
                   IF k > 1 /\ ~Better(EndingAt(q, k), best[k - 1]) THEN best[k - 1]
                   ELSE EndingAt(q, k)]
           g == CHOOSE best : Rec(best)
<1>4. ActivityBurst(S) = g[n] BY <1>1 DEF ActivityBurst
<1>5. \A best : Rec(best) <=> best =
          [k \in 1..n |-> IF Keeps(k, best[k - 1]) THEN best[k - 1] ELSE EndingAt(q, k)]
    BY <1>1
<1> HIDE DEF Rec
<1>6. \E best : Rec(best)
    <2>1. \A k \in 1..n, B \in SUBSET S : F[k][B] = IF Keeps(k, B) THEN B ELSE EndingAt(q, k) OBVIOUS
    <2>2. F \in [1..n -> [SUBSET S -> SUBSET S]] BY <1>2
    <2>3. PICK f : Run(n, SUBSET S, {}, F, f)
        <3> HIDE DEF F
        <3>1. {} \in SUBSET S OBVIOUS
        <3> QED BY <2>2, <3>1, RunExists
    <2> DEFINE h == [k \in 1..n |-> f[k]]
    <2>4. ASSUME NEW k \in 1..n
          PROVE  h[k] = IF Keeps(k, h[k - 1]) THEN h[k - 1] ELSE EndingAt(q, k)
        <3> HIDE DEF F
        <3>1. f[k] = F[k][f[k - 1]] BY <2>3 DEF Run
        <3>2. f[k - 1] \in SUBSET S
            <4>1. k - 1 \in 0..n OBVIOUS
            <4> QED BY <2>3, <4>1 DEF Run
        <3>3. f[k] = IF Keeps(k, f[k - 1]) THEN f[k - 1] ELSE EndingAt(q, k) BY <2>1, <3>1, <3>2
        <3>4. CASE k = 1
            <4>1. \A B : ~Keeps(k, B) BY <3>4
            <4> HIDE DEF Keeps
            <4> QED BY <3>3, <4>1
        <3>5. CASE k # 1
            <4>1. k - 1 \in 1..n BY <3>5
            <4>2. h[k - 1] = f[k - 1] BY <4>1
            <4> HIDE DEF Keeps
            <4> QED BY <3>3, <4>2
        <3> QED BY <3>4, <3>5
    <2>5. h = [k \in 1..n |-> h[k]] OBVIOUS
    <2>6. h = [k \in 1..n |-> IF Keeps(k, h[k - 1]) THEN h[k - 1] ELSE EndingAt(q, k)]
        <3> HIDE DEF h, Keeps
        <3> QED BY <2>4, <2>5
    <2>7. Rec(h)
        <3> HIDE DEF h, Keeps
        <3> QED BY <1>5, <2>6
    <2> QED BY <2>7
<1>7. Rec(g) BY <1>6
<1> HIDE DEF g
<1>8. g = [k \in 1..n |-> IF Keeps(k, g[k - 1]) THEN g[k - 1] ELSE EndingAt(q, k)]
    <2> HIDE DEF Keeps
    <2> QED BY <1>5, <1>7
<1>9. \A k \in 1..n : g[k] = IF Keeps(k, g[k - 1]) THEN g[k - 1] ELSE EndingAt(q, k)
    <2> HIDE DEF Keeps
    <2> QED BY <1>8, Zenon
<1>10. \A k \in 1..n : Cardinality(EndingAt(q, k)) \in Nat
    <2>1. ASSUME NEW k \in 1..n PROVE IsFiniteSet(EndingAt(q, k)) BY <1>2, FS_Subset DEF Timed
    <2> QED BY <2>1, FS_CardinalityType
<1> DEFINE Largest(k) == /\ \E j \in 1..k : g[k] = EndingAt(q, j)
                         /\ \A j \in 1..k : Cardinality(EndingAt(q, j)) <= Cardinality(g[k])
           I == {k \in Nat : k \in 1..n => Largest(k)}
<1>11. 0 \in I OBVIOUS
<1>12. ASSUME NEW k \in I \cap Nat PROVE k + 1 \in I
    <2> SUFFICES ASSUME k + 1 \in 1..n PROVE Largest(k + 1) OBVIOUS
    <2>1. (k + 1) - 1 = k OBVIOUS
    <2>2. g[k + 1] = IF Keeps(k + 1, g[k]) THEN g[k] ELSE EndingAt(q, k + 1)
        <3> HIDE DEF Keeps
        <3> QED BY <1>9, <2>1
    <2>3. \A j \in 1..(k + 1) : j \in 1..k \/ j = k + 1 OBVIOUS
    <2>4. \A j \in 1..k : j \in 1..(k + 1) /\ j \in 1..n OBVIOUS
    <2>5. k + 1 \in 1..(k + 1) OBVIOUS
    <2>6. CASE k = 0
        <3>1. g[k + 1] = EndingAt(q, k + 1) BY <2>2, <2>6
        <3>2. \A j \in 1..(k + 1) : j = k + 1 BY <2>6
        <3> QED BY <1>10, <2>5, <3>1, <3>2
    <2>7. CASE k # 0
        <3>1. Largest(k)
            <4>1. k \in 1..n BY <2>7
            <4> QED BY <1>12, <4>1
        <3>2. PICK j \in 1..k : g[k] = EndingAt(q, j) BY <3>1
        <3>3. Cardinality(g[k]) \in Nat /\ Cardinality(EndingAt(q, k + 1)) \in Nat BY <1>10, <2>4, <3>2
        <3>4. CASE Keeps(k + 1, g[k])
            <4>1. g[k + 1] = g[k] BY <2>2, <3>4
            <4>2. Cardinality(EndingAt(q, k + 1)) <= Cardinality(g[k]) BY <3>3, <3>4 DEF Better
            <4> QED BY <2>3, <2>4, <3>1, <3>2, <4>1, <4>2
        <3>5. CASE ~Keeps(k + 1, g[k])
            <4>1. g[k + 1] = EndingAt(q, k + 1) BY <2>2, <3>5
            <4>2. Cardinality(EndingAt(q, k + 1)) >= Cardinality(g[k])
                <5>1. k + 1 > 1 BY <2>7
                <5>2. Better(EndingAt(q, k + 1), g[k]) BY <3>5, <5>1
                <5> QED BY <3>3, <5>2 DEF Better
            <4>3. ASSUME NEW i \in 1..k PROVE Cardinality(EndingAt(q, i)) <= Cardinality(EndingAt(q, k + 1))
                <5>1. Cardinality(EndingAt(q, i)) <= Cardinality(g[k]) BY <3>1
                <5>2. Cardinality(EndingAt(q, i)) \in Nat BY <1>10, <2>4
                <5> QED BY <3>3, <4>2, <5>1, <5>2
            <4> QED BY <2>3, <2>5, <3>3, <4>1, <4>3
        <3> QED BY <3>4, <3>5
    <2> QED BY <2>6, <2>7
<1>13. n \in I
    <2> HIDE DEF I
    <2> QED BY <1>11, <1>12, Successors
<1> QED BY <1>3, <1>4, <1>13

LEMMA BurstIsMost ==
    ASSUME NEW S, Timed(S), \A x \in S : x.at \in 0..EarlyWindow, S # {}
    PROVE  Cardinality(ActivityBurst(S)) = MostInAWindow(S)
<1>1. PICK n \in Nat : n = Cardinality(S) BY OrderedIsListing
<1>2. PICK q : q = Ordered(S) /\ Listing(q, S) BY OrderedIsListing
<1>3. PICK b : b = ActivityBurst(S) OBVIOUS
<1>4. /\ \E k \in 1..n : b = EndingAt(q, k)
      /\ \A k \in 1..n : Cardinality(EndingAt(q, k)) <= Cardinality(b)
    BY <1>1, <1>2, <1>3, BurstIsLargest
<1>5. /\ \A k \in 1..n : EndingAt(q, k) \in SUBSET S /\ EndingAt(q, k) # {}
      /\ \A k \in 1..n : \E t \in 0..EarlyWindow : EndingAt(q, k) \subseteq WindowFrom(S, t)
      /\ \A t \in 0..EarlyWindow : WindowFrom(S, t) # {} =>
             \E k \in 1..n : WindowFrom(S, t) \subseteq EndingAt(q, k)
    BY <1>1, <1>2, WindowsOfTrades
<1>6. \A s \in SUBSET S : /\ IsFiniteSet(s) /\ Cardinality(s) \in Nat
                          /\ \A r \in SUBSET s : Cardinality(r) \in Nat /\ Cardinality(r) <= Cardinality(s)
    BY FS_Subset, FS_CardinalityType DEF Timed
<1>7. \A t : WindowFrom(S, t) \in SUBSET S BY DEF WindowFrom
<1>8. b \in SUBSET S BY <1>4, <1>5
<1>9. ASSUME NEW t \in 0..EarlyWindow PROVE Cardinality(WindowFrom(S, t)) <= Cardinality(b)
    <2>1. CASE WindowFrom(S, t) = {} BY <1>6, <1>8, <2>1
    <2>2. CASE WindowFrom(S, t) # {}
        <3>1. PICK k \in 1..n : WindowFrom(S, t) \subseteq EndingAt(q, k) BY <1>5, <2>2
        <3>2. Cardinality(WindowFrom(S, t)) <= Cardinality(EndingAt(q, k)) BY <1>5, <1>6, <3>1
        <3>3. Cardinality(EndingAt(q, k)) <= Cardinality(b) BY <1>4
        <3> QED BY <1>5, <1>6, <1>7, <1>8, <3>2, <3>3
    <2> QED BY <2>1, <2>2
<1>10. PICK t0 \in 0..EarlyWindow : Cardinality(WindowFrom(S, t0)) = Cardinality(b)
    <2>1. PICK t0 \in 0..EarlyWindow : b \subseteq WindowFrom(S, t0) BY <1>4, <1>5
    <2>2. Cardinality(b) <= Cardinality(WindowFrom(S, t0)) BY <1>6, <1>7, <2>1
    <2> QED BY <1>6, <1>7, <1>8, <1>9, <2>1, <2>2
<1> DEFINE counts == {Cardinality({x \in S : x.at \in t..(t + BurstWindow)}) : t \in 0..EarlyWindow}
           most == CHOOSE c \in counts : \A p \in counts : p <= c
<1>11. counts = {Cardinality(WindowFrom(S, t)) : t \in 0..EarlyWindow} BY DEF WindowFrom
<1>12. MostInAWindow(S) = most BY DEF MostInAWindow
<1> HIDE DEF counts
<1>13. counts \subseteq Nat BY <1>6, <1>7, <1>11
<1>14. Cardinality(b) \in counts /\ \A p \in counts : p <= Cardinality(b) BY <1>9, <1>10, <1>11
<1>15. most \in counts /\ \A p \in counts : p <= most BY <1>14
<1> HIDE DEF most
<1>16. most = Cardinality(b)
    <2>1. most \in Nat /\ Cardinality(b) \in Nat BY <1>13, <1>14, <1>15
    <2>2. most <= Cardinality(b) /\ Cardinality(b) <= most BY <1>14, <1>15
    <2> QED BY <2>1, <2>2
<1> QED BY <1>3, <1>12, <1>16

-----------------------------------------------------------------------------
\* What the retained trades are.

LEMMA ImageIsFinite ==
    ASSUME NEW f, IsFiniteSet(DOMAIN f)
    PROVE  IsFiniteSet({f[x] : x \in DOMAIN f})
<1> DEFINE A == {f[x] : x \in DOMAIN f}
           g == [x \in DOMAIN f |-> f[x]]
<1>1. g \in Surjection(DOMAIN f, A) BY DEF Surjection
<1> QED BY <1>1, FS_Surjection

LEMMA ExtractIsFinite ==
    ASSUME NEW i \in DOMAIN Ledger, NEW tx, tx = Ledger[i]
    PROVE  IsFiniteSet(Extract(tx)) /\ \A o \in Extract(tx) : o.at = tx.at /\ o.side \in Accepted
<1>1. List(tx.keys) BY LedgerLists DEF AnswerLists
<1>2. IsFiniteSet(Signers(tx))
    <2>1. PICK n \in Nat : DOMAIN tx.keys = 1..n BY <1>1 DEF List
    <2>2. IsFiniteSet(Signing(tx.keys)) BY <2>1, FS_Interval, FS_Subset DEF Signing
    <2> DEFINE f == [k \in Signing(tx.keys) |-> Address(tx, k)]
    <2>3. IsFiniteSet({f[k] : k \in DOMAIN f}) BY <2>2, ImageIsFinite
    <2>4. {f[k] : k \in DOMAIN f} = Signers(tx) BY DEF Signers
    <2> QED BY <2>3, <2>4
<1>3. PICK K \in SUBSET Actors(tx) : Extract(tx) = {Observation(tx, a) : a \in K}
    <2>1. CASE ~Sound(tx)
        <3>1. Extract(tx) = {Observation(tx, a) : a \in {}} BY <2>1 DEF Extract
        <3> QED BY <3>1
    <2>2. CASE Sound(tx) BY <2>2 DEF Extract
    <2> QED BY <2>1, <2>2
<1>4. IsFiniteSet(K) BY <1>2, FS_Subset DEF Actors
<1>5. IsFiniteSet(Extract(tx))
    <2> DEFINE f == [a \in K |-> Observation(tx, a)]
    <2>1. IsFiniteSet({f[a] : a \in DOMAIN f}) BY <1>4, ImageIsFinite
    <2>2. {f[a] : a \in DOMAIN f} = Extract(tx) BY <1>3
    <2> QED BY <2>1, <2>2
<1>6. ASSUME NEW o \in Extract(tx) PROVE o.at = tx.at /\ o.side \in Accepted
    <2>1. PICK a \in Actors(tx) : o = Observation(tx, a) BY <1>3
    <2>2. PICK k : k = CHOOSE j \in By(tx, a) : TRUE OBVIOUS
    <2>3. By(tx, a) # {} BY <2>1 DEF Actors
    <2>4. k \in By(tx, a) BY <2>2, <2>3
    <2>5. Side(tx, a) \in Accepted BY <2>2, <2>4 DEF Side, By, Matches
    <2> QED BY <2>1, <2>5 DEF Observation
<1> QED BY <1>5, <1>6

LEMMA TradesAreTimed ==
    /\ IsFiniteSet(Trades)
    /\ \A x \in Trades : x.at \in 0..EarlyWindow /\ x.side \in {"buy", "sell"}
<1>1. IsFiniteSet(Candidates) BY EvidenceAssumption, FS_Subset DEF Candidates
<1>2. ASSUME NEW i \in Candidates
      PROVE  /\ IsFiniteSet(Shown(i))
             /\ \A x \in Shown(i) : x.at \in 0..EarlyWindow /\ x.side \in {"buy", "sell"}
    <2>1. i \in DOMAIN Ledger /\ Ledger[i].at \in 0..EarlyWindow BY DEF Candidates
    <2>2. PICK E : /\ E = Extract(Ledger[i]) /\ IsFiniteSet(E)
                   /\ \A o \in E : o.at = Ledger[i].at /\ o.side \in Accepted
        BY <2>1, ExtractIsFinite
    <2> DEFINE trade(o) ==
            [tx |-> i, actor |-> o.actor, side |-> o.side, amount |-> o.amount, at |-> o.at]
        f == [o \in E |-> trade(o)]
    <2>3. IsFiniteSet({f[o] : o \in DOMAIN f}) BY <2>2, ImageIsFinite
    <2>4. {f[o] : o \in DOMAIN f} = Shown(i) BY <2>2 DEF Shown
    <2>5. ASSUME NEW x \in Shown(i) PROVE x.at \in 0..EarlyWindow /\ x.side \in {"buy", "sell"}
        <3>1. PICK o \in E : x = trade(o) BY <2>2 DEF Shown
        <3>2. x.at = o.at /\ x.side = o.side BY <3>1
        <3> QED BY <2>1, <2>2, <3>2 DEF Accepted
    <2> QED BY <2>3, <2>4, <2>5
<1>3. IsFiniteSet(Trades)
    <2> DEFINE f == [i \in Candidates |-> Shown(i)]
               A == {f[i] : i \in DOMAIN f}
    <2>1. IsFiniteSet(A) BY <1>1, ImageIsFinite
    <2>2. \A T \in A : IsFiniteSet(T) BY <1>2
    <2>3. Trades = UNION A BY DEF Trades
    <2> QED BY <2>1, <2>2, <2>3, FS_UNION
<1> QED BY <1>2, <1>3 DEF Trades

\* Of any trades that may be retained, the scan of activityBurst finds as many
\* as any stretch of the window's length has, and the greedy pairing of
\* holdingDurationEvidence makes as many pairs of a buy and a later sell of an
\* actor as can be made.
THEOREM Measurement == \A S \in SUBSET Trades : MeasuredRight(S)
<1> SUFFICES ASSUME NEW S \in SUBSET Trades PROVE MeasuredRight(S) OBVIOUS
<1>1. Timed(S) /\ \A x \in S : x.at \in 0..EarlyWindow
    <2>1. IsFiniteSet(S) BY TradesAreTimed, FS_Subset
    <2>2. \A x \in S : x.at \in 0..EarlyWindow /\ x.side \in {"buy", "sell"} BY TradesAreTimed
    <2>3. 0..EarlyWindow \subseteq Nat BY MetricsAssumption
    <2> QED BY <2>1, <2>2, <2>3 DEF Timed
<1> SUFFICES ASSUME NEW r \in CoinSummary(S).metrics
             PROVE  /\ r.burst = MostInAWindow(S)
                    /\ \A a \in ActorsOf(S) :
                        /\ \E P \in Pairings(S, a) : Cardinality(P) = Len(r.held[a])
                        /\ \A P \in Pairings(S, a) : Cardinality(P) <= Len(r.held[a])
                        /\ \A n \in DOMAIN r.held[a] : r.held[a][n] > 0
    BY DEF MeasuredRight
<1>2. GateIsMet(S) /\ r = AggregateMetrics(S) BY DEF CoinSummary
<1>3. S # {}
    <2>1. Cardinality(S) # 0 BY <1>2, MetricsAssumption DEF GateIsMet
    <2> QED BY <2>1, FS_EmptySet
<1>4. /\ r.burst = Cardinality(ActivityBurst(S))
      /\ \A a \in ActorsOf(S) : r.held[a] = HoldingDurations(S, a)
    BY <1>2 DEF AggregateMetrics
<1>5. ASSUME NEW a \in ActorsOf(S)
      PROVE  /\ \E P \in Pairings(S, a) : Cardinality(P) = Len(r.held[a])
             /\ \A P \in Pairings(S, a) : Cardinality(P) <= Len(r.held[a])
             /\ \A n \in DOMAIN r.held[a] : r.held[a][n] > 0
    <2>1. Timed(Of(S, a)) BY <1>1, FS_Subset DEF Timed, Of
    <2> QED BY <1>4, <2>1, HoldingsAreRight
<1> QED BY <1>1, <1>3, <1>4, <1>5, BurstIsMost

-----------------------------------------------------------------------------
\* The theorems.

\* The invariant holds in every state of the worker.
THEOREM Invariance == Spec => []IInv
<1> QED BY InitIInv, StepIInv, PTL DEF Spec

\* The state has its type: no launch is given more attempts than the CHECK of
\* actor_cohort allows, and no row is kept for longer than the retention.
THEOREM TypeCorrect == Spec => []TypeOK
<1>1. IInv => TypeOK BY DEF IInv
<1> QED BY <1>1, Invariance, PTL

\* No evidence of an earlier parser survives an upgrade: the reset of
\* prepareActorMethodRevision leaves nothing of it.
THEOREM CurrentParser == Spec => []EvidenceIsCurrent
<1>1. IInv => EvidenceIsCurrent BY DEF IInv
<1> QED BY <1>1, Invariance, PTL

\* The summary of a launch whose attempts are spent counts all that is retained
\* of it, whatever was cut short; and any summary measures bursts and holdings
\* by what the words mean.
THEOREM SettledSummaries == Spec => []SettledIsSummarised
<1>1. IInv => SettledIsSummarised
    <2> SUFFICES ASSUME IInv PROVE SettledIsSummarised OBVIOUS
    <2>1. SpentIsSummarised /\ \A m \in Mints : summary[m] \in SUBSET Trades BY DEF IInv, TypeOK
    <2>2. SUBSET Trades = Measurable BY Measurement DEF Measurable
    <2> QED BY <2>1, <2>2 DEF SettledIsSummarised
<1> QED BY <1>1, Invariance, PTL

\* What is retained of an actor is the whole of what it did in a transaction,
\* over all the accounts it owns.
THEOREM AttributedObservations == Spec => []ObservationsAreAttributed
<1>1. \A m \in Mints : Discoverable(m) \subseteq AttributedTrades
    <2> SUFFICES ASSUME NEW m \in Mints, NEW t \in Discoverable(m) PROVE t \in AttributedTrades
        OBVIOUS
    <2>1. PICK i \in Signed[m] \cap Candidates : t \in Shown(i) BY DEF Discoverable, Found
    <2>2. i \in DOMAIN Ledger BY <2>1 DEF Candidates
    <2>3. Attributed(t) BY <2>1, <2>2, Attribution
    <2>4. t \in Trades BY <2>1 DEF Trades
    <2> QED BY <2>3, <2>4 DEF AttributedTrades
<1>2. IInv => ObservationsAreAttributed
    BY <1>1 DEF IInv, EvidenceIsShown, ObservationsAreAttributed
<1> QED BY <1>2, Invariance, PTL

\* No row of l2 expires later than it did in l.
NoLater(l, l2) ==
    \A m \in Mints, t \in Trades :
        l[m][t] # Gone /\ l2[m][t] # Gone => l2[m][t] <= l[m][t]

LEMMA KeptAsItIs ==
    ASSUME NEW l \in Lefts, NEW k,
           \A m \in Mints, t \in Trades : k[m][t] \in {l[m][t], Gone} \/ l[m][t] = Gone
    PROVE  NoLater(l, k)
<1> SUFFICES ASSUME NEW m \in Mints, NEW t \in Trades, l[m][t] # Gone, k[m][t] # Gone
             PROVE  k[m][t] <= l[m][t]
    BY DEF NoLater
<1>1. l[m][t] \in 0..Retention BY DEF Lefts
<1>2. k[m][t] = l[m][t] OBVIOUS
<1> QED BY <1>1, <1>2, ActorAssumption

\* A later acquisition of the same evidence, in the same run or after a crash,
\* never moves the time at which it expires: INSERT OR IGNORE.
THEOREM FirstSight == Spec => FirstSightIsKept
<1> DEFINE Kept == NoLater(left, left')
<1>1. ASSUME IInv, [Next]_vars PROVE Kept
    <2>1. left \in Lefts BY <1>1 DEF IInv, TypeOK, Lefts
    <2>2. \A lag : \A p \in Pruned(left, lag) : NoLater(left, p)
        BY <2>1, PrunedProperties, KeptAsItIs
    <2>3. NoLater(left, left) BY <2>1, KeptAsItIs
    <2>4. \A f \in flight : f.mint \in Mints /\ f.since \in 0..Retention
        BY <1>1, FlightProperties DEF IInv
    <2>5. ASSUME NEW f \in flight, NEW found \in FoundPartly[f.mint] \cup Found[f.mint] \cup {{}}
          PROVE  /\ Saved(f.mint, found, f.since) \in Lefts
                 /\ \A m \in Mints, t \in Trades :
                     Saved(f.mint, found, f.since)[m][t] = left[m][t] \/ left[m][t] = Gone
                 /\ NoLater(left, Saved(f.mint, found, f.since))
        <3> DEFINE l == Saved(f.mint, found, f.since)
        <3>1. f.mint \in Mints /\ f.since \in 0..Retention BY <2>4
        <3>2. found \in SUBSET Trades BY <2>5, <3>1, FoundType
        <3>3. /\ l \in Lefts
              /\ \A m \in Mints, t \in Trades :
                    \/ l[m][t] = left[m][t]
                    \/ m = f.mint /\ t \in found /\ left[m][t] = Gone
            BY <2>1, <3>1, <3>2, SavedProperties
        <3> HIDE DEF l
        <3>4. NoLater(left, l) BY <2>1, <3>3, KeptAsItIs
        <3> QED BY <3>3, <3>4 DEF l
    <2>6. \A f \in flight : \A found \in FoundPartly[f.mint] \cup Found[f.mint] \cup {{}} :
            NoLater(left, Saved(f.mint, found, f.since))
        BY <2>5
    <2>7. ASSUME NEW f \in flight, Ends(f) PROVE Kept
        <3>1. PICK found \in FoundPartly[f.mint] \cup {{}} : Finish(f, Saved(f.mint, found, f.since))
            BY <2>7 DEF Ends
        <3> DEFINE l == Saved(f.mint, found, f.since)
        <3>2. left' \in Pruned(l, f.since) \/ left' = l BY <3>1 DEF Finish
        <3>3. l \in Lefts /\ \A m \in Mints, t \in Trades : l[m][t] = left[m][t] \/ left[m][t] = Gone
            BY <2>5
        <3> HIDE DEF l
        <3>4. \A m \in Mints, t \in Trades : left'[m][t] = l[m][t] \/ left'[m][t] = Gone
            BY <3>2, <3>3, PrunedProperties
        <3>5. \A m \in Mints, t \in Trades : left'[m][t] \in {left[m][t], Gone} \/ left[m][t] = Gone
            BY <3>3, <3>4
        <3> QED BY <2>1, <3>5, KeptAsItIs
    <2>8. ASSUME NEW f \in flight, Answer(f) PROVE Kept
        BY <2>3, <2>6, <2>7, <2>8 DEF Answer, Signatures, Transaction, tables
    <2>9. CASE Crash BY <2>3, <2>6, <2>9 DEF Crash
    <2>10. CASE Restart
        <3>1. CASE left' = [m \in Mints |-> [t \in Trades |-> Gone]]
            BY <3>1 DEF NoLater
        <3> QED BY <2>2, <2>3, <2>10, <3>1 DEF Restart
    <2>11. CASE Tick BY <2>1, <2>11, Aged DEF Tick, NoLater
    <2>12. CASE \/ \E m \in Mints : FeedEvent(m)
                \/ Enforce \/ Drain \/ UNCHANGED vars
        BY <2>2, <2>3, <2>12 DEF FeedEvent, Enforce, Drain, vars
    <2> QED BY <1>1, <2>8, <2>9, <2>10, <2>11, <2>12 DEF Next
<1>2. IInv /\ [Next]_vars =>
        [\A m \in Mints, t \in Trades :
            left[m][t] # Gone /\ left'[m][t] # Gone => left'[m][t] <= left[m][t]]_vars
    BY <1>1 DEF NoLater
<1> QED BY <1>2, Invariance, PTL DEF FirstSightIsKept, Spec
=============================================================================
