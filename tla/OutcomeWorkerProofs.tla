-------------------------- MODULE OutcomeWorkerProofs --------------------------
(***************************************************************************)
(* Safety of the outcome worker for any number of launches and pools, any  *)
(* limits and horizons, and any number of crashes and failed writes; and   *)
(* of the record of one launch over its refreshes, for any horizons and    *)
(* limits, and whatever pools and candles the provider answers with.       *)
(***************************************************************************)
EXTENDS OutcomeWorker, OutcomeRecord,
        FiniteSetTheorems, SequenceTheorems, WellFoundedInduction, TLAPS

-----------------------------------------------------------------------------
\* Lemmas on the operators: least elements and queues.

\* A set of numbers has a least one.
LEMMA LeastNumber ==
    ASSUME NEW S, S \subseteq Nat, S # {}
    PROVE  \E m \in S : \A k \in S : m <= k
<1> DEFINE T == {0..x : x \in S}
<1>1. T \subseteq FiniteSubsetsOf(Nat) /\ T # {}
    <2>1. \A x \in S : 0..x \subseteq Nat /\ IsFiniteSet(0..x) BY FS_Interval
    <2> QED BY <2>1 DEF FiniteSubsetsOf
<1>2. PICK u \in T : \A v \in T : <<v, u>> \notin StrictSubsetOrdering(Nat)
    BY <1>1, FS_StrictSubsetOrderingWellFounded, WFMin, Zenon
<1>3. PICK m \in S : u = 0..m OBVIOUS
<1>4. \A k \in S : m <= k
    <2> SUFFICES ASSUME NEW k \in S, k < m PROVE FALSE OBVIOUS
    <2>1. 0..k \subseteq Nat /\ 0..m \subseteq Nat /\ 0..k \subseteq 0..m /\ 0..k # 0..m
        <3>1. m \in 0..m /\ m \notin 0..k OBVIOUS
        <3> QED BY <3>1
    <2>2. <<0..k, 0..m>> \in StrictSubsetOrdering(Nat) BY <2>1 DEF StrictSubsetOrdering
    <2> QED BY <1>2, <1>3, <2>2
<1> QED BY <1>4

LEMMA LeastType ==
    ASSUME NEW S \in SUBSET Nat, S # {}
    PROVE  Least(S) \in S
<1>1. \E x \in S : \A y \in S : x <= y BY LeastNumber
<1> QED BY <1>1 DEF Least

LEMMA NextAttemptType == ASSUME NEW a \in Nat PROVE NextAttempt(a) \in Nat
<1>1. Ahead(a) \in SUBSET Nat BY WorkerAssumption DEF Ahead
<1> QED BY <1>1, LeastType, WorkerAssumption DEF NextAttempt

\* A listing of a set lists members of it.
LEMMA ListingType ==
    ASSUME NEW S \in SUBSET Mints, NEW s \in Listings(S)
    PROVE  s \in Seq(Mints) /\ Contents(s) \subseteq S
<1>1. IsFiniteSet(S) BY FS_Subset, WorkerAssumption
<1>2. Cardinality(S) \in Nat BY <1>1, FS_CardinalityType
<1>3. s \in [1..Cardinality(S) -> S] BY DEF Listings
<1> QED BY <1>2, <1>3 DEF Contents

LEMMA ContentsOfConcat ==
    ASSUME NEW S, NEW s \in Seq(S), NEW t \in Seq(S)
    PROVE  Contents(s \o t) = Contents(s) \cup Contents(t)
<1>1. Len(s) \in Nat /\ Len(t) \in Nat OBVIOUS
<1>2. Contents(s \o t) \subseteq Contents(s) \cup Contents(t) BY DEF Contents
<1>3. ASSUME NEW i \in DOMAIN s PROVE s[i] \in Contents(s \o t)
    <2>1. i \in DOMAIN (s \o t) /\ (s \o t)[i] = s[i] OBVIOUS
    <2> QED BY <2>1 DEF Contents
<1>4. ASSUME NEW i \in DOMAIN t PROVE t[i] \in Contents(s \o t)
    <2>1. Len(s) + i \in DOMAIN (s \o t) /\ (s \o t)[Len(s) + i] = t[i] OBVIOUS
    <2> QED BY <2>1 DEF Contents
<1> QED BY <1>2, <1>3, <1>4 DEF Contents

LEMMA TakeProperties ==
    ASSUME NEW S, NEW s \in Seq(S), NEW n \in Int
    PROVE  /\ Take(s, n) \in Seq(S)
           /\ Contents(Take(s, n)) \subseteq Contents(s)
           /\ n >= 0 => Len(Take(s, n)) <= n
<1> DEFINE k == IF Len(s) <= n THEN Len(s) ELSE n
<1>1. k \in Int /\ k <= Len(s) /\ Len(s) \in Nat OBVIOUS
<1>2. \A i \in 1..k : s[i] \in S BY <1>1
<1>3. /\ SubSeq(s, 1, k) \in Seq(S)
      /\ Len(SubSeq(s, 1, k)) = IF 1 <= k THEN k - 1 + 1 ELSE 0
      /\ \A i \in 1..(k - 1 + 1) : SubSeq(s, 1, k)[i] = s[1 + i - 1]
    BY <1>1, <1>2, SubSeqProperties
<1>4. Contents(SubSeq(s, 1, k)) \subseteq Contents(s)
    <2> SUFFICES ASSUME NEW i \in DOMAIN SubSeq(s, 1, k) PROVE SubSeq(s, 1, k)[i] \in Contents(s)
        BY DEF Contents
    <2>1. i \in 1..k BY <1>1, <1>3
    <2>2. SubSeq(s, 1, k)[i] = s[i] /\ i \in DOMAIN s BY <1>1, <1>3, <2>1
    <2> QED BY <2>2 DEF Contents
<1> QED BY <1>1, <1>3, <1>4 DEF Take

LEMMA InsertProperties ==
    ASSUME selections \in Seq(Mints), outcomes \in Seq(Mints),
           NEW s \in Seq(Mints), NEW t \in Seq(Mints), Insert(s, t)
    PROVE  /\ selections' \in Seq(Mints) /\ outcomes' \in Seq(Mints)
           /\ Queued' \subseteq Queued \cup Contents(s) \cup Contents(t)
<1>1. selections \o s \in Seq(Mints) /\ outcomes \o t \in Seq(Mints) OBVIOUS
<1>2. MaxQueue \in Int BY WorkerAssumption
<1>3. selections' \in Seq(Mints) /\ Contents(selections') \subseteq Contents(selections \o s)
    BY <1>1, <1>2, TakeProperties DEF Insert
<1>4. MaxQueue - Len(selections') \in Int BY <1>2, <1>3
<1>5. outcomes' \in Seq(Mints) /\ Contents(outcomes') \subseteq Contents(outcomes \o t)
    BY <1>1, <1>4, TakeProperties DEF Insert
<1>6. Contents(selections \o s) = Contents(selections) \cup Contents(s)
    BY ContentsOfConcat
<1>7. Contents(outcomes \o t) = Contents(outcomes) \cup Contents(t)
    BY ContentsOfConcat
<1> QED BY <1>3, <1>5, <1>6, <1>7 DEF Queued

LEMMA EnqueueDueProperties ==
    ASSUME selections \in Seq(Mints), outcomes \in Seq(Mints), EnqueueDue
    PROVE  /\ selections' \in Seq(Mints) /\ outcomes' \in Seq(Mints)
           /\ Queued' \subseteq Queued \cup Persisted
<1> DEFINE S == {m \in DueMints : Unchosen(m)} \ Queued
           T == {m \in DueMints : ~Unchosen(m)} \ Queued
<1>1. PICK s \in InOrder(S, due), t \in InOrder(T, due) : Insert(s, t) BY DEF EnqueueDue
<1>2. S \subseteq Persisted /\ T \subseteq Persisted /\ Persisted \subseteq Mints
    BY DEF DueMints, Persisted
<1>3. s \in Listings(S) /\ t \in Listings(T) BY DEF InOrder
<1>4. s \in Seq(Mints) /\ Contents(s) \subseteq S BY <1>2, <1>3, ListingType
<1>5. t \in Seq(Mints) /\ Contents(t) \subseteq T BY <1>2, <1>3, ListingType
<1> QED BY <1>1, <1>2, <1>4, <1>5, InsertProperties

-----------------------------------------------------------------------------
\* The inductive invariant.

\* A live process has admitted the launches that have a row, and no others.
AdmittedIsCohort == admitted = IF up THEN Persisted ELSE {}

\* A refresh goes for the pool of the row it read.
FlightPool == \A f \in flight : f.pool = f.read.pool

IInv == TypeOK /\ CohortIsBounded /\ RefreshIsCurrent /\ AdmittedIsCohort /\ FlightPool

LEMMA InitIInv == Init => IInv
<1> SUFFICES ASSUME Init PROVE IInv OBVIOUS
<1>1. Absent \in RowType /\ Absent.status = "absent" BY DEF Absent, Unobserved, RowType, Statuses
<1>2. Persisted = {} BY <1>1 DEF Init, Persisted
<1>3. Queued = {} BY DEF Init, Queued, Contents
<1>4. TypeOK
    <2> USE DEF Init
    <2>1. row \in [Mints -> RowType] BY <1>1
    <2>2. due \in [Mints -> Int \cup {Never}] /\ events \in [Mints -> Nat] OBVIOUS
    <2>3. age \in [Mints -> 0..MaxAge] /\ poll \in 0..PollEvery BY WorkerAssumption
    <2>4. known \in SUBSET Mints /\ admitted \in SUBSET Mints /\ flight \in SUBSET FlightType
        OBVIOUS
    <2>5. selections \in Seq(Mints) /\ outcomes \in Seq(Mints) /\ faults \in Nat OBVIOUS
    <2>6. up \in BOOLEAN /\ timer \in BOOLEAN /\ running \in BOOLEAN OBVIOUS
    <2> QED BY <2>1, <2>2, <2>3, <2>4, <2>5, <2>6 DEF TypeOK
<1>5. CohortIsBounded BY <1>2, <1>3, FS_EmptySet, WorkerAssumption DEF Init, CohortIsBounded
<1>6. RefreshIsCurrent /\ AdmittedIsCohort /\ FlightPool
    BY <1>2 DEF Init, RefreshIsCurrent, AdmittedIsCohort, FlightPool
<1> QED BY <1>4, <1>5, <1>6 DEF IInv

\* Writing the row of a launch that has one changes neither the cohort nor
\* the rows of other launches.
LEMMA WriteProperties ==
    ASSUME TypeOK, NEW m \in Persisted, NEW r \in RowType, r.status # "absent",
           NEW d \in Int \cup {Never}, Write(m, r, d)
    PROVE  /\ row' \in [Mints -> RowType] /\ due' \in [Mints -> Int \cup {Never}]
           /\ Persisted' = Persisted
           /\ row'[m] = r /\ \A n \in Mints \ {m} : row'[n] = row[n]
BY DEF TypeOK, Persisted, Write

LEMMA FeedEventIInv == ASSUME IInv, NEW m \in Mints, FeedEvent(m) PROVE IInv'
<1> USE DEF IInv
<1>1. /\ events' \in [Mints -> Nat] /\ known' \in SUBSET Mints /\ age' \in [Mints -> 0..MaxAge]
      /\ up /\ up' /\ UNCHANGED <<running, flight, poll, faults>>
    BY WorkerAssumption DEF FeedEvent, TypeOK
<1>2. CASE UNCHANGED <<rows, admitted>> /\ UNCHANGED <<queue, timer>>
    <2>1. Persisted' = Persisted /\ Queued' = Queued BY <1>2 DEF Persisted, Queued, rows, queue
    <2>2. TypeOK' BY <1>1, <1>2 DEF TypeOK, rows, queue
    <2> QED BY <1>1, <1>2, <2>1, <2>2
        DEF CohortIsBounded, RefreshIsCurrent, AdmittedIsCohort, FlightPool, rows
<1>3. Enqueued(m) => /\ selections' \in Seq(Mints) /\ outcomes' \in Seq(Mints)
                     /\ Queued' \subseteq Queued \cup {m} /\ timer' \in BOOLEAN
    <2> SUFFICES ASSUME Enqueued(m)
                 PROVE  /\ selections' \in Seq(Mints) /\ outcomes' \in Seq(Mints)
                        /\ Queued' \subseteq Queued \cup {m} /\ timer' \in BOOLEAN
        OBVIOUS
    <2>1. <<m>> \in Seq(Mints) /\ <<>> \in Seq(Mints) OBVIOUS
    <2>2. Contents(<<m>>) = {m} /\ Contents(<<>>) = {} BY DEF Contents
    <2>3. selections \in Seq(Mints) /\ outcomes \in Seq(Mints) BY DEF TypeOK
    <2>4. timer' \in BOOLEAN BY DEF Enqueued, Schedule
    <2>5. Insert(<<m>>, <<>>) \/ Insert(<<>>, <<m>>) BY DEF Enqueued
    <2> QED BY <2>1, <2>2, <2>3, <2>4, <2>5, InsertProperties
<1>4. CASE Member(m) /\ Enqueued(m) /\ UNCHANGED <<rows, admitted>>
    <2>1. m \in Persisted BY <1>1, <1>4 DEF Member, AdmittedIsCohort
    <2>2. Persisted' = Persisted BY <1>4 DEF Persisted, rows
    <2>3. TypeOK' BY <1>1, <1>3, <1>4 DEF TypeOK, rows
    <2>4. CohortIsBounded' BY <1>1, <1>3, <1>4, <2>1, <2>2 DEF CohortIsBounded
    <2> QED BY <1>1, <1>4, <2>2, <2>3, <2>4
        DEF RefreshIsCurrent, AdmittedIsCohort, FlightPool, rows
<1>5. CASE Admit(m)
    <2> USE <1>5 DEF Admit
    <2> DEFINE new == [Absent EXCEPT !.status = "queued"]
    <2>1. new \in RowType /\ new.status = "queued"
        <3>1. Absent \in RowType BY DEF Absent, Unobserved, RowType, Statuses
        <3> QED BY <3>1 DEF RowType, Statuses
    <2>2. row'[m] = new /\ \A n \in Mints \ {m} : row'[n] = row[n] BY DEF TypeOK
    <2>3. m \notin Persisted /\ admitted = Persisted BY <1>1 DEF Member, AdmittedIsCohort
    <2>4. Persisted' = Persisted \cup {m} BY <2>1, <2>2 DEF Persisted
    <2>5. row' \in [Mints -> RowType] /\ due' \in [Mints -> Int \cup {Never}]
        BY <2>1 DEF TypeOK
    <2>6. TypeOK' BY <1>1, <1>3, <2>5 DEF TypeOK
    <2>7. Cardinality(Persisted') <= CohortLimit
        <3>1. IsFiniteSet(Persisted) BY FS_Subset, WorkerAssumption DEF Persisted
        <3>2. Cardinality(Persisted') = Cardinality(Persisted) + 1
              /\ Cardinality(Persisted) \in Nat
            BY <2>3, <2>4, <3>1, FS_AddElement, FS_CardinalityType
        <3>3. Cardinality(Persisted) < CohortLimit BY <2>3 DEF Admissible
        <3> QED BY <3>2, <3>3, WorkerAssumption
    <2>8. CohortIsBounded' BY <1>1, <1>3, <2>4, <2>7 DEF CohortIsBounded
    <2>9. \A f \in flight : row'[f.mint] = row[f.mint]
        <3>1. \A f \in flight : f.mint \in Persisted BY DEF CohortIsBounded
        <3> QED BY <2>2, <2>3, <3>1 DEF Persisted
    <2>10. RefreshIsCurrent' BY <1>1, <2>9 DEF RefreshIsCurrent
    <2>11. AdmittedIsCohort' BY <1>1, <2>3, <2>4 DEF AdmittedIsCohort
    <2>12. FlightPool' BY <1>1 DEF FlightPool
    <2> QED BY <2>6, <2>8, <2>10, <2>11, <2>12
<1>6. Enqueue(m) BY DEF FeedEvent
<1> QED BY <1>2, <1>4, <1>5, <1>6 DEF Enqueue

LEMMA PollIInv == ASSUME IInv, Poll PROVE IInv'
<1> USE DEF IInv, Poll
<1>1. /\ selections' \in Seq(Mints) /\ outcomes' \in Seq(Mints)
      /\ Queued' \subseteq Queued \cup Persisted
    BY EnqueueDueProperties DEF TypeOK
<1>2. Persisted' = Persisted BY DEF Persisted, rows
<1>3. TypeOK' BY <1>1, WorkerAssumption DEF TypeOK, rows, Schedule
<1>4. CohortIsBounded' BY <1>1, <1>2 DEF CohortIsBounded
<1> QED BY <1>2, <1>3, <1>4 DEF RefreshIsCurrent, AdmittedIsCohort, FlightPool, rows
\* The worker takes the first selection, or else the first outcome.
LEMMA TakeHead ==
    ASSUME selections \in Seq(Mints), outcomes \in Seq(Mints), QueueLength > 0,
           IF selections # <<>>
           THEN selections' = Tail(selections) /\ UNCHANGED outcomes
           ELSE outcomes' = Tail(outcomes) /\ UNCHANGED selections
    PROVE  /\ Head(selections \o outcomes) \in Queued
           /\ selections' \in Seq(Mints) /\ outcomes' \in Seq(Mints)
           /\ Queued' \subseteq Queued
<1>1. ASSUME NEW s \in Seq(Mints), s # <<>>
      PROVE  Tail(s) \in Seq(Mints) /\ Contents(Tail(s)) \subseteq Contents(s)
    <2>1. /\ Tail(s) \in Seq(Mints) /\ Len(Tail(s)) = Len(s) - 1
          /\ \A i \in 1..Len(Tail(s)) : Tail(s)[i] = s[i + 1]
        BY <1>1, HeadTailProperties
    <2>2. \A i \in DOMAIN Tail(s) : i + 1 \in DOMAIN s /\ Tail(s)[i] = s[i + 1] BY <2>1
    <2> QED BY <2>1, <2>2 DEF Contents
<1>2. CASE selections # <<>>
    <2>1. Head(selections \o outcomes) = selections[1] /\ 1 \in DOMAIN selections BY <1>2
    <2> QED BY <1>1, <1>2, <2>1 DEF Queued, Contents
<1>3. CASE selections = <<>>
    <2>1. outcomes # <<>> /\ selections \o outcomes = outcomes BY <1>3 DEF QueueLength
    <2>2. Head(selections \o outcomes) = outcomes[1] /\ 1 \in DOMAIN outcomes BY <2>1
    <2> QED BY <1>1, <1>3, <2>1, <2>2 DEF Queued, Contents
<1> QED BY <1>2, <1>3

\* Rows a refresh writes are rows of the cohort.
LEMMA FailureRowType ==
    ASSUME NEW read \in RowType, NEW pool \in Pools \cup {None}, NEW kind
    PROVE  FailureRow(read, pool, kind) \in RowType
           /\ FailureRow(read, pool, kind).status # "absent"
           /\ FailureRow(read, pool, kind).pool = pool
BY DEF FailureRow, RowType, Statuses

LEMMA DrainIInv == ASSUME IInv, Drain PROVE IInv'
<1> DEFINE m == Head(selections \o outcomes)
<1> USE DEF IInv
<1>1. /\ m \in Queued /\ selections' \in Seq(Mints) /\ outcomes' \in Seq(Mints)
      /\ Queued' \subseteq Queued
    BY TakeHead DEF Drain, TypeOK
<1>2. m \in Persisted /\ m \in Mints BY <1>1 DEF CohortIsBounded, Persisted
<1>3. flight = {} BY DEF Drain, Idle, RefreshIsCurrent
<1>4. row[m] \in RowType /\ row[m].status # "absent" /\ row[m].pool \in Pools \cup {None}
    BY <1>2 DEF TypeOK, Persisted, RowType
<1>5. up' = up /\ up /\ admitted' = admitted /\ ~running BY DEF Drain, Idle
<1>6. Refresh(m) BY DEF Drain
<1>7. CASE UNCHANGED <<rows, running, flight, faults>> /\ timer' \in BOOLEAN
    <2>1. Persisted' = Persisted BY <1>7 DEF Persisted, rows
    <2>2. TypeOK' BY <1>1, <1>7 DEF TypeOK, rows, Drain
    <2>3. CohortIsBounded' BY <1>1, <1>7, <2>1 DEF CohortIsBounded
    <2> QED BY <1>5, <1>7, <2>1, <2>2, <2>3
        DEF RefreshIsCurrent, AdmittedIsCohort, FlightPool, rows
<1>8. CASE /\ \/ Write(m, FailureRow(row[m], None, "missed"), Never) /\ UNCHANGED faults
              \/ UNCHANGED rows /\ faults < MaxFaults /\ faults' = faults + 1
           /\ UNCHANGED <<running, flight>> /\ timer' \in BOOLEAN
    <2>1. /\ row' \in [Mints -> RowType] /\ due' \in [Mints -> Int \cup {Never}]
          /\ Persisted' = Persisted
        <3>1. CASE Write(m, FailureRow(row[m], None, "missed"), Never)
            BY <1>2, <1>4, <3>1, FailureRowType, WriteProperties
        <3>2. CASE UNCHANGED rows BY <3>2 DEF rows, Persisted, TypeOK
        <3> QED BY <1>8, <3>1, <3>2
    <2>2. TypeOK'
        <3>1. faults' \in Nat BY <1>8, WorkerAssumption DEF TypeOK
        <3>2. running' \in BOOLEAN /\ timer' \in BOOLEAN /\ flight' \in SUBSET FlightType
            BY <1>8 DEF TypeOK
        <3> QED BY <1>1, <2>1, <3>1, <3>2 DEF TypeOK, Drain
    <2>3. CohortIsBounded' BY <1>1, <1>8, <2>1 DEF CohortIsBounded
    <2> QED BY <1>3, <1>5, <1>8, <2>1, <2>2, <2>3
        DEF RefreshIsCurrent, AdmittedIsCohort, FlightPool
<1>9. CASE /\ flight' = flight \cup {[mint |-> m, read |-> row[m], pool |-> row[m].pool]}
           /\ running' = TRUE /\ timer' = FALSE /\ UNCHANGED <<rows, faults>>
    <2> DEFINE f == [mint |-> m, read |-> row[m], pool |-> row[m].pool]
    <2>1. flight' = {f} /\ f.mint = m /\ f.read = row[m] /\ f.pool = f.read.pool BY <1>3, <1>9
    <2>2. Persisted' = Persisted BY <1>9 DEF Persisted, rows
    <2>3. f \in FlightType BY <1>2, <1>4 DEF FlightType
    <2> HIDE DEF f, m
    <2>4. TypeOK' BY <1>1, <1>9, <2>1, <2>3 DEF TypeOK, rows, Drain
    <2>5. CohortIsBounded' BY <1>1, <1>2, <2>1, <2>2 DEF CohortIsBounded
    <2>6. RefreshIsCurrent' BY <1>5, <1>9, <2>1 DEF RefreshIsCurrent, rows
    <2>7. AdmittedIsCohort' BY <1>5, <2>2 DEF AdmittedIsCohort
    <2>8. FlightPool' BY <2>1 DEF FlightPool
    <2> QED BY <2>4, <2>5, <2>6, <2>7, <2>8
<1>10. \A set, idle : Schedule(set, idle) => timer' \in BOOLEAN BY DEF Schedule
<1> QED BY <1>6, <1>7, <1>8, <1>9, <1>10 DEF Refresh

\* However a refresh ends, it leaves the invariant: it writes the row of its
\* mint, or the write fails and leaves it, and the worker is idle.
LEMMA EndIInv ==
    ASSUME IInv, NEW f \in flight, Finished(f), faults' \in Nat,
           UNCHANGED <<age, known, up, admitted, poll, events>>,
           \/ UNCHANGED rows
           \/ \E r \in RowType, d \in Int \cup {Never} : r.status # "absent" /\ Write(f.mint, r, d)
    PROVE  IInv'
<1> USE DEF IInv
<1>1. f.mint \in Persisted BY DEF CohortIsBounded
<1>2. flight' = {} BY DEF Finished, RefreshIsCurrent
<1>3. /\ row' \in [Mints -> RowType] /\ due' \in [Mints -> Int \cup {Never}]
      /\ Persisted' = Persisted
    <2>1. CASE UNCHANGED rows BY <2>1 DEF rows, Persisted, TypeOK
    <2>2. CASE \E r \in RowType, d \in Int \cup {Never} : r.status # "absent" /\ Write(f.mint, r, d)
        BY <1>1, <2>2, WriteProperties
    <2> QED BY <2>1, <2>2
<1>4. timer' \in BOOLEAN /\ running' \in BOOLEAN /\ UNCHANGED queue BY DEF Finished, Schedule
<1>5. TypeOK' BY <1>2, <1>3, <1>4 DEF TypeOK, queue
<1>6. Queued' = Queued BY <1>4 DEF Queued, queue
<1>7. CohortIsBounded' BY <1>2, <1>3, <1>6 DEF CohortIsBounded
<1> QED BY <1>2, <1>3, <1>5, <1>7 DEF RefreshIsCurrent, AdmittedIsCohort, FlightPool

LEMMA PoolAnswerIInv ==
    ASSUME IInv, NEW f \in flight, NEW p \in Pools, PoolAnswer(f, p) PROVE IInv'
<1> USE DEF IInv, PoolAnswer
<1> DEFINE chosen == [Absent EXCEPT !.status = "pool-selected", !.pool = p]
           failed == FailureRow(f.read, p, "transient")
<1>1. f.read \in RowType /\ age[f.mint] \in Int BY DEF TypeOK, FlightType
<1>2. chosen \in RowType /\ chosen.status # "absent"
    <2>1. Absent \in RowType BY DEF Absent, Unobserved, RowType, Statuses
    <2> QED BY <2>1 DEF RowType, Statuses
<1>3. failed \in RowType /\ failed.status # "absent" BY <1>1, FailureRowType
<1>4. Least(Windows) + Grace - age[f.mint] \in Int
    <2>1. Least(Windows) \in Windows BY LeastType, WorkerAssumption
    <2> QED BY <1>1, <2>1, WorkerAssumption
<1>5. Later \in Int /\ faults' \in Nat
    <2>1. faults' = faults \/ faults' = faults + 1 OBVIOUS
    <2>2. faults \in Nat /\ Later \in Int BY WorkerAssumption DEF TypeOK
    <2> QED BY <2>1, <2>2
<1>6. \/ UNCHANGED rows
      \/ \E r \in RowType, d \in Int \cup {Never} : r.status # "absent" /\ Write(f.mint, r, d)
    BY <1>2, <1>3, <1>4, <1>5
<1> QED BY <1>5, <1>6, EndIInv

LEMMA CandleAnswerIInv == ASSUME IInv, NEW f \in flight, CandleAnswer(f) PROVE IInv'
<1> USE DEF IInv, CandleAnswer
<1> DEFINE failed == FailureRow(f.read, f.pool, "transient")
<1>1. f.read \in RowType /\ age[f.mint] \in Nat /\ f.pool \in Pools \cup {None}
    BY DEF TypeOK, FlightType
<1>2. failed \in RowType /\ failed.status # "absent" BY <1>1, FailureRowType
<1>3. Later \in Int /\ faults' \in Nat BY WorkerAssumption DEF TypeOK
<1>4. ASSUME NEW c \in Candidates(f.mint), NEW o, o = Merge(f.read, c)
      PROVE  /\ [status |-> OutcomeStatus(o, age[f.mint]), pool |-> f.pool,
                 baseline |-> o.baseline, result |-> o.result] \in RowType
             /\ OutcomeStatus(o, age[f.mint]) # "absent"
             /\ OutcomeDelay(o, age[f.mint]) \in Int \cup {Never}
    <2>1. o.baseline \in BOOLEAN /\ o.result \in [Windows -> Results \cup {None}]
        BY <1>1, <1>4 DEF Merge, Candidates, RowType
    <2>2. OutcomeStatus(o, age[f.mint]) \in Statuses \ {"absent"} BY DEF OutcomeStatus, Statuses
    <2>3. OutcomeDelay(o, age[f.mint]) \in Int \cup {Never}
        BY <1>1, NextAttemptType, WorkerAssumption DEF OutcomeDelay
    <2> QED BY <1>1, <2>1, <2>2, <2>3 DEF RowType
<1>5. \/ UNCHANGED rows
      \/ \E r \in RowType, d \in Int \cup {Never} : r.status # "absent" /\ Write(f.mint, r, d)
    BY <1>2, <1>3, <1>4
<1> QED BY <1>3, <1>5, EndIInv

LEMMA FailedAnswerIInv == ASSUME IInv, NEW f \in flight, FailedAnswer(f) PROVE IInv'
<1> USE DEF IInv, FailedAnswer
<1>1. f.read \in RowType /\ f.pool \in Pools \cup {None} BY DEF TypeOK, FlightType
<1>2. ASSUME NEW kind, NEW wait \in RateDelays
      PROVE  /\ FailureRow(f.read, f.pool, kind) \in RowType
             /\ FailureRow(f.read, f.pool, kind).status # "absent"
             /\ FailureDelay(f.pool, kind, wait) \in Int \cup {Never}
    BY <1>1, FailureRowType, WorkerAssumption DEF FailureDelay
<1>3. faults' \in Nat BY WorkerAssumption DEF TypeOK
<1>4. \/ UNCHANGED rows
      \/ \E r \in RowType, d \in Int \cup {Never} : r.status # "absent" /\ Write(f.mint, r, d)
    BY <1>2
<1> QED BY <1>3, <1>4, EndIInv

LEMMA CrashIInv == ASSUME IInv, Crash PROVE IInv'
<1> USE DEF IInv, Crash
<1>1. Persisted' = Persisted BY DEF Persisted, rows
<1>2. Queued' = {} BY DEF Queued, Contents
<1>3. known' \in SUBSET Mints /\ age' \in [Mints -> 0..MaxAge]
    <2>1. known \in SUBSET Mints /\ age \in [Mints -> 0..MaxAge] /\ 0 \in 0..MaxAge
        BY WorkerAssumption DEF TypeOK
    <2>2. CASE UNCHANGED <<known, age>> BY <2>1, <2>2
    <2>3. CASE \E m \in Mints \ known :
                  known' = known \cup {m} /\ age' = [age EXCEPT ![m] = 0]
        BY <2>1, <2>3
    <2> QED BY <2>2, <2>3
<1>4. /\ selections' \in Seq(Mints) /\ outcomes' \in Seq(Mints)
      /\ poll' \in 0..PollEvery /\ faults' \in Nat
    <2>1. <<>> \in Seq(Mints) OBVIOUS
    <2>2. poll' \in 0..PollEvery /\ faults' \in Nat BY WorkerAssumption DEF TypeOK
    <2> QED BY <2>1, <2>2
<1>5. row' \in [Mints -> RowType] /\ due' \in [Mints -> Int \cup {Never}]
      /\ events' \in [Mints -> Nat]
    BY DEF TypeOK, rows
<1>6. TypeOK' BY <1>3, <1>4, <1>5 DEF TypeOK
<1>7. CohortIsBounded' BY <1>1, <1>2 DEF CohortIsBounded
<1> QED BY <1>6, <1>7 DEF RefreshIsCurrent, AdmittedIsCohort, FlightPool

LEMMA RestartIInv == ASSUME IInv, Restart PROVE IInv'
<1> USE DEF IInv, Restart
<1>1. /\ selections' \in Seq(Mints) /\ outcomes' \in Seq(Mints)
      /\ Queued' \subseteq Queued \cup Persisted
    BY EnqueueDueProperties DEF TypeOK
<1>2. Persisted' = Persisted BY DEF Persisted, rows
<1>3. admitted' = Persisted' /\ Persisted' \subseteq Mints BY <1>2 DEF Restored, Persisted
<1>4. flight = {} BY DEF RefreshIsCurrent
<1>5. TypeOK' BY <1>1, <1>3, WorkerAssumption DEF TypeOK, rows, Schedule
<1>6. CohortIsBounded' BY <1>1, <1>2 DEF CohortIsBounded
<1> QED BY <1>3, <1>4, <1>5, <1>6 DEF RefreshIsCurrent, AdmittedIsCohort, FlightPool

LEMMA TickIInv == ASSUME IInv, Tick PROVE IInv'
<1> USE DEF IInv, Tick
<1>1. Persisted' = Persisted /\ Queued' = Queued BY DEF Persisted, Queued, queue
<1>2. due' \in [Mints -> Int \cup {Never}] BY WorkerAssumption DEF TypeOK
<1>3. age' \in [Mints -> 0..MaxAge] BY WorkerAssumption DEF TypeOK
<1>4. poll' \in 0..PollEvery BY WorkerAssumption DEF TypeOK
<1>5. TypeOK' BY <1>2, <1>3, <1>4 DEF TypeOK, queue
<1> QED BY <1>1, <1>5 DEF CohortIsBounded, RefreshIsCurrent, AdmittedIsCohort, FlightPool

LEMMA StepIInv == ASSUME IInv, [Next]_vars PROVE IInv'
<1>1. CASE UNCHANGED vars
    BY <1>1 DEF vars, IInv, TypeOK, CohortIsBounded, RefreshIsCurrent, AdmittedIsCohort,
                FlightPool, Persisted, Queued
<1>2. CASE \E f \in flight : Answer(f)
    BY <1>2, PoolAnswerIInv, CandleAnswerIInv, FailedAnswerIInv DEF Answer
<1> QED BY <1>1, <1>2, FeedEventIInv, PollIInv, DrainIInv, CrashIInv, RestartIInv, TickIInv
    DEF Next

-----------------------------------------------------------------------------
\* The theorems about the worker.

\* Whatever order feed events, polls, refreshes, crashes, restarts and failed
\* writes come in, the invariant holds.
THEOREM Invariance == Spec => []IInv
BY InitIInv, StepIInv, PTL DEF Spec

\* Rows, queue, worker and clocks keep their types.
THEOREM TypeCorrect == Spec => []TypeOK
<1>1. IInv => TypeOK BY DEF IInv
<1> QED BY <1>1, Invariance, PTL

\* The cohort never exceeds its limit, and only rows of the cohort are
\* queued or in flight: enqueue, enqueueDue and the constructor's restore.
THEOREM BoundedCohort == Spec => []CohortIsBounded
<1>1. IInv => CohortIsBounded BY DEF IInv
<1> QED BY <1>1, Invariance, PTL

\* One refresh runs at a time, and the row its answer overwrites is the row
\* it read before the await of the provider.
THEOREM CurrentRefresh == Spec => []RefreshIsCurrent
<1>1. IInv => RefreshIsCurrent BY DEF IInv
<1> QED BY <1>1, Invariance, PTL

\* The pool of a launch is selected once and never changed: #select writes
\* only for a row that held none, in the selection window, and every other
\* write of the worker keeps the pool it read.
THEOREM ProspectivePool == Spec => PoolIsProspective
<1>1. ASSUME IInv, [Next]_vars, NEW m \in Mints
      PROVE  Held(m)' \subseteq Held(m) \/ (Held(m) = {} /\ ~Late(m))
    <2> USE <1>1 DEF IInv
    <2> DEFINE Kept == Held(m)' \subseteq Held(m)
    <2>1. ASSUME UNCHANGED <<row, flight>> PROVE Kept BY <2>1 DEF Held
    <2>2. ASSUME NEW n \in Mints, FeedEvent(n) PROVE Kept
        <3>1. flight' = flight BY <2>2 DEF FeedEvent
        <3>2. row' = row \/ row' = [row EXCEPT ![n] = [Absent EXCEPT !.status = "queued"]]
            BY <2>2 DEF FeedEvent, Enqueue, Admit, rows
        <3>3. row'[m].pool = row[m].pool \/ row'[m].pool = None
            BY <3>2 DEF TypeOK, Absent
        <3> QED BY <3>1, <3>3 DEF Held
    <2>3. ASSUME Drain PROVE Kept
        <3> DEFINE h == Head(selections \o outcomes)
        <3>1. h \in Queued BY <2>3, TakeHead DEF Drain, TypeOK
        <3>2. h \in Mints BY <3>1 DEF CohortIsBounded, Persisted
        <3>3. flight = {} BY <2>3 DEF Drain, Idle, RefreshIsCurrent
        <3>4. Refresh(h) BY <2>3 DEF Drain
        <3> HIDE DEF h
        <3>5. CASE UNCHANGED <<row, flight>> BY <2>1, <3>5
        <3>6. CASE Write(h, FailureRow(row[h], None, "missed"), Never) /\ UNCHANGED flight
            <4>1. row'[m].pool = row[m].pool \/ row'[m].pool = None
                BY <3>2, <3>6 DEF TypeOK, Write, FailureRow
            <4> QED BY <3>6, <4>1 DEF Held
        <3>7. CASE /\ flight' = flight \cup {[mint |-> h, read |-> row[h], pool |-> row[h].pool]}
                   /\ UNCHANGED row
            <4>1. \A f \in flight' : f.mint = h /\ f.pool = row[h].pool BY <3>3, <3>7
            <4> QED BY <3>7, <4>1 DEF Held
        <3> QED BY <3>4, <3>5, <3>6, <3>7 DEF Refresh, rows
    <2>4. ASSUME NEW f \in flight, Answer(f)
          PROVE  Held(m)' \subseteq Held(m) \/ (Held(m) = {} /\ ~Late(m))
        <3>1. /\ f.mint \in Mints /\ f.read = row[f.mint] /\ f.pool = row[f.mint].pool
              /\ \A g \in flight : g = f
            BY DEF TypeOK, FlightType, RefreshIsCurrent, FlightPool
        <3>2. flight' = {}
            BY <2>4, <3>1 DEF Answer, PoolAnswer, CandleAnswer, FailedAnswer, Finished
        <3>3. CASE UNCHANGED row BY <3>2, <3>3 DEF Held
        <3>4. ASSUME NEW r, NEW d, r.pool = f.pool, Write(f.mint, r, d) PROVE Kept
            <4>1. row'[m].pool = row[m].pool BY <3>1, <3>4 DEF TypeOK, Write
            <4> QED BY <3>2, <4>1 DEF Held
        <3>5. ASSUME NEW p \in Pools, PoolAnswer(f, p)
              PROVE  Held(m)' \subseteq Held(m) \/ (Held(m) = {} /\ ~Late(m))
            <4>1. row[f.mint].pool = None /\ ~Late(f.mint) BY <3>1, <3>5 DEF PoolAnswer, InTime
            <4>2. CASE m = f.mint
                <5>1. Held(m) = {} BY <3>1, <4>1, <4>2 DEF Held
                <5> QED BY <4>1, <4>2, <5>1
            <4>3. CASE m # f.mint
                <5>1. row'[m] = row[m]
                    BY <3>1, <3>5, <4>3 DEF PoolAnswer, Write, TypeOK, rows
                <5> QED BY <3>2, <5>1 DEF Held
            <4> QED BY <4>2, <4>3
        <3>6. CASE CandleAnswer(f)
            <4>1. FailureRow(f.read, f.pool, "transient").pool = f.pool BY DEF FailureRow
            <4>2. CASE UNCHANGED row BY <3>3, <4>2
            <4>3. CASE \E r, d : r.pool = f.pool /\ Write(f.mint, r, d) BY <3>4, <4>3
            <4>4. \A s, b, q : [status |-> s, pool |-> f.pool, baseline |-> b, result |-> q].pool
                              = f.pool
                OBVIOUS
            <4> QED BY <3>6, <4>1, <4>2, <4>3, <4>4 DEF CandleAnswer, rows
        <3>7. CASE FailedAnswer(f)
            <4>1. \A kind : FailureRow(f.read, f.pool, kind).pool = f.pool BY DEF FailureRow
            <4> QED BY <3>3, <3>4, <3>7, <4>1 DEF FailedAnswer, rows
        <3> QED BY <2>4, <3>5, <3>6, <3>7 DEF Answer
    <2>5. CASE Poll BY <2>1, <2>5 DEF Poll, rows
    <2>6. CASE Crash
        <3>1. flight' = {} /\ row' = row BY <2>6 DEF Crash, rows
        <3> QED BY <3>1 DEF Held
    <2>7. CASE Restart BY <2>1, <2>7 DEF Restart, rows
    <2>8. CASE Tick BY <2>1, <2>8 DEF Tick
    <2> QED BY <2>1, <2>2, <2>3, <2>4, <2>5, <2>6, <2>7, <2>8 DEF Next, vars
<1>2. IInv /\ [Next]_vars
      => [\A m \in Mints : Held(m)' \subseteq Held(m) \/ (Held(m) = {} /\ ~Late(m))]_vars
    BY <1>1
<1> QED BY <1>2, Invariance, PTL DEF PoolIsProspective, Spec

-----------------------------------------------------------------------------
\* The record of one launch.

\* The pool selected is one that is offered and eligible, the earliest created.
LEMMA SelectedPool ==
    ASSUME NEW offered, offered \subseteq Offers, {p \in offered : Eligible(p)} # {}
    PROVE  SelectPool(offered) \in offered /\ Eligible(SelectPool(offered))
<1> USE CalculationAssumption, RecordAssumption
<1> DEFINE eligible == {p \in offered : Eligible(p)}
           aged(p) == p.created - (Launch - ClockSkew)
           Ages == {aged(p) : p \in eligible}
<1>1. \A p \in eligible : p.created \in Int /\ p.address \in Nat /\ aged(p) \in Nat BY DEF Eligible
<1>2. PICK a \in Ages : \A b \in Ages : a <= b
    <2>1. Ages \subseteq Nat /\ Ages # {} BY <1>1
    <2> HIDE DEF Ages
    <2> QED BY <2>1, LeastNumber
<1> DEFINE earliest == {p \in eligible : aged(p) = a}
           Addresses == {p.address : p \in earliest}
<1>3. earliest # {} /\ Addresses # {} /\ Addresses \subseteq Nat BY <1>1, <1>2
<1>4. PICK m \in Addresses : \A b \in Addresses : m <= b BY <1>3, LeastNumber
<1>5. PICK p \in earliest : p.address = m BY <1>4
<1>6. ASSUME NEW q \in eligible
      PROVE  p.created < q.created \/ (p.created = q.created /\ p.address <= q.address)
    <2>1. a <= aged(q) /\ aged(p) = a BY <1>2, <1>5
    <2>2. /\ p.created \in Int /\ q.created \in Int /\ Launch \in Int /\ ClockSkew \in Int
        BY <1>1, <1>5
    <2>3. CASE aged(q) = a
        <3>1. m <= q.address BY <1>4, <2>3
        <3> QED BY <1>5, <2>1, <2>2, <2>3, <3>1
    <2>4. CASE aged(q) # a BY <2>1, <2>2, <2>4
    <2> QED BY <2>3, <2>4
<1>7. SelectPool(offered) \in eligible
    <2>1. \E r \in eligible : \A q \in eligible :
             r.created < q.created \/ (r.created = q.created /\ r.address <= q.address)
        BY <1>5, <1>6
    <2> HIDE DEF eligible
    <2>2. (CHOOSE r \in eligible : \A q \in eligible :
             r.created < q.created \/ (r.created = q.created /\ r.address <= q.address)) \in eligible
        BY <2>1
    <2> QED BY <2>2 DEF SelectPool, eligible
<1> QED BY <1>7

-----------------------------------------------------------------------------
\* The drawdown of a path of candles.

\* What a fall is, in whole percent of the earlier close.
LEMMA Quotient ==
    ASSUME NEW a \in Int, NEW b \in Nat \ {0}
    PROVE  /\ a \div b \in Int
           /\ b * (a \div b) <= a /\ a < b * (a \div b) + b
BY SMTT(30)

\* Division by a positive number keeps the order.
LEMMA QuotientBound ==
    ASSUME NEW a \in Int, NEW b \in Nat \ {0}, NEW q \in Int
    PROVE  /\ a < b * q + b => a \div b <= q
           /\ b * q <= a => q <= a \div b
<1>1. PICK d \in Int : d = a \div b /\ b * d <= a /\ a < b * d + b BY Quotient
<1>2. ASSUME a < b * q + b, d > q PROVE FALSE
    <2>1. d - q - 1 \in Nat BY <1>2
    <2>2. b * (d - q - 1) >= 0 BY <2>1
    <2>3. b * (d - q - 1) = b * d - b * q - b OBVIOUS
    <2> QED BY <1>1, <1>2, <2>2, <2>3
<1>3. ASSUME b * q <= a, q > d PROVE FALSE
    <2>1. q - d - 1 \in Nat BY <1>3
    <2>2. b * (q - d - 1) >= 0 BY <2>1
    <2>3. b * (q - d - 1) = b * q - b * d - b OBVIOUS
    <2> QED BY <1>1, <1>3, <2>2, <2>3
<1> QED BY <1>1, <1>2, <1>3

Priced(c) == c.close \in Nat \ {0}

\* A fall is at most the whole close; there is none of a close from itself, nor from a
\* lower one.
LEMMA FallRange ==
    ASSUME NEW p, NEW c, Priced(p), Priced(c)
    PROVE  /\ Fall(p, c) \in Int /\ Fall(p, c) <= 100
           /\ p.close = c.close => Fall(p, c) = 0
           /\ p.close <= c.close => Fall(p, c) <= 0
           /\ c.close <= p.close => Fall(p, c) >= 0
<1>1. PICK a \in Nat \ {0}, b \in Nat \ {0} : a = p.close /\ b = c.close BY DEF Priced
<1>2. Fall(p, c) = (100 * (a - b)) \div a BY <1>1 DEF Fall
<1>3. 100 * (a - b) \in Int OBVIOUS
<1>4. (100 * (a - b)) \div a \in Int BY <1>3, Quotient
<1>5. 100 * (a - b) < a * 100 + a OBVIOUS
<1>6. (100 * (a - b)) \div a <= 100 BY <1>3, <1>5, QuotientBound
<1>7. a <= b => (100 * (a - b)) \div a <= 0
    <2>1. a <= b => 100 * (a - b) < a * 0 + a OBVIOUS
    <2> QED BY <1>3, <2>1, QuotientBound
<1>8. b <= a => (100 * (a - b)) \div a >= 0
    <2>1. b <= a => a * 0 <= 100 * (a - b) OBVIOUS
    <2> QED BY <1>3, <1>4, <2>1, QuotientBound
<1> QED BY <1>1, <1>2, <1>4, <1>6, <1>7, <1>8

\* From a higher close the fall is deeper.
LEMMA FallGrows ==
    ASSUME NEW p, NEW h, NEW c, Priced(p), Priced(h), Priced(c), p.close <= h.close
    PROVE  Fall(p, c) <= Fall(h, c)
<1>1. PICK a \in Nat \ {0}, e \in Nat \ {0}, b \in Nat \ {0} :
         a = p.close /\ e = h.close /\ b = c.close
    BY DEF Priced
<1>2. Fall(p, c) = (100 * (a - b)) \div a /\ Fall(h, c) = (100 * (e - b)) \div e BY <1>1 DEF Fall
<1>3. 100 * (a - b) \in Int /\ 100 * (e - b) \in Int OBVIOUS
<1>4. PICK q \in Int : q = (100 * (a - b)) \div a /\ a * q <= 100 * (a - b) BY <1>3, Quotient
<1>5. e * q <= 100 * (e - b)
    <2>1. a * (100 - q) >= 100 * b BY <1>4
    <2>2. 100 - q > 0
        <3> SUFFICES ASSUME 100 - q <= 0 PROVE FALSE OBVIOUS
        <3>1. a * (q - 100) >= 0 OBVIOUS
        <3>2. a * (q - 100) = 0 - a * (100 - q) OBVIOUS
        <3> QED BY <2>1, <3>1, <3>2
    <2>3. a <= e BY <1>1
    <2>4. (e - a) * (100 - q) >= 0 BY <2>2, <2>3
    <2>5. (e - a) * (100 - q) = e * (100 - q) - a * (100 - q) OBVIOUS
    <2>6. e * (100 - q) >= 100 * b BY <2>1, <2>4, <2>5
    <2>7. e * (100 - q) = 100 * e - e * q OBVIOUS
    <2> QED BY <2>6, <2>7
<1>6. q <= (100 * (e - b)) \div e BY <1>3, <1>5, QuotientBound
<1> QED BY <1>2, <1>4, <1>6

\* A set with zero and each member's successor has all natural numbers.
LEMMA Successors ==
    ASSUME NEW S, 0 \in S, \A n \in S \cap Nat : n + 1 \in S
    PROVE  Nat \subseteq S
<1> SUFFICES ASSUME Nat \ S # {} PROVE FALSE OBVIOUS
<1>1. PICK x \in Nat \ S : \A y \in Nat \ S : x <= y BY LeastNumber
<1>2. x - 1 \in Nat /\ (x - 1) + 1 = x BY <1>1
<1> QED BY <1>1, <1>2

\* The candles of a path: at different times, with a price each.
Path(P) ==
    /\ IsFiniteSet(P) /\ P # {}
    /\ \A c \in P : c.start \in Int /\ Priced(c)
    /\ \A c, d \in P : c.start = d.start => c = d

\* A path has a last candle and a first: those after, or before, which fewest lie.
LEMMA PathHasEnds ==
    ASSUME NEW P, Path(P)
    PROVE  /\ Latest(P) \in P /\ \A d \in P : d.start <= Latest(P).start
           /\ Earliest(P) \in P /\ \A d \in P : Earliest(P).start <= d.start
<1>1. \A c \in P : c.start \in Int BY DEF Path
<1>2. \E c \in P : \A d \in P : d.start <= c.start
    <2> DEFINE After(c) == {d \in P : d.start > c.start}
               T == {After(c) : c \in P}
    <2>1. T \subseteq FiniteSubsetsOf(P) /\ T # {}
        <3>1. ASSUME NEW c \in P PROVE After(c) \in FiniteSubsetsOf(P)
            <4>1. After(c) \subseteq P OBVIOUS
            <4>2. IsFiniteSet(After(c)) BY <4>1, FS_Subset DEF Path
            <4> HIDE DEF After
            <4> QED BY <4>1, <4>2 DEF FiniteSubsetsOf
        <3>2. PICK c0 \in P : TRUE BY DEF Path
        <3>3. After(c0) \in T OBVIOUS
        <3> HIDE DEF After
        <3> QED BY <3>1, <3>3
    <2>2. PICK u \in T : \A v \in T : <<v, u>> \notin StrictSubsetOrdering(P)
        BY <2>1, FS_StrictSubsetOrderingWellFounded, WFMin, Zenon
    <2>3. PICK c \in P : u = After(c) OBVIOUS
    <2>4. ASSUME NEW d \in P, d.start > c.start PROVE FALSE
        <3>1. After(d) \subseteq After(c) /\ d \in After(c) /\ d \notin After(d) BY <1>1, <2>4
        <3>2. <<After(d), After(c)>> \in StrictSubsetOrdering(P) BY <3>1 DEF StrictSubsetOrdering
        <3> QED BY <2>2, <2>3, <3>2
    <2> QED BY <1>1, <2>4
<1>3. \E c \in P : \A d \in P : c.start <= d.start
    <2> DEFINE Before(c) == {d \in P : d.start < c.start}
               T == {Before(c) : c \in P}
    <2>1. T \subseteq FiniteSubsetsOf(P) /\ T # {}
        <3>1. ASSUME NEW c \in P PROVE Before(c) \in FiniteSubsetsOf(P)
            <4>1. Before(c) \subseteq P OBVIOUS
            <4>2. IsFiniteSet(Before(c)) BY <4>1, FS_Subset DEF Path
            <4> HIDE DEF Before
            <4> QED BY <4>1, <4>2 DEF FiniteSubsetsOf
        <3>2. PICK c0 \in P : TRUE BY DEF Path
        <3>3. Before(c0) \in T OBVIOUS
        <3> HIDE DEF Before
        <3> QED BY <3>1, <3>3
    <2>2. PICK u \in T : \A v \in T : <<v, u>> \notin StrictSubsetOrdering(P)
        BY <2>1, FS_StrictSubsetOrderingWellFounded, WFMin, Zenon
    <2>3. PICK c \in P : u = Before(c) OBVIOUS
    <2>4. ASSUME NEW d \in P, d.start < c.start PROVE FALSE
        <3>1. Before(d) \subseteq Before(c) /\ d \in Before(c) /\ d \notin Before(d) BY <1>1, <2>4
        <3>2. <<Before(d), Before(c)>> \in StrictSubsetOrdering(P) BY <3>1 DEF StrictSubsetOrdering
        <3> QED BY <2>2, <2>3, <3>2
    <2> QED BY <1>1, <2>4
<1> QED BY <1>2, <1>3 DEF Latest, Earliest

\* A finite set is in D when a non-empty set is once it is without any one of its members.
LEMMA SubsetInduction ==
    ASSUME NEW S, IsFiniteSet(S), NEW D, {} \in D,
           \A s \in SUBSET S : s # {} /\ (\A x \in s : s \ {x} \in D) => s \in D
    PROVE  SUBSET S \subseteq D
<1> SUFFICES ASSUME NEW s0 \in SUBSET S, s0 \notin D PROVE FALSE OBVIOUS
<1> DEFINE T == {s \in SUBSET S : s \notin D}
<1>1. T \subseteq FiniteSubsetsOf(S) /\ T # {} BY FS_Subset DEF FiniteSubsetsOf
<1>2. PICK u \in T : \A v \in T : <<v, u>> \notin StrictSubsetOrdering(S)
    <2> HIDE DEF T
    <2> QED BY <1>1, FS_StrictSubsetOrderingWellFounded, WFMin, Zenon
<1>3. u \in SUBSET S /\ u # {} /\ u \notin D OBVIOUS
<1>4. PICK x \in u : u \ {x} \notin D BY <1>3
<1>5. u \ {x} \in T BY <1>3, <1>4
<1>6. <<u \ {x}, u>> \in StrictSubsetOrdering(S) BY <1>3, <1>4, <1>5 DEF StrictSubsetOrdering
<1> QED BY <1>2, <1>5, <1>6

\* What is seen of the candles T: the highest, and the deepest fall from one to a later one.
Seen(P) == [high : P, maximum : Int, peak : P, trough : P]
Deepest(seen, T) ==
    /\ {seen.high, seen.peak, seen.trough} \subseteq T
    /\ seen.peak.start <= seen.trough.start
    /\ seen.maximum = Fall(seen.peak, seen.trough)
    /\ \A c \in T : c.close <= seen.high.close
    /\ \A p, q \in T : p.start <= q.start => Fall(p, q) <= seen.maximum

\* One more candle, later than the others.
LEMMA PassIsDeepest ==
    ASSUME NEW P, Path(P), NEW T \in SUBSET P, NEW c \in P, c \notin T,
           \A d \in T : d.start <= c.start,
           NEW seen \in Seen(P), Deepest(seen, T)
    PROVE  Pass(c, seen) \in Seen(P) /\ Deepest(Pass(c, seen), T \cup {c})
<1>1. PICK h \in T, p \in T, q \in T, m \in Int :
         seen = [high |-> h, maximum |-> m, peak |-> p, trough |-> q]
    BY DEF Seen, Deepest
<1>2. /\ seen.high = h /\ seen.maximum = m /\ seen.peak = p /\ seen.trough = q BY <1>1
<1>3. /\ p.start <= q.start /\ m = Fall(p, q)
      /\ \A d \in T : d.close <= h.close
      /\ \A a, b \in T : a.start <= b.start => Fall(a, b) <= m
    BY <1>2 DEF Deepest
<1>4. \A d \in P : d.start \in Int /\ d.close \in Int /\ Priced(d) BY DEF Path, Priced
<1>5. Fall(c, c) = 0 /\ Fall(h, h) = 0 /\ Fall(h, h) <= m BY <1>3, <1>4, FallRange
<1>6. m >= 0 BY <1>5
<1>7. \A d \in T : Fall(d, c) \in Int /\ Fall(d, c) <= Fall(h, c) BY <1>3, <1>4, FallGrows, FallRange
<1>8. Fall(h, c) \in Int BY <1>4, FallRange
<1>9. \A d \in T : d.start < c.start
    <2>1. \A d \in T : d.start # c.start BY DEF Path
    <2> QED BY <1>4, <2>1
<1>10. CASE c.close > h.close
    <2>1. Pass(c, seen) = [high |-> c, maximum |-> m, peak |-> p, trough |-> q]
        BY <1>1, <1>2, <1>10 DEF Pass
    <2>2. \A d \in T : Fall(d, c) <= 0
        <3>1. Fall(h, c) <= 0 BY <1>4, <1>10, FallRange
        <3> QED BY <1>7, <1>8, <3>1
    <2>3. \A a, b \in T \cup {c} : a.start <= b.start => Fall(a, b) <= m
        BY <1>3, <1>4, <1>5, <1>6, <1>7, <1>9, <2>2
    <2>4. \A d \in T \cup {c} : d.close <= c.close BY <1>3, <1>4, <1>10
    <2> QED BY <1>3, <2>1, <2>3, <2>4 DEF Seen, Deepest
<1>11. CASE ~(c.close > h.close) /\ Fall(h, c) > m
    <2>1. Pass(c, seen) = [high |-> h, maximum |-> Fall(h, c), peak |-> h, trough |-> c]
        BY <1>1, <1>2, <1>11 DEF Pass
    <2>2. \A a, b \in T \cup {c} : a.start <= b.start => Fall(a, b) <= Fall(h, c)
        <3>1. ASSUME NEW a \in T, NEW b \in T, a.start <= b.start PROVE Fall(a, b) <= Fall(h, c)
            <4>1. Fall(a, b) \in Int /\ Fall(a, b) <= m BY <1>3, <1>4, <3>1, FallRange
            <4> QED BY <1>8, <1>11, <4>1
        <3>2. Fall(c, c) <= Fall(h, c) BY <1>5, <1>6, <1>8, <1>11
        <3>3. \A b \in T : ~(c.start <= b.start) BY <1>4, <1>9
        <3> QED BY <1>7, <3>1, <3>2, <3>3
    <2>3. \A d \in T \cup {c} : d.close <= h.close BY <1>3, <1>4, <1>11
    <2>4. h.start <= c.start OBVIOUS
    <2> QED BY <1>8, <2>1, <2>2, <2>3, <2>4 DEF Seen, Deepest
<1>12. CASE ~(c.close > h.close) /\ ~(Fall(h, c) > m)
    <2>1. Pass(c, seen) = seen BY <1>2, <1>12 DEF Pass
    <2>2. \A a, b \in T \cup {c} : a.start <= b.start => Fall(a, b) <= m
        <3>1. \A d \in T : Fall(d, c) <= m BY <1>7, <1>8, <1>12
        <3>2. \A b \in T : ~(c.start <= b.start) BY <1>4, <1>9
        <3> QED BY <1>3, <1>5, <1>6, <3>1, <3>2
    <2>3. \A d \in T \cup {c} : d.close <= h.close BY <1>3, <1>4, <1>12
    <2> QED BY <1>2, <1>3, <2>1, <2>2, <2>3 DEF Seen, Deepest
<1> QED BY <1>10, <1>11, <1>12

\* g is what the pass has seen of each set of candles.
Passes(g, start, D) ==
    \A s \in D : g[s] = IF s = {} THEN start ELSE Pass(Latest(s), g[s \ {Latest(s)}])

\* Sets of candles without the first one.
Rest(P) == P \ {Earliest(P)}
FirstSeen(P) == [high |-> Earliest(P), maximum |-> 0, peak |-> Earliest(P), trough |-> Earliest(P)]

\* The candles of a part of a path: finitely many, and one is the last.
LEMMA PartOfPath ==
    ASSUME NEW P, Path(P), NEW s \in SUBSET P
    PROVE  /\ IsFiniteSet(s) /\ Cardinality(s) \in Nat
           /\ s # {} => /\ Latest(s) \in s /\ \A d \in s : d.start <= Latest(s).start
                       /\ Cardinality(s \ {Latest(s)}) = Cardinality(s) - 1
<1>1. IsFiniteSet(s) BY FS_Subset DEF Path
<1>2. Cardinality(s) \in Nat BY <1>1, FS_CardinalityType
<1>3. s # {} => Path(s) BY <1>1 DEF Path
<1>4. s # {} => Latest(s) \in s /\ \A d \in s : d.start <= Latest(s).start BY <1>3, PathHasEnds
<1>5. s # {} => Cardinality(s \ {Latest(s)}) = Cardinality(s) - 1 BY <1>1, <1>4, FS_RemoveElement
<1> QED BY <1>1, <1>2, <1>4, <1>5

\* The pass keeps to the candles of the path.
LEMMA PassType ==
    ASSUME NEW P, Path(P), NEW c \in P, NEW seen \in Seen(P)
    PROVE  Pass(c, seen) \in Seen(P)
<1>1. Fall(seen.high, c) \in Int BY FallRange DEF Path, Seen
<1> QED BY <1>1 DEF Pass, Seen

\* There is one pass, over all sets of the later candles.
LEMMA PassesExist ==
    ASSUME NEW P, Path(P), NEW S, S = Rest(P), NEW start \in Seen(P)
    PROVE  \E g \in [SUBSET S -> Seen(P)] : Passes(g, start, SUBSET S)
<1> DEFINE Small(n) == {s \in SUBSET S : Cardinality(s) <= n}
           N == {n \in Nat : \E g \in [Small(n) -> Seen(P)] : Passes(g, start, Small(n))}
<1>1. \A s \in SUBSET S :
         /\ IsFiniteSet(s) /\ Cardinality(s) \in Nat
         /\ s # {} => Latest(s) \in s /\ Cardinality(s \ {Latest(s)}) = Cardinality(s) - 1
    <2>1. SUBSET S \subseteq SUBSET P BY DEF Rest
    <2> QED BY <2>1, PartOfPath
<1>2. 0 \in N
    <2> DEFINE g == [s \in Small(0) |-> start]
    <2>1. ASSUME NEW s \in Small(0) PROVE s = {}
        <3>1. Cardinality(s) \in Nat /\ Cardinality(s) <= 0 BY <1>1
        <3>2. Cardinality(s) = 0 BY <3>1
        <3>3. IsFiniteSet(s) BY <1>1
        <3> HIDE DEF Small
        <3> QED BY <3>2, <3>3, FS_EmptySet
    <2>2. Passes(g, start, Small(0)) BY <2>1 DEF Passes
    <2> QED BY <2>2
<1>3. ASSUME NEW n \in N \cap Nat PROVE n + 1 \in N
    <2>1. PICK h \in [Small(n) -> Seen(P)] : Passes(h, start, Small(n)) BY <1>3
    <2> DEFINE g == [s \in Small(n + 1) |->
                        IF s \in Small(n) THEN h[s] ELSE Pass(Latest(s), h[s \ {Latest(s)}])]
    <2>2. ASSUME NEW s \in Small(n + 1), s # {}
          PROVE  Latest(s) \in P /\ s \ {Latest(s)} \in Small(n)
        <3>1. Latest(s) \in S BY <1>1, <2>2
        <3> QED BY <1>1, <2>2, <3>1 DEF Rest
    <2>3. \A s \in Small(n + 1) : s \notin Small(n) => s # {} BY <1>1, FS_EmptySet
    <2>4. ASSUME NEW s \in Small(n) PROVE s \in Small(n + 1)
        <3>1. Cardinality(s) \in Nat /\ Cardinality(s) <= n BY <1>1
        <3> QED BY <3>1
    <2>5. g \in [Small(n + 1) -> Seen(P)] BY <2>2, <2>3, PassType
    <2>6. \A s \in Small(n) : g[s] = h[s] BY <2>4
    <2>7. ASSUME NEW s \in Small(n + 1)
          PROVE  g[s] = IF s = {} THEN start ELSE Pass(Latest(s), g[s \ {Latest(s)}])
        <3>1. CASE s \in Small(n)
            <4>1. s # {} => s \ {Latest(s)} \in Small(n) BY <2>2
            <4> HIDE DEF g, Small
            <4> QED BY <2>1, <2>6, <3>1, <4>1 DEF Passes
        <3>2. CASE s \notin Small(n)
            <4>1. g[s] = Pass(Latest(s), h[s \ {Latest(s)}]) BY <3>2
            <4>2. s # {} /\ s \ {Latest(s)} \in Small(n) BY <2>2, <2>3, <3>2
            <4> HIDE DEF g, Small
            <4> QED BY <2>6, <4>1, <4>2
        <3> QED BY <3>1, <3>2
    <2>8. Passes(g, start, Small(n + 1)) BY <2>7 DEF Passes
    <2>9. n + 1 \in Nat OBVIOUS
    <2> HIDE DEF g, Small
    <2> QED BY <2>5, <2>8, <2>9
<1>4. Cardinality(S) \in N BY <1>1, <1>2, <1>3, Successors
<1>5. Small(Cardinality(S)) = SUBSET S
    <2>1. IsFiniteSet(S) BY <1>1
    <2> QED BY <2>1, FS_Subset
<1> QED BY <1>4, <1>5

\* The pass over a path ends with the deepest fall of any two candles in order.
LEMMA DrawdownIsDeepest ==
    ASSUME NEW P, Path(P)
    PROVE  \E seen \in Seen(P) :
              /\ Deepest(seen, P)
              /\ ObservedDrawdown(P) = [maximum |-> seen.maximum, peak |-> End(seen.peak),
                                        trough |-> End(seen.trough), samples |-> Cardinality(P)]
<1> DEFINE S == Rest(P)
           start == FirstSeen(P)
           Rec(h) == h = [s \in SUBSET S |->
                            IF s = {} THEN start ELSE Pass(Latest(s), h[s \ {Latest(s)}])]
           c == CHOOSE h : Rec(h)
<1>1. Earliest(P) \in P /\ \A d \in P : Earliest(P).start <= d.start BY PathHasEnds
<1>2. Fall(Earliest(P), Earliest(P)) = 0 BY <1>1, FallRange DEF Path
<1>3. start \in Seen(P) /\ Deepest(start, {Earliest(P)})
    <2>1. Earliest(P).start \in Int /\ Earliest(P).close \in Int BY <1>1 DEF Path, Priced
    <2> QED BY <1>1, <1>2, <2>1 DEF FirstSeen, Seen, Deepest
<1>4. PICK g \in [SUBSET S -> Seen(P)] : Passes(g, start, SUBSET S) BY <1>3, PassesExist
<1>5. Rec(g) BY <1>4 DEF Passes
<1>6. Rec(c) BY <1>5
<1>7. ObservedDrawdown(P) = [maximum |-> c[S].maximum, peak |-> End(c[S].peak),
                             trough |-> End(c[S].trough), samples |-> Cardinality(P)]
    BY DEF ObservedDrawdown, MapThenFoldSet, Rest, FirstSeen
<1> HIDE DEF c
<1>8. \A s \in SUBSET S : c[s] = IF s = {} THEN start ELSE Pass(Latest(s), c[s \ {Latest(s)}])
    BY <1>6, Zenon
<1> DEFINE D == {s \in SUBSET S : c[s] \in Seen(P) /\ Deepest(c[s], s \cup {Earliest(P)})}
<1>9. SUBSET S \subseteq D
    <2>1. {} \in D BY <1>3, <1>8
    <2>2. ASSUME NEW s \in SUBSET S, s # {}, \A x \in s : s \ {x} \in D PROVE s \in D
        <3> DEFINE l == Latest(s)
                   T == (s \ {l}) \cup {Earliest(P)}
        <3>1. s \in SUBSET P /\ Earliest(P) \notin s BY DEF Rest
        <3>2. l \in s /\ \A d \in s : d.start <= l.start BY <2>2, <3>1, PartOfPath
        <3>3. T \in SUBSET P /\ l \in P /\ l \notin T BY <1>1, <3>1, <3>2
        <3>4. \A d \in T : d.start <= l.start BY <1>1, <3>2, <3>3
        <3>5. c[s \ {l}] \in Seen(P) /\ Deepest(c[s \ {l}], T) BY <2>2, <3>2
        <3>6. c[s] = Pass(l, c[s \ {l}]) BY <1>8, <2>2
        <3>7. s \cup {Earliest(P)} = T \cup {l} BY <3>2
        <3> HIDE DEF l, T
        <3>8. c[s] \in Seen(P) /\ Deepest(c[s], T \cup {l}) BY <3>3, <3>4, <3>5, <3>6, PassIsDeepest
        <3> QED BY <3>7, <3>8
    <2>3. IsFiniteSet(S) BY FS_Subset DEF Path, Rest
    <2> HIDE DEF D, S
    <2> QED BY <2>1, <2>2, <2>3, SubsetInduction
<1>10. Rest(P) \cup {Earliest(P)} = P BY <1>1 DEF Rest
<1> QED BY <1>7, <1>9, <1>10

-----------------------------------------------------------------------------
\* One calculation.

\* The candles of a calculation: each was over when it was fetched, and each minute has one.
Candles(candles, asOf) ==
    /\ IsFiniteSet(candles) /\ asOf \in Nat /\ asOf >= Launch
    /\ \A c \in candles : c.start \in Int /\ c.fetched \in Nat
    /\ \A c \in candles : End(c) <= c.fetched /\ c.fetched <= asOf
    /\ \A c \in candles : Priced(c) /\ c # Nothing
    /\ \A c, d \in candles : c.start = d.start => c = d

\* The first candle after the launch, if there is one.
LEMMA BaselineChosen ==
    ASSUME NEW candles, \A c \in candles : c.start \in Int, FirstBaseline(candles) # Nothing
    PROVE  /\ FirstBaseline(candles) \in candles /\ FirstBaseline(candles).start >= Launch
           /\ \A d \in candles : d.start >= Launch => FirstBaseline(candles).start <= d.start
<1> USE CalculationAssumption
<1> DEFINE after == {c \in candles : c.start >= Launch}
           lag(c) == c.start - Launch
           Lags == {lag(c) : c \in after}
<1>1. after # {} /\ FirstBaseline(candles) = Earliest(after) BY DEF FirstBaseline
<1>2. \A c \in after : c.start \in Int /\ lag(c) \in Nat OBVIOUS
<1>3. PICK l \in Lags : \A k \in Lags : l <= k
    <2>1. Lags \subseteq Nat /\ Lags # {} BY <1>1, <1>2
    <2> HIDE DEF Lags
    <2> QED BY <2>1, LeastNumber
<1>4. PICK b \in after : l = lag(b) BY <1>3
<1>5. ASSUME NEW d \in after PROVE b.start <= d.start
    <2>1. lag(b) <= lag(d) BY <1>3, <1>4
    <2> QED BY <1>2, <2>1
<1>6. Earliest(after) \in after /\ \A d \in after : Earliest(after).start <= d.start
    <2> HIDE DEF after
    <2> QED BY <1>4, <1>5 DEF Earliest
<1> QED BY <1>1, <1>6

\* The last candle between the baseline and the horizon, if there is one.
LEMMA TargetChosen ==
    ASSUME NEW candles, \A c \in candles : c.start \in Int, NEW base, NEW expected \in Int,
           LastAtOrBefore(candles, expected, base) # Nothing
    PROVE  /\ LastAtOrBefore(candles, expected, base) \in candles
           /\ End(LastAtOrBefore(candles, expected, base)) <= expected
           /\ End(LastAtOrBefore(candles, expected, base)) > End(base)
           /\ \A d \in candles : End(d) <= expected /\ End(d) > End(base)
                               => d.start <= LastAtOrBefore(candles, expected, base).start
<1> USE CalculationAssumption
<1> DEFINE eligible == {c \in candles : End(c) <= expected /\ End(c) > End(base)}
           aged(c) == expected - End(c)
           Ages == {aged(c) : c \in eligible}
<1>1. eligible # {} /\ LastAtOrBefore(candles, expected, base) = Latest(eligible)
    BY DEF LastAtOrBefore
<1>2. \A c \in eligible : c.start \in Int /\ aged(c) \in Nat BY DEF End
<1>3. PICK a \in Ages : \A k \in Ages : a <= k
    <2>1. Ages \subseteq Nat /\ Ages # {} BY <1>1, <1>2
    <2> HIDE DEF Ages
    <2> QED BY <2>1, LeastNumber
<1>4. PICK t \in eligible : a = aged(t) BY <1>3
<1>5. ASSUME NEW d \in eligible PROVE d.start <= t.start
    <2>1. aged(t) <= aged(d) BY <1>3, <1>4
    <2> QED BY <1>2, <2>1 DEF End
<1>6. Latest(eligible) \in eligible /\ \A d \in eligible : d.start <= Latest(eligible).start
    <2> HIDE DEF eligible
    <2> QED BY <1>4, <1>5 DEF Latest
<1> QED BY <1>1, <1>6

\* What a candle leaves in a record.
LEMMA EvidenceOf ==
    ASSUME NEW candles, NEW asOf, Candles(candles, asOf), NEW c \in candles, c # Nothing
    PROVE  /\ Evidence(c) # Nothing /\ Evidence(c).end = End(c) /\ Evidence(c).fetched = c.fetched
           /\ End(c) \in Int /\ c.fetched \in Nat /\ End(c) <= c.fetched /\ c.fetched <= asOf
<1>1. End(c) \in Int /\ c.fetched \in Nat /\ End(c) <= c.fetched /\ c.fetched <= asOf
    BY CalculationAssumption DEF Candles, End
<1>2. [end |-> End(c), fetched |-> c.fetched] \in [end : Int, fetched : Int] BY <1>1
<1> QED BY <1>1, <1>2, NothingAssumption DEF Evidence

\* The candles from a baseline to a target.
Span(candles, b, t) == {c \in candles : End(b) <= End(c) /\ End(c) <= End(t)}

\* The path of a drawdown has at least its two ends.
LEMMA PathHasBothEnds ==
    ASSUME NEW candles, NEW asOf, Candles(candles, asOf),
           NEW b \in candles, NEW t \in candles, End(t) > End(b)
    PROVE  Cardinality(Span(candles, b, t)) \in Nat \ {0, 1}
<1> DEFINE path == {c \in candles : End(b) <= End(c) /\ End(c) <= End(t)}
<1>0. Span(candles, b, t) = path BY DEF Span
<1>1. \A c \in candles : End(c) \in Int BY CalculationAssumption DEF Candles, End
<1>2. b # t /\ {b, t} \subseteq path BY <1>1
<1>3. IsFiniteSet(path)
    <2>1. IsFiniteSet(candles) /\ path \subseteq candles BY DEF Candles
    <2> QED BY <2>1, FS_Subset, Zenon
<1>4. Cardinality({b, t}) = 2
    <2>1. IsFiniteSet({b}) /\ Cardinality({b}) = 1 BY FS_Singleton
    <2>2. {b, t} = {b} \cup {t} /\ t \notin {b} BY <1>2
    <2> QED BY <2>1, <2>2, FS_AddElement
<1>5. Cardinality({b, t}) <= Cardinality(path) BY <1>2, <1>3, FS_Subset, Zenon
<1>6. Cardinality(path) \in Nat BY <1>3, FS_CardinalityType
<1> QED BY <1>0, <1>4, <1>5, <1>6

\* The drawdown between a baseline and a target lies between them.
LEMMA DrawdownInRange ==
    ASSUME NEW candles, NEW asOf, Candles(candles, asOf),
           NEW b \in candles, NEW t \in candles, End(t) > End(b),
           NEW path, path = Span(candles, b, t),
           NEW d, d = ObservedDrawdown(path)
    PROVE  /\ d # Nothing /\ d.samples >= 2 /\ d.maximum \in 0..100
           /\ End(b) <= d.peak /\ d.peak <= d.trough /\ d.trough <= End(t) /\ d.peak <= End(t)
           /\ \E seen \in Seen(path) : Deepest(seen, path) /\ d.maximum = seen.maximum
<1>1. Cardinality(path) \in Nat \ {0, 1} BY PathHasBothEnds
<1>2. Path(path)
    <2>1. path \subseteq candles BY DEF Span
    <2>2. IsFiniteSet(path) BY <2>1, FS_Subset DEF Candles
    <2>3. b \in path BY CalculationAssumption DEF Candles, End, Span
    <2> QED BY <2>1, <2>2, <2>3 DEF Path, Candles
<1>3. PICK seen \in Seen(path) :
         /\ Deepest(seen, path)
         /\ d = [maximum |-> seen.maximum, peak |-> End(seen.peak),
                 trough |-> End(seen.trough), samples |-> Cardinality(path)]
    BY <1>2, DrawdownIsDeepest
<1>4. PICK p \in path, q \in path, m \in Int : p = seen.peak /\ q = seen.trough /\ m = seen.maximum
    BY DEF Seen
<1>4a. \A c \in path : c \in candles /\ End(b) <= End(c) /\ End(c) <= End(t) BY DEF Span
<1>5. d = [maximum |-> m, peak |-> End(p), trough |-> End(q), samples |-> Cardinality(path)]
    BY <1>3, <1>4
<1>6. p.start <= q.start /\ m = Fall(p, q) BY <1>3, <1>4 DEF Deepest
<1>7. /\ End(p) \in Int /\ End(q) \in Int /\ End(p) <= End(q)
      /\ End(b) <= End(p) /\ End(q) <= End(t) /\ End(p) <= End(t)
    BY <1>4a, <1>6, CalculationAssumption DEF Candles, End
<1>8. m \in 0..100
    <2>1. Priced(p) /\ Priced(q) BY <1>4a DEF Candles
    <2>2. m <= 100 BY <1>6, <2>1, FallRange
    <2>3. Fall(p, p) = 0 BY <2>1, FallRange
    <2>4. Fall(p, p) <= m BY <1>3, <1>4, <1>4a DEF Deepest, Candles
    <2> QED BY <2>2, <2>3, <2>4
<1>9. d # Nothing BY <1>1, <1>5, <1>7, NothingAssumption
<1>10. d.maximum = m /\ d.samples >= 2 /\ d.peak = End(p) /\ d.trough = End(q) BY <1>1, <1>5
<1> QED BY <1>3, <1>4, <1>7, <1>8, <1>9, <1>10

\* What the rules ask of the baseline that a calculation arrives at.
LEMMA BaselineIsSound ==
    ASSUME NEW candles, NEW asOf, Candles(candles, asOf),
           NEW b, b = FirstBaseline(candles)
    PROVE  /\ b # Nothing => /\ b \in candles /\ b.start >= Launch /\ candles # {}
                             /\ Evidence(b) # Nothing
                             /\ Evidence(b).end = End(b) /\ Evidence(b).fetched = b.fetched
                             /\ End(b) \in Int /\ b.fetched \in Nat
                             /\ End(b) <= b.fetched /\ b.fetched <= asOf
           /\ b = Nothing => Evidence(b) = Nothing /\ BaselineReason(b) = "baseline-missing"
           /\ b # Nothing => BaselineReason(b) = IF Lag(Evidence(b)) > MaxBaselineLag
                                                 THEN "baseline-observation-stale" ELSE Nothing
<1>1. CASE b # Nothing
    <2>1. b \in candles /\ b.start >= Launch BY <1>1, BaselineChosen DEF Candles
    <2> QED BY <1>1, <2>1, EvidenceOf DEF BaselineReason, Lag
<1>2. CASE b = Nothing BY <1>2 DEF Evidence, BaselineReason
<1> QED BY <1>1, <1>2

\* A record of these candles gives the reason for its baseline, and claims no more.
Reasoned(o, candles, b) ==
    /\ o.missing = Nothing
    /\ candles # {} => o.series
    /\ o.baseline.status = "unavailable" => BaselineReason(b) # Nothing
    /\ o.baseline.reason = BaselineReason(b)

\* A result follows the rules; a window without one has its reason.
LEMMA WindowIsSound ==
    ASSUME NEW candles, NEW asOf, Candles(candles, asOf), NEW h \in Horizons,
           NEW b, b = FirstBaseline(candles), NEW w, w = Window(h, candles, b, asOf), NEW o
    PROVE  /\ w.calculatedAt = asOf
           /\ w.status = "observed" => BaselineReason(b) = Nothing
           /\ w.status = "observed" /\ o.series => ValidObserved(o, h, w)
           /\ w.status # "observed" /\ Reasoned(o, candles, b) => ValidUnavailable(o, h, w)
<1> USE CalculationAssumption
<1> DEFINE expected == Launch + h
           target == LastAtOrBefore(candles, expected, b)
<1>0. expected \in Int /\ asOf \in Nat /\ \A c \in candles : c.start \in Int BY DEF Candles
<1>1. CASE BaselineReason(b) # Nothing
    <2>1. w = Missing(BaselineReason(b), Nothing, Nothing, asOf) BY <1>1 DEF Window
    <2>2. BaselineReason(b) \in {"baseline-missing", "baseline-observation-stale"}
        BY <1>1 DEF BaselineReason
    <2> QED BY <2>1, <2>2 DEF Missing, Evidence, ValidUnavailable, Reasons, Reasoned
<1>2. CASE BaselineReason(b) = Nothing
    <2>1. b # Nothing BY <1>2, NothingAssumption DEF BaselineReason, Reasons
    <2>2. /\ b \in candles /\ b.start >= Launch /\ Evidence(b) # Nothing
          /\ Evidence(b).end = End(b) /\ Evidence(b).fetched \in Nat /\ Evidence(b).fetched <= asOf
          /\ End(b) \in Int /\ Lag(Evidence(b)) <= MaxBaselineLag
        <3>1. "baseline-observation-stale" # Nothing BY NothingAssumption DEF Reasons
        <3>2. /\ b \in candles /\ b.start >= Launch /\ Evidence(b) # Nothing
              /\ Evidence(b).end = End(b) /\ End(b) \in Int
              /\ Evidence(b).fetched \in Nat /\ Evidence(b).fetched <= asOf
              /\ ~(Lag(Evidence(b)) > MaxBaselineLag)
            BY <1>2, <2>1, <3>1, BaselineIsSound
        <3>3. Lag(Evidence(b)) \in Int BY <3>2 DEF Lag
        <3> QED BY <3>2, <3>3
    <2>3. ASSUME NEW t, t = target, t # Nothing
          PROVE  /\ t \in candles /\ Evidence(t) # Nothing
                 /\ Evidence(t).end = End(t) /\ Evidence(t).fetched \in Nat /\ Evidence(t).fetched <= asOf
                 /\ End(t) \in Int /\ End(t) <= expected /\ End(t) > End(b)
        BY <1>0, <2>3, TargetChosen, EvidenceOf
    <2>4. CASE asOf < expected
        <3>1. w = Missing("window-not-mature", b, Nothing, asOf) BY <1>2, <2>4 DEF Window
        <3>2. /\ w.status = "unavailable" /\ w.reason = "window-not-mature" /\ w.calculatedAt = asOf
              /\ w.base = Evidence(b) /\ w.target = Nothing /\ w.return = Nothing /\ w.drawdown = Nothing
            BY <3>1 DEF Missing, Evidence
        <3> QED BY <1>0, <1>2, <2>2, <3>2 DEF ValidUnavailable, Reasons, Reasoned
    <2>5. CASE ~(asOf < expected) /\ target = Nothing
        <3>1. w = Missing("target-observation-missing", b, Nothing, asOf) BY <1>2, <2>5 DEF Window
        <3>2. /\ w.status = "unavailable" /\ w.reason = "target-observation-missing" /\ w.calculatedAt = asOf
              /\ w.base = Evidence(b) /\ w.target = Nothing /\ w.return = Nothing /\ w.drawdown = Nothing
            BY <3>1 DEF Missing, Evidence
        <3> QED BY <1>0, <1>2, <2>2, <3>2 DEF ValidUnavailable, Reasons, Reasoned
    <2>6. CASE ~(asOf < expected) /\ target # Nothing /\ expected - End(target) > MaxStaleness
        <3>1. PICK t : t = target OBVIOUS
        <3>2. w = Missing("target-observation-stale", b, t, asOf) BY <1>2, <2>6, <3>1 DEF Window
        <3>3. /\ w.status = "unavailable" /\ w.reason = "target-observation-stale" /\ w.calculatedAt = asOf
              /\ w.base = Evidence(b) /\ w.target = Evidence(t) /\ w.return = Nothing /\ w.drawdown = Nothing
            BY <3>2 DEF Missing
        <3>4. /\ Evidence(t) # Nothing /\ Evidence(t).end <= expected
              /\ Evidence(t).fetched \in Nat /\ Evidence(t).fetched <= asOf
              /\ Evidence(t).end \in Int
              /\ expected - Evidence(t).end > MaxStaleness /\ candles # {}
            BY <2>3, <2>6, <3>1
        <3>5. ASSUME o.missing = Nothing, o.series, o.baseline.status # "unavailable"
              PROVE  ValidUnavailable(o, h, w)
            <4>1. /\ w.reason \in Reasons /\ w.return = Nothing /\ w.drawdown = Nothing /\ w.target # Nothing
                  /\ w.base.fetched <= w.calculatedAt /\ w.target.fetched <= w.calculatedAt
                BY <1>0, <2>2, <3>3, <3>4 DEF Reasons
            <4>2. w.target.end <= Launch + h /\ Launch + h - w.target.end > MaxStaleness
                BY <1>0, <3>3, <3>4
            <4> QED BY <3>3, <3>5, <4>1, <4>2 DEF ValidUnavailable
        <3> QED BY <1>2, <3>3, <3>4, <3>5 DEF Reasoned
    <2>8. CASE ~(asOf < expected) /\ target # Nothing /\ ~(expected - End(target) > MaxStaleness)
               /\ ~InRange(b, target)
        <3>1. PICK t : t = target OBVIOUS
        <3>2. w = Missing("return-calculation-out-of-range", b, t, asOf) BY <1>2, <2>8, <3>1 DEF Window
        <3>3. /\ w.status = "unavailable" /\ w.reason = "return-calculation-out-of-range"
              /\ w.calculatedAt = asOf
              /\ w.base = Evidence(b) /\ w.target = Evidence(t) /\ w.return = Nothing /\ w.drawdown = Nothing
            BY <3>2 DEF Missing
        <3>4. /\ Evidence(t) # Nothing /\ Evidence(t).end <= expected
              /\ Evidence(t).fetched \in Nat /\ Evidence(t).fetched <= asOf
              /\ Evidence(t).end \in Int
              /\ ~(expected - Evidence(t).end > MaxStaleness) /\ candles # {}
            BY <2>3, <2>8, <3>1
        <3>5. ASSUME o.missing = Nothing, o.series, o.baseline.status # "unavailable"
              PROVE  ValidUnavailable(o, h, w)
            <4>1. /\ w.reason \in Reasons /\ w.return = Nothing /\ w.drawdown = Nothing /\ w.target # Nothing
                  /\ w.base.fetched <= w.calculatedAt /\ w.target.fetched <= w.calculatedAt
                BY <1>0, <2>2, <3>3, <3>4 DEF Reasons
            <4>2. w.target.end <= Launch + h /\ ~(Launch + h - w.target.end > MaxStaleness)
                BY <1>0, <3>3, <3>4
            <4> QED BY <3>3, <3>5, <4>1, <4>2 DEF ValidUnavailable
        <3> QED BY <1>2, <3>3, <3>4, <3>5 DEF Reasoned
    <2>7. CASE ~(asOf < expected) /\ target # Nothing /\ ~(expected - End(target) > MaxStaleness)
               /\ InRange(b, target)
        <3>1. PICK t : t = target OBVIOUS
        <3>2. PICK path : path = Span(candles, b, t) OBVIOUS
        <3>3. /\ w.status = "observed" /\ w.reason = Nothing /\ w.calculatedAt = asOf
              /\ w.base = Evidence(b) /\ w.target = Evidence(t) /\ w.drawdown = ObservedDrawdown(path)
            BY <1>2, <2>7, <3>1, <3>2 DEF Window, Span
        <3>4. /\ Evidence(t) # Nothing /\ Evidence(t).end = End(t)
              /\ Evidence(t).fetched \in Nat /\ Evidence(t).fetched <= asOf
              /\ t \in candles /\ End(t) \in Int
              /\ End(t) <= expected /\ expected - End(t) <= MaxStaleness /\ End(t) > End(b)
            <4>1. expected - End(t) <= MaxStaleness BY <1>0, <2>3, <2>7, <3>1
            <4> QED BY <2>3, <2>7, <3>1, <4>1
        <3>5. PICK d : d = w.drawdown OBVIOUS
        <3>6. /\ d # Nothing /\ d.samples >= 2 /\ d.maximum \in 0..100
              /\ End(b) <= d.peak /\ d.peak <= d.trough /\ d.trough <= End(t) /\ d.peak <= End(t)
            <4> HIDE CalculationAssumption
            <4> QED BY <2>2, <3>2, <3>3, <3>4, <3>5, DrawdownInRange
        <3>7. ASSUME o.series PROVE ValidObserved(o, h, w)
            <4>4. w.base.end - Interval >= Launch BY <2>2, <3>3 DEF End, Candles
            <4>5. /\ w.base # Nothing /\ w.target # Nothing /\ Lag(w.base) <= MaxBaselineLag
                  /\ w.base.fetched <= w.calculatedAt /\ w.target.fetched <= w.calculatedAt
                  /\ w.target.end <= Launch + h /\ Launch + h - w.target.end <= MaxStaleness
                BY <1>0, <2>2, <3>3, <3>4 DEF Lag
            <4> QED BY <2>2, <3>3, <3>4, <3>5, <3>6, <3>7, <4>4, <4>5 DEF ValidObserved
        <3> QED BY <1>2, <3>3, <3>7
    <2> QED BY <2>4, <2>5, <2>6, <2>7, <2>8
<1> QED BY <1>1, <1>2

\* The baseline and the target of a horizon, among all candles.
Opens(candles, b) == b.start >= Launch /\ \A d \in candles : d.start < b.start => d.start < Launch
Closes(candles, c, h) ==
    /\ End(c) <= Launch + h
    /\ \A d \in candles : d.start > c.start => End(d) > Launch + h
Between(candles, b, c) == {d \in candles : b.start <= d.start /\ d.start <= c.start}

\* The candles have a result for a horizon.
HasResult(candles, asOf, h) ==
    \E b \in candles : \E c \in candles :
       /\ Opens(candles, b) /\ End(b) - Launch <= MaxBaselineLag
       /\ Closes(candles, c, h) /\ b.start < c.start /\ InRange(b, c)
       /\ Launch + h - End(c) <= MaxStaleness /\ Launch + h <= asOf

\* What a window records is the result that the candles have, and it records one when they
\* have one: the searches for the baseline and the target find the candles that the
\* definition names, and the pass over the closes the deepest fall between them.
LEMMA WindowIsHonest ==
    ASSUME NEW candles, NEW asOf, Candles(candles, asOf), NEW h \in Horizons,
           NEW w, w = Window(h, candles, FirstBaseline(candles), asOf)
    PROVE  /\ HasResult(candles, asOf, h) => w.status = "observed"
           /\ w.status = "observed" =>
                 /\ HasResult(candles, asOf, h)
                 /\ \E b \in candles, c \in candles :
                      /\ Opens(candles, b) /\ End(b) - Launch <= MaxBaselineLag
                      /\ Closes(candles, c, h) /\ b.start < c.start /\ InRange(b, c)
                      /\ Launch + h - End(c) <= MaxStaleness
                      /\ w.return = Change(b, c)
                      /\ \E seen \in Seen(Between(candles, b, c)) :
                            /\ Deepest(seen, Between(candles, b, c))
                            /\ w.drawdown.maximum = seen.maximum
<1> USE CalculationAssumption
<1> DEFINE expected == Launch + h
<1>1. PICK b : b = FirstBaseline(candles) OBVIOUS
<1>2. PICK t : t = LastAtOrBefore(candles, expected, b) OBVIOUS
<1>3. /\ expected \in Int /\ asOf \in Nat
      /\ \A c \in candles : c.start \in Int /\ End(c) = c.start + Interval /\ End(c) \in Int /\ c # Nothing
      /\ \A c, d \in candles : c.start = d.start => c = d
    BY DEF Candles, End
<1>4. ASSUME b # Nothing
      PROVE  b \in candles /\ b.start >= Launch /\ Opens(candles, b)
    <2>1. /\ b \in candles /\ b.start >= Launch
          /\ \A d \in candles : d.start >= Launch => b.start <= d.start
        <3> HIDE CalculationAssumption
        <3> QED BY <1>1, <1>3, <1>4, BaselineChosen
    <2> QED BY <1>3, <2>1 DEF Opens
<1>5. ASSUME b # Nothing, t # Nothing
      PROVE  /\ t \in candles /\ End(t) <= expected /\ End(t) > End(b) /\ b.start < t.start
             /\ Closes(candles, t, h)
    <2>1. /\ t \in candles /\ End(t) <= expected /\ End(t) > End(b)
          /\ \A d \in candles : End(d) <= expected /\ End(d) > End(b) => d.start <= t.start
        <3> HIDE CalculationAssumption
        <3> QED BY <1>2, <1>3, <1>5, TargetChosen
    <2>2. b.start < t.start BY <1>3, <1>4, <1>5, <2>1
    <2>3. \A d \in candles : d.start > t.start => End(d) > expected BY <1>3, <1>4, <1>5, <2>1
    <2> QED BY <2>1, <2>2, <2>3 DEF Closes
<1>6. BaselineReason(b) = Nothing <=> b # Nothing /\ End(b) - Launch <= MaxBaselineLag
    <2>1. "baseline-missing" # Nothing /\ "baseline-observation-stale" # Nothing
        BY NothingAssumption DEF Reasons
    <2>2. b # Nothing => (End(b) - Launch > MaxBaselineLag <=> ~(End(b) - Launch <= MaxBaselineLag))
        BY <1>3, <1>4
    <2> QED BY <2>1, <2>2 DEF BaselineReason
<1>7. ASSUME HasResult(candles, asOf, h)
      PROVE  /\ b # Nothing /\ t # Nothing /\ BaselineReason(b) = Nothing
             /\ ~(asOf < expected) /\ ~(expected - End(t) > MaxStaleness) /\ InRange(b, t)
    <2>1. PICK e \in candles, c \in candles :
             /\ Opens(candles, e) /\ End(e) - Launch <= MaxBaselineLag
             /\ Closes(candles, c, h) /\ e.start < c.start /\ InRange(e, c)
             /\ Launch + h - End(c) <= MaxStaleness /\ Launch + h <= asOf
        BY <1>7 DEF HasResult
    <2>2. b # Nothing
        <3>1. PICK after : after = {d \in candles : d.start >= Launch} OBVIOUS
        <3>2. e \in after BY <2>1, <3>1 DEF Opens
        <3>3. b = Earliest(after) BY <1>1, <3>1, <3>2 DEF FirstBaseline
        <3>4. \A d \in after : e.start <= d.start BY <1>3, <2>1, <3>1 DEF Opens
        <3>5. b \in after BY <3>2, <3>3, <3>4 DEF Earliest
        <3> QED BY <1>3, <3>1, <3>5
    <2>3. b = e
        <3>1. b \in candles /\ b.start >= Launch /\ Opens(candles, b) BY <1>4, <2>2
        <3>2. b.start = e.start BY <1>3, <2>1, <3>1 DEF Opens
        <3> QED BY <1>3, <3>1, <3>2
    <2>4. t # Nothing
        <3>1. PICK eligible : eligible = {d \in candles : End(d) <= expected /\ End(d) > End(b)} OBVIOUS
        <3>2. c \in eligible BY <1>3, <2>1, <2>3, <3>1 DEF Closes
        <3>3. t = Latest(eligible) BY <1>2, <3>1, <3>2 DEF LastAtOrBefore
        <3>4. \A d \in eligible : d.start <= c.start BY <1>3, <2>1, <3>1 DEF Closes
        <3>5. t \in eligible BY <3>2, <3>3, <3>4 DEF Latest
        <3> QED BY <1>3, <3>1, <3>5
    <2>5. t = c
        <3>1. t \in candles /\ End(t) <= expected /\ Closes(candles, t, h) BY <1>5, <2>2, <2>4
        <3>2. End(c) <= expected BY <2>1 DEF Closes
        <3>3. t.start = c.start BY <1>3, <2>1, <3>1, <3>2 DEF Closes
        <3> QED BY <1>3, <3>1, <3>3
    <2>6. BaselineReason(b) = Nothing BY <1>6, <2>1, <2>2, <2>3
    <2>7. ~(asOf < expected) /\ ~(expected - End(t) > MaxStaleness) BY <1>3, <2>1, <2>5
    <2> QED BY <2>1, <2>2, <2>3, <2>4, <2>5, <2>6, <2>7
<1>8. PICK path : path = Span(candles, b, t) OBVIOUS
<1>9. PICK reason : reason = BaselineReason(b) OBVIOUS
<1>10. w = IF reason # Nothing THEN Missing(reason, Nothing, Nothing, asOf)
           ELSE IF asOf < expected THEN Missing("window-not-mature", b, Nothing, asOf)
           ELSE IF t = Nothing THEN Missing("target-observation-missing", b, Nothing, asOf)
           ELSE IF expected - End(t) > MaxStaleness THEN Missing("target-observation-stale", b, t, asOf)
           ELSE IF ~InRange(b, t) THEN Missing("return-calculation-out-of-range", b, t, asOf)
           ELSE [status |-> "observed", reason |-> Nothing, calculatedAt |-> asOf,
                 base |-> Evidence(b), target |-> Evidence(t),
                 return |-> Change(b, t), drawdown |-> ObservedDrawdown(path)]
    BY <1>1, <1>2, <1>8, <1>9 DEF Window, Span
<1>11. \A cause, base, target : Missing(cause, base, target, asOf).status = "unavailable" BY DEF Missing
<1>12. ASSUME w.status = "observed"
       PROVE  /\ b # Nothing /\ t # Nothing /\ BaselineReason(b) = Nothing
              /\ ~(asOf < expected) /\ ~(expected - End(t) > MaxStaleness) /\ InRange(b, t)
              /\ w.return = Change(b, t) /\ w.drawdown = ObservedDrawdown(path)
    <2>1. /\ reason = Nothing /\ ~(asOf < expected) /\ t # Nothing /\ ~(expected - End(t) > MaxStaleness)
          /\ InRange(b, t)
        <3> HIDE CalculationAssumption DEF expected
        <3> QED BY <1>10, <1>11, <1>12
    <2>2. w = [status |-> "observed", reason |-> Nothing, calculatedAt |-> asOf,
               base |-> Evidence(b), target |-> Evidence(t),
               return |-> Change(b, t), drawdown |-> ObservedDrawdown(path)]
        BY <1>10, <2>1
    <2> QED BY <1>6, <1>9, <2>1, <2>2
<1>13. ASSUME HasResult(candles, asOf, h) PROVE w.status = "observed"
    BY <1>7, <1>9, <1>10, <1>13
<1>14. ASSUME w.status = "observed"
       PROVE  /\ HasResult(candles, asOf, h)
              /\ \E e \in candles, c \in candles :
                   /\ Opens(candles, e) /\ End(e) - Launch <= MaxBaselineLag
                   /\ Closes(candles, c, h) /\ e.start < c.start /\ InRange(e, c)
                   /\ Launch + h - End(c) <= MaxStaleness
                   /\ w.return = Change(e, c)
                   /\ \E seen \in Seen(Between(candles, e, c)) :
                         /\ Deepest(seen, Between(candles, e, c))
                         /\ w.drawdown.maximum = seen.maximum
    <2>1. /\ b \in candles /\ Opens(candles, b) /\ t \in candles /\ Closes(candles, t, h)
          /\ b.start < t.start /\ End(t) > End(b)
        BY <1>4, <1>5, <1>12, <1>14
    <2>2. End(b) - Launch <= MaxBaselineLag /\ Launch + h - End(t) <= MaxStaleness /\ Launch + h <= asOf
        BY <1>3, <1>6, <1>12, <1>14, <2>1
    <2>3. HasResult(candles, asOf, h)
        <3>1. /\ b \in candles /\ t \in candles
              /\ Opens(candles, b) /\ End(b) - Launch <= MaxBaselineLag
              /\ Closes(candles, t, h) /\ b.start < t.start /\ InRange(b, t)
              /\ Launch + h - End(t) <= MaxStaleness /\ Launch + h <= asOf
            BY <1>12, <1>14, <2>1, <2>2
        <3> HIDE CalculationAssumption
        <3> QED BY <3>1, Zenon DEF HasResult
    <2>4. path = Between(candles, b, t) BY <1>3, <1>8, <2>1 DEF Between, Span
    <2>5. PICK d : d = w.drawdown OBVIOUS
    <2>6. d = ObservedDrawdown(path) BY <1>12, <1>14, <2>5
    <2>7. \E seen \in Seen(path) : Deepest(seen, path) /\ d.maximum = seen.maximum
        <3> HIDE CalculationAssumption
        <3> QED BY <1>8, <2>1, <2>6, DrawdownInRange
    <2> QED BY <1>12, <1>14, <2>1, <2>2, <2>3, <2>4, <2>5, <2>7
<1> QED BY <1>13, <1>14

\* What holds of every calculation and is kept by the merge.
Derived(o) ==
    /\ o.asOf \in Nat /\ o.revisions \in Seq(Int)
    /\ o.baseline.status = "observed" => o.baseline.candle.fetched \in Int
    /\ \A h \in Horizons : o.windows[h].calculatedAt \in Int
    /\ Observed(o.windows) # {} => o.baseline.status = "observed"

Calculated(status, asOf, series, baseline, windows, s) ==
    [status |-> status, asOf |-> asOf, series |-> series, baseline |-> baseline, windows |-> windows,
     missing |-> Nothing, revisions |-> <<>>, selection |-> s]

\* A calculation follows the rules.
LEMMA CalculationIsSound ==
    ASSUME NEW collected, NEW candles, candles = Normalized(collected),
           NEW asOf, Candles(candles, asOf), NEW s,
           NEW o, o = [Calculate(collected, asOf) EXCEPT !.selection = s]
    PROVE  /\ \E status, series, baseline, windows :
                 o = Calculated(status, asOf, series, baseline, windows, s)
           /\ Derived(o)
           /\ Valid(o)
           /\ \A h \in Horizons : o.windows[h] = Window(h, candles, FirstBaseline(candles), asOf)
<1> USE CalculationAssumption
<1>1. Available(candles, asOf) = candles BY DEF Available, Candles, End
<1>2. PICK b : b = FirstBaseline(candles) OBVIOUS
<1>3. PICK baseline : baseline = [status |-> IF BaselineReason(b) = Nothing THEN "observed" ELSE "unavailable",
                                  reason |-> BaselineReason(b), candle |-> Evidence(b)]
    OBVIOUS
<1>4. PICK windows : windows = [h \in Horizons |-> Window(h, candles, b, asOf)] OBVIOUS
<1>5. PICK status, series : status = Status(baseline, windows) /\ series = (candles # {}) OBVIOUS
<1>6. o = Calculated(status, asOf, series, baseline, windows, s)
    <2>1. PICK c : c = Calculate(collected, asOf) OBVIOUS
    <2>2. c = Calculated(status, asOf, series, baseline, windows, Nothing)
        BY <1>1, <1>2, <1>3, <1>4, <1>5, <2>1 DEF Calculate, Calculated
    <2>3. o = [c EXCEPT !.selection = s] BY <2>1
    <2> QED BY <2>2, <2>3 DEF Calculated
<1>7. /\ o.status = status /\ o.asOf = asOf /\ o.series = series /\ o.baseline = baseline
      /\ o.windows = windows /\ o.missing = Nothing /\ o.revisions = <<>> /\ o.selection = s
    BY <1>6 DEF Calculated
<1>7a. o.series <=> candles # {} BY <1>5, <1>7
<1>8. ASSUME NEW h \in Horizons
      PROVE  /\ windows[h].calculatedAt = asOf
             /\ windows[h].status = "observed" => BaselineReason(b) = Nothing
             /\ windows[h].status = "observed" => ValidObserved(o, h, windows[h])
             /\ windows[h].status # "observed" => ValidUnavailable(o, h, windows[h])
    <2>1. PICK w : w = windows[h] OBVIOUS
    <2>2. w = Window(h, candles, b, asOf) BY <1>4, <2>1
    <2>3. o.baseline.reason = BaselineReason(b)
          /\ (o.baseline.status = "unavailable" <=> BaselineReason(b) # Nothing)
        BY <1>3, <1>7
    <2>4. w.status = "observed" => o.series
        <3>1. ASSUME BaselineReason(b) = Nothing PROVE candles # {}
            BY <1>2, <3>1, BaselineIsSound, NothingAssumption DEF Reasons
        <3>2. w.status = "observed" => BaselineReason(b) = Nothing BY <1>2, <2>2, WindowIsSound
        <3> QED BY <1>7a, <3>1, <3>2
    <2>5. w.calculatedAt = asOf /\ (w.status = "observed" => BaselineReason(b) = Nothing)
        BY <1>2, <2>2, WindowIsSound
    <2>7. w.status = "observed" /\ o.series => ValidObserved(o, h, w)
        <3> HIDE CalculationAssumption
        <3> QED BY <1>2, <2>2, WindowIsSound
    <2>6. w.status # "observed" => ValidUnavailable(o, h, w)
        <3>1. Reasoned(o, candles, b) BY <1>7, <1>7a, <2>3 DEF Reasoned
        <3> HIDE CalculationAssumption
        <3> QED BY <1>2, <2>2, <3>1, WindowIsSound
    <2> QED BY <2>1, <2>4, <2>5, <2>6, <2>7
<1>9. ValidBaseline(o) /\ (baseline.status = "observed" => baseline.candle.fetched \in Int)
    <2>1. CASE b = Nothing
        <3>1. baseline.status = "unavailable" /\ baseline.reason = "baseline-missing" /\ baseline.candle = Nothing
            <4>1. Evidence(b) = Nothing /\ BaselineReason(b) = "baseline-missing" BY <1>2, <2>1, BaselineIsSound
            <4>2. BaselineReason(b) # Nothing BY <4>1, NothingAssumption DEF Reasons
            <4> QED BY <1>3, <4>1, <4>2
        <3> QED BY <1>7, <3>1 DEF ValidBaseline, Reasons
    <2>2. CASE b # Nothing
        <3>1. /\ b.start >= Launch /\ b \in candles /\ series
              /\ Evidence(b).end = End(b) /\ Evidence(b).fetched \in Nat
              /\ End(b) \in Int /\ End(b) <= Evidence(b).fetched /\ Evidence(b).fetched <= asOf
              /\ Evidence(b) # Nothing
              /\ BaselineReason(b) = IF Lag(Evidence(b)) > MaxBaselineLag
                                     THEN "baseline-observation-stale" ELSE Nothing
            BY <1>2, <1>5, <2>2, BaselineIsSound
        <3>2. PostLaunch(baseline.candle, o.asOf)
            <4>1. asOf \in Nat /\ b.start \in Int BY <3>1 DEF Candles
            <4>2. End(b) - Interval >= Launch BY <3>1, <4>1 DEF End
            <4> QED BY <1>3, <1>7, <3>1, <4>1, <4>2 DEF PostLaunch
        <3>3. CASE Lag(Evidence(b)) > MaxBaselineLag
            <4>1. /\ baseline.status = "unavailable" /\ baseline.reason = "baseline-observation-stale"
                  /\ baseline.candle = Evidence(b)
                BY <1>3, <3>1, <3>3, NothingAssumption DEF Reasons
            <4> QED BY <1>7, <3>1, <3>2, <3>3, <4>1 DEF ValidBaseline, Reasons
        <3>4. CASE ~(Lag(Evidence(b)) > MaxBaselineLag)
            <4>1. baseline.status = "observed" /\ baseline.reason = Nothing /\ baseline.candle = Evidence(b)
                BY <1>3, <3>1, <3>4
            <4>2. Lag(baseline.candle) <= MaxBaselineLag /\ baseline.candle.fetched \in Int
                BY <3>1, <3>4, <4>1 DEF Lag, Candles
            <4> QED BY <1>7, <3>1, <3>2, <4>1, <4>2 DEF ValidBaseline
        <3> QED BY <3>3, <3>4
    <2> QED BY <2>1, <2>2
<1>10. Derived(o)
    <2>1. Observed(windows) # {} => baseline.status = "observed" BY <1>3, <1>8 DEF Observed
    <2>2. o.revisions \in Seq(Int) BY <1>7, EmptySeq
    <2> QED BY <1>7, <1>8, <1>9, <2>1, <2>2 DEF Derived, Candles
<1>11. Valid(o)
    <2>1. ValidMissing(o) BY <1>7 DEF ValidMissing
    <2>2. Len(o.revisions) <= MaxRevisions /\ \A i \in DOMAIN o.revisions : FALSE BY <1>7
    <2>3. ASSUME NEW h \in Horizons
          PROVE  LET w == o.windows[h] IN
                 /\ Launch <= w.calculatedAt /\ w.calculatedAt <= o.asOf
                 /\ IF w.status = "observed" THEN ValidObserved(o, h, w) ELSE ValidUnavailable(o, h, w)
        BY <1>7, <1>8 DEF Candles
    <2> QED BY <1>5, <1>7, <1>9, <2>1, <2>2, <2>3 DEF Valid, Candles
<1>12. \A h \in Horizons : o.windows[h] = Window(h, candles, FirstBaseline(candles), asOf)
    BY <1>2, <1>4, <1>7
<1> QED BY <1>6, <1>10, <1>11, <1>12

-----------------------------------------------------------------------------
\* The merge.

\* A pool that was selected in time.
Chosen(s) ==
    /\ s # Nothing /\ s.created \in Int /\ s.selected \in Nat
    /\ Launch <= s.selected /\ Prospective(s.selected) /\ Eligible(s)

\* The last revisions are revisions, and no more than are kept.
LEMMA LastRevisions ==
    ASSUME NEW s \in Seq(Int)
    PROVE  /\ LastOf(s, MaxRevisions) \in Seq(Int) /\ Len(LastOf(s, MaxRevisions)) <= MaxRevisions
           /\ \A i \in DOMAIN LastOf(s, MaxRevisions) :
                 \E j \in DOMAIN s : LastOf(s, MaxRevisions)[i] = s[j]
<1>0. MaxRevisions \in Nat \ {0} BY CalculationAssumption
<1>1. PICK m : m = LaterOf(1, Len(s) - MaxRevisions + 1) OBVIOUS
<1>2. m \in Nat \ {0} /\ m >= Len(s) - MaxRevisions + 1 BY <1>0, <1>1 DEF LaterOf
<1>3. LastOf(s, MaxRevisions) = SubSeq(s, m, Len(s)) BY <1>1 DEF LastOf
<1>4. /\ SubSeq(s, m, Len(s)) \in Seq(Int)
      /\ Len(SubSeq(s, m, Len(s))) = IF m <= Len(s) THEN Len(s) - m + 1 ELSE 0
      /\ \A i \in 1..Len(SubSeq(s, m, Len(s))) : SubSeq(s, m, Len(s))[i] = s[m + i - 1]
    BY <1>2
<1>5. PICK q : q = LastOf(s, MaxRevisions) OBVIOUS
<1>6. q \in Seq(Int) /\ Len(q) \in Nat /\ DOMAIN q = 1..Len(q) BY <1>3, <1>4, <1>5
<1>7. Len(q) <= MaxRevisions BY <1>0, <1>2, <1>3, <1>4, <1>5
<1>8. ASSUME NEW i \in DOMAIN q PROVE \E j \in DOMAIN s : q[i] = s[j]
    <2>1. i \in 1..Len(q) /\ Len(q) = (IF m <= Len(s) THEN Len(s) - m + 1 ELSE 0) /\ q[i] = s[m + i - 1]
        BY <1>3, <1>4, <1>5, <1>6
    <2>2. m + i - 1 \in DOMAIN s BY <1>2, <2>1
    <2> QED BY <2>1, <2>2
<1> QED BY <1>5, <1>6, <1>7, <1>8

\* A record that the rules accept, merged with a later calculation that follows them, is
\* accepted: the retained results and what is newly recorded fit together, and the status
\* counted anew is the one the rules ask for.
LEMMA MergeIsSound ==
    ASSUME NEW prior, prior # Nothing, Accepted(prior), Derived(prior),
           NEW status, NEW asOf, NEW series, NEW baseline, NEW windows, NEW s, Chosen(s), s.created <= s.selected,
           NEW o, o = Calculated(status, asOf, series, baseline, windows, s),
           Valid(o), Derived(o), prior.asOf <= o.asOf,
           NEW m, m = MergeHistory(prior, o)
    PROVE  /\ Accepted(m) /\ Derived(m) /\ m.asOf = asOf /\ m.selection = s
           /\ prior.baseline.status = "observed" => m.baseline = prior.baseline
           /\ \A h \in Observed(prior.windows) : m.windows[h] = prior.windows[h]
           /\ \A h \in Horizons \ Observed(prior.windows) : m.windows[h] = o.windows[h]
<1> USE CalculationAssumption
<1>1. /\ o.status = status /\ o.asOf = asOf /\ o.series = series /\ o.baseline = baseline
      /\ o.windows = windows /\ o.missing = Nothing /\ o.revisions = <<>> /\ o.selection = s
    BY DEF Calculated
<1>2. Valid(prior) /\ prior.asOf \in Nat /\ asOf \in Nat /\ prior.asOf <= asOf
    BY <1>1 DEF Accepted, Derived
<1>3. PICK b : b = IF prior.baseline.status = "observed" THEN prior.baseline ELSE baseline OBVIOUS
<1>4. PICK w : w = [h \in Horizons |-> Retained(prior.windows[h], windows[h])] OBVIOUS
<1>5. PICK noted : noted = IF Noted(prior, o) THEN Append(prior.revisions, asOf) ELSE prior.revisions OBVIOUS
<1>6. PICK seen : seen = (prior.series \/ o.series) OBVIOUS
<1>7. m = [o EXCEPT !.baseline = b, !.series = seen, !.windows = w,
                    !.status = MergedStatus(b, w, o), !.revisions = LastOf(noted, MaxRevisions)]
    BY <1>1, <1>3, <1>4, <1>5, <1>6, Zenon DEF MergeHistory
<1>8. /\ m.status = MergedStatus(b, w, o) /\ m.asOf = asOf /\ m.series = seen /\ m.baseline = b
      /\ m.windows = w /\ m.missing = Nothing /\ m.revisions = LastOf(noted, MaxRevisions)
      /\ m.selection = s
    BY <1>1, <1>7 DEF Calculated
<1>9. ASSUME NEW h \in Horizons
      PROVE  /\ prior.windows[h].status = "observed" => w[h] = prior.windows[h]
             /\ prior.windows[h].status # "observed" => w[h] = windows[h]
    BY <1>4 DEF Retained
<1>10. /\ Observed(prior.windows) # {} => prior.baseline.status = "observed"
       /\ Observed(windows) # {} => baseline.status = "observed"
    BY <1>1 DEF Derived
<1>11. Observed(w) # {} => b.status = "observed" BY <1>3, <1>9, <1>10 DEF Observed
<1>12. ValidBaseline(m)
    <2>1. CASE prior.baseline.status = "observed"
        <3>1. /\ b = prior.baseline /\ b.reason = Nothing /\ PostLaunch(b.candle, prior.asOf)
              /\ Lag(b.candle) <= MaxBaselineLag /\ prior.series
            BY <1>2, <1>3, <2>1 DEF Valid, ValidBaseline
        <3>2. b.candle.fetched \in Int BY <2>1, <3>1 DEF Derived
        <3>3. PostLaunch(b.candle, m.asOf) BY <1>2, <1>8, <3>1, <3>2 DEF PostLaunch
        <3> QED BY <1>6, <1>8, <2>1, <3>1, <3>3 DEF ValidBaseline
    <2>2. CASE prior.baseline.status # "observed"
        <3>1. b = baseline /\ ValidBaseline(o) BY <1>3, <2>2 DEF Valid
        <3>2. o.series => m.series BY <1>6, <1>8
        <3> QED BY <1>1, <1>8, <3>1, <3>2 DEF ValidBaseline
    <2> QED BY <2>1, <2>2
<1>13. ASSUME NEW h \in Horizons
       PROVE  /\ w[h].calculatedAt \in Int /\ Launch <= w[h].calculatedAt /\ w[h].calculatedAt <= asOf
              /\ IF w[h].status = "observed" THEN ValidObserved(m, h, w[h]) ELSE ValidUnavailable(m, h, w[h])
    <2>1. CASE prior.windows[h].status = "observed"
        <3>1. /\ prior.windows[h].calculatedAt \in Int /\ Launch <= prior.windows[h].calculatedAt
              /\ prior.windows[h].calculatedAt <= prior.asOf
              /\ ValidObserved(prior, h, prior.windows[h])
            BY <1>2, <2>1 DEF Valid, Derived
        <3>2. w[h] = prior.windows[h] BY <1>9, <2>1
        <3>3. ValidObserved(m, h, w[h]) BY <1>6, <1>8, <3>1, <3>2 DEF ValidObserved
        <3> QED BY <1>2, <2>1, <3>1, <3>2, <3>3
    <2>2. CASE prior.windows[h].status # "observed"
        <3>1. /\ windows[h].calculatedAt \in Int /\ Launch <= windows[h].calculatedAt
              /\ windows[h].calculatedAt <= asOf
              /\ IF windows[h].status = "observed" THEN ValidObserved(o, h, windows[h])
                                                   ELSE ValidUnavailable(o, h, windows[h])
            BY <1>1 DEF Valid, Derived
        <3>2. w[h] = windows[h] /\ (o.series => m.series) BY <1>6, <1>8, <1>9, <2>2
        <3>3. ValidObserved(o, h, windows[h]) => ValidObserved(m, h, windows[h])
            BY <3>2 DEF ValidObserved
        <3>4. m.missing = Nothing /\ (m.baseline.status = "unavailable" => o.baseline = m.baseline)
            BY <1>1, <1>3, <1>8
        <3>5. ValidUnavailable(o, h, windows[h]) => ValidUnavailable(m, h, windows[h])
            BY <1>1, <3>2, <3>4 DEF ValidUnavailable
        <3> QED BY <3>1, <3>2, <3>3, <3>5
    <2> QED BY <2>1, <2>2
<1>14. m.status = Status(m.baseline, m.windows)
    <2>1. Horizons # {} OBVIOUS
    <2> QED BY <1>8, <1>11, <2>1 DEF MergedStatus, Status
<1>15. /\ m.revisions \in Seq(Int) /\ Len(m.revisions) <= MaxRevisions
       /\ \A i \in DOMAIN m.revisions : Launch <= m.revisions[i] /\ m.revisions[i] <= asOf
    <2>1. /\ prior.revisions \in Seq(Int)
          /\ \A i \in DOMAIN prior.revisions :
                Launch <= prior.revisions[i] /\ prior.revisions[i] <= prior.asOf
        BY <1>2 DEF Valid, Derived
    <2>2. Launch <= asOf BY <1>1 DEF Valid
    <2>3. noted \in Seq(Int) /\ \A i \in DOMAIN noted : Launch <= noted[i] /\ noted[i] <= asOf
        <3>1. CASE noted = prior.revisions
            <4>1. ASSUME NEW i \in DOMAIN prior.revisions
                  PROVE  Launch <= prior.revisions[i] /\ prior.revisions[i] <= asOf
                <5>1. prior.revisions[i] \in Int BY <2>1
                <5> QED BY <1>2, <2>1, <5>1
            <4> QED BY <2>1, <3>1, <4>1
        <3>2. CASE noted = Append(prior.revisions, asOf)
            <4>1. PICK r \in Seq(Int) : r = prior.revisions BY <2>1
            <4>2. /\ noted \in Seq(Int) /\ DOMAIN noted = 1..Len(r) + 1
                  /\ \A i \in DOMAIN noted : noted[i] = IF i = Len(r) + 1 THEN asOf ELSE r[i]
                BY <1>2, <3>2, <4>1
            <4>3. ASSUME NEW i \in DOMAIN noted PROVE Launch <= noted[i] /\ noted[i] <= asOf
                <5>1. CASE i = Len(r) + 1 BY <1>2, <2>2, <4>2, <5>1
                <5>2. CASE i # Len(r) + 1
                    <6>1. i \in DOMAIN r /\ noted[i] = r[i] /\ r[i] \in Int BY <4>2, <5>2
                    <6> QED BY <1>2, <2>1, <4>1, <6>1
                <5> QED BY <5>1, <5>2
            <4> QED BY <4>2, <4>3
        <3> QED BY <1>5, <3>1, <3>2
    <2> QED BY <1>8, <2>3, LastRevisions
<1>16. Valid(m)
    <2>1. m.asOf >= Launch BY <1>1, <1>8 DEF Valid
    <2>2. ValidMissing(m) BY <1>8 DEF ValidMissing
    <2> QED BY <1>8, <1>12, <1>13, <1>14, <1>15, <2>1, <2>2 DEF Valid
<1>17. Accepted(m) BY <1>8, <1>16 DEF Accepted, Chosen
<1>18. Derived(m)
    <2>1. b.status = "observed" => b.candle.fetched \in Int BY <1>1, <1>3 DEF Derived
    <2> QED BY <1>2, <1>8, <1>11, <1>13, <1>15, <2>1 DEF Derived
<1> QED BY <1>1, <1>3, <1>8, <1>9, <1>17, <1>18 DEF Observed

-----------------------------------------------------------------------------
\* The refreshes of a launch.

\* A page holds rows of a chart.
PageType == [rows : SUBSET UNION Answers, fetched : Nat]

\* A refresh in flight has its selection, and its pages were fetched by now; the stored
\* record follows the rules, is of the selection, and is no younger than the clock.
RecordInv ==
    /\ now \in Nat /\ now >= Launch /\ thrown \in BOOLEAN
    /\ pages \in Seq(PageType) /\ Len(pages) <= MaxPages
    /\ \A i \in DOMAIN pages : IsFiniteSet(pages[i].rows) /\ pages[i].fetched <= now
    /\ ~NoRefresh => selection # Nothing /\ begun \in Nat /\ begun <= now
    /\ selection # Nothing => Chosen(selection)
    /\ record # Nothing => /\ selection # Nothing /\ record.selection = selection
                           /\ Valid(record) /\ Derived(record) /\ record.asOf <= now

CandleType == [start : Int, close : Nat \ {0}, fetched : Nat]

\* What a page says, as candles and as rows.
LEMMA PageCandles ==
    ASSUME NEW page \in PageType, IsFiniteSet(page.rows)
    PROVE  /\ IsFiniteSet(Observations(page)) /\ Observations(page) \subseteq CandleType
           /\ \A c \in Observations(page) :
                 /\ c.fetched = page.fetched /\ End(c) <= c.fetched
                 /\ \E r \in Said(page) : r.start = c.start /\ r.close = c.close
           /\ \A r \in Said(page) :
                 /\ r.start \in Int /\ r.close \in Nat \ {0}
                 /\ \E c \in Observations(page) : r.start = c.start /\ r.close = c.close
<1> DEFINE complete == {r \in page.rows : End(r) <= page.fetched}
           agreed == {r \in complete : \A q \in complete : q.start = r.start => q.close = r.close}
           candle(r) == [start |-> r.start, close |-> r.close, fetched |-> page.fetched]
           parsed == {candle(r) : r \in agreed}
<1>1. page.fetched \in Nat /\ page.rows \subseteq UNION Answers BY DEF PageType
<1>2. \A r \in page.rows : r.start \in Int /\ r.close \in Nat \ {0} BY <1>1, RecordAssumption
<1>3. Observations(page) = parsed BY DEF Observations, Parse
<1>4. IsFiniteSet(parsed)
    <2>1. IsFiniteSet(agreed) BY FS_Subset
    <2> DEFINE f == [r \in agreed |-> candle(r)]
    <2>2. f \in Surjection(agreed, parsed) BY DEF Surjection
    <2> QED BY <2>1, <2>2, FS_Surjection
<1>5. parsed \subseteq CandleType BY <1>1, <1>2 DEF CandleType
<1>6. agreed = Said(page)
    <2>1. \A r \in complete, q \in page.rows : q.start = r.start => q \in complete BY DEF End
    <2> QED BY <2>1 DEF Said
<1>7. \A c \in parsed : c.fetched = page.fetched /\ End(c) <= c.fetched
    BY DEF End
<1>8. \A c \in parsed : \E r \in agreed : r.start = c.start /\ r.close = c.close OBVIOUS
<1>9. \A r \in agreed : candle(r) \in parsed /\ candle(r).start = r.start /\ candle(r).close = r.close
    OBVIOUS
<1> HIDE DEF parsed, agreed, candle
<1>10. \A r \in agreed : r.start \in Int /\ r.close \in Nat \ {0} BY <1>2 DEF agreed
<1> QED BY <1>3, <1>4, <1>5, <1>6, <1>7, <1>8, <1>9, <1>10

\* What the pages of a refresh say, in the window and out of it: the window leaves nothing
\* out that closed between the launch and the time the refresh began or the last horizon.
LEMMA CollectedCandles ==
    ASSUME RecordInv
    PROVE  /\ IsFiniteSet(Collected) /\ Collected \subseteq CandleType
           /\ \A c \in Collected :
                 /\ End(c) <= c.fetched /\ c.fetched <= now
                 /\ \E r \in Trades : r.start = c.start /\ r.close = c.close
           /\ \A r \in Trades : r.start \in Int /\ r.close \in Nat \ {0}
           /\ ~NoRefresh =>
                 /\ \A c \in Collected : End(c) <= Upper
                 /\ \A r \in Trades : r.start >= Launch /\ End(r) <= Upper =>
                       \E c \in Collected : r.start = c.start /\ r.close = c.close
<1> DEFINE all == UNION {Observations(pages[i]) : i \in DOMAIN pages}
<1>1. ASSUME NEW i \in DOMAIN pages
      PROVE  pages[i] \in PageType /\ IsFiniteSet(pages[i].rows) /\ pages[i].fetched <= now
    BY DEF RecordInv
<1>2. ASSUME NEW i \in DOMAIN pages
      PROVE  /\ IsFiniteSet(Observations(pages[i])) /\ Observations(pages[i]) \subseteq CandleType
             /\ \A c \in Observations(pages[i]) :
                   /\ c.fetched = pages[i].fetched /\ End(c) <= c.fetched
                   /\ \E r \in Said(pages[i]) : r.start = c.start /\ r.close = c.close
             /\ \A r \in Said(pages[i]) :
                   /\ r.start \in Int /\ r.close \in Nat \ {0}
                   /\ \E c \in Observations(pages[i]) : r.start = c.start /\ r.close = c.close
    <2>1. PICK p \in PageType : p = pages[i] /\ IsFiniteSet(p.rows) BY <1>1
    <2>2. /\ IsFiniteSet(Observations(p)) /\ Observations(p) \subseteq CandleType
          /\ \A c \in Observations(p) :
                /\ c.fetched = p.fetched /\ End(c) <= c.fetched
                /\ \E r \in Said(p) : r.start = c.start /\ r.close = c.close
          /\ \A r \in Said(p) :
                /\ r.start \in Int /\ r.close \in Nat \ {0}
                /\ \E c \in Observations(p) : r.start = c.start /\ r.close = c.close
        BY <2>1, PageCandles
    <2> QED BY <2>1, <2>2
<1>3. IsFiniteSet(all)
    <2> DEFINE sets == {Observations(pages[i]) : i \in DOMAIN pages}
               f == [i \in DOMAIN pages |-> Observations(pages[i])]
    <2>1. IsFiniteSet(DOMAIN pages)
        <3>1. DOMAIN pages = 1..Len(pages) /\ Len(pages) \in Nat BY DEF RecordInv
        <3> QED BY <3>1, FS_Interval
    <2>2. f \in Surjection(DOMAIN pages, sets) BY DEF Surjection
    <2>3. IsFiniteSet(sets) BY <2>1, <2>2, FS_Surjection
    <2>4. \A t \in sets : IsFiniteSet(t) BY <1>2
    <2> HIDE DEF sets
    <2>5. IsFiniteSet(UNION sets) BY <2>3, <2>4, FS_UNION
    <2> QED BY <2>5 DEF sets
<1>4. \A c \in all : c \in CandleType /\ End(c) <= c.fetched /\ c.fetched <= now
                     /\ \E r \in Trades : r.start = c.start /\ r.close = c.close
    <2> SUFFICES ASSUME NEW i \in DOMAIN pages, NEW c \in Observations(pages[i])
                 PROVE  c \in CandleType /\ End(c) <= c.fetched /\ c.fetched <= now
                        /\ \E r \in Trades : r.start = c.start /\ r.close = c.close
        OBVIOUS
    <2>1. \A r \in Said(pages[i]) : r \in Trades BY DEF Trades
    <2> QED BY <1>1, <1>2, <2>1
<1>5. \A r \in Trades : /\ r.start \in Int /\ r.close \in Nat \ {0}
                        /\ \E c \in all : r.start = c.start /\ r.close = c.close
    <2> SUFFICES ASSUME NEW i \in DOMAIN pages, NEW r \in Said(pages[i])
                 PROVE  /\ r.start \in Int /\ r.close \in Nat \ {0}
                        /\ \E c \in all : r.start = c.start /\ r.close = c.close
        BY DEF Trades
    <2>1. \A c \in Observations(pages[i]) : c \in all OBVIOUS
    <2> HIDE DEF all
    <2> QED BY <1>2, <2>1
<1> HIDE DEF all
<1>6. Collected = Bounded(all, selection.created, begun) BY DEF Collected, all
<1>7. Collected \subseteq all BY <1>6 DEF Bounded
<1>8. IsFiniteSet(Collected) BY <1>3, <1>7, FS_Subset
<1>9. Collected = {c \in all : Lower - Interval <= End(c) /\ End(c) <= Upper}
    BY <1>6 DEF Bounded, Lower, Upper
<1>10. ASSUME ~NoRefresh
       PROVE  /\ \A c \in Collected : End(c) <= Upper
              /\ \A r \in Trades : r.start >= Launch /\ End(r) <= Upper =>
                    \E c \in Collected : r.start = c.start /\ r.close = c.close
    <2>1. Lower - Interval <= Launch + Interval /\ Lower \in Int
        <3>1. selection.created \in Int /\ selection.created <= Launch + MaxCreationDelay
            BY <1>10 DEF RecordInv, Chosen, Eligible
        <3> QED BY <3>1, CalculationAssumption, WindowAssumption DEF Lower, LaterOf
    <2>2. ASSUME NEW r \in Trades, r.start >= Launch, End(r) <= Upper
          PROVE  \E c \in Collected : r.start = c.start /\ r.close = c.close
        <3>1. PICK c \in all : r.start = c.start /\ r.close = c.close BY <1>5
        <3>2. End(c) = End(r) /\ r.start \in Int BY <1>5, <3>1 DEF End
        <3>3. Lower - Interval <= End(c) BY <2>1, <2>2, <3>1, <3>2, CalculationAssumption DEF End
        <3> QED BY <1>9, <2>2, <3>1, <3>2, <3>3
    <2> QED BY <1>9, <2>2
<1> QED BY <1>4, <1>5, <1>7, <1>8, <1>10

\* When the pages do not disagree, what is left is a set of candles for a calculation, and
\* no minute is lost.
LEMMA NormalizedCandles ==
    ASSUME RecordInv, ~Conflicting(Collected)
    PROVE  /\ Candles(Normalized(Collected), now)
           /\ \A c \in Collected : \E d \in Normalized(Collected) : d.start = c.start /\ d.close = c.close
<1>1. PICK collected : collected = Collected OBVIOUS
<1>2. /\ IsFiniteSet(collected) /\ collected \subseteq CandleType
      /\ \A c \in collected : End(c) <= c.fetched /\ c.fetched <= now
      /\ \A c, d \in collected : c.start = d.start => c.close = d.close
    BY <1>1, CollectedCandles DEF Conflicting
<1>3. Normalized(collected) \subseteq collected BY DEF Normalized
<1>4. IsFiniteSet(Normalized(collected)) BY <1>2, <1>3, FS_Subset
<1>5. \A c \in CandleType : /\ c.start \in Int /\ c.fetched \in Nat /\ c.close \in Nat \ {0}
                            /\ c = [start |-> c.start, close |-> c.close, fetched |-> c.fetched]
    BY DEF CandleType
<1>6. \A c \in CandleType : Priced(c) /\ c # Nothing
    BY <1>5, NothingAssumption DEF Priced, CandleType
<1>7. \A c, d \in Normalized(collected) : c.start = d.start => c = d
    <2> SUFFICES ASSUME NEW c \in Normalized(collected), NEW d \in Normalized(collected), c.start = d.start
                 PROVE  c = d
        OBVIOUS
    <2>1. c.fetched <= d.fetched /\ d.fetched <= c.fetched BY <1>3 DEF Normalized
    <2>2. c.close = d.close /\ c \in CandleType /\ d \in CandleType BY <1>2, <1>3
    <2>3. c.fetched = d.fetched BY <1>5, <2>1, <2>2
    <2> QED BY <1>5, <2>2, <2>3
<1>8. Candles(Normalized(collected), now)
    BY <1>2, <1>3, <1>4, <1>5, <1>6, <1>7 DEF Candles, RecordInv
<1>9. ASSUME NEW c \in collected
      PROVE  \E d \in Normalized(collected) : d.start = c.start /\ d.close = c.close
    <2> DEFINE times == {e.fetched : e \in {e \in collected : e.start = c.start}}
    <2>1. times \subseteq Nat /\ times # {} BY <1>2, <1>5
    <2>2. PICK l \in times : \A k \in times : l <= k
        <3> HIDE DEF times
        <3> QED BY <2>1, LeastNumber
    <2>3. PICK d \in collected : d.start = c.start /\ d.fetched = l BY <2>2
    <2>4. d \in Normalized(collected) BY <2>2, <2>3 DEF Normalized
    <2> QED BY <1>2, <2>3, <2>4
<1> QED BY <1>1, <1>8, <1>9

\* Pages that cannot be put together disagree on a minute.
LEMMA ConflictingPages ==
    ASSUME RecordInv, Conflicting(Collected)
    PROVE  PagesDisagree
BY CollectedCandles DEF Conflicting, PagesDisagree

\* A record of a pool that had been created when it was selected is accepted, and no
\* other record is.
LEMMA RecordAccepted ==
    ASSUME RecordInv, record # Nothing
    PROVE  Accepted(record) <=> PoolExisted
BY DEF RecordInv, Accepted, Chosen, PoolExisted

\* A refresh that completes throws when its pages disagree, and only then.  It keeps what
\* was recorded, unless the pool had not been created when it was selected, and the rest is
\* what it calculates.
LEMMA CompleteIsSound ==
    ASSUME RecordInv, Complete
    PROVE  /\ RecordInv'
           /\ thrown' => PagesDisagree
           /\ record # Nothing /\ PoolExisted =>
                /\ record.baseline.status = "observed" => record'.baseline = record.baseline
                /\ \A h \in Observed(record.windows) : record'.windows[h] = record.windows[h]
           /\ ~thrown' =>
                /\ ~Conflicting(Collected)
                /\ \A h \in Horizons :
                     record = Nothing \/ record.windows[h].status # "observed"
                     => LET candles == Normalized(Collected) IN
                        record'.windows[h] = Window(h, candles, FirstBaseline(candles), now)
<1> USE CalculationAssumption
<1>1. CASE Conflicting(Collected)
    <2>1. thrown' = TRUE /\ record' = record /\ begun' = Nothing /\ pages' = <<>>
          /\ now' = now /\ selection' = selection
        BY <1>1 DEF Complete
    <2>2. pages' \in Seq(PageType) /\ Len(pages') = 0 /\ DOMAIN pages' = {} BY <2>1
    <2>3. RecordInv'
        <3>1. /\ (record # Nothing => /\ selection # Nothing /\ record.selection = selection
                                      /\ Valid(record) /\ Derived(record) /\ record.asOf <= now)'
              /\ (selection # Nothing => Chosen(selection))'
            BY <2>1 DEF RecordInv
        <3>2. (now \in Nat /\ now >= Launch /\ thrown \in BOOLEAN)' /\ NoRefresh' BY <2>1 DEF RecordInv, NoRefresh
        <3>3. (Len(pages) <= MaxPages)' BY <2>2, RecordAssumption
        <3> QED BY <2>2, <3>1, <3>2, <3>3 DEF RecordInv
    <2> QED BY <1>1, <2>1, <2>3, ConflictingPages
<1>2. CASE ~Conflicting(Collected)
  <2>1. PICK collected, candles : collected = Collected /\ candles = Normalized(collected) OBVIOUS
  <2>2. Candles(candles, now) BY <1>2, <2>1, NormalizedCandles
  <2>3. PICK o : o = [Calculate(collected, now) EXCEPT !.selection = selection] OBVIOUS
  <2>5. Chosen(selection) /\ now \in Nat /\ now >= Launch BY DEF RecordInv, Complete
  <2>6. /\ \E status, series, baseline, windows :
             o = Calculated(status, now, series, baseline, windows, selection)
        /\ Derived(o) /\ o.asOf = now /\ o.selection = selection
        /\ Valid(o)
        /\ \A h \in Horizons : o.windows[h] = Window(h, candles, FirstBaseline(candles), now)
      <3>1. PICK time, s : time = now /\ s = selection OBVIOUS
      <3>2. Candles(candles, time) /\ o = [Calculate(collected, time) EXCEPT !.selection = s]
            /\ candles = Normalized(collected)
          BY <2>1, <2>2, <2>3, <3>1
      <3>3. /\ \E status, series, baseline, windows :
                  o = Calculated(status, time, series, baseline, windows, s)
            /\ Derived(o)
            /\ Valid(o)
            /\ \A h \in Horizons : o.windows[h] = Window(h, candles, FirstBaseline(candles), time)
          <4> HIDE CalculationAssumption
          <4>1. \E status, series, baseline, windows :
                   o = Calculated(status, time, series, baseline, windows, s)
              BY <3>2, CalculationIsSound
          <4>2. Derived(o) BY <3>2, CalculationIsSound
          <4>3. Valid(o) BY <3>2, CalculationIsSound
          <4>4. \A h \in Horizons : o.windows[h] = Window(h, candles, FirstBaseline(candles), time)
              <5>1. Available(candles, time) = candles
                  BY <3>2, CalculationAssumption DEF Available, Candles, End
              <5>2. PICK c : c = Calculate(collected, time) OBVIOUS
              <5>3. c.windows = [h \in Horizons |-> Window(h, candles, FirstBaseline(candles), time)]
                  BY <3>2, <5>1, <5>2 DEF Calculate
              <5>4. o.windows = c.windows
                  <6>1. \E status, series, baseline, windows :
                           c = Calculated(status, time, series, baseline, windows, Nothing)
                      BY <5>2 DEF Calculate, Calculated
                  <6> QED BY <3>2, <5>2, <6>1 DEF Calculated
              <5> QED BY <5>3, <5>4
          <4> QED BY <4>1, <4>2, <4>3, <4>4
      <3>4. o.asOf = time /\ o.selection = s BY <3>3 DEF Calculated
      <3> QED BY <3>1, <3>3, <3>4
  <2>7. PICK m : m = MergeHistory(record, o) OBVIOUS
  <2>8. ASSUME record # Nothing, PoolExisted
        PROVE  /\ Accepted(m) /\ Derived(m) /\ m.asOf = now
               /\ record.baseline.status = "observed" => m.baseline = record.baseline
               /\ \A h \in Observed(record.windows) : m.windows[h] = record.windows[h]
               /\ \A h \in Horizons \ Observed(record.windows) : m.windows[h] = o.windows[h]
               /\ m.selection = selection
      <3>1. PICK prior, s, time : prior = record /\ s = selection /\ time = now OBVIOUS
      <3>2. Accepted(record) BY <2>8, RecordAccepted
      <3>3. prior # Nothing /\ Accepted(prior) /\ Derived(prior) /\ prior.asOf <= o.asOf /\ Chosen(s)
            /\ s.created <= s.selected /\ m = MergeHistory(prior, o)
          BY <2>5, <2>6, <2>7, <2>8, <3>1, <3>2 DEF RecordInv, PoolExisted
      <3>4. PICK status, series, baseline, windows : o = Calculated(status, time, series, baseline, windows, s)
          BY <2>6, <3>1
      <3>5. /\ Accepted(m) /\ Derived(m) /\ m.asOf = time
            /\ prior.baseline.status = "observed" => m.baseline = prior.baseline
            /\ \A h \in Observed(prior.windows) : m.windows[h] = prior.windows[h]
            /\ \A h \in Horizons \ Observed(prior.windows) : m.windows[h] = o.windows[h]
            /\ m.selection = s
          BY <2>6, <2>8, <3>3, <3>4, MergeIsSound
      <3> QED BY <3>1, <3>5
  <2>9. record # Nothing => (Accepted(record) => Accepted(m)) BY <2>8, RecordAccepted
  <2>10. /\ record' = m /\ thrown' = FALSE
         /\ begun' = Nothing /\ pages' = <<>> /\ now' = now /\ selection' = selection
      BY <1>2, <2>1, <2>3, <2>6, <2>7, <2>9 DEF Complete
  <2>11. record = Nothing \/ ~PoolExisted => m = o
      BY <2>7, RecordAccepted DEF MergeHistory
  <2>12. Valid(m) /\ Derived(m) /\ m.asOf <= now /\ m.selection = selection
      BY <2>5, <2>6, <2>8, <2>11 DEF Accepted
  <2>13. RecordInv'
      <3>1. (record # Nothing => /\ selection # Nothing /\ record.selection = selection
                                 /\ Valid(record) /\ Derived(record) /\ record.asOf <= now)'
          BY <2>5, <2>10, <2>12 DEF Chosen
      <3>2. (selection # Nothing => Chosen(selection))' BY <2>5, <2>10
      <3>3. NoRefresh' BY <2>10 DEF NoRefresh
      <3>4. pages' \in Seq(PageType) /\ Len(pages') = 0 /\ DOMAIN pages' = {} BY <2>10
      <3>5. (Len(pages) <= MaxPages)' BY <3>4, RecordAssumption
      <3> QED BY <2>5, <2>10, <3>1, <3>2, <3>3, <3>4, <3>5 DEF RecordInv
  <2>14. \A h \in Horizons : record = Nothing \/ record.windows[h].status # "observed"
                            => record'.windows[h] = o.windows[h]
      BY <2>8, <2>10, <2>11 DEF Observed
  <2> QED BY <1>2, <2>1, <2>6, <2>8, <2>10, <2>13, <2>14
<1> QED BY <1>1, <1>2

\* What is shown of a launch without a record follows the rules, whatever its state.
LEMMA MissingIsValid ==
    ASSUME NEW state \in States, NEW asOf \in Nat, asOf >= Launch
    PROVE  Valid(Unavailable(state, asOf))
<1> USE CalculationAssumption
<1>1. PICK o : o = Calculate({}, asOf) OBVIOUS
<1>2. Normalized({}) = {} /\ Available({}, asOf) = {} /\ FirstBaseline({}) = Nothing
    BY DEF Normalized, Available, FirstBaseline
<1>3. BaselineReason(Nothing) = "baseline-missing" /\ "baseline-missing" # Nothing
    BY NothingAssumption DEF BaselineReason, Reasons
<1>4. PICK windows : windows = [h \in Horizons |-> Missing("baseline-missing", Nothing, Nothing, asOf)] OBVIOUS
<1>5. PICK baseline : baseline = [status |-> "unavailable", reason |-> "baseline-missing", candle |-> Nothing]
    OBVIOUS
<1>6. o = Calculated("awaiting-baseline", asOf, FALSE, baseline, windows, Nothing)
    <2>1. [h \in Horizons |-> Window(h, {}, Nothing, asOf)] = windows BY <1>3, <1>4 DEF Window
    <2>2. [status |-> IF BaselineReason(Nothing) = Nothing THEN "observed" ELSE "unavailable",
           reason |-> BaselineReason(Nothing), candle |-> Evidence(Nothing)] = baseline
        BY <1>3, <1>5 DEF Evidence
    <2>3. Status(baseline, windows) = "awaiting-baseline" BY <1>5 DEF Status
    <2>4. ({} # {}) = FALSE OBVIOUS
    <2> QED BY <1>1, <1>2, <2>1, <2>2, <2>3, <2>4 DEF Calculate, Calculated
<1>7. PICK reason : reason = MissingReason(state) OBVIOUS
<1>8. reason \in Reasons
    <2>1. StatusReason(state.status) \in Reasons BY DEF StatusReason, Reasons
    <2>2. ErrorReason(state.code) \in Reasons \cup {Nothing} BY DEF ErrorReason, Reasons
    <2> QED BY <1>7, <2>1, <2>2 DEF MissingReason
<1>8a. [reason |-> reason, status |-> state.status, code |-> state.code] # Nothing
    BY <1>8, NothingAssumption, Zenon
<1>9. PICK absent : absent = [reason |-> reason, status |-> state.status, code |-> state.code]
                           /\ absent # Nothing
    BY <1>8a
<1>10. PICK shown : shown = [h \in Horizons |->
              [windows[h] EXCEPT !.reason = IF Launch + h <= asOf THEN reason ELSE "window-not-mature"]]
    OBVIOUS
<1>11. PICK u : u = Unavailable(state, asOf) OBVIOUS
<1>12. u = [o EXCEPT !.baseline.reason = reason, !.missing = absent, !.windows = shown]
    <2>1. o.windows = windows BY <1>6 DEF Calculated
    <2> QED BY <1>1, <1>7, <1>9, <1>10, <1>11, <2>1 DEF Unavailable
<1>13. /\ u.status = "awaiting-baseline" /\ u.asOf = asOf /\ u.series = FALSE /\ u.revisions = <<>>
       /\ u.missing = absent /\ u.windows = shown
       /\ u.baseline.status = "unavailable" /\ u.baseline.reason = reason /\ u.baseline.candle = Nothing
    BY <1>5, <1>6, <1>12 DEF Calculated
<1>14. ASSUME NEW h \in Horizons
       PROVE  LET w == u.windows[h] IN
              /\ w.status = "unavailable" /\ w.calculatedAt = asOf
              /\ ValidUnavailable(u, h, w)
    <2>1. PICK w : w = u.windows[h] OBVIOUS
    <2>2. /\ w.status = "unavailable" /\ w.calculatedAt = asOf /\ w.base = Nothing /\ w.target = Nothing
          /\ w.return = Nothing /\ w.drawdown = Nothing
          /\ w.reason = IF Launch + h <= asOf THEN reason ELSE "window-not-mature"
        BY <1>4, <1>10, <1>13, <2>1 DEF Missing, Evidence
    <2>3. reason # "target-observation-stale" /\ reason # "return-calculation-out-of-range"
        BY <1>7 DEF MissingReason, ErrorReason, StatusReason
    <2>4. /\ w.reason \in Reasons /\ w.reason # "target-observation-stale"
          /\ w.reason # "return-calculation-out-of-range"
        BY <1>8, <2>2, <2>3 DEF Reasons
    <2> QED BY <1>9, <1>13, <2>1, <2>2, <2>4 DEF ValidUnavailable
<1>15. ValidBaseline(u) BY <1>8, <1>13 DEF ValidBaseline
<1>16. ValidMissing(u)
    <2>1. MissingReason(absent) = reason BY <1>7, <1>9 DEF MissingReason
    <2> QED BY <1>8, <1>9, <1>13, <2>1 DEF ValidMissing
<1>17. Valid(u)
    <2>1. u.status = Status(u.baseline, u.windows) BY <1>13 DEF Status
    <2>2. Len(u.revisions) <= MaxRevisions /\ \A i \in DOMAIN u.revisions : FALSE BY <1>13
    <2> QED BY <1>13, <1>14, <1>15, <1>16, <2>1, <2>2 DEF Valid
<1> QED BY <1>11, <1>17

\* A launch starts with no selection and no record.
LEMMA InitRecordInv == RecordInit => RecordInv
<1> SUFFICES ASSUME RecordInit PROVE RecordInv OBVIOUS
<1>1. /\ now = Launch /\ selection = Nothing /\ begun = Nothing /\ pages = <<>>
      /\ record = Nothing /\ thrown = FALSE
    BY DEF RecordInit
<1>2. now \in Nat /\ now >= Launch BY <1>1, CalculationAssumption
<1>3. pages \in Seq(PageType) /\ Len(pages) = 0 /\ DOMAIN pages = {} BY <1>1
<1>4. Len(pages) <= MaxPages BY <1>3, RecordAssumption
<1> QED BY <1>1, <1>2, <1>3, <1>4, Zenon DEF RecordInv, NoRefresh

\* The record and the selection stay as good as they were when the clock goes on.
LEMMA ClockInv ==
    ASSUME RecordInv, UNCHANGED <<selection, record>>, now' \in Nat, now' >= now
    PROVE  /\ (selection # Nothing => Chosen(selection))'
           /\ (record # Nothing => /\ selection # Nothing /\ record.selection = selection
                                   /\ Valid(record) /\ Derived(record) /\ record.asOf <= now)'
           /\ now' >= Launch
<1>1. Launch \in Nat /\ now \in Nat /\ now >= Launch BY CalculationAssumption DEF RecordInv
<1>2. now' >= Launch BY <1>1
<1>3. ASSUME record # Nothing PROVE record.asOf <= now'
    <2>1. record.asOf \in Nat /\ record.asOf <= now BY <1>3 DEF RecordInv, Derived
    <2> QED BY <1>1, <2>1
<1> QED BY <1>2, <1>3 DEF RecordInv

\* So do the pages.
LEMMA PagesInv ==
    ASSUME RecordInv, now' \in Nat, now' >= now, NEW i \in DOMAIN pages
    PROVE  pages[i] \in PageType /\ IsFiniteSet(pages[i].rows) /\ pages[i].fetched <= now'
<1>1. pages[i] \in PageType BY DEF RecordInv
<1>2. IsFiniteSet(pages[i].rows) /\ pages[i].fetched <= now /\ now \in Nat BY DEF RecordInv
<1>3. pages[i].fetched \in Nat BY <1>1 DEF PageType
<1>4. pages[i].fetched <= now' BY <1>2, <1>3
<1> QED BY <1>1, <1>2, <1>4

\* A step that leaves the record alone: a pool is fixed in time, a page holds rows of a chart.
LEMMA OtherInv ==
    ASSUME RecordInv, Wait \/ Select \/ Begin \/ Fetch \/ Fail \/ UNCHANGED recordVars
    PROVE  RecordInv' /\ UNCHANGED record
<1>0. Times \subseteq Nat /\ Delays \subseteq Nat /\ MaxPages \in Nat \ {0} BY RecordAssumption
<1>1. CASE Wait
    <2>1. now' \in Nat /\ now' >= now BY <1>0, <1>1 DEF Wait, RecordInv
    <2>2. UNCHANGED <<selection, record, begun, pages, thrown>> /\ NoRefresh BY <1>1 DEF Wait
    <2>3. (\A i \in DOMAIN pages : IsFiniteSet(pages[i].rows) /\ pages[i].fetched <= now)'
        BY <2>1, <2>2, PagesInv
    <2> QED BY <2>1, <2>2, <2>3, ClockInv DEF RecordInv, NoRefresh
<1>2. CASE Select
    <2>1. PICK offered \in SUBSET {p \in Offers : p.created <= now + ProviderAhead} :
             /\ SelectPool(offered) # Nothing
             /\ selection' = [created |-> SelectPool(offered).created, selected |-> now]
        BY <1>2 DEF Select
    <2>2. PICK pool : pool = SelectPool(offered) OBVIOUS
    <2>3. pool \in offered /\ Eligible(pool)
        <3>1. offered \subseteq Offers /\ {p \in offered : Eligible(p)} # {}
            BY <2>1 DEF SelectPool
        <3> QED BY <2>2, <3>1, SelectedPool
    <2>4. pool.created \in Int BY <2>1, <2>3, RecordAssumption
    <2>5. PICK s : s = [created |-> pool.created, selected |-> now] OBVIOUS
    <2>6. /\ s.created = pool.created /\ s.selected = now /\ selection' = s
          /\ UNCHANGED <<now, begun, pages, record, thrown>>
          /\ Prospective(now) /\ NoRefresh /\ selection = Nothing
        BY <1>2, <2>1, <2>2, <2>5 DEF Select
    <2>7. s # Nothing => Chosen(s) BY <2>3, <2>4, <2>6 DEF Chosen, Eligible, RecordInv, Prospective
    <2>8. (selection # Nothing => Chosen(selection))' BY <2>6, <2>7
    <2>9. record = Nothing BY <2>6 DEF RecordInv
    <2>10. NoRefresh' BY <2>6 DEF NoRefresh
    <2>11. (now \in Nat /\ now >= Launch /\ thrown \in BOOLEAN /\ pages \in Seq(PageType)
            /\ Len(pages) <= MaxPages)'
        BY <2>6 DEF RecordInv
    <2>12. (\A i \in DOMAIN pages : IsFiniteSet(pages[i].rows) /\ pages[i].fetched <= now)'
        BY <2>6 DEF RecordInv
    <2>13. record' = Nothing /\ UNCHANGED record BY <2>6, <2>9
    <2> QED BY <2>8, <2>10, <2>11, <2>12, <2>13, Zenon DEF RecordInv
<1>3. CASE Begin
    <2>1. UNCHANGED <<now, selection, record, pages>> /\ thrown' = FALSE /\ begun' = now /\ selection # Nothing
        BY <1>3 DEF Begin
    <2>2. now' \in Nat /\ now' >= now BY <2>1 DEF RecordInv
    <2>3. (\A i \in DOMAIN pages : IsFiniteSet(pages[i].rows) /\ pages[i].fetched <= now)'
        BY <2>1, <2>2, PagesInv
    <2>4. (~NoRefresh => selection # Nothing /\ begun \in Nat /\ begun <= now)'
        BY <2>1, <2>2
    <2> QED BY <2>1, <2>2, <2>3, <2>4, ClockInv DEF RecordInv
<1>4. CASE Fetch
    <2>1. PICK chart \in Answers, delay \in Delays :
             /\ pages' = Append(pages, [rows |-> Page(chart, BeforeMinute), fetched |-> now + delay])
             /\ now' = now + delay
        BY <1>4 DEF Fetch
    <2>2. /\ UNCHANGED <<selection, begun, record, thrown>>
          /\ Len(pages) < MaxPages /\ ~NoRefresh
        BY <1>4 DEF Fetch, MorePages
    <2>3. now' \in Nat /\ now' >= now BY <1>0, <2>1 DEF RecordInv
    <2>4. PICK page : page = [rows |-> Page(chart, BeforeMinute), fetched |-> now + delay] OBVIOUS
    <2>5. page \in PageType /\ IsFiniteSet(page.rows) /\ page.fetched = now'
        <3>1. Page(chart, BeforeMinute) \subseteq chart BY DEF Page
        <3>2. IsFiniteSet(chart) BY RecordAssumption
        <3>3. IsFiniteSet(Page(chart, BeforeMinute)) BY <3>1, <3>2, FS_Subset
        <3>4. Page(chart, BeforeMinute) \in SUBSET UNION Answers BY <3>1
        <3> QED BY <2>1, <2>3, <2>4, <3>3, <3>4 DEF PageType
    <2>6. pages' = Append(pages, page) /\ pages \in Seq(PageType) BY <2>1, <2>4 DEF RecordInv
    <2>7. /\ pages' \in Seq(PageType) /\ Len(pages') = Len(pages) + 1 /\ Len(pages') <= MaxPages
          /\ DOMAIN pages' = 1..Len(pages) + 1 /\ pages'[Len(pages) + 1] = page
          /\ \A i \in DOMAIN pages : pages'[i] = pages[i]
        <3>1. Len(pages) \in Nat /\ Len(pages) + 1 <= MaxPages BY <1>0, <2>2, <2>6
        <3> QED BY <2>5, <2>6, <3>1
    <2>8. ASSUME NEW i \in DOMAIN pages' PROVE IsFiniteSet(pages'[i].rows) /\ pages'[i].fetched <= now'
        <3>1. CASE i = Len(pages) + 1 BY <2>3, <2>5, <2>7, <3>1
        <3>2. CASE i # Len(pages) + 1
            <4>1. i \in DOMAIN pages /\ pages'[i] = pages[i] BY <2>6, <2>7, <3>2
            <4> QED BY <2>3, <4>1, PagesInv
        <3> QED BY <3>1, <3>2
    <2>9. (~NoRefresh => selection # Nothing /\ begun \in Nat /\ begun <= now)'
        <3>1. selection # Nothing /\ begun \in Nat /\ begun <= now BY <2>2 DEF RecordInv
        <3>2. begun' <= now' BY <2>2, <2>3, <3>1 DEF RecordInv
        <3> QED BY <2>2, <3>1, <3>2
    <2>10. thrown' \in BOOLEAN BY <2>2 DEF RecordInv
    <2>11. (selection # Nothing => Chosen(selection))' BY <2>2, <2>3, ClockInv
    <2>12. (record # Nothing => /\ selection # Nothing /\ record.selection = selection
                                /\ Valid(record) /\ Derived(record) /\ record.asOf <= now)'
        BY <2>2, <2>3, ClockInv
    <2>13. now' >= Launch BY <2>2, <2>3, ClockInv
    <2> QED BY <2>2, <2>3, <2>7, <2>8, <2>9, <2>10, <2>11, <2>12, <2>13 DEF RecordInv
<1>5. CASE Fail
    <2>1. /\ UNCHANGED <<now, selection, record>> /\ thrown' = TRUE /\ begun' = Nothing /\ pages' = <<>>
        BY <1>5 DEF Fail
    <2>2. now' \in Nat /\ now' >= now BY <2>1 DEF RecordInv
    <2>3. pages' \in Seq(PageType) /\ Len(pages') = 0 /\ DOMAIN pages' = {} BY <2>1
    <2>4. Len(pages') <= MaxPages BY <1>0, <2>3
    <2>5. NoRefresh' BY <2>1 DEF NoRefresh
    <2> QED BY <2>1, <2>2, <2>3, <2>4, <2>5, ClockInv DEF RecordInv
<1>6. CASE UNCHANGED recordVars
    <2>1. UNCHANGED <<now, selection, begun, pages, record, thrown>> BY <1>6 DEF recordVars
    <2> QED BY <2>1 DEF RecordInv, NoRefresh
<1> QED BY <1>1, <1>2, <1>3, <1>4, <1>5, <1>6

LEMMA StepRecordInv == RecordInv /\ [RecordNext]_recordVars => RecordInv'
BY OtherInv, CompleteIsSound DEF RecordNext

-----------------------------------------------------------------------------
\* The theorems about the record.

\* The inductive invariant of a record holds in every reachable state.
THEOREM RecordInvariance == RecordSpec => []RecordInv
<1>1. RecordInv /\ [RecordNext]_recordVars => RecordInv' BY StepRecordInv
<1> QED BY <1>1, InitRecordInv, PTL DEF RecordSpec

\* The state of a record has its type.
THEOREM RecordTypeCorrect == RecordSpec => []RecordTypeOK
<1>1. RecordInv => RecordTypeOK
    <2> SUFFICES ASSUME RecordInv PROVE RecordTypeOK OBVIOUS
    <2>1. \A i \in DOMAIN pages : pages[i] \in PageType BY DEF RecordInv
    <2>2. \A i \in DOMAIN pages : pages[i].fetched \in Nat BY <2>1 DEF PageType
    <2> QED BY <2>2 DEF RecordInv, RecordTypeOK, Chosen
<1>2. RecordSpec => []RecordInv BY RecordInvariance
<1> QED BY <1>1, <1>2, PTL

\* No refresh fails a check of its own, whatever pages it is answered with, unless these
\* disagree on a minute: what it calculates follows the rules, the merge with what is stored
\* follows them too, and so does what is shown of a launch without a record.  A stored
\* record is accepted when it is read, whatever the clock of the provider, if its pool had
\* been created when it was selected.
THEOREM AcceptedRecords == RecordSpec => RecordsAreAccepted
<1>1. RecordInv => StoredIsAccepted /\ MissingIsAccepted
    BY MissingIsValid, RecordAccepted DEF RecordInv, StoredIsAccepted, MissingIsAccepted
<1>2. RecordInv /\ [RecordNext]_recordVars
      => [~thrown /\ thrown' => MorePages \/ PagesDisagree]_recordVars
    <2> SUFFICES ASSUME RecordInv, RecordNext, ~thrown, thrown' PROVE MorePages \/ PagesDisagree
        BY DEF RecordInv
    <2>1. CASE Complete BY <2>1, CompleteIsSound
    <2>2. CASE Fail BY <2>2 DEF Fail
    <2>3. CASE Wait \/ Select \/ Begin \/ Fetch BY <2>3 DEF Wait, Select, Begin, Fetch
    <2> QED BY <2>1, <2>2, <2>3 DEF RecordNext
<1>3. RecordSpec => []RecordInv BY RecordInvariance
<1> QED BY <1>1, <1>2, <1>3, PTL DEF RecordsAreAccepted, RecordSpec

\* The first baseline and the first result of each horizon stay as they were recorded,
\* whatever later refreshes are answered, if the pool had been created when it was selected.
THEOREM KeptResults == RecordSpec => FirstResultIsKept
<1>1. RecordInv /\ [RecordNext]_recordVars =>
        [record # Nothing /\ PoolExisted =>
            /\ record.baseline.status = "observed" => record'.baseline = record.baseline
            /\ \A h \in Observed(record.windows) : record'.windows[h] = record.windows[h]]_recordVars
    BY OtherInv, CompleteIsSound DEF RecordNext
<1>2. RecordSpec => []RecordInv BY RecordInvariance
<1> QED BY <1>1, <1>2, PTL DEF FirstResultIsKept, RecordSpec

\* A row and a candle of the same minute and close.
Like(r, c) == r.start = c.start /\ r.close = c.close

\* The candles of a calculation are the rows that closed in the window.
Told(candles) ==
    /\ Upper \in Int
    /\ \A r \in Trades : r.start \in Int /\ r.close \in Nat \ {0}
    /\ \A c \in candles : End(c) <= Upper /\ \E r \in Trades : Like(r, c)
    /\ \A r \in Trades : r.start >= Launch /\ End(r) <= Upper => \E c \in candles : Like(r, c)

LEMMA ToldCandles ==
    ASSUME RecordInv, ~NoRefresh, ~Conflicting(Collected)
    PROVE  Told(Normalized(Collected))
<1>1. PICK candles : candles = Normalized(Collected) OBVIOUS
<1>2. candles \subseteq Collected BY <1>1 DEF Normalized
<1>3. Upper \in Int
    <2>1. begun \in Nat /\ selection.created \in Int BY DEF RecordInv, Chosen
    <2>2. Launch \in Nat /\ HistoryLimit \in Nat BY CalculationAssumption
    <2> QED BY <2>1, <2>2 DEF Upper, Lower, LaterOf
<1>4. \A c \in candles : End(c) <= Upper /\ \E r \in Trades : Like(r, c)
    BY <1>2, CollectedCandles DEF Like
<1>5. ASSUME NEW r \in Trades, r.start >= Launch, End(r) <= Upper
      PROVE  \E c \in candles : Like(r, c)
    <2>1. PICK d \in Collected : r.start = d.start /\ r.close = d.close BY <1>5, CollectedCandles
    <2>2. PICK c \in candles : c.start = d.start /\ c.close = d.close BY <1>1, NormalizedCandles
    <2> QED BY <2>1, <2>2 DEF Like
<1> QED BY <1>1, <1>3, <1>4, <1>5, CollectedCandles DEF Told

\* The window reaches to every horizon that had passed when the refresh began.
LEMMA UpperIsLate ==
    ASSUME RecordInv, ~NoRefresh, NEW h \in Horizons, Launch + h <= begun
    PROVE  Launch + h <= Upper
<1>1. begun \in Nat /\ selection.created \in Int BY DEF RecordInv, Chosen
<1>2. Launch \in Nat /\ HistoryLimit \in Nat /\ h \in Nat /\ h <= HistoryLimit
    BY CalculationAssumption, WindowAssumption
<1> QED BY <1>1, <1>2 DEF Upper, Lower, LaterOf

\* The change and the fall between rows are those between their candles.
LEMMA LikeChanges ==
    ASSUME NEW r, NEW q, NEW c, NEW d, Like(r, c), Like(q, d)
    PROVE  Change(r, q) = Change(c, d) /\ Fall(r, q) = Fall(c, d) /\ (InRange(r, q) <=> InRange(c, d))
BY DEF Like, Change, Fall, InRange

\* The fall that is deepest is one of a pair of rows in order, and no pair's is deeper.
LEMMA DeepestFallIs ==
    ASSUME NEW candles, NEW time, Candles(candles, time), Told(candles),
           NEW b \in candles, NEW c \in candles, b.start >= Launch, b.start <= c.start,
           NEW r \in Trades, NEW q \in Trades, Like(r, b), Like(q, c),
           NEW seen \in Seen(Between(candles, b, c)), Deepest(seen, Between(candles, b, c))
    PROVE  DeepestFall(r, q) = seen.maximum
<1> DEFINE path == {d \in Trades : r.start <= d.start /\ d.start <= q.start}
           falls == {Fall(x, y) : x \in path, y \in path} \cup {0}
           ordered == {xy \in path \X path : xy[1].start <= xy[2].start}
           down == {Fall(xy[1], xy[2]) : xy \in ordered}
<1>1. PICK between : between = Between(candles, b, c) OBVIOUS
<1>2. \A d \in between : d \in candles /\ b.start <= d.start /\ d.start <= c.start
    BY <1>1 DEF Between
<1>3. PICK m \in Int, p \in between, t \in between :
         p = seen.peak /\ t = seen.trough /\ m = seen.maximum
    BY <1>1 DEF Seen
<1>4. p.start <= t.start /\ m = Fall(p, t) /\ \A x, y \in between : x.start <= y.start => Fall(x, y) <= m
    BY <1>1, <1>3 DEF Deepest
<1>5. r.start = b.start /\ q.start = c.start BY DEF Like
<1>6. ASSUME NEW d \in between PROVE \E x \in path : Like(x, d)
    <2>1. PICK x \in Trades : Like(x, d) BY <1>2 DEF Told
    <2>2. x \in path BY <1>2, <1>5, <2>1 DEF Like
    <2> QED BY <2>1, <2>2
<1>7. ASSUME NEW x \in path PROVE \E d \in between : Like(x, d)
    <2>1. x \in Trades /\ b.start <= x.start /\ x.start <= c.start BY <1>5
    <2>2. x.start \in Int /\ b.start \in Int /\ c.start \in Int /\ Launch \in Int /\ Interval \in Int
          /\ Upper \in Int /\ End(c) <= Upper
        BY <2>1, CalculationAssumption DEF Told, Candles
    <2>3. x.start >= Launch /\ End(x) <= Upper BY <2>1, <2>2 DEF End
    <2>4. PICK d \in candles : Like(x, d) BY <2>1, <2>3 DEF Told
    <2>5. d \in between BY <1>1, <2>1, <2>4 DEF Between, Like
    <2> QED BY <2>4, <2>5
<1>8. \A d \in between : Priced(d) BY <1>2 DEF Candles
<1>9. PICK x \in path, y \in path : Like(x, p) /\ Like(y, t) BY <1>6
<1>10. m \in falls /\ m \in down
    <2>1. Fall(x, y) = m BY <1>4, <1>9, LikeChanges
    <2>2. x.start <= y.start BY <1>4, <1>9 DEF Like
    <2>3. <<x, y>> \in ordered BY <2>2
    <2>4. Fall(<<x, y>>[1], <<x, y>>[2]) = m BY <2>1
    <2>5. Fall(x, y) \in falls OBVIOUS
    <2> HIDE DEF ordered, falls
    <2> QED BY <2>1, <2>3, <2>4, <2>5
<1>11. \A e \in down : e \in Int /\ e <= m
    <2>1. ASSUME NEW xy \in ordered PROVE Fall(xy[1], xy[2]) \in Int /\ Fall(xy[1], xy[2]) <= m
        <3>1. xy[1] \in path /\ xy[2] \in path /\ xy[1].start <= xy[2].start OBVIOUS
        <3> HIDE DEF path, ordered
        <3>2. PICK d \in between, e \in between : Like(xy[1], d) /\ Like(xy[2], e) BY <1>7, <3>1
        <3>3. d.start <= e.start /\ Fall(xy[1], xy[2]) = Fall(d, e) BY <3>1, <3>2, LikeChanges DEF Like
        <3>4. Fall(d, e) \in Int BY <1>8, FallRange
        <3> QED BY <1>4, <3>3, <3>4
    <2> HIDE DEF ordered
    <2> QED BY <2>1
<1>12. DeepestFall(r, q) = CHOOSE e \in falls : e \in down /\ \A f \in down : f <= e
    BY DEF DeepestFall
<1> HIDE DEF falls, down
<1>13. \A e \in falls : e \in down /\ (\A f \in down : f <= e) => e = m BY <1>10, <1>11
<1>14. m = CHOOSE e \in falls : e \in down /\ \A f \in down : f <= e
    BY <1>10, <1>11, <1>13
<1> QED BY <1>3, <1>12, <1>14

\* The first candle after the launch is the first row after it.
LEMMA RowOpens ==
    ASSUME NEW candles, NEW time, Candles(candles, time), Told(candles),
           NEW b \in candles, NEW r \in Trades, Like(r, b),
           Opens(candles, b), End(b) - Launch <= MaxBaselineLag
    PROVE  IsBaseline(r)
<1>1. r.start = b.start /\ r.start \in Int /\ End(b) <= Upper /\ End(r) = End(b) /\ Upper \in Int
    BY DEF Told, Like, End
<1>2. Launch \in Int /\ Interval \in Int BY CalculationAssumption
<1>3. ASSUME NEW d \in Trades, d.start < r.start PROVE d.start < Launch
    <2>1. d.start \in Int /\ End(d) <= Upper BY <1>1, <1>2, <1>3 DEF Told, End
    <2>2. SUFFICES ASSUME d.start >= Launch PROVE FALSE BY <1>2, <2>1
    <2>3. PICK c \in candles : Like(d, c) BY <2>1, <2>2 DEF Told
    <2>4. c.start < b.start /\ c.start >= Launch BY <1>1, <1>3, <2>2, <2>3 DEF Like
    <2>5. c.start < Launch BY <2>4 DEF Opens
    <2> QED BY <1>2, <2>1, <2>3, <2>4, <2>5 DEF Like
<1> QED BY <1>1, <1>3 DEF IsBaseline, Opens

\* What the window keeps is what counts when the horizon lies in it.
LEMMA RowCloses ==
    ASSUME NEW candles, NEW time, Candles(candles, time), Told(candles), NEW h \in Horizons,
           NEW c \in candles, NEW q \in Trades, Like(q, c), Launch + h <= Upper,
           c.start >= Launch, Closes(candles, c, h)
    PROVE  IsTarget(q, h)
<1>1. q.start = c.start /\ q.start \in Int /\ Upper \in Int BY DEF Told, Like
<1>2. Launch \in Int /\ Interval \in Int /\ h \in Int BY CalculationAssumption
<1>3. ASSUME NEW d \in Trades, d.start > q.start PROVE End(d) > Launch + h
    <2>1. d.start \in Int /\ End(d) \in Int BY <1>2 DEF Told, End
    <2>2. SUFFICES ASSUME End(d) <= Launch + h PROVE FALSE BY <1>2, <2>1
    <2>3. End(d) <= Upper /\ d.start >= Launch BY <1>1, <1>2, <1>3, <2>1, <2>2
    <2>4. PICK e \in candles : Like(d, e) BY <2>3 DEF Told
    <2>5. e.start > c.start /\ End(e) = End(d) BY <1>1, <1>3, <2>4 DEF Like, End
    <2>6. End(e) > Launch + h BY <2>5 DEF Closes
    <2> QED BY <1>2, <2>1, <2>2, <2>5, <2>6
<1> QED BY <1>3 DEF IsTarget

\* A result that the provider's answers have is one that the candles have.
LEMMA RowsHaveResult ==
    ASSUME NEW candles, NEW time \in Nat, Candles(candles, time), Told(candles), NEW h \in Horizons,
           Launch + h <= Upper, Launch + h <= time,
           NEW r \in Trades, NEW q \in Trades, Fits(r, q, h), IsTarget(q, h)
    PROVE  HasResult(candles, time, h)
<1>1. Launch \in Int /\ Interval \in Int /\ h \in Int /\ Upper \in Int BY CalculationAssumption DEF Told
<1>2. r.start \in Int /\ q.start \in Int BY DEF Told
<1>3. /\ IsBaseline(r) /\ r.start < q.start /\ InRange(r, q)
      /\ End(q) <= Launch + h /\ Launch + h - End(q) <= MaxStaleness
    BY DEF Fits
<1>4. r.start >= Launch /\ End(r) - Launch <= MaxBaselineLag BY <1>3 DEF IsBaseline
<1>5. End(r) <= Upper /\ End(q) <= Upper /\ q.start >= Launch
    BY <1>1, <1>2, <1>3, <1>4 DEF End
<1>6. PICK b \in candles, c \in candles : Like(r, b) /\ Like(q, c) BY <1>4, <1>5 DEF Told
<1>7. End(b) = End(r) /\ End(c) = End(q) /\ b.start < c.start BY <1>3, <1>6 DEF Like, End
<1>8. Opens(candles, b)
    <2>1. ASSUME NEW d \in candles, d.start < b.start PROVE d.start < Launch
        <3>1. PICK x \in Trades : Like(x, d) BY DEF Told
        <3>2. x.start < r.start BY <1>6, <2>1, <3>1 DEF Like
        <3> QED BY <1>3, <3>1, <3>2 DEF IsBaseline, Like
    <2> QED BY <1>4, <1>6, <2>1 DEF Opens, Like
<1>9. Closes(candles, c, h)
    <2>1. ASSUME NEW d \in candles, d.start > c.start PROVE End(d) > Launch + h
        <3>1. PICK x \in Trades : Like(x, d) BY DEF Told
        <3>2. x.start > q.start /\ End(x) = End(d) BY <1>6, <2>1, <3>1 DEF Like, End
        <3> QED BY <3>1, <3>2 DEF IsTarget
    <2> QED BY <1>3, <1>7, <2>1 DEF Closes
<1>10. InRange(b, c) BY <1>3, <1>6, LikeChanges
<1> QED BY <1>3, <1>4, <1>7, <1>8, <1>9, <1>10, Zenon DEF HasResult

\* What a refresh newly records of a horizon is what the provider's answers say: the base
\* and the target are the rows that the definition of the method names, and the drawdown,
\* found in one pass, is the deepest of the falls between any two closes in order; and of a
\* horizon that had passed when the refresh began it records a result when they have one.
THEOREM HonestResults == RecordSpec => ResultsAreHonest
<1> DEFINE Honest(h) ==
        record = Nothing \/ record.windows[h].status # "observed" =>
            /\ record'.windows[h].status = "observed" =>
                  /\ Launch + h <= now
                  /\ \E b, c \in Trades : /\ Fits(b, c, h) /\ Shows(record'.windows[h], b, c)
                                          /\ Launch + h <= begun => IsTarget(c, h)
            /\ Launch + h <= begun /\ (\E b, c \in Trades : Fits(b, c, h) /\ IsTarget(c, h))
                  => record'.windows[h].status = "observed"
<1>1. ASSUME RecordInv, Complete, ~thrown', NEW h \in Horizons PROVE Honest(h)
    <2> SUFFICES ASSUME record = Nothing \/ record.windows[h].status # "observed"
                 PROVE  /\ record'.windows[h].status = "observed" =>
                              /\ Launch + h <= now
                              /\ \E b, c \in Trades :
                                    /\ Fits(b, c, h) /\ Shows(record'.windows[h], b, c)
                                    /\ Launch + h <= begun => IsTarget(c, h)
                        /\ Launch + h <= begun /\ (\E b, c \in Trades : Fits(b, c, h) /\ IsTarget(c, h))
                              => record'.windows[h].status = "observed"
        OBVIOUS
    <2> HIDE DEF Honest
    <2>1. ~NoRefresh BY <1>1 DEF Complete
    <2>2. ~Conflicting(Collected) BY <1>1, CompleteIsSound
    <2>3. PICK candles, time : candles = Normalized(Collected) /\ time = now OBVIOUS
    <2>4. PICK w : w = record'.windows[h] OBVIOUS
    <2>5. w = Window(h, candles, FirstBaseline(candles), time) BY <1>1, <2>3, <2>4, CompleteIsSound
    <2>6. Candles(candles, time) /\ Told(candles) /\ time \in Nat
        BY <1>1, <2>1, <2>2, <2>3, NormalizedCandles, ToldCandles DEF RecordInv
    <2>7. /\ Launch \in Nat /\ h \in Nat /\ begun \in Nat /\ begun <= time
          /\ (Launch + h <= begun => Launch + h <= Upper)
        BY <1>1, <2>1, <2>3, UpperIsLate, CalculationAssumption DEF RecordInv
    <2>8. ASSUME w.status = "observed"
          PROVE  /\ Launch + h <= time
                 /\ \E b, c \in Trades : /\ Fits(b, c, h) /\ Shows(w, b, c)
                                         /\ Launch + h <= begun => IsTarget(c, h)
        <3>1. HasResult(candles, time, h) BY <2>5, <2>6, <2>8, WindowIsHonest
        <3>2. Launch + h <= time BY <3>1 DEF HasResult
        <3>3. PICK b \in candles, c \in candles :
                 /\ Opens(candles, b) /\ End(b) - Launch <= MaxBaselineLag
                 /\ Closes(candles, c, h) /\ b.start < c.start /\ InRange(b, c)
                 /\ Launch + h - End(c) <= MaxStaleness
                 /\ w.return = Change(b, c)
                 /\ \E seen \in Seen(Between(candles, b, c)) :
                       /\ Deepest(seen, Between(candles, b, c))
                       /\ w.drawdown.maximum = seen.maximum
            BY <2>5, <2>6, <2>8, WindowIsHonest
        <3>4. PICK r \in Trades, q \in Trades : Like(r, b) /\ Like(q, c) BY <2>6 DEF Told
        <3>5. b.start \in Int /\ c.start \in Int /\ b.start >= Launch BY <2>6, <3>3 DEF Candles, Opens
        <3>6. IsBaseline(r) BY <2>6, <3>3, <3>4, RowOpens
        <3>7. Fits(r, q, h)
            <4>1. End(q) = End(c) /\ r.start < q.start BY <3>3, <3>4 DEF Like, End
            <4>2. InRange(r, q) BY <3>3, <3>4, LikeChanges
            <4> QED BY <3>3, <3>6, <4>1, <4>2 DEF Fits, Closes
        <3>8. Launch + h <= begun => IsTarget(q, h)
            BY <2>6, <2>7, <3>3, <3>4, <3>5, RowCloses
        <3>9. w.return = Change(r, q) BY <3>3, <3>4, LikeChanges
        <3>10. PICK seen \in Seen(Between(candles, b, c)) :
                  Deepest(seen, Between(candles, b, c)) /\ w.drawdown.maximum = seen.maximum
            BY <3>3
        <3>11. b.start <= c.start BY <3>3, <3>5
        <3>12. DeepestFall(r, q) = seen.maximum BY <2>6, <3>4, <3>5, <3>10, <3>11, DeepestFallIs
        <3>13. Shows(w, r, q) BY <2>8, <3>9, <3>10, <3>12 DEF Shows
        <3> QED BY <3>2, <3>7, <3>8, <3>13
    <2>9. ASSUME Launch + h <= begun, NEW r \in Trades, NEW q \in Trades, Fits(r, q, h), IsTarget(q, h)
          PROVE  w.status = "observed"
        <3>1. Launch + h <= time /\ Launch + h <= Upper BY <2>6, <2>7, <2>9
        <3>2. HasResult(candles, time, h) BY <2>6, <2>9, <3>1, RowsHaveResult
        <3> QED BY <2>5, <2>6, <3>2, WindowIsHonest
    <2> QED BY <2>3, <2>4, <2>8, <2>9
<1>2. RecordInv /\ [RecordNext]_recordVars
      => [~NoRefresh /\ NoRefresh' /\ ~thrown' => \A h \in Horizons : Honest(h)]_recordVars
    <2> HIDE DEF Honest
    <2> SUFFICES ASSUME RecordInv, RecordNext, ~NoRefresh, NoRefresh', ~thrown'
                 PROVE  \A h \in Horizons : Honest(h)
        BY DEF RecordInv
    <2>1. CASE Wait \/ Select \/ Begin BY <2>1 DEF Wait, Select, Begin, RecordInv, NoRefresh
    <2>2. CASE Fetch BY <2>2 DEF Fetch, NoRefresh
    <2>3. CASE Fail BY <2>3 DEF Fail
    <2>4. CASE Complete BY <1>1, <2>4
    <2> QED BY <2>1, <2>2, <2>3, <2>4 DEF RecordNext
<1>3. RecordSpec => []RecordInv BY RecordInvariance
<1> QED BY <1>2, <1>3, PTL DEF ResultsAreHonest, RecordSpec
=============================================================================
