-------------------------- MODULE RiskWorkerProofs --------------------------
(***************************************************************************)
(* Safety of the risk and identity worker for any number of launches and   *)
(* factors, any limits, any parser upgrades, crashes and failed writes.    *)
(***************************************************************************)
EXTENDS RiskWorker, FiniteSetTheorems, SequenceTheorems, WellFoundedInduction, TLAPS

-----------------------------------------------------------------------------
\* The inductive invariant.

\* A row is written first by the admission, and evidence by a success.  No
\* row names a parser later than the present one.
RowsAreSound ==
    \A m \in Mints :
        /\ ~row[m].persisted => row[m] = Absent
        /\ row[m].evidence # {} => row[m].succeeded
        /\ row[m].disposed <= revision

\* The process has admitted exactly the launches that have a row, and they
\* are within the limit.
CohortIsPersisted ==
    /\ admitted = IF up THEN Persisted ELSE {}
    /\ Cardinality(Persisted) <= CohortLimit

\* m may be audited: the cohort is full, so the sample is fixed.
Auditable(m) == m \in Persisted /\ Cardinality(Persisted) = CohortLimit /\ Sampled(m)

\* What is queued has a row, and only the fixed sample is audited.
QueueIsSound ==
    \A item \in Contents(queue) :
        item.mint \in Persisted /\ (item.audit => Auditable(item.mint))

\* One refresh at a time; the row it read is the present one, has an attempt
\* left, or has not met the parser it is audited by.
FlightIsSound ==
    /\ \A f, g \in flight : f = g
    /\ \A f \in flight :
        /\ up /\ running /\ f.mint \in Persisted /\ f.read = row[f.mint]
        /\ IF f.audit THEN Auditable(f.mint) /\ f.read.disposed < revision
           ELSE f.read.attempts < MaxAttempts

\* Every attempt is counted in the row, still running, or lost to a fault.
AttemptsAccounted ==
    \A m \in Mints :
        asked[m] <= row[m].attempts + faults
                    + (IF \E f \in flight : f.mint = m /\ ~f.audit THEN 1 ELSE 0)

\* Every audit by a revision has led to a row that has met the revision, is
\* still running, or was lost to a fault; later revisions have made none.
AuditsAccounted ==
    \A m \in Mints, r \in 1..MaxRevision :
        /\ audits[m][r] > 0 => Auditable(m) /\ r <= revision
        /\ audits[m][r] <= (IF row[m].disposed >= r THEN 1 ELSE 0) + faults
              + (IF r = revision /\ \E f \in flight : f.mint = m /\ f.audit THEN 1 ELSE 0)

IInv ==
    /\ TypeOK /\ RowsAreSound /\ CohortIsPersisted /\ QueueIsSound /\ FlightIsSound
    /\ AttemptsAccounted /\ AuditsAccounted
-----------------------------------------------------------------------------
\* Lemmas on the operators: queues, listings and the audit sample.

Item == [mint : Mints, audit : BOOLEAN]

LEMMA ListingType ==
    ASSUME NEW S \in SUBSET Mints, NEW s \in Listings(S)
    PROVE  s \in Seq(Mints) /\ Contents(s) \subseteq S
<1>1. IsFiniteSet(S) BY FS_Subset, RiskAssumption
<1>2. Cardinality(S) \in Nat BY <1>1, FS_CardinalityType
<1>3. s \in [1..Cardinality(S) -> S] BY DEF Listings
<1> QED BY <1>2, <1>3 DEF Contents

LEMMA ItemsType ==
    ASSUME NEW s \in Seq(Mints)
    PROVE  /\ Items(s) \in Seq(Item) /\ AuditItems(s) \in Seq(Item)
           /\ \A i \in Contents(Items(s)) : i.mint \in Contents(s) /\ ~i.audit
           /\ \A i \in Contents(AuditItems(s)) : i.mint \in Contents(s) /\ i.audit
<1>1. DOMAIN s = 1..Len(s) /\ Len(s) \in Nat OBVIOUS
<1>2. \A i \in DOMAIN s : Normal(s[i]) \in Item /\ Audit(s[i]) \in Item BY DEF Normal, Audit, Item
<1>3. \A m : Normal(m).mint = m /\ ~Normal(m).audit /\ Audit(m).mint = m /\ Audit(m).audit
    BY DEF Normal, Audit
<1>4. Items(s) \in Seq(Item) /\ DOMAIN Items(s) = DOMAIN s
      /\ \A i \in DOMAIN s : Items(s)[i] = Normal(s[i])
    BY <1>1, <1>2 DEF Items
<1>5. AuditItems(s) \in Seq(Item) /\ DOMAIN AuditItems(s) = DOMAIN s
      /\ \A i \in DOMAIN s : AuditItems(s)[i] = Audit(s[i])
    BY <1>1, <1>2 DEF AuditItems
<1> QED BY <1>3, <1>4, <1>5 DEF Contents

LEMMA ContentsOfConcat ==
    ASSUME NEW S, NEW s \in Seq(S), NEW t \in Seq(S)
    PROVE  s \o t \in Seq(S) /\ Contents(s \o t) \subseteq Contents(s) \cup Contents(t)
BY DEF Contents

LEMMA TakeProperties ==
    ASSUME NEW S, NEW s \in Seq(S), NEW n \in Int
    PROVE  Take(s, n) \in Seq(S) /\ Contents(Take(s, n)) \subseteq Contents(s)
<1> DEFINE k == IF Len(s) <= n THEN Len(s) ELSE n
<1>1. k \in Int /\ k <= Len(s) /\ Len(s) \in Nat OBVIOUS
<1>2. \A i \in 1..k : s[i] \in S BY <1>1
<1>3. /\ SubSeq(s, 1, k) \in Seq(S)
      /\ Len(SubSeq(s, 1, k)) = IF 1 <= k THEN k - 1 + 1 ELSE 0
      /\ \A i \in 1..(k - 1 + 1) : SubSeq(s, 1, k)[i] = s[1 + i - 1]
    BY <1>1, <1>2, SubSeqProperties
<1>4. Contents(SubSeq(s, 1, k)) \subseteq Contents(s)
    <2> SUFFICES ASSUME NEW i \in DOMAIN SubSeq(s, 1, k) PROVE SubSeq(s, 1, k)[i] \in Contents(s)
        BY DEF Contents
    <2>1. i \in 1..k BY <1>1, <1>3
    <2>2. SubSeq(s, 1, k)[i] = s[i] /\ i \in DOMAIN s BY <1>1, <1>3, <2>1
    <2> QED BY <2>2 DEF Contents
<1> QED BY <1>3, <1>4 DEF Take

LEMMA AppendNormal ==
    ASSUME NEW s \in Seq(Item), NEW m \in Mints
    PROVE  /\ Append(s, Normal(m)) \in Seq(Item)
           /\ \A i \in Contents(Append(s, Normal(m))) :
                i \in Contents(s) \/ (i.mint = m /\ i.audit = FALSE)
<1>1. Normal(m) \in Item /\ Normal(m).mint = m /\ Normal(m).audit = FALSE BY DEF Normal, Item
<1>2. Append(s, Normal(m)) \in Seq(Item) BY <1>1
<1>3. \A i \in DOMAIN Append(s, Normal(m)) :
          (i \in DOMAIN s /\ Append(s, Normal(m))[i] = s[i]) \/ Append(s, Normal(m))[i] = Normal(m)
    OBVIOUS
<1>4. ASSUME NEW i \in Contents(Append(s, Normal(m)))
      PROVE  i \in Contents(s) \/ (i.mint = m /\ i.audit = FALSE)
    <2>1. PICK j \in DOMAIN Append(s, Normal(m)) : i = Append(s, Normal(m))[j]
        BY <1>4 DEF Contents
    <2>2. CASE j \in DOMAIN s /\ i = s[j] BY <2>2 DEF Contents
    <2>3. CASE i = Normal(m) BY <1>1, <2>3
    <2> QED BY <1>3, <2>1, <2>2, <2>3
<1>5. \A i \in Contents(Append(s, Normal(m))) : i \in Contents(s) \/ (i.mint = m /\ i.audit = FALSE)
    BY <1>4, Zenon
<1> QED BY <1>2, <1>5

\* A finite set of numbers has a greatest member: the one above which the
\* fewest lie.
LEMMA GreatestExists ==
    ASSUME NEW T \in SUBSET Nat, IsFiniteSet(T), T # {}
    PROVE  \E x \in T : \A y \in T : y <= x
<1> DEFINE Above(x) == {y \in T : y > x}
           A == {Above(x) : x \in T}
<1>1. A \subseteq FiniteSubsetsOf(Nat) /\ A # {}
    <2>1. \A x \in T : Above(x) \subseteq Nat /\ IsFiniteSet(Above(x)) BY FS_Subset
    <2> QED BY <2>1 DEF FiniteSubsetsOf
<1>2. PICK u \in A : \A v \in A : <<v, u>> \notin StrictSubsetOrdering(Nat)
    BY <1>1, FS_StrictSubsetOrderingWellFounded, WFMin, Zenon
<1>3. PICK x \in T : u = Above(x) OBVIOUS
<1>4. \A y \in T : y <= x
    <2> SUFFICES ASSUME NEW y \in T, x < y PROVE FALSE OBVIOUS
    <2>1. Above(y) \subseteq Above(x) /\ Above(y) # Above(x)
        <3>1. x \in Nat /\ y \in Nat /\ \A z \in T : z \in Nat OBVIOUS
        <3>2. \A z \in T : z > y => z > x BY <3>1
        <3>3. y \in Above(x) /\ y \notin Above(y) BY <3>1
        <3>4. Above(y) \subseteq Above(x) BY <3>2
        <3> QED BY <3>3, <3>4
    <2>3. Above(y) \in SUBSET Nat /\ Above(x) \in SUBSET Nat OBVIOUS
    <2>2. <<Above(y), Above(x)>> \in StrictSubsetOrdering(Nat)
        BY <2>1, <2>3 DEF StrictSubsetOrdering
    <2> QED BY <1>2, <1>3, <2>2
<1> QED BY <1>4

\* Of a finite set, at most k members have less than k below them.
LEMMA LowestAreFew ==
    ASSUME NEW S \in SUBSET Nat, IsFiniteSet(S), NEW k \in Nat,
           NEW T, T = {m \in S : Cardinality({n \in S : n < m}) < k}
    PROVE  IsFiniteSet(T) /\ Cardinality(T) <= k
<1>1. IsFiniteSet(T) /\ T \in SUBSET Nat BY FS_Subset
<1>2. CASE T = {}
    <2>1. Cardinality(T) = 0 BY <1>1, <1>2, FS_EmptySet
    <2> QED BY <1>1, <2>1
<1>3. CASE T # {}
    <2>1. PICK x \in T : \A y \in T : y <= x BY <1>1, <1>3, GreatestExists
    <2> DEFINE B == {n \in S : n < x}
    <2>2. IsFiniteSet(B) /\ Cardinality(B) \in Nat /\ Cardinality(B) < k
        BY <2>1, FS_Subset, FS_CardinalityType
    <2>3. T \ {x} \subseteq B BY <1>1, <2>1
    <2>4. Cardinality(T \ {x}) <= Cardinality(B) BY <2>2, <2>3, FS_Subset
    <2>5. IsFiniteSet(T \ {x}) /\ Cardinality(T \ {x}) = Cardinality(T) - 1
        BY <1>1, <2>1, FS_RemoveElement
    <2>6. Cardinality(T) \in Nat BY <1>1, FS_CardinalityType
    <2> QED BY <1>1, <2>2, <2>4, <2>5, <2>6
<1> QED BY <1>2, <1>3

LEMMA PersistedFinite ==
    /\ Persisted \in SUBSET Mints /\ IsFiniteSet(Persisted) /\ Cardinality(Persisted) \in Nat
<1>1. Persisted \in SUBSET Mints BY DEF Persisted
<1> QED BY <1>1, FS_Subset, FS_CardinalityType, RiskAssumption
-----------------------------------------------------------------------------
\* The invariant is inductive.

LEMMA InitIInv == Init => IInv
<1> SUFFICES ASSUME Init PROVE IInv OBVIOUS
<1> USE DEF Init
<1>1. Absent \in RowType /\ ~Absent.persisted /\ Absent.evidence = {} /\ Absent.disposed = 0
    BY RiskAssumption DEF Absent, RowType
<1>2. Persisted = {} BY <1>1 DEF Persisted
<1>3. Contents(queue) = {} BY DEF Contents
<1>4. TypeOK
    <2>1. row \in [Mints -> RowType] BY <1>1
    <2>2. due \in [Mints -> Int \cup {Never}] /\ asked \in [Mints -> Nat] OBVIOUS
    <2>3. audits \in [Mints -> [1..MaxRevision -> Nat]] OBVIOUS
    <2>4. revision \in 1..MaxRevision /\ poll \in 0..PollEvery /\ faults \in Nat
        BY RiskAssumption
    <2>5. /\ queue \in Seq([mint : Mints, audit : BOOLEAN]) /\ admitted \in SUBSET Mints
          /\ flight \in SUBSET [mint : Mints, audit : BOOLEAN, read : RowType]
        OBVIOUS
    <2>6. up \in BOOLEAN /\ timer \in BOOLEAN /\ running \in BOOLEAN OBVIOUS
    <2> QED BY <2>1, <2>2, <2>3, <2>4, <2>5, <2>6 DEF TypeOK
<1>5. RowsAreSound BY <1>1 DEF RowsAreSound
<1>6. CohortIsPersisted BY <1>2, FS_EmptySet, RiskAssumption DEF CohortIsPersisted
<1>7. QueueIsSound /\ FlightIsSound BY <1>3 DEF QueueIsSound, FlightIsSound
<1>8. AttemptsAccounted BY <1>1 DEF AttemptsAccounted, Absent
<1>9. AuditsAccounted BY <1>1 DEF AuditsAccounted
<1> QED BY <1>4, <1>5, <1>6, <1>7, <1>8, <1>9 DEF IInv

\* The sample follows from the rows.
LEMMA SameSample ==
    ASSUME Persisted' = Persisted, NEW m
    PROVE  Auditable(m)' <=> Auditable(m)
BY DEF Auditable, Sampled, Rank

\* What feed updates, polls, skipped refreshes and time do: only the queue
\* and the clocks change, and what is queued is sound.
LEMMA QueueChangeIInv ==
    ASSUME IInv, UNCHANGED <<row, up, revision, admitted, running, flight, asked, audits, faults>>,
           due' \in [Mints -> Int \cup {Never}], timer' \in BOOLEAN, poll' \in 0..PollEvery,
           queue' \in Seq(Item),
           \A i \in Contents(queue') : i.mint \in Persisted /\ (i.audit => Auditable(i.mint))
    PROVE  IInv'
<1> USE DEF IInv
<1>1. Persisted' = Persisted BY DEF Persisted
<1>2. TypeOK' BY DEF TypeOK, Item
<1>3. RowsAreSound' BY DEF RowsAreSound
<1>4. CohortIsPersisted' BY <1>1 DEF CohortIsPersisted
<1>5. QueueIsSound' BY <1>1, SameSample DEF QueueIsSound, Contents
<1>6. FlightIsSound' BY <1>1, SameSample DEF FlightIsSound
<1>7. AttemptsAccounted' BY DEF AttemptsAccounted
<1>8. AuditsAccounted' BY <1>1, SameSample DEF AuditsAccounted
<1> QED BY <1>2, <1>3, <1>4, <1>5, <1>6, <1>7, <1>8

LEMMA ScheduleType == ASSUME NEW set \in BOOLEAN, NEW idle \in BOOLEAN, Schedule(set, idle)
                      PROVE  timer' \in BOOLEAN
BY DEF Schedule

LEMMA RepeatIInv == ASSUME IInv, NEW m \in Mints, FeedEvent(m), Repeat(m) PROVE IInv'
<1> USE DEF IInv, Repeat
<1>1. UNCHANGED <<row, due, up, revision, admitted, running, flight, asked, audits, faults, poll>>
    BY DEF FeedEvent, rows, history
<1>2. m \in Persisted BY DEF Ready, Persisted
<1>3. queue \in Seq(Item) BY DEF TypeOK, Item
<1>4. queue' \in Seq(Item)
      /\ \A i \in Contents(queue') : i \in Contents(queue) \/ (i.mint = m /\ i.audit = FALSE)
    BY <1>3, AppendNormal
<1>5. \A i \in Contents(queue') : i.mint \in Persisted /\ (i.audit => Auditable(i.mint))
    BY <1>2, <1>4 DEF QueueIsSound
<1>6. timer' \in BOOLEAN BY DEF Schedule
<1>7. due' \in [Mints -> Int \cup {Never}] /\ poll' \in 0..PollEvery BY <1>1 DEF TypeOK
<1> QED BY <1>1, <1>4, <1>5, <1>6, <1>7, QueueChangeIInv

LEMMA AdmittedRow ==
    ASSUME NEW new, new = [Absent EXCEPT !.persisted = TRUE]
    PROVE  /\ new \in RowType /\ new.persisted /\ new.attempts = 0 /\ new.evidence = {}
           /\ new.disposed = 0
<1>1. Absent \in RowType BY RiskAssumption DEF Absent, RowType
<1>2. new \in RowType BY <1>1 DEF RowType
<1> QED BY <1>2 DEF Absent

\* While the cohort has room nothing is audited, so that a new row, which may
\* move the sample, disturbs no audit.
LEMMA AdmitIInv ==
    ASSUME IInv, NEW m \in Mints, NEW age \in 0..AdmitBy, FeedEvent(m), Admit(m, age)
    PROVE  IInv'
<1> DEFINE new == [Absent EXCEPT !.persisted = TRUE]
<1> USE DEF IInv, Admit
<1>1. UNCHANGED <<up, revision, running, flight, poll, asked, audits, faults>> /\ up
    BY DEF FeedEvent, history
<1>2. /\ new \in RowType /\ new.persisted /\ new.attempts = 0 /\ new.evidence = {}
      /\ new.disposed = 0
    BY AdmittedRow
<1>3. row[m] = Absent BY DEF RowsAreSound
<1>4. /\ row' \in [Mints -> RowType] /\ row'[m] = new
      /\ \A n \in Mints \ {m} : row'[n] = row[n]
    BY <1>2 DEF TypeOK
<1> HIDE DEF new
<1>5. m \notin Persisted /\ Persisted' = Persisted \cup {m} BY <1>2, <1>4 DEF Persisted
<1>6. Cardinality(Persisted) < CohortLimit BY <1>1 DEF Room, CohortIsPersisted
<1>7. Cardinality(Persisted') <= CohortLimit
    <2>1. Cardinality(Persisted') = Cardinality(Persisted) + 1
        BY <1>5, PersistedFinite, FS_AddElement
    <2>2. Cardinality(Persisted) \in Nat /\ CohortLimit \in Nat
        BY PersistedFinite, RiskAssumption
    <2> QED BY <1>6, <2>1, <2>2
<1>8. \A n : ~Auditable(n) BY <1>6, PersistedFinite, RiskAssumption DEF Auditable
<1>9. queue' \in Seq(Item)
      /\ \A i \in Contents(queue') : i \in Contents(queue) \/ (i.mint = m /\ i.audit = FALSE)
    <2>1. queue \in Seq(Item) BY DEF TypeOK, Item
    <2>2. CASE queue' = queue BY <2>1, <2>2
    <2>3. CASE queue' = Append(queue, Normal(m)) BY <2>1, <2>3, AppendNormal
    <2> QED BY <2>2, <2>3
<1>10. \A i \in Contents(queue) : i.mint \in Persisted /\ ~i.audit BY <1>8 DEF QueueIsSound
<1>11. \A f \in flight : f.mint \in Persisted /\ ~f.audit /\ f.mint # m
    BY <1>5, <1>8 DEF FlightIsSound
<1>12. due' \in [Mints -> Int \cup {Never}] /\ admitted' \in SUBSET Mints /\ timer' \in BOOLEAN
    <2>1. (IF age < InitialDelay THEN InitialDelay - age ELSE 0) \in Int BY RiskAssumption
    <2> QED BY <2>1 DEF TypeOK, Schedule
<1>13. TypeOK' BY <1>1, <1>4, <1>9, <1>12 DEF TypeOK, Item
<1>14. RowsAreSound' BY <1>1, <1>2, <1>4 DEF RowsAreSound, TypeOK
<1>15. CohortIsPersisted' BY <1>1, <1>5, <1>7 DEF CohortIsPersisted
<1>16. QueueIsSound' BY <1>5, <1>9, <1>10 DEF QueueIsSound, Contents
<1>17. FlightIsSound' BY <1>1, <1>4, <1>5, <1>11, PersistedFinite DEF FlightIsSound
<1>18. AttemptsAccounted'
    <2>1. \A n \in Mints : row'[n].attempts = row[n].attempts BY <1>2, <1>3, <1>4 DEF Absent
    <2> QED BY <1>1, <2>1 DEF AttemptsAccounted
<1>19. AuditsAccounted'
    <2>1. \A n \in Mints : row'[n].disposed = row[n].disposed BY <1>2, <1>3, <1>4 DEF Absent
    <2> QED BY <1>1, <1>8, <2>1 DEF AuditsAccounted
<1> QED BY <1>13, <1>14, <1>15, <1>16, <1>17, <1>18, <1>19
LEMMA PollIInv == ASSUME IInv, Poll PROVE IInv'
<1> USE DEF IInv, Poll
<1> DEFINE S == {m \in DueMints : Ready(m)} \ QueuedMints
<1>1. PICK s \in InOrder(S, due) : queue' = queue \o Take(Items(s), MaxQueue - Len(queue))
    OBVIOUS
<1>2. S \subseteq Persisted /\ Persisted \subseteq Mints BY DEF DueMints, Persisted
<1>3. s \in Seq(Mints) /\ Contents(s) \subseteq Persisted
    BY <1>1, <1>2, ListingType DEF InOrder
<1>4. queue \in Seq(Item) /\ MaxQueue - Len(queue) \in Int BY RiskAssumption DEF TypeOK, Item
<1>5. Items(s) \in Seq(Item) /\ \A i \in Contents(Items(s)) : i.mint \in Contents(s) /\ ~i.audit
    BY <1>3, ItemsType
<1> DEFINE t == Take(Items(s), MaxQueue - Len(queue))
<1>6. t \in Seq(Item) /\ Contents(t) \subseteq Contents(Items(s)) BY <1>4, <1>5, TakeProperties
<1>7. queue' = queue \o t BY <1>1
<1> HIDE DEF t, S
<1>8. queue' \in Seq(Item) /\ Contents(queue') \subseteq Contents(queue) \cup Contents(t)
    BY <1>4, <1>6, <1>7, ContentsOfConcat
<1>9. \A i \in Contents(queue') : i.mint \in Persisted /\ (i.audit => Auditable(i.mint))
    BY <1>3, <1>5, <1>6, <1>8 DEF QueueIsSound
<1>10. due' \in [Mints -> Int \cup {Never}] /\ timer' \in BOOLEAN /\ poll' \in 0..PollEvery
    BY RiskAssumption DEF TypeOK, rows, Schedule
<1>11. UNCHANGED <<row, up, revision, admitted, running, flight, asked, audits, faults>>
    BY DEF rows, history
<1> QED BY <1>8, <1>9, <1>10, <1>11, QueueChangeIInv

LEMMA TickIInv == ASSUME IInv, Tick PROVE IInv'
<1> USE DEF IInv, Tick
<1>1. due' \in [Mints -> Int \cup {Never}] BY RiskAssumption DEF TypeOK
<1>2. poll' \in 0..PollEvery BY RiskAssumption DEF TypeOK
<1>3. queue' \in Seq(Item) /\ timer' \in BOOLEAN BY DEF TypeOK, Item
<1>4. \A i \in Contents(queue') : i.mint \in Persisted /\ (i.audit => Auditable(i.mint))
    BY DEF QueueIsSound
<1>5. UNCHANGED <<row, up, revision, admitted, running, flight, asked, audits, faults>>
    BY DEF history
<1> QED BY <1>1, <1>2, <1>3, <1>4, <1>5, QueueChangeIInv

\* The head of the queue is one of its items, and the others stay.
LEMMA TakeHead ==
    ASSUME NEW s \in Seq(Item), s # <<>>
    PROVE  /\ Head(s) \in Contents(s) /\ Head(s) \in Item
           /\ Tail(s) \in Seq(Item) /\ Contents(Tail(s)) \subseteq Contents(s)
<1>1. /\ Tail(s) \in Seq(Item) /\ Len(Tail(s)) = Len(s) - 1
      /\ \A i \in 1..Len(Tail(s)) : Tail(s)[i] = s[i + 1]
    BY HeadTailProperties
<1>2. \A i \in DOMAIN Tail(s) : i + 1 \in DOMAIN s /\ Tail(s)[i] = s[i + 1] BY <1>1
<1>3. Contents(Tail(s)) \subseteq Contents(s) BY <1>1, <1>2 DEF Contents
<1>4. Head(s) = s[1] /\ 1 \in DOMAIN s /\ s[1] \in Item OBVIOUS
<1> QED BY <1>1, <1>3, <1>4 DEF Contents

LEMMA Counted ==
    ASSUME NEW D, NEW a \in [D -> Nat], NEW d \in D, NEW m \in D
    PROVE  /\ [a EXCEPT ![d] = @ + 1] \in [D -> Nat]
           /\ [a EXCEPT ![d] = @ + 1][m] = a[m] + (IF d = m THEN 1 ELSE 0)
<1>1. a[d] \in Nat /\ a[d] + 1 \in Nat /\ a[m] \in Nat OBVIOUS
<1>2. [a EXCEPT ![d] = @ + 1] \in [D -> Nat] BY <1>1
<1> QED BY <1>1, <1>2

LEMMA DrainIInv == ASSUME IInv, Drain PROVE IInv'
<1> DEFINE item == Head(queue)
<1> USE DEF IInv
<1>1. queue \in Seq(Item) /\ queue # <<>> /\ queue' = Tail(queue) BY DEF Drain, TypeOK, Item
<1>2. /\ item \in Contents(queue) /\ item \in Item
      /\ queue' \in Seq(Item) /\ Contents(queue') \subseteq Contents(queue)
    BY <1>1, TakeHead
<1>3. /\ item.mint \in Persisted /\ item.mint \in Mints /\ item.audit \in BOOLEAN
      /\ item.audit => Auditable(item.mint)
    BY <1>2 DEF QueueIsSound, Item
<1>4. \A i \in Contents(queue') : i.mint \in Persisted /\ (i.audit => Auditable(i.mint))
    BY <1>2 DEF QueueIsSound
<1>5. /\ UNCHANGED <<row, due, up, revision, admitted, poll, faults>> /\ up
      /\ due' \in [Mints -> Int \cup {Never}] /\ poll' \in 0..PollEvery
    BY DEF Drain, rows, TypeOK
<1>6. flight = {} BY DEF Drain, Idle, FlightIsSound
<1>7. CASE Schedule(FALSE, TRUE) /\ UNCHANGED <<running, flight, history>>
    <2>1. timer' \in BOOLEAN BY <1>7 DEF Schedule
    <2> QED BY <1>2, <1>4, <1>5, <1>7, <2>1, QueueChangeIInv DEF history
<1>8. CASE /\ ~Skipped(item)
           /\ flight' = flight \cup
                {[mint |-> item.mint, audit |-> item.audit, read |-> row[item.mint]]}
           /\ running' = TRUE
           /\ timer' = FALSE
           /\ IF item.audit
              THEN /\ audits' = [audits EXCEPT ![item.mint][revision] = @ + 1]
                   /\ UNCHANGED asked
              ELSE /\ asked' = [asked EXCEPT ![item.mint] = @ + 1]
                   /\ UNCHANGED audits
    <2> DEFINE f == [mint |-> item.mint, audit |-> item.audit, read |-> row[item.mint]]
    <2>1. /\ flight' = {f} /\ f.mint = item.mint /\ f.audit = item.audit
          /\ f.read = row[f.mint]
        BY <1>6, <1>8
    <2>2. f \in [mint : Mints, audit : BOOLEAN, read : RowType] BY <1>3 DEF TypeOK
    <2>3. /\ f.audit => row[f.mint].disposed # revision
          /\ ~f.audit => row[f.mint].attempts < MaxAttempts
        BY <1>8, <2>1 DEF Skipped, Current, Ready
    <2>4. IF f.audit THEN audits' = [audits EXCEPT ![f.mint][revision] = @ + 1] /\ asked' = asked
          ELSE asked' = [asked EXCEPT ![f.mint] = @ + 1] /\ audits' = audits
        BY <1>8, <2>1
    <2>5. f.mint \in Persisted /\ f.mint \in Mints /\ (f.audit => Auditable(f.mint))
        BY <1>3, <2>1
    <2>6. running' /\ timer' \in BOOLEAN BY <1>8
    <2> HIDE DEF f, item
    <2>7. Persisted' = Persisted BY <1>5 DEF Persisted
    <2>8. asked' \in [Mints -> Nat] /\ audits' \in [Mints -> [1..MaxRevision -> Nat]]
        <3>1. asked \in [Mints -> Nat] /\ audits \in [Mints -> [1..MaxRevision -> Nat]]
            BY DEF TypeOK
        <3>2. CASE f.audit
            <4> DEFINE a == [audits[f.mint] EXCEPT ![revision] = @ + 1]
            <4>1. audits[f.mint] \in [1..MaxRevision -> Nat] BY <2>5, <3>1
            <4>2. revision \in 1..MaxRevision BY DEF TypeOK
            <4>3. a \in [1..MaxRevision -> Nat] BY <4>1, <4>2, RiskAssumption, Counted
            <4>4. audits' = [audits EXCEPT ![f.mint] = a] BY <2>4, <3>2
            <4> HIDE DEF a
            <4> QED BY <2>4, <3>1, <3>2, <4>3, <4>4
        <3>3. CASE ~f.audit BY <2>4, <3>1, <3>3
        <3> QED BY <3>2, <3>3
    <2>9. f.audit => row[f.mint].disposed < revision
        <3>1. row[f.mint].disposed <= revision /\ row[f.mint].disposed \in Int
              /\ revision \in Int
            BY <2>5 DEF RowsAreSound, TypeOK, RowType
        <3> QED BY <2>3, <3>1
    <2>10. TypeOK' BY <1>2, <1>5, <2>1, <2>2, <2>6, <2>8 DEF TypeOK, Item
    <2>11. RowsAreSound' /\ CohortIsPersisted' BY <1>5, <2>7 DEF RowsAreSound, CohortIsPersisted
    <2>12. QueueIsSound' BY <1>4, <2>7, SameSample DEF QueueIsSound, Contents
    <2>13. FlightIsSound' BY <1>5, <2>1, <2>3, <2>5, <2>6, <2>7, <2>9, SameSample DEF FlightIsSound
    <2>14. AttemptsAccounted'
        <3> SUFFICES ASSUME NEW m \in Mints
                     PROVE  asked'[m] <= row[m].attempts + faults
                               + (IF f.mint = m /\ ~f.audit THEN 1 ELSE 0)
            BY <1>5, <2>1 DEF AttemptsAccounted
        <3>1. asked[m] <= row[m].attempts + faults
            BY <1>6 DEF AttemptsAccounted, TypeOK, RowType
        <3>2. asked'[m] = asked[m] + (IF f.mint = m /\ ~f.audit THEN 1 ELSE 0)
            <4>1. CASE f.audit BY <2>4, <4>1 DEF TypeOK
            <4>2. CASE ~f.audit BY <2>4, <4>2, Counted DEF TypeOK
            <4> QED BY <4>1, <4>2
        <3>3. asked[m] \in Int /\ row[m].attempts \in Int /\ faults \in Int BY DEF TypeOK, RowType
        <3> QED BY <3>1, <3>2, <3>3
    <2>15. AuditsAccounted'
        <3> SUFFICES ASSUME NEW m \in Mints, NEW r \in 1..MaxRevision
                     PROVE  /\ audits'[m][r] > 0 => Auditable(m) /\ r <= revision
                            /\ audits'[m][r] <= (IF row[m].disposed >= r THEN 1 ELSE 0) + faults
                                  + (IF r = revision /\ f.mint = m /\ f.audit THEN 1 ELSE 0)
            BY <1>5, <2>1, <2>7, SameSample DEF AuditsAccounted
        <3>1. /\ audits[m][r] > 0 => Auditable(m) /\ r <= revision
              /\ audits[m][r] <= (IF row[m].disposed >= r THEN 1 ELSE 0) + faults
            BY <1>6 DEF AuditsAccounted, TypeOK, RowType
        <3>2. audits'[m][r] = audits[m][r] + (IF r = revision /\ f.mint = m /\ f.audit THEN 1 ELSE 0)
            <4>0. audits \in [Mints -> [1..MaxRevision -> Nat]] BY DEF TypeOK
            <4>1. CASE f.audit
                <5> DEFINE a == [audits[f.mint] EXCEPT ![revision] = @ + 1]
                <5>1. a[r] = audits[f.mint][r] + (IF revision = r THEN 1 ELSE 0)
                    <6>1. audits[f.mint] \in [1..MaxRevision -> Nat] BY <2>5, <4>0
                    <6>2. revision \in 1..MaxRevision BY DEF TypeOK
                    <6> QED BY <6>1, <6>2, Counted, RiskAssumption
                <5>2. audits' = [audits EXCEPT ![f.mint] = a] BY <2>4, <4>1
                <5> HIDE DEF a
                <5>3. audits'[m] = IF f.mint = m THEN a ELSE audits[m] BY <4>0, <5>2
                <5>4. audits[m][r] \in Nat BY <4>0
                <5> QED BY <4>1, <5>1, <5>3, <5>4
            <4>2. CASE ~f.audit
                <5>1. audits[m][r] \in Nat BY <4>0
                <5> QED BY <2>4, <4>2, <5>1
            <4> QED BY <4>1, <4>2
        <3>3. audits[m][r] \in Int /\ row[m].disposed \in Int /\ faults \in Int /\ revision \in Int
            <4>1. audits[m][r] \in Int
                <5>1. audits[m] \in [1..MaxRevision -> Nat] BY DEF TypeOK
                <5> QED BY <5>1, RiskAssumption
            <4>2. row[m].disposed \in Int BY DEF TypeOK, RowType
            <4>3. faults \in Int /\ revision \in Int BY DEF TypeOK
            <4> QED BY <4>1, <4>2, <4>3
        <3>4. r <= revision \/ r # revision BY <3>3
        <3>5. f.mint = m /\ f.audit => Auditable(m) BY <2>5
        <3> QED BY <3>1, <3>2, <3>3, <3>5
    <2> QED BY <2>10, <2>11, <2>12, <2>13, <2>14, <2>15
<1> QED BY <1>7, <1>8 DEF Drain
\* A refresh that ends with its row written: the attempt is counted and the
\* parser met, which pays for the refresh that was in flight.
LEMMA WrittenIInv ==
    ASSUME IInv, NEW f \in flight, Finished(f),
           UNCHANGED <<up, revision, admitted, poll, asked, audits, faults>>,
           due' \in [Mints -> Int \cup {Never}],
           NEW new, row' = [row EXCEPT ![f.mint] = new],
           new.persisted = TRUE, new.attempts = Attempts(f), new.disposed = revision,
           new.succeeded \in BOOLEAN, new.evidence \in SUBSET Factors,
           new.evidence # {} => new.succeeded,
           new = [persisted |-> new.persisted, attempts |-> new.attempts,
                  succeeded |-> new.succeeded, evidence |-> new.evidence,
                  disposed |-> new.disposed]
    PROVE  IInv'
<1> USE DEF IInv
<1>1. /\ \A g \in flight : g = f
      /\ up /\ f.mint \in Persisted /\ f.mint \in Mints /\ f.audit \in BOOLEAN
      /\ f.read = row[f.mint]
      /\ IF f.audit THEN Auditable(f.mint) /\ row[f.mint].disposed < revision
         ELSE row[f.mint].attempts < MaxAttempts
    BY DEF FlightIsSound, TypeOK
<1>2. row[f.mint] \in RowType /\ revision \in 1..MaxRevision BY <1>1 DEF TypeOK
<1>3. /\ new.attempts = row[f.mint].attempts + (IF f.audit THEN 0 ELSE 1)
      /\ new.attempts \in 0..MaxAttempts /\ new.disposed \in 0..MaxRevision
    BY <1>1, <1>2, RiskAssumption DEF Attempts, RowType
<1>4. new \in RowType BY <1>3 DEF RowType
<1>5. /\ row' \in [Mints -> RowType] /\ row'[f.mint] = new
      /\ \A m \in Mints \ {f.mint} : row'[m] = row[m]
    BY <1>1, <1>4 DEF TypeOK
<1>6. Persisted' = Persisted BY <1>1, <1>5 DEF Persisted
<1>7. flight' = {} /\ running' = FALSE /\ queue' = queue /\ timer' \in BOOLEAN
    BY <1>1 DEF Finished, Schedule
<1>8. TypeOK' BY <1>5, <1>7 DEF TypeOK
<1>9. RowsAreSound'
    <2>1. new.disposed <= revision BY <1>2
    <2> QED BY <1>5, <2>1 DEF RowsAreSound
<1>10. CohortIsPersisted' BY <1>6 DEF CohortIsPersisted
<1>11. QueueIsSound' BY <1>6, <1>7, SameSample DEF QueueIsSound, Contents
<1>12. FlightIsSound' BY <1>7 DEF FlightIsSound
<1>13. AttemptsAccounted'
    <2> SUFFICES ASSUME NEW m \in Mints PROVE asked[m] <= row'[m].attempts + faults + 0
        BY <1>7 DEF AttemptsAccounted
    <2>1. asked[m] <= row[m].attempts + faults + (IF f.mint = m /\ ~f.audit THEN 1 ELSE 0)
        BY <1>1 DEF AttemptsAccounted
    <2>2. row'[m].attempts = row[m].attempts + (IF f.mint = m /\ ~f.audit THEN 1 ELSE 0)
        BY <1>1, <1>2, <1>3, <1>5 DEF TypeOK, RowType
    <2>3. asked[m] \in Int /\ row[m].attempts \in Int /\ faults \in Int BY DEF TypeOK, RowType
    <2> QED BY <2>1, <2>2, <2>3
<1>14. AuditsAccounted'
    <2> SUFFICES ASSUME NEW m \in Mints, NEW r \in 1..MaxRevision
                 PROVE  /\ audits[m][r] > 0 => Auditable(m) /\ r <= revision
                        /\ audits[m][r] <= (IF row'[m].disposed >= r THEN 1 ELSE 0) + faults + 0
        BY <1>6, <1>7, SameSample DEF AuditsAccounted
    <2>1. /\ audits[m][r] > 0 => Auditable(m) /\ r <= revision
          /\ audits[m][r] <= (IF row[m].disposed >= r THEN 1 ELSE 0) + faults
                + (IF r = revision /\ f.mint = m /\ f.audit THEN 1 ELSE 0)
        BY <1>1 DEF AuditsAccounted
    <2>2. audits[m][r] \in Nat
        <3>1. audits[m] \in [1..MaxRevision -> Nat] BY DEF TypeOK
        <3> QED BY <3>1, RiskAssumption
    <2>3. row[m].disposed \in Nat /\ faults \in Nat BY DEF TypeOK, RowType
    <2>4. CASE m = f.mint
        <3>1. row'[m].disposed = revision BY <1>5, <2>4
        <3>2. f.audit => row[m].disposed < revision BY <1>1, <2>4
        <3> QED BY <1>2, <2>1, <2>2, <2>3, <3>1, <3>2, RiskAssumption
    <2>5. CASE m # f.mint
        <3>1. row'[m] = row[m] BY <1>5, <2>5
        <3> QED BY <2>1, <2>3, <2>5, <3>1
    <2> QED BY <2>4, <2>5
<1> QED BY <1>8, <1>9, <1>10, <1>11, <1>12, <1>13, <1>14

LEMMA RescheduledType ==
    ASSUME TypeOK, NEW f, NEW again, NEW delay \in Int, Rescheduled(f, again, delay)
    PROVE  due' \in [Mints -> Int \cup {Never}]
BY DEF TypeOK, Rescheduled

LEMMA ObservedIInv == ASSUME IInv, NEW f \in flight, Observed(f) PROVE IInv'
<1> USE DEF IInv
<1>1. PICK found \in SUBSET Factors, stale \in BOOLEAN, fewer \in BOOLEAN :
        /\ row' = [row EXCEPT ![f.mint] =
                [persisted |-> TRUE, attempts |-> Attempts(f), succeeded |-> TRUE,
                 evidence |-> IF Retained(f.read.evidence, found, fewer) THEN f.read.evidence ELSE found,
                 disposed |-> revision]]
        /\ Rescheduled(f, stale \/ ~(Core \subseteq found), RetryDelay)
    BY DEF Observed
<1> DEFINE kept == IF Retained(f.read.evidence, found, fewer) THEN f.read.evidence ELSE found
           new == [persisted |-> TRUE, attempts |-> Attempts(f), succeeded |-> TRUE,
                   evidence |-> kept, disposed |-> revision]
<1>2. kept \in SUBSET Factors BY DEF TypeOK, RowType
<1> HIDE DEF kept
<1>3. /\ new.persisted = TRUE /\ new.attempts = Attempts(f) /\ new.disposed = revision
      /\ new.succeeded = TRUE /\ new.evidence = kept
    OBVIOUS
<1>4. new = [persisted |-> new.persisted, attempts |-> new.attempts, succeeded |-> new.succeeded,
             evidence |-> new.evidence, disposed |-> new.disposed]
    OBVIOUS
<1>5. row' = [row EXCEPT ![f.mint] = new] BY <1>1 DEF kept
<1>6. due' \in [Mints -> Int \cup {Never}] BY <1>1, RescheduledType, RiskAssumption
<1>7. Finished(f) /\ UNCHANGED <<up, revision, admitted, poll, asked, audits, faults>>
    BY DEF Observed, history
<1> HIDE DEF new
<1> QED BY <1>2, <1>3, <1>4, <1>5, <1>6, <1>7, WrittenIInv

LEMMA FailedIInv == ASSUME IInv, NEW f \in flight, Failed(f) PROVE IInv'
<1> USE DEF IInv
<1> DEFINE kept == IF f.read.succeeded THEN f.read.evidence ELSE {}
           new == [persisted |-> TRUE, attempts |-> Attempts(f), succeeded |-> f.read.succeeded,
                   evidence |-> kept, disposed |-> revision]
<1>1. f.read.succeeded \in BOOLEAN /\ kept \in SUBSET Factors /\ (kept # {} => f.read.succeeded)
    BY DEF TypeOK, RowType
<1>2. row' = [row EXCEPT ![f.mint] = new] BY DEF Failed
<1> HIDE DEF kept
<1>3. /\ new.persisted = TRUE /\ new.attempts = Attempts(f) /\ new.disposed = revision
      /\ new.succeeded = f.read.succeeded /\ new.evidence = kept
    OBVIOUS
<1>4. new = [persisted |-> new.persisted, attempts |-> new.attempts, succeeded |-> new.succeeded,
             evidence |-> new.evidence, disposed |-> new.disposed]
    OBVIOUS
<1>5. due' \in [Mints -> Int \cup {Never}]
    <2>1. PICK wait \in RetryAfters :
              Rescheduled(f, TRUE, IF wait > RetryDelay THEN wait ELSE RetryDelay)
        BY DEF Failed
    <2>2. (IF wait > RetryDelay THEN wait ELSE RetryDelay) \in Int BY RiskAssumption
    <2> QED BY <2>1, <2>2, RescheduledType
<1>6. Finished(f) /\ UNCHANGED <<up, revision, admitted, poll, asked, audits, faults>>
    BY DEF Failed, history
<1> HIDE DEF new
<1> QED BY <1>1, <1>2, <1>3, <1>4, <1>5, <1>6, WrittenIInv

\* A refresh whose outcome is lost, by a crash or a failed write, is paid for
\* by the fault.
LEMMA LostIInv ==
    ASSUME IInv, UNCHANGED <<row, due, revision, asked, audits>>,
           flight' = {}, faults' = faults + 1,
           up' \in BOOLEAN, timer' \in BOOLEAN, running' \in BOOLEAN, poll' \in 0..PollEvery,
           admitted' = IF up' THEN Persisted ELSE {},
           queue' \in Seq(Item), Contents(queue') \subseteq Contents(queue)
    PROVE  IInv'
<1> USE DEF IInv
<1>1. Persisted' = Persisted BY DEF Persisted
<1>2. TypeOK'
    <2>1. faults' \in Nat /\ admitted' \in SUBSET Mints BY PersistedFinite DEF TypeOK
    <2> QED BY <2>1 DEF TypeOK, Item
<1>3. RowsAreSound' BY DEF RowsAreSound
<1>4. CohortIsPersisted' BY <1>1 DEF CohortIsPersisted
<1>5. QueueIsSound' BY <1>1, SameSample DEF QueueIsSound, Contents
<1>6. FlightIsSound' BY DEF FlightIsSound
<1>7. AttemptsAccounted'
    <2> SUFFICES ASSUME NEW m \in Mints PROVE asked[m] <= row[m].attempts + (faults + 1)
        BY DEF AttemptsAccounted, TypeOK, RowType
    <2>1. asked[m] \in Int /\ row[m].attempts \in Int /\ faults \in Int BY DEF TypeOK, RowType
    <2> QED BY <2>1 DEF AttemptsAccounted
<1>8. AuditsAccounted'
    <2> SUFFICES ASSUME NEW m \in Mints, NEW r \in 1..MaxRevision
                 PROVE  /\ audits[m][r] > 0 => Auditable(m) /\ r <= revision
                        /\ audits[m][r] <= (IF row[m].disposed >= r THEN 1 ELSE 0) + (faults + 1) + 0
        BY <1>1, SameSample DEF AuditsAccounted
    <2>1. audits[m] \in [1..MaxRevision -> Nat] BY DEF TypeOK
    <2>2. audits[m][r] \in Int BY <2>1, RiskAssumption
    <2>3. row[m].disposed \in Int /\ faults \in Int BY DEF TypeOK, RowType
    <2>4. /\ audits[m][r] > 0 => Auditable(m) /\ r <= revision
          /\ \E x \in {0, 1} :
                audits[m][r] <= (IF row[m].disposed >= r THEN 1 ELSE 0) + faults + x
        BY DEF AuditsAccounted
    <2> QED BY <2>2, <2>3, <2>4
<1> QED BY <1>2, <1>3, <1>4, <1>5, <1>6, <1>7, <1>8
LEMMA UnwrittenIInv == ASSUME IInv, NEW f \in flight, Unwritten(f) PROVE IInv'
<1> USE DEF IInv, Unwritten
<1>1. flight' = {} BY DEF Finished, FlightIsSound
<1>2. /\ up' = up /\ running' \in BOOLEAN /\ timer' \in BOOLEAN /\ poll' \in 0..PollEvery
      /\ up' \in BOOLEAN
    BY DEF Finished, Schedule, TypeOK
<1>3. queue' \in Seq(Item) /\ Contents(queue') = Contents(queue) BY DEF Finished, TypeOK, Item
<1>4. admitted' = IF up' THEN Persisted ELSE {} BY <1>2 DEF CohortIsPersisted
<1>5. UNCHANGED <<row, due, revision, asked, audits>> BY DEF rows, history
<1> QED BY <1>1, <1>2, <1>3, <1>4, <1>5, LostIInv

LEMMA CrashIInv == ASSUME IInv, Crash PROVE IInv'
<1> USE DEF Crash
<1>1. queue' \in Seq(Item) /\ Contents(queue') \subseteq Contents(queue) BY DEF Contents
<1>2. poll' \in 0..PollEvery BY RiskAssumption
<1>3. UNCHANGED <<row, due, revision, asked, audits>> BY DEF rows, history
<1> QED BY <1>1, <1>2, <1>3, LostIInv

\* The audits a new process queues are those of a full cohort, whose sample no
\* later launch can move.
LEMMA RestartIInv == ASSUME IInv, Restart PROVE IInv'
<1> USE DEF IInv
<1>1. PICK a \in Ascending(AuditDue),
           s \in Listings({m \in Persisted : Ready(m)} \ AuditDue) :
               queue' = Take(AuditItems(a) \o Items(s), MaxQueue)
    BY DEF Restart
<1>2. UNCHANGED <<row, due, running, flight, asked, audits, faults>> /\ up' /\ ~up
    BY DEF Restart, rows, history
<1>3. flight = {} BY <1>2 DEF FlightIsSound
<1>4. AuditDue \subseteq Persisted /\ \A m \in AuditDue : Auditable(m)
    BY PersistedFinite, RiskAssumption DEF AuditDue, Auditable, CohortIsPersisted
<1>5. a \in Seq(Mints) /\ Contents(a) \subseteq AuditDue
    BY <1>4, PersistedFinite, ListingType DEF Ascending
<1>6. s \in Seq(Mints) /\ Contents(s) \subseteq Persisted
    <2> DEFINE S == {m \in Persisted : Ready(m)} \ AuditDue
    <2>1. S \in SUBSET Mints /\ S \subseteq Persisted BY PersistedFinite
    <2>2. s \in Listings(S) OBVIOUS
    <2> HIDE DEF S
    <2> QED BY <2>1, <2>2, ListingType
<1> DEFINE A == AuditItems(a)
           N == Items(s)
<1>7. A \in Seq(Item) /\ \A i \in Contents(A) : i.mint \in Contents(a) /\ i.audit
    BY <1>5, ItemsType
<1>8. N \in Seq(Item) /\ \A i \in Contents(N) : i.mint \in Contents(s) /\ ~i.audit
    BY <1>6, ItemsType
<1>9. queue' = Take(A \o N, MaxQueue) BY <1>1
<1> HIDE DEF A, N
<1>10. A \o N \in Seq(Item) /\ Contents(A \o N) \subseteq Contents(A) \cup Contents(N)
    BY <1>7, <1>8, ContentsOfConcat
<1>11. queue' \in Seq(Item) /\ Contents(queue') \subseteq Contents(A) \cup Contents(N)
    <2>1. MaxQueue \in Int BY RiskAssumption
    <2> QED BY <1>9, <1>10, <2>1, TakeProperties
<1>12. \A i \in Contents(queue') : i.mint \in Persisted /\ (i.audit => Auditable(i.mint))
    BY <1>4, <1>5, <1>6, <1>7, <1>8, <1>11
<1>13. Persisted' = Persisted BY <1>2 DEF Persisted
<1>14. /\ revision' \in 1..MaxRevision /\ revision <= revision'
       /\ admitted' = Persisted /\ timer' \in BOOLEAN /\ poll' \in 0..PollEvery
    BY RiskAssumption DEF Restart, Schedule, TypeOK
<1>15. TypeOK' BY <1>2, <1>11, <1>14, PersistedFinite DEF TypeOK, Item
<1>16. RowsAreSound'
    <2>1. \A m \in Mints : row[m].disposed \in Int BY DEF TypeOK, RowType
    <2>2. revision \in Int /\ revision' \in Int BY <1>14 DEF TypeOK
    <2> QED BY <1>2, <1>14, <2>1, <2>2 DEF RowsAreSound
<1>17. CohortIsPersisted' BY <1>2, <1>13, <1>14 DEF CohortIsPersisted
<1>18. QueueIsSound' BY <1>12, <1>13, SameSample DEF QueueIsSound, Contents
<1>19. FlightIsSound' BY <1>2, <1>3 DEF FlightIsSound
<1>20. AttemptsAccounted' BY <1>2 DEF AttemptsAccounted
<1>21. AuditsAccounted'
    <2> SUFFICES ASSUME NEW m \in Mints, NEW r \in 1..MaxRevision
                 PROVE  /\ audits[m][r] > 0 => Auditable(m) /\ r <= revision'
                        /\ audits[m][r] <= (IF row[m].disposed >= r THEN 1 ELSE 0) + faults + 0
        BY <1>2, <1>3, <1>13, SameSample DEF AuditsAccounted
    <2>1. /\ audits[m][r] > 0 => Auditable(m) /\ r <= revision
          /\ audits[m][r] <= (IF row[m].disposed >= r THEN 1 ELSE 0) + faults + 0
        BY <1>3 DEF AuditsAccounted
    <2>2. r \in Int /\ revision \in Int /\ revision' \in Int BY <1>14, RiskAssumption DEF TypeOK
    <2> QED BY <1>14, <2>1, <2>2
<1> QED BY <1>15, <1>16, <1>17, <1>18, <1>19, <1>20, <1>21

LEMMA UnchangedIInv == ASSUME IInv, UNCHANGED vars PROVE IInv'
<1> USE DEF IInv, vars
<1>1. queue' \in Seq(Item) /\ due' \in [Mints -> Int \cup {Never}] /\ timer' \in BOOLEAN
      /\ poll' \in 0..PollEvery
    BY DEF TypeOK, Item
<1>2. \A i \in Contents(queue') : i.mint \in Persisted /\ (i.audit => Auditable(i.mint))
    BY DEF QueueIsSound
<1> QED BY <1>1, <1>2, QueueChangeIInv

LEMMA StepIInv == ASSUME IInv, [Next]_vars PROVE IInv'
<1>1. ASSUME NEW m \in Mints, FeedEvent(m) PROVE IInv'
    BY <1>1, AdmitIInv, RepeatIInv DEF FeedEvent
<1>2. ASSUME NEW f \in flight, Answer(f) PROVE IInv'
    BY <1>2, ObservedIInv, FailedIInv, UnwrittenIInv DEF Answer
<1> QED BY <1>1, <1>2, PollIInv, DrainIInv, CrashIInv, RestartIInv, TickIInv, UnchangedIInv
    DEF Next

-----------------------------------------------------------------------------
\* The theorems.

\* Whatever order feed events, polls, refreshes, crashes, restarts, parser
\* upgrades and failed writes come in, the invariant holds.
THEOREM Invariance == Spec => []IInv
BY InitIInv, StepIInv, PTL DEF Spec

\* Rows, queue and worker keep their types; attempts stay within the limit.
THEOREM TypeCorrect == Spec => []TypeOK
<1>1. IInv => TypeOK BY DEF IInv
<1> QED BY <1>1, Invariance, PTL

\* The provider is asked MaxAttempts times per launch plus once per crash or
\* failed write, and a parser audits the same SampleSize launches once each:
\* #refreshToken's counters and #enqueueParserRevisionAudit.
THEOREM BoundedAttempts == Spec => []AttemptsAreBounded
<1>1. ASSUME IInv PROVE AttemptsAreBounded
    <2> USE <1>1 DEF IInv
    <2>1. ASSUME NEW m \in Mints PROVE asked[m] <= MaxAttempts + faults
        <3>1. /\ asked[m] \in Int /\ faults \in Int /\ MaxAttempts \in Int
              /\ row[m].attempts \in Int /\ row[m].attempts <= MaxAttempts
            BY RiskAssumption DEF TypeOK, RowType
        <3>2. CASE \E f \in flight : f.mint = m /\ ~f.audit
            <4>1. row[m].attempts < MaxAttempts BY <3>2 DEF FlightIsSound
            <4>2. asked[m] <= row[m].attempts + faults + 1 BY <3>2 DEF AttemptsAccounted
            <4> QED BY <3>1, <4>1, <4>2
        <3>3. CASE ~\E f \in flight : f.mint = m /\ ~f.audit
            <4>1. asked[m] <= row[m].attempts + faults + 0 BY <3>3 DEF AttemptsAccounted
            <4> QED BY <3>1, <4>1
        <3> QED BY <3>2, <3>3
    <2>2. Cardinality({m \in Mints : \E r \in 1..MaxRevision : audits[m][r] > 0}) <= SampleSize
        <3> DEFINE A == {m \in Mints : \E r \in 1..MaxRevision : audits[m][r] > 0}
                   T == {m \in Persisted : Cardinality({n \in Persisted : n < m}) < SampleSize}
        <3>1. A \subseteq T BY DEF AuditsAccounted, Auditable, Sampled, Rank
        <3>2. Persisted \in SUBSET Nat /\ IsFiniteSet(Persisted) /\ SampleSize \in Nat
            BY PersistedFinite, RiskAssumption
        <3>3. IsFiniteSet(T) /\ Cardinality(T) <= SampleSize BY <3>2, LowestAreFew
        <3> HIDE DEF A, T
        <3>4. /\ Cardinality(A) <= Cardinality(T) /\ Cardinality(A) \in Nat
              /\ Cardinality(T) \in Nat
            BY <3>1, <3>3, FS_Subset, FS_CardinalityType
        <3>5. Cardinality(A) <= SampleSize BY <3>2, <3>3, <3>4
        <3> QED BY <3>5 DEF A
    <2>3. ASSUME NEW m \in Mints, NEW r \in 1..MaxRevision PROVE audits[m][r] <= 1 + faults
        <3>1. audits[m] \in [1..MaxRevision -> Nat] BY DEF TypeOK
        <3>2. audits[m][r] \in Int /\ faults \in Int BY <3>1, RiskAssumption DEF TypeOK
        <3>3. r = revision /\ (\E f \in flight : f.mint = m /\ f.audit) => row[m].disposed < r
            BY DEF FlightIsSound
        <3>4. row[m].disposed \in Int /\ r \in Int BY RiskAssumption DEF TypeOK, RowType
        <3>5. \/ audits[m][r] <= 1 + faults + 0
              \/ audits[m][r] <= 0 + faults + 0
              \/ audits[m][r] <= 0 + faults + 1
            BY <3>3, <3>4 DEF AuditsAccounted
        <3> QED BY <3>2, <3>5
    <2> QED BY <2>1, <2>2, <2>3 DEF AttemptsAreBounded
<1> QED BY <1>1, Invariance, PTL

\* Evidence once found is kept: mergeObservation prefers the fuller of two
\* observations, and a failed attempt keeps what a success has written.
THEOREM KeptEvidence == Spec => EvidenceIsKept
<1>1. ASSUME IInv, [Next]_vars, NEW m \in Mints
      PROVE  row[m].evidence \subseteq row'[m].evidence
    <2> USE <1>1 DEF IInv
    <2> DEFINE Kept == row[m].evidence \subseteq row'[m].evidence
    <2>1. ASSUME UNCHANGED row PROVE Kept BY <2>1
    <2>2. ASSUME NEW n \in Mints, FeedEvent(n) PROVE Kept
        <3>1. CASE Repeat(n) BY <2>1, <3>1 DEF Repeat, rows
        <3>2. CASE \E age \in 0..AdmitBy : Admit(n, age)
            <4>1. row[n] = Absent /\ Absent.evidence = {}
                BY <3>2 DEF Admit, RowsAreSound, Absent
            <4>2. m # n => row'[m] = row[m] BY <3>2 DEF Admit, TypeOK
            <4> QED BY <4>1, <4>2
        <3> QED BY <2>2, <3>1, <3>2 DEF FeedEvent
    <2>3. ASSUME NEW f \in flight, Answer(f) PROVE Kept
        <3>1. f.mint \in Mints /\ f.read = row[f.mint] BY DEF FlightIsSound, TypeOK
        <3>2. ASSUME NEW new, row' = [row EXCEPT ![f.mint] = new],
                     row[f.mint].evidence \subseteq new.evidence
              PROVE  Kept
            BY <3>1, <3>2 DEF TypeOK
        <3>3. CASE Observed(f)
            <4>1. PICK found \in SUBSET Factors, fewer \in BOOLEAN :
                row' = [row EXCEPT ![f.mint] =
                    [persisted |-> TRUE, attempts |-> Attempts(f), succeeded |-> TRUE,
                     evidence |-> IF Retained(f.read.evidence, found, fewer)
                                  THEN f.read.evidence ELSE found,
                     disposed |-> revision]]
                BY <3>3 DEF Observed
            <4>2. f.read.evidence \subseteq (IF Retained(f.read.evidence, found, fewer)
                                             THEN f.read.evidence ELSE found)
                BY DEF Retained
            <4> QED BY <3>1, <3>2, <4>1, <4>2
        <3>4. CASE Failed(f)
            <4>1. f.read.evidence \subseteq (IF f.read.succeeded THEN f.read.evidence ELSE {})
                BY <3>1 DEF RowsAreSound
            <4> QED BY <3>1, <3>2, <3>4, <4>1 DEF Failed
        <3>5. CASE Unwritten(f) BY <2>1, <3>5 DEF Unwritten, rows
        <3> QED BY <2>3, <3>3, <3>4, <3>5 DEF Answer
    <2> QED BY <1>1, <2>1, <2>2, <2>3
        DEF Next, vars, Poll, Drain, Crash, Restart, Tick, rows
<1>2. IInv /\ [Next]_vars => [\A m \in Mints : row[m].evidence \subseteq row'[m].evidence]_vars
    BY <1>1
<1> QED BY <1>2, Invariance, PTL DEF EvidenceIsKept, Spec
=============================================================================
