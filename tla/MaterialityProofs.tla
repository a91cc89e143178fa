-------------------------- MODULE MaterialityProofs --------------------------
(***************************************************************************)
(* Safety of the material alerts for any launches, answers, frames, values *)
(* and thresholds of a share, with crashes and failed batches at any time. *)
(*                                                                         *)
(* A step changes the rows, and then evaluates them against the baseline,  *)
(* or fails to.  So each part of the invariant takes the rows and what is  *)
(* counted of them as parameters: Mid relates the new rows to the old      *)
(* baseline, between the two halves of a step.                             *)
(***************************************************************************)
EXTENDS Materiality, FiniteSetTheorems, WellFoundedInduction, TLAPS

-----------------------------------------------------------------------------
\* The inductive invariant.

\* Rows as they are stored; only an admitted launch has evidence.
RowsAreSound(r) ==
    /\ r \in [Mints -> Token \cup {Gone}]
    /\ \A m \in Mints : r[m] # Gone /\ ~r[m].tracked => r[m].evidence = None

BaselineType ==
    /\ keys \subseteq Mints \X Levels \X Times
    /\ share \in [Mints -> Levels \cup {None}]
    /\ \A m \in Mints : share[m] # None => \E k \in keys : k[1] = m /\ k[2] = share[m]
    /\ counts \in [Mints -> [Counted -> Nat \cup {None}]]
    /\ alerts \subseteq Mints \X (Levels \cup {None}) \X Levels \X Times
    /\ told \in [Mints -> [Counted -> Nat]]
    /\ seeded \in BOOLEAN

EvaluatedType ==
    /\ exempt \in [Counted -> SUBSET Mints] /\ crossed \in [Counted -> SUBSET Mints]
    /\ seen \in [Mints -> Levels \cup {None}]

HistoryType(la, od, ac, mo) ==
    /\ la \in [Mints -> Nat] /\ od \in [Mints -> BOOLEAN]
    /\ ac \in [Mints -> Nat] /\ mo \in [Mints -> Nat]

\* Before the seeding nothing is recorded and nothing is told.
NothingBefore ==
    ~seeded =>
        /\ keys = {} /\ alerts = {}
        /\ \A m \in Mints : share[m] = None /\ seen[m] = None
        /\ \A f \in Counted, m \in Mints : counts[m][f] = None /\ told[m][f] = 0 /\ m \notin crossed[f]

\* A recorded count that is over its threshold has been told, and so has one that an
\* evaluation has seen; but for those that the seeding found.
CountsAreTold ==
    \A f \in Counted, m \in Mints :
        m \in crossed[f] \/ (counts[m][f] # None /\ counts[m][f] >= Threshold[f])
            => told[m][f] > 0 \/ m \in exempt[f]

\* An alert of a migration has the time of one of its frames, or the time 0 of one that
\* the upgrade found; and a stored migration has been alerted, if not found so.
MigrationIsTold(r, mv, mo) ==
    /\ mv \subseteq Mints \X Nat
    /\ \A k \in mv : k[2] <= mo[k[1]] /\ (k[2] = 0 => k[1] \in inherited)
    /\ \A m \in Mints : r[m] # Gone /\ r[m].migrated # None =>
        /\ r[m].migrated <= mo[m] /\ (r[m].migrated = 0 => m \in inherited)
        /\ m \in inherited \/ \E k \in mv : k[1] = m

\* The launches of a creator only become more, and the second is told once.
LaunchesGrow(r) ==
    \A m \in Mints : counts[m].launches # None =>
        m \in Tracked(r) /\ r[m].creator # None /\ Launches(r, m) >= counts[m].launches
LaunchesAreTold ==
    \A m \in Mints :
        /\ told[m].launches <= 1
        /\ told[m].launches > 0 => counts[m].launches # None /\ counts[m].launches >= 2

\* Each alert of a reuse had an answer of its own, and one that is due has another.
ReuseIsAnswered(r, n) ==
    \A m \in Mints :
        /\ told[m].reuse <= n
        /\ seeded /\ m \in Crossing(r, "reuse") => told[m].reuse < n

\* Each alert of a share had an answer of its own, and one that is due has another.
AlertsOf(m) == {k \in alerts : k[1] = m}
ShareIsDue(r, m) == \E k \in ShareAlerts(r) \ alerts : k[1] = m
SharesAreAnswered(r, ac) ==
    \A m \in Mints :
        /\ IsFiniteSet(AlertsOf(m)) /\ Cardinality(AlertsOf(m)) <= ac[m]
        /\ seeded /\ ShareIsDue(r, m) => Cardinality(AlertsOf(m)) < ac[m]

\* Of a launch whose times never go back: its evidence has the latest time; an event or
\* an alert of that time is about the present value, which is then the recorded one; and
\* what is recorded is what an evaluation has last seen.
Present(r, m, level) == r[m].evidence # None /\ r[m].evidence.level = level /\ share[m] = level
DatesAreKept(r, la, od) ==
    \A m \in Mints : od[m] =>
        /\ m \in Observed(r) => r[m].evidence.at = la[m]
        /\ \A k \in keys : k[1] = m =>
            k[3] <= la[m] /\ (k[3] = la[m] => m \in Observed(r) /\ Present(r, m, k[2]))
        /\ \A k \in alerts : k[1] = m =>
            k[4] <= la[m] /\ (k[4] = la[m] => m \in Observed(r) /\ Present(r, m, k[3]))
        /\ seen[m] = share[m]

IInv ==
    /\ RowsAreSound(row) /\ BaselineType /\ EvaluatedType
    /\ HistoryType(latest, ordered, acquired, moved)
    /\ up \in BOOLEAN /\ (up => seeded)
    /\ NothingBefore /\ CountsAreTold
    /\ MigrationIsTold(row, moves, moved)
    /\ LaunchesGrow(row) /\ LaunchesAreTold
    /\ ReuseIsAnswered(row, Answers) /\ SharesAreAnswered(row, acquired)
    /\ DatesAreKept(row, latest, ordered)

\* The same of the rows of a step, the migration alerts its token write has left, and
\* the baseline before its evaluation.
Mid(before) ==
    /\ RowsAreSound(row') /\ BaselineType /\ EvaluatedType
    /\ HistoryType(latest', ordered', acquired', moved') /\ inherited' = inherited
    /\ NothingBefore /\ CountsAreTold
    /\ MigrationIsTold(row', before, moved')
    /\ LaunchesGrow(row') /\ LaunchesAreTold
    /\ ReuseIsAnswered(row', Answers') /\ SharesAreAnswered(row', acquired')
    /\ DatesAreKept(row', latest', ordered')

-----------------------------------------------------------------------------
\* Sums over the launches: Answers adds up what was acquired of each.

\* A set of numbers with zero and with each successor has them all: the least
\* that it lacked would have a predecessor in it.
LEMMA Successors ==
    ASSUME NEW S, 0 \in S, \A n \in S \cap Nat : n + 1 \in S
    PROVE  Nat \subseteq S
<1> SUFFICES ASSUME NEW x0 \in Nat, x0 \notin S PROVE FALSE OBVIOUS
<1> DEFINE T == {0..x : x \in Nat \ S}
<1>1. T \subseteq FiniteSubsetsOf(Nat) /\ T # {}
    <2>1. \A x \in Nat : 0..x \subseteq Nat /\ IsFiniteSet(0..x) BY FS_Interval
    <2> QED BY <2>1 DEF FiniteSubsetsOf
<1>2. PICK u \in T : \A v \in T : <<v, u>> \notin StrictSubsetOrdering(Nat)
    BY <1>1, FS_StrictSubsetOrderingWellFounded, WFMin, Zenon
<1>3. PICK x \in Nat \ S : u = 0..x OBVIOUS
<1>4. x - 1 \in Nat /\ x - 1 \notin S
    <2>1. x # 0 BY <1>3
    <2>2. x - 1 \in Nat /\ (x - 1) + 1 = x BY <1>3, <2>1
    <2> QED BY <1>3, <2>2
<1>5. 0..(x - 1) \in T BY <1>4
<1>6. 0..(x - 1) \subseteq 0..x /\ 0..(x - 1) # 0..x
    <2>1. x \in 0..x /\ x \notin 0..(x - 1) BY <1>3
    <2> QED BY <1>3, <2>1
<1>7. <<0..(x - 1), 0..x>> \in StrictSubsetOrdering(Nat)
    BY <1>3, <1>4, <1>6 DEF StrictSubsetOrdering
<1> QED BY <1>2, <1>3, <1>5, <1>7

Chosen(s) == CHOOSE x \in s : TRUE
Adds(g, f, D) == \A s \in D : g[s] = IF s = {} THEN 0 ELSE f[Chosen(s)] + g[s \ {Chosen(s)}]

\* A finite set is in P when each non-empty set is that is without one of its members.
LEMMA SubsetInduction ==
    ASSUME NEW S, IsFiniteSet(S), NEW P, {} \in P,
           \A s \in SUBSET S : s # {} /\ s \ {Chosen(s)} \in P => s \in P
    PROVE  SUBSET S \subseteq P
<1> SUFFICES ASSUME NEW s0 \in SUBSET S, s0 \notin P PROVE FALSE OBVIOUS
<1> DEFINE T == {s \in SUBSET S : s \notin P}
<1>1. T \subseteq FiniteSubsetsOf(S) /\ T # {} BY FS_Subset DEF FiniteSubsetsOf
<1>2. PICK u \in T : \A v \in T : <<v, u>> \notin StrictSubsetOrdering(S)
    <2> HIDE DEF T
    <2> QED BY <1>1, FS_StrictSubsetOrderingWellFounded, WFMin, Zenon
<1>3. u # {} /\ Chosen(u) \in u BY <1>2 DEF Chosen
<1>4. u \ {Chosen(u)} \in T BY <1>3
<1>5. <<u \ {Chosen(u)}, u>> \in StrictSubsetOrdering(S) BY <1>3, <1>4 DEF StrictSubsetOrdering
<1> QED BY <1>2, <1>4, <1>5

LEMMA AdditionExists ==
    ASSUME NEW S, IsFiniteSet(S), NEW f \in [S -> Nat]
    PROVE  \E g \in [SUBSET S -> Nat] : Adds(g, f, SUBSET S)
<1> DEFINE Small(n) == {s \in SUBSET S : Cardinality(s) <= n}
           N == {n \in Nat : \E g \in [Small(n) -> Nat] : Adds(g, f, Small(n))}
<1>1. \A s \in SUBSET S : Cardinality(s) \in Nat /\ IsFiniteSet(s) BY FS_Subset, FS_CardinalityType
<1>2. 0 \in N
    <2> DEFINE g == [s \in Small(0) |-> 0]
    <2>1. \A s \in Small(0) : s = {} BY <1>1, FS_EmptySet
    <2>2. Adds(g, f, Small(0)) BY <2>1 DEF Adds
    <2> QED BY <2>2
<1>3. ASSUME NEW n \in N \cap Nat PROVE n + 1 \in N
    <2>1. PICK h \in [Small(n) -> Nat] : Adds(h, f, Small(n)) BY <1>3
    <2> DEFINE g == [s \in Small(n + 1) |->
                        IF s \in Small(n) THEN h[s] ELSE f[Chosen(s)] + h[s \ {Chosen(s)}]]
    <2>2. ASSUME NEW s \in Small(n + 1), s # {}
          PROVE  Chosen(s) \in S /\ s \ {Chosen(s)} \in Small(n)
        <3>1. Chosen(s) \in s BY <2>2 DEF Chosen
        <3>2. Cardinality(s \ {Chosen(s)}) = Cardinality(s) - 1 BY <1>1, <3>1, FS_RemoveElement
        <3> QED BY <1>1, <3>1, <3>2
    <2>3. \A s \in Small(n + 1) : s \notin Small(n) => s # {} BY <1>1, FS_EmptySet
    <2>4. \A s \in Small(n) : s \in Small(n + 1) BY <1>1
    <2>5. g \in [Small(n + 1) -> Nat] BY <2>2, <2>3
    <2>6. \A s \in Small(n) : g[s] = h[s] BY <2>4
    <2>7. ASSUME NEW s \in Small(n + 1)
          PROVE  g[s] = IF s = {} THEN 0 ELSE f[Chosen(s)] + g[s \ {Chosen(s)}]
        <3>1. CASE s \in Small(n)
            <4>1. s # {} => s \ {Chosen(s)} \in Small(n) BY <2>2
            <4> HIDE DEF g, Small
            <4> QED BY <2>1, <2>6, <3>1, <4>1 DEF Adds
        <3>2. CASE s \notin Small(n)
            <4>1. g[s] = f[Chosen(s)] + h[s \ {Chosen(s)}] BY <3>2
            <4>2. s # {} /\ s \ {Chosen(s)} \in Small(n) BY <2>2, <2>3, <3>2
            <4> HIDE DEF g, Small
            <4> QED BY <2>6, <4>1, <4>2
        <3> QED BY <3>1, <3>2
    <2>8. Adds(g, f, Small(n + 1)) BY <2>7 DEF Adds
    <2>9. n + 1 \in Nat OBVIOUS
    <2> HIDE DEF g, Small
    <2> QED BY <2>5, <2>8, <2>9
<1>4. Cardinality(S) \in N BY <1>1, <1>2, <1>3, Successors
<1>5. Small(Cardinality(S)) = SUBSET S BY FS_Subset
<1> QED BY <1>4, <1>5

LEMMA AnswersAddUp ==
    ASSUME NEW f \in [Mints -> Nat], NEW g \in [SUBSET Mints -> Nat], Adds(g, f, SUBSET Mints)
    PROVE  FoldFunction(+, 0, f) = g[Mints]
<1> DEFINE Rec(h) == h = [s \in SUBSET Mints |->
                IF s = {} THEN 0 ELSE f[Chosen(s)] + h[s \ {Chosen(s)}]]
           c == CHOOSE h : Rec(h)
<1>1. Rec(g) BY DEF Adds
<1>2. Rec(c) BY <1>1
<1>3. FoldFunction(+, 0, f) = c[Mints]
    <2>1. DOMAIN f = Mints OBVIOUS
    <2> QED BY <2>1 DEF FoldFunction, FoldFunctionOnSet, MapThenFoldSet, Chosen
<1> HIDE DEF c
<1>4. \A s \in SUBSET Mints :
        c[s] = IF s = {} THEN 0 ELSE f[Chosen(s)] + c[s \ {Chosen(s)}]
    BY <1>2, Zenon
<1>5. Mints \in {s \in SUBSET Mints : c[s] = g[s]}
    <2> DEFINE P == {s \in SUBSET Mints : c[s] = g[s]}
    <2>1. {} \in P BY <1>4 DEF Adds
    <2>2. ASSUME NEW s \in SUBSET Mints, s # {}, s \ {Chosen(s)} \in P PROVE s \in P
        BY <1>4, <2>2 DEF Adds
    <2> HIDE DEF P
    <2>3. SUBSET Mints \subseteq P BY <2>1, <2>2, MaterialityAssumption, SubsetInduction
    <2> QED BY <2>3 DEF P
<1>6. c[Mints] = g[Mints] BY <1>5
<1> QED BY <1>3, <1>6

LEMMA AnswersSame == UNCHANGED acquired => Answers' = Answers
BY DEF Answers, FoldFunction, FoldFunctionOnSet, MapThenFoldSet

LEMMA AnswersType == acquired \in [Mints -> Nat] => Answers \in Nat
<1> SUFFICES ASSUME acquired \in [Mints -> Nat] PROVE Answers \in Nat OBVIOUS
<1>1. PICK g \in [SUBSET Mints -> Nat] : Adds(g, acquired, SUBSET Mints)
    BY MaterialityAssumption, AdditionExists
<1> QED BY <1>1, AnswersAddUp DEF Answers

\* One answer more of a launch is one more in all.
LEMMA AnswersGrow ==
    ASSUME acquired \in [Mints -> Nat], NEW m \in Mints,
           acquired' = [acquired EXCEPT ![m] = @ + 1]
    PROVE  Answers \in Nat /\ Answers' = Answers + 1
<1>1. acquired' \in [Mints -> Nat] OBVIOUS
<1>2. PICK g \in [SUBSET Mints -> Nat] : Adds(g, acquired, SUBSET Mints)
    BY MaterialityAssumption, AdditionExists
<1>3. PICK h \in [SUBSET Mints -> Nat] : Adds(h, acquired', SUBSET Mints)
    BY <1>1, MaterialityAssumption, AdditionExists
<1>4. Answers = g[Mints] BY <1>2, AnswersAddUp DEF Answers
<1>5. Answers' = h[Mints]
    BY <1>1, <1>3, AnswersAddUp DEF Answers, FoldFunction, FoldFunctionOnSet, MapThenFoldSet
<1> DEFINE P == {s \in SUBSET Mints : h[s] = IF m \in s THEN g[s] + 1 ELSE g[s]}
<1>6. {} \in P BY <1>2, <1>3 DEF Adds
<1>7. ASSUME NEW s \in SUBSET Mints, s # {}, s \ {Chosen(s)} \in P PROVE s \in P
    <2> DEFINE x == Chosen(s)
               t == s \ {x}
    <2>1. x \in s /\ x \in Mints BY <1>7 DEF Chosen
    <2>2. h[s] = acquired'[x] + h[t] /\ g[s] = acquired[x] + g[t]
        BY <1>2, <1>3, <1>7 DEF Adds
    <2>3. h[t] = IF m \in t THEN g[t] + 1 ELSE g[t] BY <1>7
    <2>4. acquired'[x] = IF x = m THEN acquired[x] + 1 ELSE acquired[x] BY <2>1
    <2>5. m \in t <=> m \in s /\ m # x OBVIOUS
    <2>6. acquired[x] \in Nat /\ g[t] \in Nat BY <2>1
    <2> HIDE DEF x, t
    <2>7. h[s] = IF m \in s THEN g[s] + 1 ELSE g[s]
        BY <2>1, <2>2, <2>3, <2>4, <2>5, <2>6
    <2> QED BY <2>7
<1>8. Mints \in P
    <2> HIDE DEF P
    <2> QED BY <1>6, <1>7, MaterialityAssumption, SubsetInduction
<1> QED BY <1>4, <1>5, <1>8
-----------------------------------------------------------------------------
\* Rows: what of them a new frame leaves as it is.

LEMMA Absent ==
    ASSUME NEW r, RowsAreSound(r), NEW m \in Mints
    PROVE  /\ r[m] # Gone => r[m] \in Token
           /\ m \in Tracked(r) => r[m] \in Token
           /\ m \in Observed(r) => m \in Tracked(r) /\ r[m] \in Token /\ r[m].evidence \in Document
           /\ m \in Observed(r) <=> r[m] # Gone /\ r[m].evidence # None
<1>1. r[m] \in Token \cup {Gone} BY DEF RowsAreSound
<1>2. r[m] # Gone => r[m] \in Token BY <1>1
<1>3. r[m] \in Token => r[m].tracked \in BOOLEAN /\ r[m].evidence \in Document \cup {None} BY DEF Token
<1>4. m \in Tracked(r) <=> r[m] # Gone /\ r[m].tracked BY DEF Tracked
<1>5. m \in Observed(r) <=> m \in Tracked(r) /\ r[m].evidence # None BY DEF Observed, Tracked
<1>6. r[m] # Gone /\ ~r[m].tracked => r[m].evidence = None BY DEF RowsAreSound
<1> QED BY <1>2, <1>3, <1>4, <1>5, <1>6

LEMMA CountedType == ASSUME NEW r, NEW m \in Mints, NEW f \in Counted PROVE Count(r, m, f) \in Nat \cup {None}
<1>1. /\ IsFiniteSet(Duplicates(r, m))
      /\ IsFiniteSet({n \in Tracked(r) : r[n].creator = r[m].creator})
    <2>1. /\ Duplicates(r, m) \in SUBSET Mints
          /\ {n \in Tracked(r) : r[n].creator = r[m].creator} \in SUBSET Mints
        BY DEF Duplicates, Observed, Tracked
    <2> QED BY <2>1, FS_Subset, MaterialityAssumption
<1>2. Reuse(r, m) \in Nat \cup {None} BY <1>1, FS_CardinalityType DEF Reuse
<1>3. Launches(r, m) \in Nat \cup {None} BY <1>1, FS_CardinalityType DEF Launches
<1> QED BY <1>2, <1>3 DEF Count, Counted

\* r2 holds the rows of r with the same evidence and creators, and perhaps others.
SameEvidence(r, r2) ==
    /\ Observed(r2) = Observed(r)
    /\ \A n \in Observed(r) : r2[n].evidence = r[n].evidence
SameCreators(r, r2) ==
    /\ Tracked(r) \subseteq Tracked(r2)
    /\ \A n \in Tracked(r) : r2[n].creator = r[n].creator

LEMMA SameReuse ==
    ASSUME NEW r, NEW r2, SameEvidence(r, r2), NEW m \in Mints
    PROVE  /\ Reuse(r2, m) = Reuse(r, m)
           /\ m \in Crossing(r2, "reuse") => m \in Crossing(r, "reuse")
<1>1. m \in Observed(r) => Duplicates(r2, m) = Duplicates(r, m)
    BY DEF SameEvidence, Duplicates, Observed
<1>2. Reuse(r2, m) = Reuse(r, m) BY <1>1 DEF Reuse, SameEvidence, Observed
<1>3. Reuse(r, m) # None => m \in Tracked(r) BY DEF Reuse, Observed
<1>4. Count(r2, m, "reuse") = Reuse(r2, m) /\ Count(r, m, "reuse") = Reuse(r, m) BY DEF Count
<1> QED BY <1>2, <1>3, <1>4 DEF Crossing, Reaches

LEMMA MoreLaunches ==
    ASSUME NEW r, NEW r2, SameCreators(r, r2), NEW m \in Tracked(r), r[m].creator # None
    PROVE  /\ Launches(r, m) \in Nat /\ Launches(r2, m) \in Nat
           /\ Launches(r2, m) >= Launches(r, m)
           /\ m \in Tracked(r2) /\ r2[m].creator # None
<1> DEFINE S == {n \in Tracked(r) : r[n].creator = r[m].creator}
           T == {n \in Tracked(r2) : r2[n].creator = r2[m].creator}
<1>1. m \in Tracked(r2) /\ r2[m].creator = r[m].creator BY DEF SameCreators
<1>2. S \subseteq T BY <1>1 DEF SameCreators
<1>3. T \in SUBSET Mints BY DEF Tracked
<1>4. IsFiniteSet(T) BY <1>3, FS_Subset, MaterialityAssumption
<1>5. /\ IsFiniteSet(S) /\ Cardinality(S) \in Nat /\ Cardinality(T) \in Nat
      /\ Cardinality(S) <= Cardinality(T)
    BY <1>2, <1>4, FS_Subset, FS_CardinalityType
<1>6. Launches(r, m) = Cardinality(S) BY DEF Launches
<1>7. Launches(r2, m) = Cardinality(T) BY <1>1 DEF Launches
<1> HIDE DEF S, T
<1> QED BY <1>1, <1>5, <1>6, <1>7

LEMMA SameShares ==
    ASSUME NEW r, NEW r2, SameEvidence(r, r2)
    PROVE  ShareAlerts(r2) = ShareAlerts(r)
BY DEF SameEvidence, ShareAlerts

-----------------------------------------------------------------------------
\* Initially.

LEMMA InitIInv == Init => IInv
<1> SUFFICES ASSUME Init PROVE IInv OBVIOUS
<1>1. RowsAreSound(row)
    <2>1. \A m \in Mints : row[m] # Gone => row[m].tracked BY DEF Init
    <2>2. ASSUME NEW t \in [creator : Creators, migrated : {None, 0}, tracked : {TRUE},
                            evidence : Document \cup {None}]
          PROVE  t \in Token
        <3>0. /\ t.creator \in Creators /\ t.migrated \in {None, 0}
              /\ t.tracked \in {TRUE} /\ t.evidence \in Document \cup {None}
            OBVIOUS
        <3>1. /\ t.creator \in Creators \cup {None} /\ t.migrated \in Nat \cup {None}
              /\ t.evidence \in Document \cup {None}
            BY <3>0
        <3>2. t.tracked \in BOOLEAN BY <3>0, Zenon
        <3>3. t = [creator |-> t.creator, migrated |-> t.migrated, tracked |-> t.tracked,
                   evidence |-> t.evidence]
            OBVIOUS
        <3> QED BY <3>1, <3>2, <3>3 DEF Token
    <2>3. row \in [Mints -> {Gone} \cup [creator : Creators, migrated : {None, 0},
                                          tracked : {TRUE}, evidence : Document \cup {None}]]
        BY DEF Init
    <2>4. row \in [Mints -> Token \cup {Gone}]
        <3>1. \A m \in Mints : row[m] \in Token \cup {Gone} BY <2>2, <2>3
        <3> QED BY <2>3, <3>1
    <2> QED BY <2>1, <2>4 DEF RowsAreSound
<1>3. BaselineType /\ EvaluatedType BY DEF Init, BaselineType, EvaluatedType
<1>4. HistoryType(latest, ordered, acquired, moved)
    <2>1. \A m \in Mints : m \in Observed(row) => row[m].evidence.at \in Nat
        BY <1>1, Absent, MaterialityAssumption DEF Document
    <2> QED BY <2>1 DEF Init, HistoryType
<1>5. up \in BOOLEAN /\ (up => seeded) BY DEF Init
<1>6. NothingBefore BY DEF Init, NothingBefore
<1>7. CountsAreTold BY DEF Init, CountsAreTold
<1>8. MigrationIsTold(row, moves, moved)
    <2> SUFFICES ASSUME NEW m \in Mints, row[m] # Gone, row[m].migrated # None
                 PROVE  row[m].migrated = 0 /\ m \in inherited /\ moved[m] = 0
        BY DEF Init, MigrationIsTold
    <2>1. row[m].tracked /\ row[m].migrated = 0 /\ moved[m] = 0 BY DEF Init
    <2> QED BY <2>1 DEF Init, Tracked
<1>9. LaunchesGrow(row) /\ LaunchesAreTold
    BY DEF Init, LaunchesGrow, LaunchesAreTold, Counted
<1>10. ReuseIsAnswered(row, Answers)
    BY <1>4, AnswersType DEF Init, ReuseIsAnswered, Counted, HistoryType
<1>11. SharesAreAnswered(row, acquired)
    <2>1. \A m : AlertsOf(m) = {} BY DEF Init, AlertsOf
    <2>2. ~seeded /\ \A m \in Mints : acquired[m] = 0 BY DEF Init
    <2>3. IsFiniteSet({}) /\ Cardinality({}) = 0 BY FS_EmptySet
    <2> QED BY <2>1, <2>2, <2>3 DEF SharesAreAnswered
<1>12. DatesAreKept(row, latest, ordered) BY DEF Init, DatesAreKept
<1> QED BY <1>1, <1>3, <1>4, <1>5, <1>6, <1>7, <1>8, <1>9, <1>10, <1>11, <1>12 DEF IInv
-----------------------------------------------------------------------------
\* The first half of a step.

\* A create or a migration frame.
LEMMA UpsertMid ==
    ASSUME IInv, NEW m \in Mints, NEW new \in Token, NEW before,
           row' = [row EXCEPT ![m] = new],
           row[m] = Gone => new.evidence = None,
           row[m] # Gone => new.evidence = row[m].evidence /\ new.creator = row[m].creator
                            /\ (row[m].tracked => new.tracked),
           before = IF Announces(m, new.migrated) THEN moves \cup {<<m, new.migrated>>} ELSE moves,
           \/ new.migrated = None /\ moved' = moved
           \/ new.migrated = moved[m] + 1 /\ moved' = [moved EXCEPT ![m] = @ + 1],
           UNCHANGED <<latest, ordered, acquired, inherited>>
    PROVE  Mid(before)
<1>1. /\ row'[m] = new /\ \A n \in Mints \ {m} : row'[n] = row[n]
      /\ new # Gone
    BY AbsenceAssumption DEF IInv, RowsAreSound
<1>2. RowsAreSound(row')
    <2>1. row[m] # Gone /\ ~new.tracked => row[m].evidence = None BY DEF IInv, RowsAreSound, Token
    <2> QED BY <1>1, <2>1 DEF IInv, RowsAreSound
<1>3. SameEvidence(row, row')
    <2>1. RowsAreSound(row) BY DEF IInv
    <2>2. ASSUME NEW n \in Mints
          PROVE  /\ n \in Observed(row') <=> n \in Observed(row)
                 /\ n \in Observed(row) => row'[n].evidence = row[n].evidence
        <3>1. n \in Observed(row) <=> row[n] # Gone /\ row[n].evidence # None BY <2>1, Absent
        <3>2. n \in Observed(row') <=> row'[n] # Gone /\ row'[n].evidence # None BY <1>2, Absent
        <3> QED BY <1>1, <3>1, <3>2
    <2> QED BY <2>2 DEF SameEvidence, Observed, Tracked
<1>4. SameCreators(row, row')
    BY <1>1 DEF SameCreators, Tracked
<1>5. HistoryType(latest, ordered, acquired, moved) /\ HistoryType(latest', ordered', acquired', moved')
    BY DEF IInv, HistoryType
<1>6. /\ moved[m] \in Nat /\ None \notin Nat
      /\ \A n \in Mints : moved[n] \in Nat /\ moved'[n] \in Nat /\ moved[n] <= moved'[n]
      /\ new.migrated # None => new.migrated = moved[m] + 1 /\ moved'[m] = moved[m] + 1
    BY <1>5, MaterialityAssumption DEF HistoryType
<1>7. MigrationIsTold(row, moves, moved) BY DEF IInv
<1>8. MigrationIsTold(row', before, moved')
    <2>1. before \subseteq Mints \X Nat /\ moves \subseteq before
        BY <1>6, <1>7 DEF MigrationIsTold, Announces
    <2>2. ASSUME NEW k \in before PROVE k[2] <= moved'[k[1]] /\ (k[2] = 0 => k[1] \in inherited)
        <3>1. CASE k \in moves
            <4>1. k[1] \in Mints /\ k[2] \in Nat BY <1>7, <3>1 DEF MigrationIsTold
            <4>2. k[2] <= moved[k[1]] /\ (k[2] = 0 => k[1] \in inherited) BY <1>7, <3>1 DEF MigrationIsTold
            <4>3. moved[k[1]] \in Nat /\ moved'[k[1]] \in Nat /\ moved[k[1]] <= moved'[k[1]] BY <1>6, <4>1
            <4> QED BY <4>1, <4>2, <4>3
        <3>2. CASE k \notin moves
            <4>1. new.migrated # None /\ k = <<m, new.migrated>> BY <3>2 DEF Announces
            <4>2. k[1] = m /\ k[2] = moved[m] + 1 /\ moved'[m] = moved[m] + 1 BY <1>6, <4>1
            <4> QED BY <1>6, <4>2
        <3> QED BY <3>1, <3>2
    <2>3. ASSUME NEW n \in Mints, row'[n] # Gone, row'[n].migrated # None
          PROVE  /\ row'[n].migrated <= moved'[n] /\ (row'[n].migrated = 0 => n \in inherited)
                 /\ n \in inherited \/ \E k \in before : k[1] = n
        <3>1. CASE n = m
            <4>1. row'[n].migrated = moved[m] + 1 /\ moved'[n] = moved[m] + 1 /\ new.migrated # None
                BY <1>1, <1>6, <2>3, <3>1
            <4>2. m \in inherited \/ \E k \in before : k[1] = m
                <5>1. CASE Announces(m, new.migrated)
                    <6>1. <<m, new.migrated>> \in before BY <5>1
                    <6> QED BY <6>1
                <5>2. CASE ~Announces(m, new.migrated)
                    <6>1. row[m] # Gone /\ row[m].migrated # None BY <4>1, <5>2 DEF Announces
                    <6> QED BY <1>7, <2>1, <6>1 DEF MigrationIsTold
                <5> QED BY <5>1, <5>2
            <4> QED BY <1>6, <3>1, <4>1, <4>2
        <3>2. CASE n # m
            <4>1. row'[n] = row[n] BY <1>1, <3>2
            <4>2. moved'[n] = moved[n] BY <1>5, <3>2 DEF HistoryType
            <4> QED BY <1>7, <2>1, <2>3, <4>1, <4>2 DEF MigrationIsTold
        <3> QED BY <3>1, <3>2
    <2> QED BY <2>1, <2>2, <2>3 DEF MigrationIsTold
<1>9. LaunchesGrow(row')
    <2> SUFFICES ASSUME NEW n \in Mints, counts[n].launches # None
                 PROVE  /\ n \in Tracked(row') /\ row'[n].creator # None
                        /\ Launches(row', n) >= counts[n].launches
        BY DEF LaunchesGrow
    <2>1. n \in Tracked(row) /\ row[n].creator # None /\ Launches(row, n) >= counts[n].launches
        BY DEF IInv, LaunchesGrow
    <2>2. counts[n].launches \in Nat BY DEF IInv, BaselineType, Counted
    <2>3. \A r2 : SameCreators(row, r2) =>
            /\ Launches(row, n) \in Nat /\ Launches(r2, n) \in Nat
            /\ Launches(r2, n) >= Launches(row, n)
            /\ n \in Tracked(r2) /\ r2[n].creator # None
        BY <2>1, MoreLaunches
    <2> DEFINE old == Launches(row, n)
               new2 == Launches(row', n)
               told2 == counts[n].launches
    <2>4. old \in Nat /\ new2 \in Nat /\ new2 >= old /\ n \in Tracked(row') /\ row'[n].creator # None
        BY <1>4, <2>3
    <2>5. old >= told2 /\ told2 \in Nat BY <2>1, <2>2
    <2> HIDE DEF old, new2, told2
    <2>6. new2 >= told2 BY <2>4, <2>5
    <2> QED BY <2>4, <2>6 DEF new2, told2
<1>10. ReuseIsAnswered(row', Answers')
    <2>1. Answers' = Answers BY AnswersSame
    <2> QED BY <1>3, <2>1, SameReuse DEF IInv, ReuseIsAnswered
<1>11. SharesAreAnswered(row', acquired')
    BY <1>3, SameShares DEF IInv, SharesAreAnswered, ShareIsDue
<1>12. DatesAreKept(row', latest', ordered')
    <2> SUFFICES ASSUME NEW n \in Mints, ordered'[n]
                 PROVE  /\ n \in Observed(row') => row'[n].evidence.at = latest'[n]
                        /\ \A k \in keys : k[1] = n =>
                            k[3] <= latest'[n]
                            /\ (k[3] = latest'[n] => n \in Observed(row') /\ Present(row', n, k[2]))
                        /\ \A k \in alerts : k[1] = n =>
                            k[4] <= latest'[n]
                            /\ (k[4] = latest'[n] => n \in Observed(row') /\ Present(row', n, k[3]))
                        /\ seen[n] = share[n]
        BY DEF DatesAreKept
    <2>1. \A level : n \in Observed(row) => (Present(row', n, level) <=> Present(row, n, level))
        BY <1>3 DEF SameEvidence, Present
    <2>2. /\ n \in Observed(row') <=> n \in Observed(row)
          /\ n \in Observed(row) => row'[n].evidence = row[n].evidence
        BY <1>3 DEF SameEvidence
    <2> QED BY <2>1, <2>2 DEF IInv, DatesAreKept
<1> QED BY <1>2, <1>5, <1>8, <1>9, <1>10, <1>11, <1>12 DEF IInv, Mid

\* Nothing is new.
LEMMA IdleMid ==
    ASSUME IInv, UNCHANGED <<row, latest, ordered, acquired, moved, inherited>>
    PROVE  Mid(moves)
<1>1. Answers' = Answers BY AnswersSame
<1> QED BY <1>1 DEF IInv, Mid
\* An event or an alert of a launch is about its evidence.
LEMMA ShareEventOf ==
    ASSUME NEW r, NEW n, NEW k
    PROVE  k \in ShareEvents(r) /\ k[1] = n <=>
                /\ n \in Observed(r) /\ r[n].evidence.level # share[n]
                /\ k = <<n, r[n].evidence.level, r[n].evidence.at>>
BY DEF ShareEvents

LEMMA ShareAlertOf ==
    ASSUME NEW r, NEW n, NEW k
    PROVE  k \in ShareAlerts(r) /\ k[1] = n <=>
                /\ n \in Observed(r) /\ Material(share[n], r[n].evidence.level)
                /\ k = <<n, share[n], r[n].evidence.level, r[n].evidence.at>>
BY DEF ShareAlerts

LEMMA ShareIsDueOf ==
    ASSUME NEW r, NEW n
    PROVE  ShareIsDue(r, n) <=>
                /\ n \in Observed(r) /\ Material(share[n], r[n].evidence.level)
                /\ <<n, share[n], r[n].evidence.level, r[n].evidence.at>> \notin alerts
<1>1. ShareIsDue(r, n) <=> \E k : k \in ShareAlerts(r) /\ k[1] = n /\ k \notin alerts
    BY DEF ShareIsDue
<1> QED BY <1>1, ShareAlertOf

\* An answer of the provider.
LEMMA AcquireMid ==
    ASSUME IInv, NEW m \in Tracked(row), NEW answer \in Document,
           acquired' = [acquired EXCEPT ![m] = @ + 1],
           row' = [row EXCEPT ![m].evidence = Kept(m, answer)],
           Dated(m, Kept(m, answer)), UNCHANGED <<moved, inherited>>
    PROVE  Mid(moves)
<1> DEFINE new == Kept(m, answer)
           old == row[m].evidence
<1>1. m \in Mints /\ row[m] # Gone /\ row[m].tracked BY DEF Tracked
<1>2. RowsAreSound(row) /\ row[m] \in Token BY <1>1, Absent DEF IInv
<1>3. new \in Document /\ new # None
    BY <1>2, AbsenceAssumption DEF Kept, Token
<1>4. /\ row'[m] = [row[m] EXCEPT !.evidence = new]
      /\ \A n \in Mints \ {m} : row'[n] = row[n]
    BY <1>1, <1>2 DEF RowsAreSound
<1>5. /\ row'[m] = [creator |-> row[m].creator, migrated |-> row[m].migrated,
                    tracked |-> row[m].tracked, evidence |-> new]
      /\ row'[m] \in Token
    <2> HIDE DEF new
    <2> QED BY <1>2, <1>3, <1>4 DEF Token
<1> HIDE DEF new
<1>6. RowsAreSound(row')
    <2>1. row' \in [Mints -> Token \cup {Gone}] BY <1>2, <1>4, <1>5 DEF RowsAreSound
    <2>2. row'[m].tracked BY <1>1, <1>5
    <2> QED BY <1>2, <1>4, <2>1, <2>2 DEF RowsAreSound
<1>7. row'[m] # Gone BY <1>5, AbsenceAssumption
<1>8. \A n \in Mints \ {m} : n \in Observed(row') <=> n \in Observed(row)
    BY <1>4 DEF Observed, Tracked
<1>9. m \in Observed(row') BY <1>1, <1>3, <1>5, <1>7 DEF Observed, Tracked
<1>10. HistoryType(latest', ordered', acquired', moved')
    <2>1. new.at \in Nat BY <1>3, MaterialityAssumption DEF Document
    <2>2. HistoryType(latest, ordered, acquired, moved) BY DEF IInv
    <2>3. acquired' \in [Mints -> Nat] /\ moved' \in [Mints -> Nat] BY <1>1, <2>2 DEF HistoryType
    <2>4. latest' \in [Mints -> Nat] BY <1>1, <2>1, <2>2 DEF HistoryType, Dated, new
    <2>5. ordered' \in [Mints -> BOOLEAN]
        <3>1. \E b \in BOOLEAN : ordered' = [ordered EXCEPT ![m] = b]
            BY DEF Dated
        <3> QED BY <2>2, <3>1 DEF HistoryType
    <2> QED BY <2>3, <2>4, <2>5 DEF HistoryType
<1>11. MigrationIsTold(row', moves, moved')
    <2>1. row'[m].migrated = row[m].migrated BY <1>5
    <2>2. MigrationIsTold(row, moves, moved') BY DEF IInv
    <2> QED BY <1>1, <1>4, <1>7, <2>1, <2>2 DEF MigrationIsTold
<1>12. LaunchesGrow(row')
    <2>1. SameCreators(row, row')
        <3>1. row'[m].creator = row[m].creator /\ row'[m].tracked BY <1>1, <1>5
        <3> QED BY <1>1, <1>4, <1>7, <3>1 DEF SameCreators, Tracked
    <2>2. LaunchesGrow(row) BY DEF IInv
    <2> SUFFICES ASSUME NEW n \in Mints, counts[n].launches # None
                 PROVE  /\ n \in Tracked(row') /\ row'[n].creator # None
                        /\ Launches(row', n) >= counts[n].launches
        BY DEF LaunchesGrow
    <2>3. n \in Tracked(row) /\ row[n].creator # None /\ Launches(row, n) >= counts[n].launches
        BY <2>2 DEF LaunchesGrow
    <2>4. counts[n].launches \in Nat BY DEF IInv, BaselineType, Counted
    <2>5. \A r2 : SameCreators(row, r2) =>
            /\ Launches(row, n) \in Nat /\ Launches(r2, n) \in Nat
            /\ Launches(r2, n) >= Launches(row, n)
            /\ n \in Tracked(r2) /\ r2[n].creator # None
        BY <2>3, MoreLaunches
    <2> DEFINE before == Launches(row, n)
               now == Launches(row', n)
               recorded == counts[n].launches
    <2>6. before \in Nat /\ now \in Nat /\ now >= before /\ n \in Tracked(row') /\ row'[n].creator # None
        BY <2>1, <2>5
    <2>7. before >= recorded /\ recorded \in Nat BY <2>3, <2>4
    <2> HIDE DEF before, now, recorded
    <2>8. now >= recorded BY <2>6, <2>7
    <2> QED BY <2>6, <2>8 DEF now, recorded
<1>13. ReuseIsAnswered(row', Answers')
    <2>1. Answers \in Nat /\ Answers' = Answers + 1 BY <1>1, AnswersGrow DEF IInv, HistoryType
    <2>2. \A n \in Mints : told[n].reuse <= Answers /\ told[n].reuse \in Nat
        BY DEF IInv, ReuseIsAnswered, BaselineType, Counted
    <2> QED BY <2>1, <2>2 DEF ReuseIsAnswered
<1>14. SharesAreAnswered(row', acquired')
    <2> SUFFICES ASSUME NEW n \in Mints
                 PROVE  /\ IsFiniteSet(AlertsOf(n)) /\ Cardinality(AlertsOf(n)) <= acquired'[n]
                        /\ seeded /\ ShareIsDue(row', n) => Cardinality(AlertsOf(n)) < acquired'[n]
        BY DEF SharesAreAnswered
    <2>1. /\ IsFiniteSet(AlertsOf(n)) /\ Cardinality(AlertsOf(n)) <= acquired[n]
          /\ seeded /\ ShareIsDue(row, n) => Cardinality(AlertsOf(n)) < acquired[n]
        BY DEF IInv, SharesAreAnswered
    <2>2. acquired[n] \in Nat BY DEF IInv, HistoryType
    <2>3. Cardinality(AlertsOf(n)) \in Nat BY <2>1, FS_CardinalityType
    <2>4. CASE n = m
        <3>1. acquired'[n] = acquired[n] + 1 BY <2>4 DEF IInv, HistoryType
        <3> QED BY <2>1, <2>2, <2>3, <3>1
    <2>5. CASE n # m
        <3>1. acquired'[n] = acquired[n] BY <2>5 DEF IInv, HistoryType
        <3>2. row'[n] = row[n] /\ (n \in Observed(row') <=> n \in Observed(row)) BY <1>4, <1>8, <2>5
        <3>3. \A r2 : r2[n] = row[n] /\ (n \in Observed(r2) <=> n \in Observed(row)) =>
                (ShareIsDue(r2, n) <=> ShareIsDue(row, n))
            BY ShareIsDueOf
        <3>4. ShareIsDue(row', n) <=> ShareIsDue(row, n) BY <3>2, <3>3
        <3> QED BY <2>1, <3>1, <3>4
    <2> QED BY <2>4, <2>5
<1>15. DatesAreKept(row', latest', ordered')
    <2> SUFFICES ASSUME NEW n \in Mints, ordered'[n]
                 PROVE  /\ n \in Observed(row') => row'[n].evidence.at = latest'[n]
                        /\ \A k \in keys : k[1] = n =>
                            k[3] <= latest'[n]
                            /\ (k[3] = latest'[n] => n \in Observed(row') /\ Present(row', n, k[2]))
                        /\ \A k \in alerts : k[1] = n =>
                            k[4] <= latest'[n]
                            /\ (k[4] = latest'[n] => n \in Observed(row') /\ Present(row', n, k[3]))
                        /\ seen[n] = share[n]
        BY DEF DatesAreKept
    <2>1. DatesAreKept(row, latest, ordered) /\ HistoryType(latest, ordered, acquired, moved)
        BY DEF IInv
    <2>2. CASE n # m
        <3>1. ordered'[n] = ordered[n] /\ latest'[n] = latest[n] BY <2>1, <2>2 DEF Dated, HistoryType
        <3>2. row'[n] = row[n] /\ (n \in Observed(row') <=> n \in Observed(row)) BY <1>4, <1>8, <2>2
        <3>3. \A level : Present(row', n, level) <=> Present(row, n, level) BY <3>2 DEF Present
        <3> QED BY <2>1, <3>1, <3>2, <3>3 DEF DatesAreKept
    <2>3. CASE n = m
        <3>1. /\ ordered[m] /\ new.at >= latest[m]
              /\ old # None /\ new.level # old.level => new.at > latest[m]
              /\ latest'[m] = IF new.at > latest[m] THEN new.at ELSE latest[m]
            BY <1>1, <2>1, <2>3 DEF Dated, HistoryType, new
        <3>2. new.at \in Nat /\ latest[m] \in Nat
            BY <1>1, <1>3, <2>1, MaterialityAssumption DEF Document, HistoryType
        <3>3. latest'[m] = new.at /\ latest[m] <= latest'[m] BY <3>1, <3>2
        <3>4. row'[m].evidence = new BY <1>5
        <3>5. ASSUME NEW level, m \in Observed(row), Present(row, m, level), latest'[m] = latest[m]
              PROVE  Present(row', m, level)
            <4>1. old # None /\ old.level = level /\ share[m] = level BY <3>5 DEF Present
            <4>2. new.level = level BY <3>1, <3>2, <3>3, <3>5, <4>1
            <4> QED BY <1>3, <3>4, <4>1, <4>2 DEF Present
        <3>6. ASSUME NEW k \in keys, k[1] = m
              PROVE  k[3] <= latest'[m]
                     /\ (k[3] = latest'[m] => m \in Observed(row') /\ Present(row', m, k[2]))
            <4>1. /\ k[3] <= latest[m]
                  /\ k[3] = latest[m] => m \in Observed(row) /\ Present(row, m, k[2])
                BY <1>1, <2>1, <3>1, <3>6 DEF DatesAreKept
            <4>2. k[3] \in Nat BY MaterialityAssumption DEF IInv, BaselineType
            <4>3. k[3] <= latest'[m] /\ (k[3] = latest'[m] => latest'[m] = latest[m] /\ k[3] = latest[m])
                BY <3>2, <3>3, <4>1, <4>2
            <4> QED BY <1>9, <3>5, <4>1, <4>3
        <3>7. ASSUME NEW k \in alerts, k[1] = m
              PROVE  k[4] <= latest'[m]
                     /\ (k[4] = latest'[m] => m \in Observed(row') /\ Present(row', m, k[3]))
            <4>1. /\ k[4] <= latest[m]
                  /\ k[4] = latest[m] => m \in Observed(row) /\ Present(row, m, k[3])
                BY <1>1, <2>1, <3>1, <3>7 DEF DatesAreKept
            <4>2. k[4] \in Nat BY MaterialityAssumption DEF IInv, BaselineType
            <4>3. k[4] <= latest'[m] /\ (k[4] = latest'[m] => latest'[m] = latest[m] /\ k[4] = latest[m])
                BY <3>2, <3>3, <4>1, <4>2
            <4> QED BY <1>9, <3>5, <4>1, <4>3
        <3>8. seen[m] = share[m] BY <1>1, <2>1, <3>1 DEF DatesAreKept
        <3> QED BY <2>3, <3>3, <3>4, <3>6, <3>7, <3>8
    <2> QED BY <2>2, <2>3
<1> QED BY <1>6, <1>10, <1>11, <1>12, <1>13, <1>14, <1>15 DEF IInv, Mid
LEMMA AnswersTypeNext == acquired' \in [Mints -> Nat] => Answers' \in Nat
<1> SUFFICES ASSUME acquired' \in [Mints -> Nat] PROVE Answers' \in Nat OBVIOUS
<1>1. PICK g \in [SUBSET Mints -> Nat] : Adds(g, acquired', SUBSET Mints)
    BY MaterialityAssumption, AdditionExists
<1>2. Answers' = g[Mints]
    BY <1>1, AnswersAddUp DEF Answers, FoldFunction, FoldFunctionOnSet, MapThenFoldSet
<1> QED BY <1>1, <1>2

-----------------------------------------------------------------------------
\* The second half of a step: the batch is committed.

\* What it does to the count f of launch n.
CountCommitted(r, n, f) ==
    /\ Count(r, n, f) \in Nat \cup {None}
    /\ counts[n][f] \in Nat \cup {None}
    /\ counts'[n][f] = IF n \in Tracked(r) /\ Count(r, n, f) # None
                       THEN Count(r, n, f) ELSE counts[n][f]
    /\ told[n][f] \in Nat
    /\ told'[n][f] = IF seeded /\ n \in Crossing(r, f) THEN told[n][f] + 1 ELSE told[n][f]
    /\ n \in Crossing(r, f) <=>
         /\ n \in Tracked(r) /\ Count(r, n, f) # None /\ Count(r, n, f) >= Threshold[f]
         /\ counts[n][f] = None \/ counts[n][f] < Threshold[f]
    /\ n \in Over(r, f) <=>
         n \in Tracked(r) /\ Count(r, n, f) # None /\ Count(r, n, f) >= Threshold[f]
    /\ exempt'[f] = IF seeded THEN exempt[f] ELSE Over(r, f)
    /\ crossed'[f] = IF seeded THEN crossed[f] \cup Over(r, f) ELSE crossed[f]

LEMMA CommitCounts ==
    ASSUME NEW before, BaselineType, EvaluatedType,
           NEW r, Commit(r, before, SeedOnly), NEW n \in Mints, NEW f \in Counted
    PROVE  CountCommitted(r, n, f)
<1>1. Count(r, n, f) \in Nat \cup {None} /\ counts[n][f] \in Nat \cup {None}
    BY CountedType DEF BaselineType
<1>2. counts'[n][f] = IF n \in Tracked(r) /\ Count(r, n, f) # None
                      THEN Count(r, n, f) ELSE counts[n][f]
    BY DEF Commit
<1>3. told[n][f] \in Nat BY DEF BaselineType
<1>4. told'[n][f] = IF seeded /\ n \in Crossing(r, f) THEN told[n][f] + 1 ELSE told[n][f]
    BY DEF Commit, SeedOnly, BaselineType
<1>5. /\ n \in Crossing(r, f) <=> n \in Tracked(r) /\ Reaches(counts[n][f], Count(r, n, f), Threshold[f])
      /\ n \in Over(r, f) <=>
            n \in Tracked(r) /\ Count(r, n, f) # None /\ Count(r, n, f) >= Threshold[f]
    BY DEF Crossing, Over
<1>6. exempt'[f] = IF seeded THEN exempt[f] ELSE Over(r, f) BY DEF Commit, Remember
<1>7. crossed'[f] = IF seeded THEN crossed[f] \cup Over(r, f) ELSE crossed[f] BY DEF Commit, Remember
<1> QED BY <1>1, <1>2, <1>3, <1>4, <1>5, <1>6, <1>7 DEF Reaches, CountCommitted

\* What it does to the share of launch n.
ShareCommitted(r, n) ==
    /\ share'[n] = IF /\ n \in Observed(r) /\ r[n].evidence.level # share[n]
                      /\ <<n, r[n].evidence.level, r[n].evidence.at>> \notin keys
                   THEN r[n].evidence.level ELSE share[n]
    /\ \A k : k \in keys' /\ k[1] = n <=>
         \/ k \in keys /\ k[1] = n
         \/ /\ n \in Observed(r) /\ r[n].evidence.level # share[n]
            /\ k = <<n, r[n].evidence.level, r[n].evidence.at>>
    /\ \A k : k \in alerts' /\ k[1] = n <=>
         \/ k \in alerts /\ k[1] = n
         \/ /\ seeded /\ n \in Observed(r) /\ Material(share[n], r[n].evidence.level)
            /\ k = <<n, share[n], r[n].evidence.level, r[n].evidence.at>>
    /\ seen'[n] = IF n \in Observed(r) THEN r[n].evidence.level ELSE seen[n]

LEMMA CommitShare ==
    ASSUME NEW before, NEW r, RowsAreSound(r), Commit(r, before, SeedOnly), NEW n \in Mints
    PROVE  ShareCommitted(r, n)
<1>1. share'[n] = IF \E k \in NewEvents(r) : k[1] = n THEN r[n].evidence.level ELSE share[n]
    BY DEF Commit
<1>2. (\E k \in NewEvents(r) : k[1] = n) <=>
        /\ n \in Observed(r) /\ r[n].evidence.level # share[n]
        /\ <<n, r[n].evidence.level, r[n].evidence.at>> \notin keys
    BY ShareEventOf DEF NewEvents
<1>3. \A k : k \in keys' <=> k \in keys \/ k \in ShareEvents(r) BY DEF Commit, NewEvents
<1>4. \A k : k \in alerts' <=> k \in alerts \/ (seeded /\ k \in ShareAlerts(r))
    BY DEF Commit, SeedOnly
<1>5. seen'[n] = IF n \in Observed(r) THEN r[n].evidence.level ELSE seen[n]
    BY DEF Commit, Remember
<1> HIDE DEF Commit
<1>6. \A k : k \in keys' /\ k[1] = n <=>
        \/ k \in keys /\ k[1] = n
        \/ /\ n \in Observed(r) /\ r[n].evidence.level # share[n]
           /\ k = <<n, r[n].evidence.level, r[n].evidence.at>>
    BY <1>3, ShareEventOf
<1>7. \A k : k \in alerts' /\ k[1] = n <=>
        \/ k \in alerts /\ k[1] = n
        \/ /\ seeded /\ n \in Observed(r) /\ Material(share[n], r[n].evidence.level)
           /\ k = <<n, share[n], r[n].evidence.level, r[n].evidence.at>>
    BY <1>4, ShareAlertOf
<1> QED BY <1>1, <1>2, <1>5, <1>6, <1>7 DEF ShareCommitted
LEMMA CommitIInv ==
    ASSUME NEW before, Mid(before), NEW r, r = row', Commit(r, before, SeedOnly), up' \in BOOLEAN
    PROVE  IInv'
<1>1. /\ RowsAreSound(r) /\ BaselineType /\ EvaluatedType
      /\ HistoryType(latest', ordered', acquired', moved') /\ inherited' = inherited
      /\ NothingBefore /\ CountsAreTold
      /\ MigrationIsTold(r, before, moved')
      /\ LaunchesGrow(r) /\ LaunchesAreTold
      /\ ReuseIsAnswered(r, Answers') /\ SharesAreAnswered(r, acquired')
      /\ DatesAreKept(r, latest', ordered')
    BY DEF Mid
<1>2. seeded' = TRUE BY DEF Commit, SeedOnly, Mid, BaselineType
<1>3. \A n \in Mints, f \in Counted : CountCommitted(r, n, f)
    BY <1>1, CommitCounts
<1>4. \A n \in Mints : ShareCommitted(r, n) BY <1>1, CommitShare
<1>4a. \A n \in Mints : \A k :
         k \in keys' /\ k[1] = n =>
             \/ k \in keys /\ k[1] = n
             \/ n \in Observed(r) /\ k = <<n, r[n].evidence.level, r[n].evidence.at>>
    BY <1>4, Zenon DEF ShareCommitted
<1>4b. \A n \in Mints : \A k :
         k \in alerts' /\ k[1] = n <=>
             \/ k \in alerts /\ k[1] = n
             \/ /\ seeded /\ n \in Observed(r) /\ Material(share[n], r[n].evidence.level)
                /\ k = <<n, share[n], r[n].evidence.level, r[n].evidence.at>>
    BY <1>4, Zenon DEF ShareCommitted
<1>5. \A n \in Mints : n \in Observed(r) =>
        /\ r[n].evidence \in Document /\ r[n].evidence # None
        /\ r[n].evidence.level \in Levels /\ r[n].evidence.level \in Int
        /\ r[n].evidence.at \in Times
    BY <1>1, Absent, MaterialityAssumption, AbsenceAssumption DEF Document
<1>6. told' \in [Mints -> [Counted -> Nat]]
    <2>1. told' = [m \in Mints |-> [f \in Counted |-> told'[m][f]]] BY DEF Commit
    <2>2. ASSUME NEW n \in Mints, NEW f \in Counted PROVE told'[n][f] \in Nat
        <3>1. told[n][f] \in Nat BY <1>3 DEF CountCommitted
        <3>2. told'[n][f] = told[n][f] \/ told'[n][f] = told[n][f] + 1 BY <1>3 DEF CountCommitted
        <3> QED BY <3>1, <3>2
    <2> HIDE DEF Commit
    <2> QED BY <2>1, <2>2
<1>8. BaselineType'
    <2>1. \A k \in NewEvents(r) : k \in Mints \X Levels \X Times
        <3>1. \A n \in Observed(r) : n \in Mints BY DEF Observed, Tracked
        <3> QED BY <1>5, <3>1 DEF NewEvents, ShareEvents
    <2>2. \A k \in ShareAlerts(r) : k \in Mints \X (Levels \cup {None}) \X Levels \X Times
        <3>1. \A n \in Observed(r) : n \in Mints BY DEF Observed, Tracked
        <3>2. \A n \in Observed(r) : share[n] \in Levels \cup {None} BY <1>1, <3>1 DEF BaselineType
        <3> QED BY <1>5, <3>1, <3>2 DEF ShareAlerts
    <2>3. keys' \subseteq Mints \X Levels \X Times BY <1>1, <2>1 DEF BaselineType, Commit
    <2>4. alerts' \subseteq Mints \X (Levels \cup {None}) \X Levels \X Times
        BY <1>1, <2>2 DEF BaselineType, Commit
    <2>5. DOMAIN share' = Mints /\ share' = [m \in Mints |-> share'[m]] BY DEF Commit
    <2>6. \A n \in Mints : share'[n] \in Levels \cup {None} BY <1>1, <1>4, <1>5 DEF BaselineType, ShareCommitted
    <2>7. ASSUME NEW n \in Mints, share'[n] # None
          PROVE  \E k \in keys' : k[1] = n /\ k[2] = share'[n]
        <3>1. CASE share'[n] = share[n]
            <4>1. PICK k \in keys : k[1] = n /\ k[2] = share[n] BY <1>1, <2>7, <3>1 DEF BaselineType
            <4> QED BY <1>4, <3>1, <4>1 DEF ShareCommitted
        <3>2. CASE share'[n] # share[n]
            <4> DEFINE k == <<n, r[n].evidence.level, r[n].evidence.at>>
            <4>1. n \in Observed(r) /\ r[n].evidence.level # share[n] /\ share'[n] = r[n].evidence.level
                BY <1>4, <3>2 DEF ShareCommitted
            <4>2. k \in keys' BY <1>4, <4>1 DEF ShareCommitted
            <4> QED BY <4>1, <4>2
        <3> QED BY <3>1, <3>2
    <2>8. counts' \in [Mints -> [Counted -> Nat \cup {None}]]
        <3>1. counts' = [m \in Mints |-> [f \in Counted |-> counts'[m][f]]] BY DEF Commit
        <3>2. \A m \in Mints, f \in Counted : counts'[m][f] \in Nat \cup {None} BY <1>3 DEF CountCommitted
        <3> HIDE DEF Commit
        <3> QED BY <3>1, <3>2
    <2>9. share' \in [Mints -> Levels \cup {None}] BY <2>5, <2>6
    <2> QED BY <1>2, <1>6, <2>3, <2>4, <2>7, <2>8, <2>9 DEF BaselineType
<1>9. EvaluatedType'
    <2>1. \A f \in Counted : Over(r, f) \in SUBSET Mints BY DEF Over, Tracked
    <2>2. exempt' \in [Counted -> SUBSET Mints]
        BY <1>1, <2>1 DEF EvaluatedType, Commit, Remember
    <2>3. crossed' \in [Counted -> SUBSET Mints]
        BY <1>1, <2>1 DEF EvaluatedType, Commit, Remember
    <2>4. seen' = [m \in Mints |-> seen'[m]] BY DEF Commit, Remember
    <2>5. \A n \in Mints : seen'[n] \in Levels \cup {None} BY <1>1, <1>4, <1>5 DEF EvaluatedType, ShareCommitted
    <2>6. seen' \in [Mints -> Levels \cup {None}] BY <2>4, <2>5
    <2> QED BY <2>2, <2>3, <2>6 DEF EvaluatedType
<1>10. CountsAreTold'
    <2> SUFFICES ASSUME NEW n \in Mints, NEW f \in Counted,
                        n \in crossed'[f] \/ (counts'[n][f] # None /\ counts'[n][f] >= Threshold[f])
                 PROVE  told'[n][f] > 0 \/ n \in exempt'[f]
        BY DEF CountsAreTold
    <2>1. Threshold[f] \in Nat \ {0} BY DEF Counted, Threshold
    <2>2. CASE seeded
        <3>1. n \in crossed[f] \/ (counts[n][f] # None /\ counts[n][f] >= Threshold[f])
                => told[n][f] > 0 \/ n \in exempt[f]
            BY <1>1 DEF CountsAreTold
        <3>2. told'[n][f] >= told[n][f] /\ (n \in Crossing(r, f) => told'[n][f] > 0)
            BY <1>3, <2>2 DEF CountCommitted
        <3>3. n \in Over(r, f) /\ n \notin Crossing(r, f) =>
                counts[n][f] # None /\ counts[n][f] >= Threshold[f]
            <4>1. n \in Over(r, f) /\ n \notin Crossing(r, f) =>
                    counts[n][f] # None /\ ~(counts[n][f] < Threshold[f])
                BY <1>3 DEF CountCommitted
            <4>2. counts[n][f] \in Nat \cup {None} BY <1>3 DEF CountCommitted
            <4> QED BY <2>1, <4>1, <4>2
        <3>4. n \notin Over(r, f) =>
                n \in crossed[f] \/ (counts[n][f] # None /\ counts[n][f] >= Threshold[f])
            BY <1>3, <2>2 DEF CountCommitted
        <3>5. told[n][f] \in Nat /\ told'[n][f] \in Nat
            <4>1. told[n][f] \in Nat BY <1>3 DEF CountCommitted
            <4>2. told'[n][f] = told[n][f] \/ told'[n][f] = told[n][f] + 1 BY <1>3 DEF CountCommitted
            <4> QED BY <4>1, <4>2
        <3> QED BY <1>3, <2>2, <3>1, <3>2, <3>3, <3>4, <3>5 DEF CountCommitted
    <2>3. CASE ~seeded
        <3>1. counts[n][f] = None /\ n \notin crossed[f] BY <1>1, <2>3 DEF NothingBefore
        <3> QED BY <1>3, <2>3, <3>1 DEF CountCommitted
    <2> QED BY <1>1, <2>2, <2>3 DEF BaselineType
<1>11. MigrationIsTold(row, moves, moved)'
    <2>1. moves' = before \/ moves' = before \cup MigrationAlerts(r) BY DEF Commit
    <2>2. ASSUME NEW k \in MigrationAlerts(r)
          PROVE  /\ k[1] \in Mints /\ k[2] \in Nat /\ k = <<k[1], k[2]>>
                 /\ k[2] <= moved'[k[1]] /\ (k[2] = 0 => k[1] \in inherited)
        <3>1. PICK n \in Tracked(r) : r[n].migrated # None /\ k = <<n, r[n].migrated>>
            BY DEF MigrationAlerts
        <3>2. n \in Mints /\ r[n] # Gone /\ r[n] \in Token BY <1>1, <3>1, Absent DEF Tracked
        <3>3. r[n].migrated \in Nat BY <3>1, <3>2 DEF Token
        <3> QED BY <1>1, <3>1, <3>2, <3>3 DEF MigrationIsTold
    <2>3. moves' \subseteq Mints \X Nat BY <1>1, <2>1, <2>2 DEF MigrationIsTold
    <2>4. \A k \in moves' : k[2] <= moved'[k[1]] /\ (k[2] = 0 => k[1] \in inherited)
        BY <1>1, <2>1, <2>2 DEF MigrationIsTold
    <2>5. before \subseteq moves' BY <2>1
    <2> QED BY <1>1, <2>3, <2>4, <2>5 DEF MigrationIsTold
<1>12. LaunchesGrow(row)'
    <2> SUFFICES ASSUME NEW n \in Mints, counts'[n].launches # None
                 PROVE  /\ n \in Tracked(r) /\ r[n].creator # None
                        /\ Launches(r, n) >= counts'[n].launches
        BY DEF LaunchesGrow
    <2>1. counts[n].launches # None => n \in Tracked(r) /\ r[n].creator # None
        BY <1>1 DEF LaunchesGrow
    <2>2. /\ Launches(r, n) \in Nat \cup {None}
          /\ counts'[n].launches = IF n \in Tracked(r) /\ Launches(r, n) # None
                                   THEN Launches(r, n) ELSE counts[n].launches
        <3>1. Count(r, n, "launches") = Launches(r, n) /\ "launches" \in Counted BY DEF Count, Counted
        <3> QED BY <1>3, <3>1 DEF CountCommitted
    <2>3. Launches(r, n) # None <=> r[n].creator # None
        <3>1. {m \in Tracked(r) : r[m].creator = r[n].creator} \in SUBSET Mints BY DEF Tracked
        <3>2. Cardinality({m \in Tracked(r) : r[m].creator = r[n].creator}) \in Nat
            BY <3>1, FS_Subset, FS_CardinalityType, MaterialityAssumption
        <3> QED BY <3>2, MaterialityAssumption DEF Launches
    <2>4. n \in Tracked(r) /\ Launches(r, n) # None BY <2>1, <2>2, <2>3
    <2> QED BY <2>2, <2>3, <2>4
<1>13. LaunchesAreTold'
    <2> SUFFICES ASSUME NEW n \in Mints
                 PROVE  /\ told'[n].launches <= 1
                        /\ told'[n].launches > 0 =>
                             counts'[n].launches # None /\ counts'[n].launches >= 2
        BY DEF LaunchesAreTold
    <2> DEFINE c == Count(r, n, "launches")
               old == counts[n].launches
               tl == told[n].launches
    <2>1. /\ c \in Nat \cup {None} /\ old \in Nat \cup {None} /\ tl \in Nat
          /\ counts'[n].launches = IF n \in Tracked(r) /\ c # None THEN c ELSE old
          /\ told'[n].launches = IF seeded /\ n \in Crossing(r, "launches") THEN tl + 1 ELSE tl
          /\ n \in Crossing(r, "launches") <=>
                n \in Tracked(r) /\ c # None /\ c >= 2 /\ (old = None \/ old < 2)
        BY <1>3 DEF Counted, Threshold, CountCommitted
    <2>2. tl <= 1 /\ (tl > 0 => old # None /\ old >= 2) BY <1>1 DEF LaunchesAreTold
    <2>3. old # None => c # None /\ c >= old
        <3>1. old # None => r[n].creator # None /\ Launches(r, n) >= old BY <1>1 DEF LaunchesGrow
        <3>2. c = Launches(r, n) BY DEF Count
        <3>3. {m \in Tracked(r) : r[m].creator = r[n].creator} \in SUBSET Mints BY DEF Tracked
        <3>4. Cardinality({m \in Tracked(r) : r[m].creator = r[n].creator}) \in Nat
            BY <3>3, FS_Subset, FS_CardinalityType, MaterialityAssumption
        <3>5. r[n].creator # None => Launches(r, n) \in Nat BY <3>4 DEF Launches
        <3> HIDE DEF c, old
        <3> QED BY <3>1, <3>2, <3>5, MaterialityAssumption
    <2>4. None \notin Int BY MaterialityAssumption
    <2> HIDE DEF c, old, tl
    <2>5. told'[n].launches > 0 => counts'[n].launches # None /\ counts'[n].launches >= 2
        BY <2>1, <2>2, <2>3, <2>4
    <2>6. told'[n].launches <= 1 BY <2>1, <2>2, <2>3, <2>4
    <2> QED BY <2>5, <2>6
<1>14. ReuseIsAnswered(row, Answers)'
    <2> SUFFICES ASSUME NEW n \in Mints
                 PROVE  /\ told'[n].reuse <= Answers'
                        /\ n \notin Crossing(row, "reuse")'
        BY DEF ReuseIsAnswered
    <2>1. Answers' \in Nat BY <1>1, AnswersTypeNext DEF HistoryType
    <2> DEFINE c == Count(r, n, "reuse")
               old == counts[n].reuse
               tl == told[n].reuse
    <2>2. /\ c \in Nat \cup {None} /\ old \in Nat \cup {None} /\ tl \in Nat
          /\ counts'[n].reuse = IF n \in Tracked(r) /\ c # None THEN c ELSE old
          /\ told'[n].reuse = IF seeded /\ n \in Crossing(r, "reuse") THEN tl + 1 ELSE tl
        BY <1>3 DEF Counted, Threshold, CountCommitted
    <2>3. tl <= Answers' /\ (seeded /\ n \in Crossing(r, "reuse") => tl < Answers')
        BY <1>1 DEF ReuseIsAnswered
    <2>4. n \in Crossing(row, "reuse")' <=>
            n \in Tracked(r) /\ c # None /\ c >= 1 /\ (counts'[n].reuse = None \/ counts'[n].reuse < 1)
        BY DEF Crossing, Reaches, Threshold
    <2> HIDE DEF c, old, tl
    <2>5. told'[n].reuse <= Answers' BY <2>1, <2>2, <2>3
    <2>6. n \notin Crossing(row, "reuse")' BY <2>2, <2>4
    <2> QED BY <2>5, <2>6
<1>15. SharesAreAnswered(row, acquired)'
    <2> SUFFICES ASSUME NEW n \in Mints
                 PROVE  /\ IsFiniteSet(AlertsOf(n)') /\ Cardinality(AlertsOf(n)') <= acquired'[n]
                        /\ ~ShareIsDue(row, n)'
        BY DEF SharesAreAnswered
    <2> DEFINE level == r[n].evidence.level
               a == <<n, share[n], level, r[n].evidence.at>>
               due == n \in Observed(r) /\ Material(share[n], level)
    <2>1. /\ IsFiniteSet(AlertsOf(n)) /\ Cardinality(AlertsOf(n)) <= acquired'[n]
          /\ seeded /\ ShareIsDue(r, n) => Cardinality(AlertsOf(n)) < acquired'[n]
        BY <1>1 DEF SharesAreAnswered
    <2>2. ShareIsDue(r, n) <=> due /\ a \notin alerts BY ShareIsDueOf
    <2>3. acquired'[n] \in Nat /\ Cardinality(AlertsOf(n)) \in Nat
        BY <1>1, <2>1, FS_CardinalityType DEF HistoryType
    <2>4. \A k : k \in AlertsOf(n)' <=> k \in AlertsOf(n) \/ (seeded /\ due /\ k = a)
        <3>1. \A k : k \in AlertsOf(n)' <=> k \in alerts' /\ k[1] = n BY DEF AlertsOf
        <3>2. \A k : k \in AlertsOf(n) <=> k \in alerts /\ k[1] = n BY DEF AlertsOf
        <3>3. \A k : k \in alerts' /\ k[1] = n <=>
                (k \in alerts /\ k[1] = n) \/ (seeded /\ due /\ k = a)
            BY <1>4b
        <3> HIDE DEF a, due
        <3> QED BY <3>1, <3>2, <3>3
    <2>5. IsFiniteSet(AlertsOf(n)') /\ Cardinality(AlertsOf(n)') <= acquired'[n]
        <3>1. a \in alerts <=> a \in AlertsOf(n) BY DEF AlertsOf
        <3> HIDE DEF a, due
        <3>2. CASE seeded /\ due /\ a \notin alerts
            <4>1. AlertsOf(n)' = AlertsOf(n) \cup {a} BY <2>4, <3>2
            <4>2. /\ IsFiniteSet(AlertsOf(n) \cup {a})
                  /\ Cardinality(AlertsOf(n) \cup {a}) = Cardinality(AlertsOf(n)) + 1
                BY <2>1, <3>1, <3>2, FS_AddElement
            <4>3. Cardinality(AlertsOf(n)) < acquired'[n] BY <2>1, <2>2, <3>2
            <4> QED BY <2>3, <4>1, <4>2, <4>3
        <3>3. CASE ~(seeded /\ due /\ a \notin alerts)
            <4>1. AlertsOf(n)' = AlertsOf(n) BY <2>4, <3>1, <3>3
            <4> QED BY <2>1, <4>1
        <3> QED BY <3>2, <3>3
    <2>6. ASSUME ShareIsDue(row, n)' PROVE FALSE
        <3>1. PICK k \in ShareAlerts(row)' : k \notin alerts' /\ k[1] = n BY <2>6 DEF ShareIsDue
        <3>2. n \in Observed(r) /\ Material(share'[n], level) /\ k = <<n, share'[n], level, r[n].evidence.at>>
            BY <3>1 DEF ShareAlerts
        <3>3. level \in Int /\ level # None BY <1>5, <3>2, MaterialityAssumption
        <3>4. share'[n] # level
            <4>1. ~Material(level, level)
                BY <3>3, MaterialityAssumption DEF Material, Reaches, Moves
            <4> QED BY <3>2, <4>1
        <3>5. share'[n] = share[n] /\ (share[n] # level => <<n, level, r[n].evidence.at>> \in keys)
            BY <1>4, <3>2, <3>4 DEF ShareCommitted
        <3>6. seeded BY <1>1, <3>4, <3>5 DEF NothingBefore, BaselineType
        <3>7. k = a /\ due BY <3>2, <3>5
        <3>8. k \in alerts' BY <1>4, <3>6, <3>7 DEF ShareCommitted
        <3> QED BY <3>1, <3>8
    <2> QED BY <2>5, <2>6
<1>16. DatesAreKept(row, latest, ordered)'
    <2> SUFFICES ASSUME NEW n \in Mints, ordered'[n]
                 PROVE  /\ n \in Observed(r) => r[n].evidence.at = latest'[n]
                        /\ \A k \in keys' : k[1] = n =>
                            k[3] <= latest'[n]
                            /\ (k[3] = latest'[n] => n \in Observed(r) /\ Present(row, n, k[2])')
                        /\ \A k \in alerts' : k[1] = n =>
                            k[4] <= latest'[n]
                            /\ (k[4] = latest'[n] => n \in Observed(r) /\ Present(row, n, k[3])')
                        /\ seen'[n] = share'[n]
        BY DEF DatesAreKept
    <2> DEFINE la == latest'[n]
               level == r[n].evidence.level
    <2>1. n \in Observed(r) => r[n].evidence.at = la BY <1>1 DEF DatesAreKept
    <2>2. \A k \in keys : k[1] = n =>
            k[3] <= la /\ (k[3] = la => n \in Observed(r) /\ level = k[2] /\ share[n] = k[2])
        BY <1>1 DEF DatesAreKept, Present
    <2>3. \A k \in alerts : k[1] = n =>
            k[4] <= la /\ (k[4] = la => n \in Observed(r) /\ level = k[3] /\ share[n] = k[3])
        BY <1>1 DEF DatesAreKept, Present
    <2>4. seen[n] = share[n] BY <1>1 DEF DatesAreKept
    <2>5. la \in Nat BY <1>1 DEF HistoryType
    <2>6. n \in Observed(r) => share'[n] = level
        <3> DEFINE k == <<n, level, r[n].evidence.at>>
        <3>1. share'[n] = IF n \in Observed(r) /\ level # share[n] /\ k \notin keys
                          THEN level ELSE share[n]
            BY <1>4 DEF ShareCommitted
        <3>2. k[1] = n /\ k[2] = level /\ k[3] = r[n].evidence.at OBVIOUS
        <3>3. n \in Observed(r) /\ k \in keys => share[n] = level
            <4> HIDE DEF k, level, la
            <4> QED BY <2>1, <2>2, <3>2
        <3> HIDE DEF k, level
        <3> QED BY <3>1, <3>3
    <2>7. n \notin Observed(r) => share'[n] = share[n] BY <1>4 DEF ShareCommitted
    <2>8. \A v : n \in Observed(r) /\ level = v => Present(row, n, v)'
        BY <1>5, <2>6 DEF Present
    <2>9. ASSUME NEW k \in keys', k[1] = n
          PROVE  k[3] <= la /\ (k[3] = la => n \in Observed(r) /\ level = k[2])
        <3>1. k \in keys \/ (n \in Observed(r) /\ k = <<n, level, r[n].evidence.at>>)
            BY <1>4a, <2>9
        <3>2. CASE k \in keys
            <4> HIDE DEF la, level
            <4> QED BY <2>2, <2>9, <3>2
        <3>3. CASE n \in Observed(r) /\ k = <<n, level, r[n].evidence.at>>
            <4>1. k[3] = r[n].evidence.at /\ k[2] = level BY <3>3
            <4> HIDE DEF la, level
            <4> QED BY <2>1, <2>5, <3>3, <4>1
        <3> QED BY <3>1, <3>2, <3>3
    <2>10. ASSUME NEW k \in alerts', k[1] = n
          PROVE  k[4] <= la /\ (k[4] = la => n \in Observed(r) /\ level = k[3])
        <3>1. k \in alerts \/ (n \in Observed(r) /\ k = <<n, share[n], level, r[n].evidence.at>>)
            BY <1>4b, <2>10
        <3>2. CASE k \in alerts
            <4> HIDE DEF la, level
            <4> QED BY <2>3, <2>10, <3>2
        <3>3. CASE n \in Observed(r) /\ k = <<n, share[n], level, r[n].evidence.at>>
            <4>1. k[4] = r[n].evidence.at /\ k[3] = level BY <3>3
            <4> HIDE DEF la, level
            <4> QED BY <2>1, <2>5, <3>3, <4>1
        <3> QED BY <3>1, <3>2, <3>3
    <2>11. seen'[n] = share'[n] BY <1>4, <2>4, <2>6, <2>7 DEF ShareCommitted
    <2> HIDE DEF la, level
    <2> QED BY <2>1, <2>8, <2>9, <2>10, <2>11 DEF la
<1>17. RowsAreSound(row)' BY <1>1 DEF RowsAreSound
<1>18. NothingBefore' BY <1>2 DEF NothingBefore
<1>19. (up \in BOOLEAN /\ (up => seeded))' BY <1>2
<1>20. HistoryType(latest, ordered, acquired, moved)' BY <1>1 DEF HistoryType
<1> QED BY <1>8, <1>9, <1>10, <1>11, <1>12, <1>13, <1>14, <1>15, <1>16, <1>17, <1>18, <1>19, <1>20 DEF IInv
\* The batch fails: the baseline stays, and what was due stays due.
LEMMA MissedIInv ==
    ASSUME NEW before, Mid(before), UNCHANGED <<baseline, evaluated>>, moves' = before,
           up' \in BOOLEAN, up' => seeded
    PROVE  IInv'
<1>1. UNCHANGED <<share, keys, counts, seeded, alerts, told, exempt, crossed, seen>>
    BY DEF baseline, evaluated
<1>2. RowsAreSound(row)' /\ BaselineType' /\ EvaluatedType'
    BY <1>1 DEF Mid, RowsAreSound, BaselineType, EvaluatedType
<1>3. HistoryType(latest, ordered, acquired, moved)' BY DEF Mid, HistoryType
<1>4. NothingBefore' BY <1>1 DEF Mid, NothingBefore
<1>5. CountsAreTold' BY <1>1 DEF Mid, CountsAreTold
<1>6. MigrationIsTold(row, moves, moved)' BY <1>1 DEF Mid, MigrationIsTold
<1>7. LaunchesGrow(row)' BY <1>1 DEF Mid, LaunchesGrow
<1>8. LaunchesAreTold' BY <1>1 DEF Mid, LaunchesAreTold
<1>9. ReuseIsAnswered(row, Answers)'
    <2>1. Crossing(row, "reuse")' = Crossing(row', "reuse") BY <1>1 DEF Crossing
    <2>2. ReuseIsAnswered(row', Answers') BY DEF Mid
    <2> QED BY <1>1, <2>1, <2>2 DEF ReuseIsAnswered
<1>10. SharesAreAnswered(row, acquired)'
    <2>1. ShareAlerts(row)' = ShareAlerts(row') BY <1>1 DEF ShareAlerts
    <2>2. \A n : ShareIsDue(row, n)' <=> ShareIsDue(row', n) BY <1>1, <2>1 DEF ShareIsDue
    <2>3. \A n : AlertsOf(n)' = AlertsOf(n) BY <1>1 DEF AlertsOf
    <2>4. SharesAreAnswered(row', acquired') BY DEF Mid
    <2> QED BY <1>1, <2>2, <2>3, <2>4 DEF SharesAreAnswered
<1>11. DatesAreKept(row, latest, ordered)' BY <1>1 DEF Mid, DatesAreKept, Present
<1>12. (up \in BOOLEAN /\ (up => seeded))' BY <1>1
<1> QED BY <1>2, <1>3, <1>4, <1>5, <1>6, <1>7, <1>8, <1>9, <1>10, <1>11, <1>12 DEF IInv

-----------------------------------------------------------------------------
\* The steps, with what each says of the shares that an evaluation sees change.

TellsChanges ==
    \A m \in Mints :
        seeded /\ ordered'[m] /\ seen'[m] # seen[m] /\ Material(seen[m], seen'[m])
            => \E k \in alerts' \ alerts : k[1] = m /\ k[3] = seen'[m]

\* A key that is stored is of another time, or of a share that is the recorded one.
LEMMA CommitTells ==
    ASSUME NEW before, Mid(before), NEW r, r = row', Commit(r, before, SeedOnly)
    PROVE  TellsChanges
<1> SUFFICES ASSUME NEW n \in Mints, seeded, ordered'[n], seen'[n] # seen[n],
                    Material(seen[n], seen'[n])
             PROVE  \E k \in alerts' \ alerts : k[1] = n /\ k[3] = seen'[n]
    BY DEF TellsChanges
<1>1. RowsAreSound(r) /\ DatesAreKept(r, latest', ordered') BY DEF Mid
<1>2. ShareCommitted(r, n) BY <1>1, CommitShare
<1>3. n \in Observed(r) /\ seen'[n] = r[n].evidence.level BY <1>2 DEF ShareCommitted
<1>4. seen[n] = share[n] /\ r[n].evidence.at = latest'[n] BY <1>1, <1>3 DEF DatesAreKept
<1> DEFINE k == <<n, share[n], r[n].evidence.level, r[n].evidence.at>>
<1>5. k \in alerts' BY <1>2, <1>3, <1>4 DEF ShareCommitted
<1>6. k \notin alerts
    <2> SUFFICES ASSUME k \in alerts PROVE FALSE OBVIOUS
    <2>1. k[1] = n /\ k[4] = latest'[n] /\ k[3] = seen'[n] BY <1>3, <1>4
    <2>2. share[n] = k[3]
        <3> HIDE DEF k
        <3> QED BY <1>1, <2>1 DEF DatesAreKept, Present
    <2> QED BY <1>4, <2>1, <2>2
<1> QED BY <1>3, <1>5, <1>6

LEMMA EvaluateIInv ==
    ASSUME IInv, up, NEW before, Mid(before), Evaluate(row', before)
    PROVE  IInv' /\ TellsChanges
<1>1. up \in BOOLEAN /\ seeded BY DEF IInv
<1>2. CASE Commit(row', before, SeedOnly) /\ UNCHANGED up
    <2>1. PICK r : r = row' OBVIOUS
    <2>2. Commit(r, before, SeedOnly) BY <1>2, <2>1
    <2> QED BY <1>1, <1>2, <2>1, <2>2, CommitIInv, CommitTells
<1>3. CASE Missed(before) /\ up' \in BOOLEAN
    BY <1>1, <1>3, MissedIInv DEF Missed, evaluated, TellsChanges
<1> QED BY <1>2, <1>3 DEF Evaluate

LEMMA UpsertIInv ==
    ASSUME IInv, up, NEW m \in Mints, NEW creator \in Creators \cup {None}, NEW at \in Nat \cup {None},
           row[m] # Gone => creator = row[m].creator,
           Upsert(m, creator, at),
           \/ at = None /\ moved' = moved
           \/ at = moved[m] + 1 /\ moved' = [moved EXCEPT ![m] = @ + 1],
           UNCHANGED <<latest, ordered, acquired, inherited>>
    PROVE  IInv' /\ TellsChanges
<1>1. PICK tracked \in BOOLEAN :
        LET known == row[m] # Gone
            new == [creator |-> creator, migrated |-> at, tracked |-> tracked,
                    evidence |-> IF known THEN row[m].evidence ELSE None]
            before == IF Announces(m, at) THEN moves \cup {<<m, at>>} ELSE moves
        IN  /\ known /\ row[m].tracked => tracked
            /\ row' = [row EXCEPT ![m] = new]
            /\ IF tracked /\ ~(known /\ row[m].tracked)
               THEN Evaluate(row', before)
               ELSE moves' = before /\ UNCHANGED <<baseline, evaluated, up, faults>>
    BY DEF Upsert
<1> DEFINE evidence == IF row[m] # Gone THEN row[m].evidence ELSE None
           new == [creator |-> creator, migrated |-> at, tracked |-> tracked,
                   evidence |-> evidence]
           before == IF Announces(m, at) THEN moves \cup {<<m, at>>} ELSE moves
<1>2. /\ row[m] # Gone /\ row[m].tracked => tracked
      /\ row' = [row EXCEPT ![m] = new]
      /\ Evaluate(row', before) \/ (moves' = before /\ UNCHANGED <<baseline, evaluated, up, faults>>)
    BY <1>1
<1>3. /\ row[m] = Gone => new.evidence = None
      /\ row[m] # Gone => new.evidence = row[m].evidence /\ new.creator = row[m].creator
                          /\ (row[m].tracked => new.tracked)
      /\ new.migrated = at
    BY <1>2
<1>4. new \in Token
    <2>1. row[m] # Gone => row[m] \in Token BY DEF IInv, RowsAreSound
    <2>2. evidence \in Document \cup {None} BY <2>1 DEF Token
    <2> HIDE DEF evidence
    <2> QED BY <2>2 DEF Token
<1>5. Mid(before)
    <2>1. before = IF Announces(m, new.migrated) THEN moves \cup {<<m, new.migrated>>} ELSE moves
        BY <1>3
    <2>2. \/ new.migrated = None /\ moved' = moved
          \/ new.migrated = moved[m] + 1 /\ moved' = [moved EXCEPT ![m] = @ + 1]
        BY <1>3
    <2> HIDE DEF new, before
    <2> QED BY <1>2, <1>3, <1>4, <2>1, <2>2, UpsertMid
<1> HIDE DEF new, before
<1>6. CASE Evaluate(row', before) BY <1>5, <1>6, EvaluateIInv
<1>7. CASE moves' = before /\ UNCHANGED <<baseline, evaluated, up, faults>>
    <2>1. up' \in BOOLEAN /\ (up' => seeded) BY <1>7 DEF IInv
    <2> QED BY <1>5, <1>7, <2>1, MissedIInv DEF evaluated, TellsChanges
<1> QED BY <1>2, <1>6, <1>7

LEMMA StepIInv == IInv /\ [Next]_vars => IInv' /\ TellsChanges
<1> SUFFICES ASSUME IInv, [Next]_vars PROVE IInv' /\ TellsChanges OBVIOUS
<1>1. ASSUME NEW m \in Mints, Create(m) PROVE IInv' /\ TellsChanges
    <2>1. up /\ UNCHANGED <<latest, ordered, acquired, moved, inherited>> BY <1>1 DEF Create
    <2>2. PICK creator \in Creators \cup {None} :
            (row[m] # Gone => creator = row[m].creator) /\ Upsert(m, creator, None)
        BY <1>1 DEF Create
    <2> QED BY <2>1, <2>2, UpsertIInv
<1>2. ASSUME NEW m \in Mints, Migrate(m) PROVE IInv' /\ TellsChanges
    <2>1. /\ up /\ row[m] # Gone /\ UNCHANGED <<latest, ordered, acquired, inherited>>
          /\ moved' = [moved EXCEPT ![m] = @ + 1]
          /\ Upsert(m, row[m].creator, moved[m] + 1)
        BY <1>2 DEF Migrate
    <2>2. row[m].creator \in Creators \cup {None} BY <2>1 DEF IInv, RowsAreSound, Token
    <2>3. PICK creator \in Creators \cup {None} : creator = row[m].creator BY <2>2
    <2>4. moved[m] + 1 \in Nat \cup {None} BY DEF IInv, HistoryType
    <2>5. PICK at \in Nat \cup {None} : at = moved[m] + 1 BY <2>4
    <2>6. Upsert(m, creator, at) BY <2>1, <2>3, <2>5
    <2> QED BY <2>1, <2>3, <2>5, <2>6, UpsertIInv
<1>3. ASSUME NEW m \in Mints, NEW answer \in Document, Acquire(m, answer) PROVE IInv' /\ TellsChanges
    <2>1. /\ up /\ m \in Tracked(row) /\ UNCHANGED <<moved, inherited>>
          /\ acquired' = [acquired EXCEPT ![m] = @ + 1]
          /\ row' = [row EXCEPT ![m].evidence = Kept(m, answer)]
          /\ Dated(m, Kept(m, answer)) /\ Evaluate(row', moves)
        BY <1>3 DEF Acquire
    <2>2. Mid(moves) BY <2>1, AcquireMid
    <2> QED BY <2>1, <2>2, EvaluateIInv
<1>4. ASSUME Interval PROVE IInv' /\ TellsChanges
    <2>1. up /\ UNCHANGED <<row, latest, ordered, acquired, moved, inherited>> /\ Evaluate(row, moves)
        BY <1>4 DEF Interval, history
    <2>2. Mid(moves) BY <2>1, IdleMid
    <2>3. row' = row /\ Evaluate(row', moves) BY <2>1
    <2> QED BY <2>1, <2>2, <2>3, EvaluateIInv
<1>5. ASSUME Crash PROVE IInv' /\ TellsChanges
    <2>1. /\ UNCHANGED <<row, latest, ordered, acquired, moved, inherited>> /\ UNCHANGED <<baseline, evaluated>>
          /\ moves' = moves /\ up' = FALSE
        BY <1>5 DEF Crash, history
    <2>2. Mid(moves) BY <2>1, IdleMid
    <2> QED BY <2>1, <2>2, MissedIInv DEF evaluated, TellsChanges
<1>6. ASSUME Restart PROVE IInv' /\ TellsChanges
    <2>1. UNCHANGED <<row, latest, ordered, acquired, moved, inherited>> BY <1>6 DEF Restart, history
    <2>2. Mid(moves) BY <2>1, IdleMid
    <2>3. CASE Commit(row, moves, SeedOnly) /\ up' = TRUE
        <3>1. PICK r : r = row' OBVIOUS
        <3>2. Commit(r, moves, SeedOnly) BY <2>1, <2>3, <3>1
        <3> QED BY <2>2, <2>3, <3>1, <3>2, CommitIInv, CommitTells
    <2>4. CASE Missed(moves) /\ up' = FALSE
        BY <2>2, <2>4, MissedIInv DEF Missed, evaluated, TellsChanges
    <2> QED BY <1>6, <2>3, <2>4 DEF Restart
<1>7. ASSUME UNCHANGED vars PROVE IInv' /\ TellsChanges
    <2>1. /\ UNCHANGED <<row, latest, ordered, acquired, moved, inherited>> /\ UNCHANGED <<baseline, evaluated>>
          /\ moves' = moves /\ up' = up
        BY <1>7 DEF vars, baseline, evaluated
    <2>2. Mid(moves) BY <2>1, IdleMid
    <2>3. up' \in BOOLEAN /\ (up' => seeded) BY <2>1 DEF IInv
    <2> QED BY <2>1, <2>2, <2>3, MissedIInv DEF evaluated, TellsChanges
<1> QED BY <1>1, <1>2, <1>3, <1>4, <1>5, <1>6, <1>7 DEF Next

-----------------------------------------------------------------------------
\* Theorems.

\* The inductive invariant holds in every reachable state.
THEOREM Invariance == Spec => []IInv
BY InitIInv, StepIInv, PTL DEF Spec

\* Every variable keeps its type: the counts never fall below zero, and the
\* recorded share of a launch is the value of one of its events.
THEOREM TypeCorrect == Spec => []TypeOK
<1>1. IInv => TypeOK BY DEF IInv, RowsAreSound, BaselineType, MigrationIsTold, TypeOK
<1> QED BY <1>1, Invariance, PTL

\* However often the evaluation repeats, over restarts, failed batches and repeated
\* frames: no more share alerts of a launch than answers about it, no more reuse
\* alerts of one than answers about any, one alert of a creator's second launch.
THEOREM AlertedOnce == Spec => []OncePerAnswer
<1>1. IInv => OncePerAnswer
    BY DEF IInv, SharesAreAnswered, ReuseIsAnswered, LaunchesAreTold, AlertsOf, OncePerAnswer
<1> QED BY <1>1, Invariance, PTL

\* Alerts of one launch have different times.
LEMMA DifferentTimes ==
    ASSUME NEW m, moves \subseteq Mints \X Nat, NEW low \in Nat, NEW high \in Nat, low <= high + 1,
           \A k \in MigrationsOf(m) : low <= k[2] /\ k[2] <= high
    PROVE  Cardinality(MigrationsOf(m)) <= (high - low) + 1
<1> DEFINE S == MigrationsOf(m)
           g == [k \in S |-> k[2]]
<1>1. \A k \in S : k[1] = m /\ k[2] \in Nat /\ k = <<m, k[2]>> BY DEF MigrationsOf
<1>2. g \in Injection(S, low..high)
    <2>1. \A k \in S : k[2] \in low..high BY <1>1
    <2>2. \A k, l \in S : k[2] = l[2] => k = l BY <1>1
    <2> HIDE DEF S
    <2> QED BY <2>1, <2>2 DEF Injection, IsInjective
<1>3. /\ IsFiniteSet(low..high)
      /\ Cardinality(low..high) = IF low > high THEN 0 ELSE (high - low) + 1
    BY FS_Interval
<1> HIDE DEF g, S
<1>4. IsFiniteSet(S) /\ Cardinality(S) <= Cardinality(low..high) BY <1>2, <1>3, FS_Injection
<1>5. Cardinality(S) \in Nat BY <1>4, FS_CardinalityType
<1> QED BY <1>3, <1>4, <1>5 DEF S

\* A count that an evaluation has seen over its threshold was told, if not found so by
\* the seeding.  A stored migration was told, if not found by the upgrade; and there
\* are no more alerts of a launch's migration than frames of it, but for the one of a
\* migration that the upgrade found: also when evaluations and frames repeat, and when
\* create frames make the server forget it.
THEOREM ToldCrossings == Spec => []CrossedIsTold
<1>1. ASSUME IInv PROVE CrossedIsTold
    <2>1. \A f \in Counted : \A m \in crossed[f] \ exempt[f] : told[m][f] > 0
        BY <1>1 DEF IInv, CountsAreTold, EvaluatedType
    <2>2. ASSUME NEW m \in Mints, row[m] # Gone, row[m].migrated # None
          PROVE  m \in inherited \/ MigrationsOf(m) # {}
        BY <1>1, <2>2 DEF IInv, MigrationIsTold, MigrationsOf
    <2>3. ASSUME NEW m \in Mints
          PROVE  Cardinality(MigrationsOf(m)) <= moved[m] + (IF m \in inherited THEN 1 ELSE 0)
        <3>1. moved[m] \in Nat /\ moves \subseteq Mints \X Nat
            BY <1>1 DEF IInv, HistoryType, MigrationIsTold
        <3>2. \A k \in MigrationsOf(m) :
                k[2] \in Nat /\ k[2] <= moved[m] /\ (k[2] = 0 => m \in inherited)
            BY <1>1 DEF IInv, MigrationIsTold, MigrationsOf
        <3>3. CASE m \in inherited
            <4>1. Cardinality(MigrationsOf(m)) <= (moved[m] - 0) + 1
                BY <3>1, <3>2, DifferentTimes
            <4> QED BY <3>1, <3>3, <4>1
        <3>4. CASE m \notin inherited
            <4>1. \A k \in MigrationsOf(m) : 1 <= k[2] /\ k[2] <= moved[m] BY <3>2, <3>4
            <4>2. Cardinality(MigrationsOf(m)) <= (moved[m] - 1) + 1
                BY <3>1, <4>1, DifferentTimes
            <4> QED BY <3>1, <3>4, <4>2
        <3> QED BY <3>3, <3>4
    <2> QED BY <2>1, <2>2, <2>3 DEF CrossedIsTold
<1> QED BY <1>1, Invariance, PTL

\* Whatever crashes and failed batches lie between two evaluations: a share that
\* differs materially from the one seen before is alerted, with the new value, if
\* the provider dates its changes: the hypothesis is on its dates, never on the order
\* in which failures, restarts and evaluations come.
THEOREM ToldChanges == Spec => ChangesAreTold
<1>1. IInv /\ [Next]_vars => [TellsChanges]_vars BY StepIInv
<1>2. IInv /\ [Next]_vars =>
        [\A m \in Mints :
            seeded /\ ordered[m]' /\ seen'[m] # seen[m] /\ Material(seen[m], seen'[m])
                => \E k \in alerts' \ alerts : k[1] = m /\ k[3] = seen'[m]]_vars
    BY <1>1 DEF TellsChanges
<1> QED BY <1>2, Invariance, PTL DEF ChangesAreTold, Spec
=============================================================================
