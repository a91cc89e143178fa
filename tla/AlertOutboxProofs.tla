-------------------------- MODULE AlertOutboxProofs --------------------------
(***************************************************************************)
(* Safety of the Telegram outbox for any number of alerts, any bound on    *)
(* attempts, any delays and any number of crashes and failed writes.       *)
(***************************************************************************)
EXTENDS AlertOutbox, FiniteSetTheorems, TLAPS

-----------------------------------------------------------------------------
\* The inductive invariant.

\* A queued row has attempts left.
AttemptsLeft ==
    \A k \in Keys : row[k].attempts <= MaxAttempts
                    /\ (Queued(k) => row[k].attempts < MaxAttempts)

\* Every send is counted in the row, still in flight, or lost to a fault.
SendsAccounted ==
    \A k \in Keys : sends[k] <= row[k].attempts + faults
                                + (IF \E f \in flight : f.key = k THEN 1 ELSE 0)

\* What the chat holds: it has each send marked posted, and nothing was
\* requested for a row that was never queued.
ChatHolds ==
    /\ \A f \in flight : f.posted => posted[f.key] > 0
    /\ \A k \in Keys : row[k].status \in {"absent", "unqueued"} => sends[k] = 0

IInv == TypeOK /\ OneSendAtATime /\ AttemptsLeft /\ SendsAccounted /\ ChatHolds /\ SentWasPosted

-----------------------------------------------------------------------------
\* Lemmas on the helpers.

LEMMA ScheduleType ==
    ASSUME NEW t \in Nat \cup {None}, NEW d \in Int
    PROVE  Schedule(t, d) \in Nat \cup {None}
BY DEF Schedule

LEMMA NextIdType == NextId \in Nat
<1>1. IsFiniteSet({k \in Keys : row[k].status # "absent"})
    BY FS_Subset, OutboxAssumption
<1>2. Cardinality({k \in Keys : row[k].status # "absent"}) \in Nat
    BY <1>1, FS_CardinalityType
<1> QED BY <1>2 DEF NextId

LEMMA BackoffType == ASSUME NEW n \in Nat PROVE Backoff(n + 1) \in Int
<1>1. 2^(n + 1 - 1) \in Int OBVIOUS
<1> QED BY <1>1, OutboxAssumption DEF Backoff, Lower

\* With one send outstanding at most, a condition selects none or one.
LEMMA FewSends ==
    ASSUME NEW S, \A f, g \in S : f = g, NEW T, T \subseteq S
    PROVE  /\ IsFiniteSet(T)
           /\ Cardinality(T) = IF T = {} THEN 0 ELSE 1
<1>1. CASE T = {} BY <1>1, FS_EmptySet
<1>2. CASE T # {}
    <2>1. PICK x \in T : TRUE BY <1>2
    <2>2. T = {x} BY <2>1
    <2> QED BY <2>2, <1>2, FS_Singleton
<1> QED BY <1>1, <1>2

-----------------------------------------------------------------------------
\* The invariant holds initially and is preserved.

LEMMA InitIInv == Init => IInv
<1> SUFFICES ASSUME Init PROVE IInv OBVIOUS
<1> USE DEF Init
<1>1. TypeOK
    <2>1. row \in [Keys -> RowType] BY DEF RowType
    <2>2. flight \in SUBSET FlightType OBVIOUS
    <2>3. timer \in Nat \cup {None} /\ poll \in Nat /\ since \in 0..Throttle /\ faults \in Nat
        BY OutboxAssumption
    <2>4. process \in {"down", "booting", "up"} /\ running \in BOOLEAN OBVIOUS
    <2>5. due \in [Keys -> Int] /\ wire \in [Keys -> Nat] /\ posted \in [Keys -> Nat]
          /\ sends \in [Keys -> Nat]
        OBVIOUS
    <2> QED BY <2>1, <2>2, <2>3, <2>4, <2>5 DEF TypeOK
<1>2. OneSendAtATime BY DEF OneSendAtATime
<1>3. AttemptsLeft BY OutboxAssumption DEF AttemptsLeft, Queued
<1>4. SendsAccounted BY DEF SendsAccounted
<1>5. ChatHolds /\ SentWasPosted BY DEF ChatHolds, SentWasPosted
<1> QED BY <1>1, <1>2, <1>3, <1>4, <1>5 DEF IInv

LEMMA RecordIInv ==
    ASSUME IInv, NEW k \in Keys, Record(k)
    PROVE  IInv'
<1> USE DEF IInv, Record, Insertable, outbox, history, Queued
<1>1. Schedule(timer, 0) \in Nat \cup {None} BY ScheduleType DEF TypeOK
<1>2. row'[k].attempts = 0 /\ row'[k].status \in {"pending", "unqueued"} BY DEF TypeOK
<1>3. \A j \in Keys \ {k} : row'[j] = row[j] BY DEF TypeOK
<1>4. \A f \in flight : f.key # k BY DEF OneSendAtATime, TypeOK, FlightType
<1>5. TypeOK' BY <1>1, NextIdType DEF TypeOK, RowType
<1>6. OneSendAtATime' BY <1>3, <1>4 DEF OneSendAtATime, TypeOK, FlightType
<1>7. AttemptsLeft' BY <1>2, <1>3, OutboxAssumption DEF AttemptsLeft
<1>8. SendsAccounted' BY <1>2, <1>3 DEF SendsAccounted, TypeOK, ChatHolds
<1>9. ChatHolds' BY <1>2, <1>3 DEF ChatHolds
<1>10. SentWasPosted' BY <1>2, <1>3 DEF SentWasPosted
<1> QED BY <1>5, <1>6, <1>7, <1>8, <1>9, <1>10

LEMMA FireIInv == ASSUME IInv, Fire PROVE IInv'
<1> USE DEF IInv, Fire, outbox, Queued
<1>1. CASE UNCHANGED <<running, flight, sends>>
    <2>1. timer' \in Nat \cup {None} BY <1>1, OutboxAssumption DEF TypeOK, MayStart
    <2> QED BY <1>1, <2>1
        DEF TypeOK, OneSendAtATime, AttemptsLeft, SendsAccounted, ChatHolds, SentWasPosted
<1>2. CASE MayStart /\ timer' = None /\ \E k \in FirstDue : StartSend(k)
    <2>1. PICK k \in FirstDue : StartSend(k) BY <1>2
    <2> USE <2>1 DEF StartSend
    <2>2. k \in Keys /\ Queued(k) BY DEF FirstDue, Due
    <2>3. flight = {} BY <1>2 DEF MayStart, OneSendAtATime
    <2>4. flight' = {[key |-> k, count |-> row[k].attempts, posted |-> FALSE]} BY <2>3
    <2> DEFINE g == [key |-> k, count |-> row[k].attempts, posted |-> FALSE]
    <2>5. TypeOK'
        <3>1. g \in FlightType BY <2>2 DEF TypeOK, RowType, FlightType
        <3>2. flight' \in SUBSET FlightType BY <2>4, <3>1
        <3> QED BY <1>2, <2>2, <3>2 DEF TypeOK
    <2>6. OneSendAtATime'
        <3>1. flight' = {g} BY <2>4
        <3>2. g.key = k /\ g.count = row[k].attempts OBVIOUS
        <3> HIDE DEF g
        <3> QED BY <2>2, <3>1, <3>2 DEF OneSendAtATime
    <2>7. AttemptsLeft' BY DEF AttemptsLeft
    <2>8. SendsAccounted'
        BY <2>2, <2>3, <2>4 DEF SendsAccounted, TypeOK, RowType
    <2>9. ChatHolds' BY <2>2, <2>4 DEF ChatHolds, TypeOK
    <2>10. SentWasPosted' BY DEF SentWasPosted
    <2> QED BY <2>5, <2>6, <2>7, <2>8, <2>9, <2>10
<1> QED BY <1>1, <1>2

LEMMA PostInFlightIInv == ASSUME IInv, NEW f \in flight, PostInFlight(f) PROVE IInv'
<1> USE DEF IInv, PostInFlight, outbox, history, Queued
<1> DEFINE g == [key |-> f.key, count |-> f.count, posted |-> TRUE]
<1>1. f \in FlightType /\ g \in FlightType /\ g.key = f.key /\ g.count = f.count /\ g.posted
    BY DEF TypeOK, FlightType
<1>2. flight = {f} BY DEF OneSendAtATime
<1>3. flight' = {g} BY <1>2
<1>4. TypeOK'
    <2>1. flight' \in SUBSET FlightType BY <1>1, <1>3
    <2>2. posted' \in [Keys -> Nat] BY <1>1 DEF TypeOK, FlightType
    <2> QED BY <2>1, <2>2 DEF TypeOK
<1>5. OneSendAtATime' BY <1>1, <1>2, <1>3 DEF OneSendAtATime
<1>6. AttemptsLeft' BY DEF AttemptsLeft
<1>7. SendsAccounted' BY <1>1, <1>2, <1>3 DEF SendsAccounted
<1>8. \A k \in Keys : posted'[k] >= posted[k] BY <1>1 DEF TypeOK, FlightType
<1>9. ChatHolds' BY <1>1, <1>3 DEF ChatHolds, TypeOK, FlightType
<1>10. SentWasPosted' BY <1>8 DEF SentWasPosted, TypeOK
<1> QED BY <1>4, <1>5, <1>6, <1>7, <1>9, <1>10

LEMMA LateIInv ==
    ASSUME IInv, NEW k \in Keys, PostLate(k) \/ DropLate(k) PROVE IInv'
<1> USE DEF IInv, PostLate, DropLate, outbox, memory, history, Queued
<1>1. \A j \in Keys : posted'[j] \in Nat /\ posted'[j] >= posted[j] BY DEF TypeOK
<1>2. TypeOK' BY DEF TypeOK
<1>3. OneSendAtATime' /\ AttemptsLeft' BY DEF OneSendAtATime, AttemptsLeft
<1>4. SendsAccounted' BY DEF SendsAccounted
<1>5. ChatHolds' BY <1>1 DEF ChatHolds, TypeOK, FlightType
<1>6. SentWasPosted' BY <1>1 DEF SentWasPosted, TypeOK
<1> QED BY <1>2, <1>3, <1>4, <1>5, <1>6

\* What every answer does: it ends the one send in flight, and counts the
\* attempt in the row or, for a fault, does not.
LEMMA AnswerIInv ==
    ASSUME IInv, NEW f \in flight, NEW t \in Nat \cup {None}, Finally(f, t),
           due' \in [Keys -> Int], wire' \in [Keys -> Nat], UNCHANGED <<posted, sends>>,
           faults' \in {faults, faults + 1},
           \/ Recorded(f.key, "sent") /\ f.posted
           \/ Recorded(f.key, "dead-letter")
           \/ Recorded(f.key, "retrying") /\ MayRetry(f.count + 1)
           \/ UNCHANGED row /\ faults' = faults + 1
    PROVE  IInv'
<1> USE DEF IInv, Finally, Queued
<1>1. flight = {f} /\ flight' = {} BY DEF OneSendAtATime
<1>2. f.key \in Keys /\ f.count \in Nat /\ Queued(f.key) /\ row[f.key].attempts = f.count
    BY DEF OneSendAtATime, TypeOK, FlightType
<1>3. Schedule(t, Throttle) \in Nat \cup {None} BY ScheduleType, OutboxAssumption
<1>4. faults' \in Nat /\ faults' >= faults BY DEF TypeOK
<1>5. \/ UNCHANGED row /\ faults' = faults + 1
      \/ /\ row' \in [Keys -> RowType]
         /\ \A k \in Keys \ {f.key} : row'[k] = row[k]
         /\ row'[f.key].attempts = row[f.key].attempts + 1
         /\ row'[f.key].status \in {"sent", "dead-letter", "retrying"}
         /\ row'[f.key].status = "retrying" => MayRetry(f.count + 1)
         /\ row'[f.key].status = "sent" => f.posted
    BY <1>2 DEF Recorded, TypeOK, RowType
<1>6. TypeOK'
    <2>1. row' \in [Keys -> RowType] BY <1>5 DEF TypeOK
    <2>2. flight' \in SUBSET FlightType BY <1>1
    <2>3. since' \in 0..Throttle BY OutboxAssumption
    <2> QED BY <1>3, <1>4, <2>1, <2>2, <2>3 DEF TypeOK
<1>7. OneSendAtATime' BY <1>1 DEF OneSendAtATime
<1>8. AttemptsLeft'
    <2>1. CASE UNCHANGED row BY <2>1 DEF AttemptsLeft
    <2>2. CASE row' # row
        <3> SUFFICES ASSUME NEW k \in Keys
                     PROVE  /\ row'[k].attempts <= MaxAttempts
                            /\ Queued(k)' => row'[k].attempts < MaxAttempts
            BY DEF AttemptsLeft
        <3>1. CASE k # f.key BY <2>2, <1>5, <3>1 DEF AttemptsLeft
        <3>2. CASE k = f.key
            BY <2>2, <1>2, <1>5, <3>2, OutboxAssumption DEF AttemptsLeft, MayRetry
        <3> QED BY <3>1, <3>2
    <2> QED BY <2>1, <2>2
<1>9. SendsAccounted'
    <2> SUFFICES ASSUME NEW k \in Keys PROVE sends[k] <= row'[k].attempts + faults'
        <3>1. \A k \in Keys : ~ \E g \in flight' : g.key = k BY <1>1
        <3>2. \A k \in Keys : row'[k].attempts \in Nat BY <1>6 DEF TypeOK, RowType
        <3> QED BY <1>4, <3>1, <3>2 DEF SendsAccounted
    <2>1. sends[k] <= row[k].attempts + faults + (IF k = f.key THEN 1 ELSE 0)
        BY <1>1 DEF SendsAccounted
    <2>2. sends[k] \in Nat /\ row[k].attempts \in Nat /\ faults \in Nat BY DEF TypeOK, RowType
    <2>3. CASE k # f.key
        <3>1. row'[k] = row[k] BY <1>5, <2>3
        <3> QED BY <1>4, <2>1, <2>2, <2>3, <3>1
    <2>4. CASE k = f.key
        <3>1. \/ row'[k] = row[k] /\ faults' = faults + 1
              \/ row'[k].attempts = row[k].attempts + 1 BY <1>5, <2>4
        <3> QED BY <1>4, <2>1, <2>2, <2>4, <3>1
    <2> QED BY <2>3, <2>4
<1>10. ChatHolds' BY <1>1, <1>2, <1>5 DEF ChatHolds
<1>11. SentWasPosted' BY <1>5 DEF SentWasPosted, ChatHolds
<1> QED BY <1>6, <1>7, <1>8, <1>9, <1>10, <1>11

LEMMA EachAnswerIInv == ASSUME IInv, NEW f \in flight, Answer(f) PROVE IInv'
<1> USE DEF history, Acknowledged
<1>1. f.key \in Keys /\ f.count \in Nat /\ timer \in Nat \cup {None}
    BY DEF IInv, TypeOK, FlightType
<1>2. due \in [Keys -> Int] /\ wire \in [Keys -> Nat] /\ faults \in Nat BY DEF IInv, TypeOK
<1>3. Doubt(f) => wire' \in [Keys -> Nat] BY <1>1, <1>2 DEF Doubt
<1>4. CASE Confirm(f) BY <1>1, <1>2, <1>4, AnswerIInv DEF Confirm
<1>5. CASE ConfirmUnrecorded(f) BY <1>1, <1>2, <1>5, AnswerIInv DEF ConfirmUnrecorded
<1>6. CASE RetryAmbiguous(f)
    <2>1. Backoff(f.count + 1) \in Int BY <1>1, BackoffType
    <2>2. Schedule(timer, Backoff(f.count + 1)) \in Nat \cup {None} BY <1>1, <2>1, ScheduleType
    <2>3. due' \in [Keys -> Int] BY <1>2, <1>6, <2>1 DEF RetryAmbiguous, RetryWith
    <2> QED BY <1>3, <1>6, <2>2, <2>3, AnswerIInv DEF RetryAmbiguous, RetryWith
<1>7. CASE RetryRateLimited(f)
    <2>1. PICK delay \in RateDelays : RetryWith(f, delay) BY <1>7 DEF RetryRateLimited
    <2>2. delay \in Int BY OutboxAssumption
    <2>3. Schedule(timer, delay) \in Nat \cup {None} BY <1>1, <2>2, ScheduleType
    <2>4. due' \in [Keys -> Int] BY <1>2, <2>1, <2>2 DEF RetryWith
    <2> QED BY <1>2, <1>7, <2>1, <2>3, <2>4, AnswerIInv DEF RetryRateLimited, RetryWith
<1>8. CASE GiveUp(f) BY <1>1, <1>2, <1>3, <1>8, AnswerIInv DEF GiveUp
<1> QED BY <1>4, <1>5, <1>6, <1>7, <1>8 DEF Answer

LEMMA CrashIInv == ASSUME IInv, Crash PROVE IInv'
<1> USE DEF IInv, Crash, outbox, Queued
<1>1. wire' \in [Keys -> Nat]
    <2> SUFFICES ASSUME NEW k \in Keys
                 PROVE  Cardinality({f \in flight : f.key = k /\ ~f.posted}) \in Nat
        BY DEF TypeOK
    <2>1. \A f, g \in flight : f = g BY DEF OneSendAtATime
    <2> DEFINE T == {f \in flight : f.key = k /\ ~f.posted}
    <2>2. T \subseteq flight OBVIOUS
    <2>3. Cardinality(T) = IF T = {} THEN 0 ELSE 1 BY <2>1, <2>2, FewSends
    <2> HIDE DEF T
    <2>4. Cardinality(T) \in Nat BY <2>3
    <2> QED BY <2>4 DEF T
<1>2. TypeOK'
    <2>1. flight' \in SUBSET FlightType /\ since' \in 0..Throttle BY OutboxAssumption
    <2>2. timer' \in Nat \cup {None} /\ poll' \in Nat /\ faults' \in Nat BY DEF TypeOK
    <2>3. process' \in {"down", "booting", "up"} /\ running' \in BOOLEAN OBVIOUS
    <2>4. UNCHANGED <<row, due, configured, posted, sends>> OBVIOUS
    <2> QED BY <1>1, <2>1, <2>2, <2>3, <2>4 DEF TypeOK
<1>3. OneSendAtATime' /\ AttemptsLeft' BY DEF OneSendAtATime, AttemptsLeft
<1>4. SendsAccounted' BY DEF SendsAccounted, TypeOK, RowType
<1>5. ChatHolds' /\ SentWasPosted' BY DEF ChatHolds, SentWasPosted
<1> QED BY <1>2, <1>3, <1>4, <1>5

LEMMA ClockAndStartupIInv ==
    ASSUME IInv, Poll \/ Restart \/ Booted \/ Tick PROVE IInv'
<1> USE DEF IInv, outbox, history, Queued
<1>1. UNCHANGED <<row, running, flight, wire, posted, sends, faults>>
    BY DEF Poll, Restart, Booted, Tick
<1>2. Schedule(timer, 0) \in Nat \cup {None} /\ Schedule(timer, Throttle) \in Nat \cup {None}
    BY ScheduleType, OutboxAssumption DEF TypeOK
<1>3. TypeOK'
    <2>1. CASE Poll BY <1>1, <1>2, <2>1, OutboxAssumption DEF TypeOK, Poll
    <2>2. CASE Restart BY <1>1, <2>2 DEF TypeOK, Restart
    <2>3. CASE Booted BY <1>1, <1>2, <2>3, OutboxAssumption DEF TypeOK, Booted
    <2>4. CASE Tick
        BY <1>1, <2>4, OutboxAssumption DEF TypeOK, Tick, Closer, Lower
    <2> QED BY <2>1, <2>2, <2>3, <2>4
<1>4. OneSendAtATime' BY <1>1 DEF OneSendAtATime, Poll, Restart, Booted, Tick
<1>5. AttemptsLeft' /\ SendsAccounted' /\ ChatHolds' /\ SentWasPosted'
    BY <1>1 DEF AttemptsLeft, SendsAccounted, ChatHolds, SentWasPosted
<1> QED BY <1>3, <1>4, <1>5

LEMMA StepIInv == IInv /\ [Next]_vars => IInv'
<1> SUFFICES ASSUME IInv, [Next]_vars PROVE IInv' OBVIOUS
<1>1. CASE \E k \in Keys : Record(k) BY <1>1, RecordIInv
<1>2. CASE Fire BY <1>2, FireIInv
<1>3. CASE \E f \in flight : PostInFlight(f) BY <1>3, PostInFlightIInv
<1>4. CASE \E f \in flight : Answer(f) BY <1>4, EachAnswerIInv
<1>5. CASE \E k \in Keys : PostLate(k) \/ DropLate(k) BY <1>5, LateIInv
<1>6. CASE Crash BY <1>6, CrashIInv
<1>7. CASE Poll \/ Restart \/ Booted \/ Tick BY <1>7, ClockAndStartupIInv
<1>8. CASE UNCHANGED vars
    BY <1>8 DEF vars, IInv, TypeOK, OneSendAtATime, AttemptsLeft, SendsAccounted, ChatHolds,
                SentWasPosted, Queued
<1> QED BY <1>1, <1>2, <1>3, <1>4, <1>5, <1>6, <1>7, <1>8 DEF Next

THEOREM Invariance == Spec => []IInv
BY InitIInv, StepIInv, PTL DEF Spec

-----------------------------------------------------------------------------
\* What follows from the invariant.

\* Types of the outbox rows, the process memory and the chat.
THEOREM TypeCorrect == Spec => []TypeOK
BY Invariance, PTL DEF IInv

\* telegramDeliveryRunning serializes the sends, across restarts as well, and
\* the row read before the await of a send is still current after it.
THEOREM Serialized == Spec => []OneSendAtATime
BY Invariance, PTL DEF IInv

\* The attempt bound of telegramRetryPlan holds up to lost counts.
THEOREM BoundedSends == Spec => []SendsAreBounded
<1>1. IInv => SendsAreBounded
    <2> SUFFICES ASSUME IInv, NEW k \in Keys PROVE sends[k] <= MaxAttempts + faults
        BY DEF SendsAreBounded
    <2>1. sends[k] \in Nat /\ row[k].attempts \in Nat /\ faults \in Nat
        BY DEF IInv, TypeOK, RowType
    <2>2. CASE \E f \in flight : f.key = k
        <3>1. row[k].attempts < MaxAttempts BY <2>2 DEF IInv, AttemptsLeft, OneSendAtATime
        <3> QED BY <2>1, <2>2, <3>1, OutboxAssumption DEF IInv, SendsAccounted
    <2>3. CASE ~ \E f \in flight : f.key = k
        BY <2>1, <2>3, OutboxAssumption DEF IInv, SendsAccounted, AttemptsLeft
    <2> QED BY <2>2, <2>3
<1> QED BY <1>1, Invariance, PTL

\* A row marked sent is in the chat.
THEOREM ConfirmedIsPosted == Spec => []SentWasPosted
BY Invariance, PTL DEF IInv

\* An alert recorded without a delivery to make never reaches the chat.
THEOREM UnqueuedIsSilent == Spec => []UnqueuedNeverSent
<1>1. IInv => UnqueuedNeverSent BY DEF IInv, ChatHolds, UnqueuedNeverSent
<1> QED BY <1>1, Invariance, PTL

\* telegram_status never claims more than happened, nor hides a send.
THEOREM HonestStatus == Spec => []StatusIsHonest
<1>1. SentWasPosted /\ UnqueuedNeverSent => StatusIsHonest BY DEF StatusIsHonest
<1> QED BY <1>1, ConfirmedIsPosted, UnqueuedIsSilent, PTL

-----------------------------------------------------------------------------
\* The outbox implements the abstract delivery.

\* The unposted sends of key k among none or one in flight.
LEMMA NoneOpen == ASSUME NEW k PROVE Cardinality({g \in {} : g.key = k /\ ~g.posted}) = 0
<1>1. {g \in {} : g.key = k /\ ~g.posted} = {} OBVIOUS
<1> QED BY <1>1, FS_EmptySet

LEMMA OneOpen ==
    ASSUME NEW f, NEW k
    PROVE  Cardinality({g \in {f} : g.key = k /\ ~g.posted})
              = IF f.key = k /\ ~f.posted THEN 1 ELSE 0
<1>1. CASE f.key = k /\ ~f.posted
    <2>1. {g \in {f} : g.key = k /\ ~g.posted} = {f} BY <1>1
    <2> QED BY <1>1, <2>1, FS_Singleton
<1>2. CASE ~(f.key = k /\ ~f.posted)
    <2>1. {g \in {f} : g.key = k /\ ~g.posted} = {} BY <1>2
    <2> QED BY <1>2, <2>1, FS_EmptySet
<1> QED BY <1>1, <1>2

\* The refinement mapping as two functions over the keys.
St == [k \in Keys |-> DeliveryState(k)]
Asked == [k \in Keys |-> InDoubt(k)]

LEMMA RecordRefines ==
    ASSUME IInv, NEW k \in Keys, Record(k)
    PROVE  Delivery!Accept(k)
<1> USE DEF Record, Insertable, IInv, history
<1>1. row'[k].status \in {"pending", "unqueued"} /\ \A j \in Keys \ {k} : row'[j] = row[j]
    BY DEF TypeOK
<1>2. DeliveryState(k) = "absent" /\ DeliveryState(k)' \in {"unqueued", "queued"}
    BY <1>1 DEF DeliveryState, Queued
<1>3. \A j \in Keys \ {k} : DeliveryState(j)' = DeliveryState(j) BY <1>1 DEF DeliveryState, Queued
<1>4. St' = [St EXCEPT ![k] = DeliveryState(k)'] BY <1>3 DEF St
<1>5. Asked' = Asked BY DEF Asked, InDoubt
<1> QED BY <1>2, <1>4, <1>5 DEF Delivery!Accept, St, Asked

LEMMA SendRefines ==
    ASSUME IInv, NEW k \in FirstDue, MayStart, StartSend(k), UNCHANGED <<row, wire, posted>>
    PROVE  Delivery!Ask(k)
<1> USE DEF StartSend
<1>1. k \in Keys /\ Queued(k) BY DEF FirstDue, Due
<1>2. flight = {} BY DEF MayStart, IInv, OneSendAtATime
<1> DEFINE g == [key |-> k, count |-> row[k].attempts, posted |-> FALSE]
<1>3. flight' = {g} /\ g.key = k /\ ~g.posted BY <1>2
<1> HIDE DEF g
<1>4. \A j \in Keys : InDoubt(j) = wire[j] BY <1>2, NoneOpen DEF InDoubt, IInv, TypeOK
<1>5. \A j \in Keys : InDoubt(j)' = wire[j] + (IF j = k THEN 1 ELSE 0)
    <2> TAKE j \in Keys
    <2>1. Cardinality({h \in {g} : h.key = j /\ ~h.posted}) = IF j = k THEN 1 ELSE 0
        BY <1>3, OneOpen
    <2>2. InDoubt(j)' = wire'[j] + Cardinality({h \in flight' : h.key = j /\ ~h.posted})
        BY DEF InDoubt
    <2> QED BY <1>3, <2>1, <2>2
<1>6. Asked' = [Asked EXCEPT ![k] = @ + 1] BY <1>1, <1>4, <1>5 DEF Asked, IInv, TypeOK
<1>7. St' = St BY DEF St, DeliveryState, Queued
<1>8. DeliveryState(k) = "queued" BY <1>1 DEF DeliveryState, Queued
<1> QED BY <1>1, <1>6, <1>7, <1>8 DEF Delivery!Ask, St, Asked

LEMMA PostRefines ==
    ASSUME IInv, NEW f \in flight, PostInFlight(f) PROVE Delivery!Post(f.key)
<1> USE DEF PostInFlight, outbox
<1> DEFINE g == [key |-> f.key, count |-> f.count, posted |-> TRUE]
<1>1. f.key \in Keys /\ g.key = f.key /\ g.posted BY DEF IInv, TypeOK, FlightType
<1>2. flight = {f} BY DEF IInv, OneSendAtATime
<1>3. flight' = {g} BY <1>2
<1> HIDE DEF g
<1>4. \A j \in Keys : InDoubt(j) = wire[j] + (IF j = f.key THEN 1 ELSE 0)
    BY <1>2, OneOpen DEF InDoubt
<1>5. \A j \in Keys : InDoubt(j)' = wire[j]
    <2> TAKE j \in Keys
    <2>1. Cardinality({h \in {g} : h.key = j /\ ~h.posted}) = 0 BY <1>1, OneOpen
    <2>2. InDoubt(j)' = wire'[j] + 0 BY <1>3, <2>1 DEF InDoubt
    <2> QED BY <2>2 DEF IInv, TypeOK
<1>6. Asked' = [Asked EXCEPT ![f.key] = @ - 1] BY <1>1, <1>4, <1>5 DEF Asked, IInv, TypeOK
<1>7. InDoubt(f.key) > 0 BY <1>1, <1>4 DEF IInv, TypeOK
<1>8. St' = St BY DEF St, DeliveryState, Queued
<1> QED BY <1>1, <1>6, <1>7, <1>8 DEF Delivery!Post, St, Asked

LEMMA LateRefines ==
    ASSUME IInv, NEW k \in Keys, PostLate(k) \/ DropLate(k)
    PROVE  Delivery!Post(k) \/ Delivery!Lose(k)
<1> USE DEF PostLate, DropLate, outbox, memory
<1>1. \A j \in Keys : Cardinality({f \in flight : f.key = j /\ ~f.posted}) \in Nat
    <2> TAKE j \in Keys
    <2> DEFINE T == {f \in flight : f.key = j /\ ~f.posted}
    <2>1. Cardinality(T) = IF T = {} THEN 0 ELSE 1
        BY FewSends DEF IInv, OneSendAtATime
    <2> HIDE DEF T
    <2>2. Cardinality(T) \in Nat BY <2>1
    <2> QED BY <2>2 DEF T
<1>2. InDoubt(k) > 0 BY <1>1 DEF InDoubt, IInv, TypeOK
<1>3. Asked' = [Asked EXCEPT ![k] = @ - 1]
    <2>1. \A j \in Keys : wire'[j] = IF j = k THEN wire[j] - 1 ELSE wire[j] BY DEF IInv, TypeOK
    <2>2. \A j \in Keys : InDoubt(j)' = IF j = k THEN InDoubt(j) - 1 ELSE InDoubt(j)
        <3> TAKE j \in Keys
        <3> DEFINE open == Cardinality({f \in flight : f.key = j /\ ~f.posted})
        <3>1. InDoubt(j) = wire[j] + open BY DEF InDoubt
        <3>2. InDoubt(j)' = wire'[j] + open BY DEF InDoubt
        <3>3. open \in Nat BY <1>1
        <3> HIDE DEF open
        <3> QED BY <2>1, <3>1, <3>2, <3>3 DEF IInv, TypeOK
    <2> QED BY <2>2 DEF Asked
<1>4. St' = St BY DEF St, DeliveryState, Queued
<1>5. CASE PostLate(k) BY <1>2, <1>3, <1>4, <1>5 DEF Delivery!Post, St, Asked
<1>6. CASE DropLate(k) BY <1>2, <1>3, <1>4, <1>6 DEF Delivery!Lose, St, Asked, history
<1> QED BY <1>5, <1>6

\* How an answer moves the open requests: unchanged when the send was posted
\* or is still in doubt, one less when it was refused.
LEMMA AnswerAsked ==
    ASSUME IInv, NEW f \in flight, flight' = flight \ {f}
    PROVE  /\ f.posted /\ UNCHANGED wire => Asked' = Asked
           /\ Doubt(f) => Asked' = Asked
           /\ ~f.posted /\ UNCHANGED wire =>
                /\ Asked[f.key] > 0
                /\ Asked' = [Asked EXCEPT ![f.key] = @ - 1]
<1>1. f.key \in Keys /\ f.posted \in BOOLEAN BY DEF IInv, TypeOK, FlightType
<1>2. flight = {f} /\ flight' = {} BY DEF IInv, OneSendAtATime
<1>3. \A j \in Keys : InDoubt(j) = wire[j] + (IF f.key = j /\ ~f.posted THEN 1 ELSE 0)
    BY <1>2, OneOpen DEF InDoubt
<1>4. \A j \in Keys : wire'[j] \in Nat => InDoubt(j)' = wire'[j] BY <1>2, NoneOpen DEF InDoubt
<1>5. \A j \in Keys : wire[j] \in Nat BY DEF IInv, TypeOK
<1>6. ASSUME f.posted, UNCHANGED wire PROVE Asked' = Asked
    BY <1>3, <1>4, <1>5, <1>6 DEF Asked
<1>7. ASSUME Doubt(f) PROVE Asked' = Asked
    <2>1. \A j \in Keys : wire'[j] = wire[j] + (IF f.key = j /\ ~f.posted THEN 1 ELSE 0)
        BY <1>1, <1>5, <1>7 DEF Doubt, IInv, TypeOK
    <2> QED BY <1>3, <1>4, <1>5, <2>1 DEF Asked
<1>8. ASSUME ~f.posted, UNCHANGED wire
      PROVE  Asked[f.key] > 0 /\ Asked' = [Asked EXCEPT ![f.key] = @ - 1]
    BY <1>1, <1>3, <1>4, <1>5, <1>8 DEF Asked
<1> QED BY <1>6, <1>7, <1>8

\* How an answer moves the row.
LEMMA AnswerState ==
    ASSUME IInv, NEW f \in flight
    PROVE  /\ f.key \in Keys /\ St[f.key] = "queued"
           /\ UNCHANGED row => St' = St
           /\ Recorded(f.key, "retrying") => St' = St
           /\ Recorded(f.key, "sent") => St' = [St EXCEPT ![f.key] = "confirmed"]
           /\ Recorded(f.key, "dead-letter") => St' = [St EXCEPT ![f.key] = "abandoned"]
<1>1. f.key \in Keys /\ Queued(f.key) BY DEF IInv, TypeOK, FlightType, OneSendAtATime
<1>2. DeliveryState(f.key) = "queued" BY <1>1 DEF DeliveryState, Queued
<1>3. UNCHANGED row => St' = St BY DEF St, DeliveryState, Queued
<1>4. ASSUME NEW s \in {"retrying", "sent", "dead-letter"}, Recorded(f.key, s)
      PROVE  /\ row'[f.key].status = s
             /\ \A j \in Keys \ {f.key} : DeliveryState(j)' = DeliveryState(j)
    <2>1. \A j \in Keys \ {f.key} : row'[j] = row[j] BY <1>4 DEF Recorded, IInv, TypeOK
    <2>2. row'[f.key].status = s BY <1>1, <1>4 DEF Recorded, IInv, TypeOK, RowType
    <2> QED BY <2>1, <2>2 DEF DeliveryState, Queued
<1>5. Recorded(f.key, "retrying") => St' = St
    <2> SUFFICES ASSUME Recorded(f.key, "retrying") PROVE St' = St OBVIOUS
    <2>1. DeliveryState(f.key)' = "queued" BY <1>4 DEF DeliveryState, Queued
    <2> QED BY <1>2, <1>4, <2>1 DEF St
<1>6. Recorded(f.key, "sent") => St' = [St EXCEPT ![f.key] = "confirmed"]
    <2> SUFFICES ASSUME Recorded(f.key, "sent") PROVE St' = [St EXCEPT ![f.key] = "confirmed"]
        OBVIOUS
    <2>1. DeliveryState(f.key)' = "confirmed" BY <1>4 DEF DeliveryState, Queued
    <2> QED BY <1>1, <1>4, <2>1 DEF St
<1>7. Recorded(f.key, "dead-letter") => St' = [St EXCEPT ![f.key] = "abandoned"]
    <2> SUFFICES ASSUME Recorded(f.key, "dead-letter")
                 PROVE  St' = [St EXCEPT ![f.key] = "abandoned"]
        OBVIOUS
    <2>1. DeliveryState(f.key)' = "abandoned" BY <1>4 DEF DeliveryState, Queued
    <2> QED BY <1>1, <1>4, <2>1 DEF St
<1> QED BY <1>1, <1>2, <1>3, <1>5, <1>6, <1>7 DEF St

LEMMA AnswerRefines ==
    ASSUME IInv, NEW f \in flight, Answer(f)
    PROVE  \/ Delivery!Lose(f.key) \/ Delivery!Settle(f.key)
           \/ St' = St /\ Asked' = Asked /\ posted' = posted
<1> USE DEF history, Finally
<1>1. f.key \in Keys /\ St[f.key] = "queued" BY AnswerState
<1>2. CASE Confirm(f)
    <2>1. Asked' = Asked /\ St' = [St EXCEPT ![f.key] = "confirmed"]
        BY <1>2, AnswerAsked, AnswerState DEF Confirm, Acknowledged
    <2>2. posted[f.key] > 0 BY <1>2 DEF Confirm, Acknowledged, IInv, ChatHolds
    <2> QED BY <1>1, <1>2, <2>1, <2>2 DEF Confirm, Delivery!Settle, St, Asked
<1>3. CASE ConfirmUnrecorded(f)
    <2>1. Asked' = Asked /\ (St' = St \/ St' = [St EXCEPT ![f.key] = "abandoned"])
        BY <1>3, AnswerAsked, AnswerState DEF ConfirmUnrecorded, Acknowledged
    <2> QED BY <1>1, <1>3, <2>1 DEF ConfirmUnrecorded, Delivery!Settle, St, Asked
<1>4. CASE RetryAmbiguous(f)
    <2>1. Asked' = Asked /\ St' = St
        BY <1>4, AnswerAsked, AnswerState DEF RetryAmbiguous, RetryWith
    <2> QED BY <1>4, <2>1 DEF RetryAmbiguous
<1>5. CASE RetryRateLimited(f)
    <2>1. /\ Asked[f.key] > 0 /\ Asked' = [Asked EXCEPT ![f.key] = @ - 1]
          /\ St' = St
        BY <1>5, AnswerAsked, AnswerState DEF RetryRateLimited, RetryWith
    <2> QED BY <1>1, <1>5, <2>1 DEF RetryRateLimited, Delivery!Lose, St, Asked
<1>6. CASE GiveUp(f)
    <2>1. St' = St \/ St' = [St EXCEPT ![f.key] = "abandoned"]
        BY <1>6, AnswerState DEF GiveUp
    <2>2. CASE ~f.posted /\ UNCHANGED wire
        <3>1. Asked[f.key] > 0 /\ Asked' = [Asked EXCEPT ![f.key] = @ - 1]
            BY <1>6, <2>2, AnswerAsked DEF GiveUp
        <3> QED BY <1>1, <1>6, <2>1, <3>1 DEF GiveUp, Delivery!Lose, St, Asked
    <2>3. CASE Doubt(f)
        <3>1. Asked' = Asked BY <1>6, <2>3, AnswerAsked DEF GiveUp
        <3> QED BY <1>1, <1>6, <2>1, <3>1 DEF GiveUp, Delivery!Settle, St, Asked
    <2> QED BY <1>6, <2>2, <2>3 DEF GiveUp
<1> QED BY <1>2, <1>3, <1>4, <1>5, <1>6 DEF Answer

LEMMA CrashRefines == ASSUME IInv, Crash PROVE St' = St /\ Asked' = Asked /\ posted' = posted
<1> USE DEF Crash, outbox
<1>1. \A k \in Keys : InDoubt(k) \in Nat
    <2> TAKE k \in Keys
    <2> DEFINE T == {f \in flight : f.key = k /\ ~f.posted}
    <2>1. Cardinality(T) = IF T = {} THEN 0 ELSE 1 BY FewSends DEF IInv, OneSendAtATime
    <2> HIDE DEF T
    <2>2. Cardinality(T) \in Nat BY <2>1
    <2> QED BY <2>2 DEF T, InDoubt, IInv, TypeOK
<1>2. \A k \in Keys : wire'[k] = InDoubt(k) BY DEF InDoubt
<1>3. \A k \in Keys : InDoubt(k)' = wire'[k] BY <1>1, <1>2, NoneOpen DEF InDoubt
<1>4. Asked' = Asked BY <1>2, <1>3 DEF Asked
<1>5. St' = St BY DEF St, DeliveryState, Queued
<1> QED BY <1>4, <1>5

LEMMA StepRefines ==
    IInv /\ [Next]_vars => [Delivery!DeliveryNext]_(Delivery!deliveryVars)
<1> SUFFICES ASSUME IInv, [Next]_vars
             PROVE  \/ Delivery!DeliveryNext
                    \/ St' = St /\ Asked' = Asked /\ posted' = posted
    BY DEF Delivery!deliveryVars, St, Asked
<1>1. CASE \E k \in Keys : Record(k)
    BY <1>1, RecordRefines DEF Delivery!DeliveryNext
<1>2. CASE Fire
    <2>1. CASE MayStart /\ \E k \in FirstDue : StartSend(k)
        <3>1. PICK k \in FirstDue : StartSend(k) BY <2>1
        <3>2. k \in Keys BY DEF FirstDue, Due
        <3> QED BY <1>2, <2>1, <3>1, <3>2, SendRefines DEF Fire, outbox, Delivery!DeliveryNext
    <2>2. CASE UNCHANGED <<running, flight, sends>>
        BY <1>2, <2>2 DEF Fire, outbox, St, Asked, DeliveryState, Queued, InDoubt
    <2> QED BY <1>2, <2>1, <2>2 DEF Fire
<1>3. CASE \E f \in flight : PostInFlight(f)
    <2>1. \A f \in flight : f.key \in Keys BY DEF IInv, TypeOK, FlightType
    <2> QED BY <1>3, <2>1, PostRefines DEF Delivery!DeliveryNext
<1>4. CASE \E f \in flight : Answer(f)
    <2>1. \A f \in flight : f.key \in Keys BY DEF IInv, TypeOK, FlightType
    <2> QED BY <1>4, <2>1, AnswerRefines DEF Delivery!DeliveryNext
<1>5. CASE \E k \in Keys : PostLate(k) \/ DropLate(k)
    BY <1>5, LateRefines DEF Delivery!DeliveryNext
<1>6. CASE Crash BY <1>6, CrashRefines
<1>7. CASE Poll \/ Restart \/ Booted \/ Tick
    BY <1>7 DEF Poll, Restart, Booted, Tick, outbox, history, St, Asked, DeliveryState, Queued, InDoubt
<1>8. CASE UNCHANGED vars BY <1>8 DEF vars, St, Asked, DeliveryState, Queued, InDoubt
<1> QED BY <1>1, <1>2, <1>3, <1>4, <1>5, <1>6, <1>7, <1>8 DEF Next

\* Timers, throttling, backoffs, lost counts, crashes and restarts never make
\* the outbox send a settled alert, or confirm one the chat does not have.
THEOREM Refinement == Spec => ImplementsDelivery
<1>1. Init => Delivery!DeliveryInit
    <2> SUFFICES ASSUME Init PROVE Delivery!DeliveryInit OBVIOUS
    <2>1. \A k \in Keys : InDoubt(k) = 0 BY NoneOpen DEF Init, InDoubt
    <2>2. \A k \in Keys : DeliveryState(k) = "absent" BY DEF Init, DeliveryState, Queued
    <2> QED BY <2>1, <2>2 DEF Init, Delivery!DeliveryInit
<1> QED BY <1>1, StepRefines, Invariance, PTL DEF Spec, ImplementsDelivery, Delivery!DeliverySpec

=============================================================================
