----------------------------- MODULE EdgeProofs -----------------------------
(***************************************************************************)
(* Safety at the edges of the server, where it meets browsers, sockets and *)
(* providers: the page it serves, for any durations of the scheduler and   *)
(* of the cache and any number of requests in the network; the sockets it  *)
(* listens to, for any number of them; the clients of its providers, for   *)
(* any callers, kinds of request and durations.                            *)
(***************************************************************************)
EXTENDS LivePage, Feeds, Upstream,
        FiniteSetTheorems, SequenceTheorems, WellFoundedInduction, TLAPS

-----------------------------------------------------------------------------
\* The page and the cache of snapshots: the inductive invariant.

RunRecord == [phase : {"free", "sent", "answered"}, age : 0..Timeout, lag : Nat \cup {Off},
              aborted : BOOLEAN, own : BOOLEAN]

PageType ==
    /\ active \in BOOLEAN /\ pendingImmediate \in BOOLEAN /\ healthy \in BOOLEAN
    /\ fallbackIn \in Nat \cup {Off} /\ timerIn \in Nat \cup {Off}
    /\ pendingFor \in (0..MaxWait) \cup {Off} /\ requestedFor \in (0..Debounce) \cup {Off}
    /\ completedFor \in 0..Cooldown
    /\ inFlight \in Runs \cup {None} /\ runs \in [Runs -> RunRecord]
    /\ shownLag \in Nat \cup {Off}
    /\ stream \in {"connecting", "open", "none"}

CacheType ==
    /\ builtFor \in (0..CacheMaxAge) \cup {NoSnapshot}
    /\ cacheLag \in Nat \cup {NoLag} /\ versionMoved \in BOOLEAN

\* A change that the cached snapshot misses was made after it was built.
CacheIsDated == builtFor # NoSnapshot /\ builtFor < CacheMaxAge => cacheLag <= builtFor

\* A hidden page waits for nothing, and its run is aborted.
HiddenIsQuiet ==
    ~active =>
        /\ fallbackIn = Off /\ timerIn = Off /\ pendingFor = Off
        /\ stream = "none" /\ ~healthy
        /\ \A r \in Unsettled : runs[r].aborted

\* The run that is waited for is the one that has not settled, and if it is not aborted
\* it began in this life of the page.
OneRun ==
    /\ \A r \in Runs : r \in Unsettled <=> r = inFlight
    /\ \A r \in Unsettled : ~runs[r].aborted => runs[r].own

\* The refresh timer of a pending request: not before the cooldown, nor beyond the maximum
\* wait; an immediate request waits for the cooldown alone.
Scheduled ==
    /\ active => fallbackIn \in 0..Fallback
    /\ pendingImmediate => pendingFor # Off
    /\ pendingFor # Off => requestedFor # Off
    /\ active /\ pendingFor # Off /\ inFlight = None =>
        /\ timerIn # Off /\ timerIn >= Cooldown - completedFor
        /\ timerIn <= 0 \/ timerIn <= MaxWait - pendingFor \/ timerIn <= Cooldown - completedFor
        /\ pendingImmediate => timerIn <= Cooldown - completedFor

\* The staleness that a page may have when it starts a request, and how it gets there: an
\* answer is as old as the cache allows and as its run is; from then on the interval, or
\* the timer of the request it has made, runs down faster than the limit is used up.
Tolerated == (CacheMaxAge - 1) + Timeout + Cooldown
Fresh ==
    /\ \A r \in Runs : runs[r].phase = "answered" /\ ~runs[r].aborted =>
        runs[r].lag <= (CacheMaxAge - 1) + runs[r].age
    /\ healthy /\ inFlight = None =>
        /\ completedFor < Cooldown => shownLag <= (CacheMaxAge - 1) + Timeout + completedFor
        /\ pendingImmediate => shownLag + timerIn <= Tolerated
        /\ ~pendingImmediate => shownLag + fallbackIn <= Tolerated
    /\ healthy /\ inFlight # None => shownLag <= Tolerated + runs[inFlight].age
    /\ active /\ inFlight # None /\ ~pendingImmediate /\ ~runs[inFlight].aborted =>
        runs[inFlight].age + fallbackIn <= Fallback

PageInv == PageType /\ HiddenIsQuiet /\ OneRun /\ Scheduled /\ Fresh
CacheInv == CacheType /\ CacheIsDated
LivePageInv == PageInv /\ CacheInv
-----------------------------------------------------------------------------
\* The time a pending request still has to wait.

LEMMA MaxOfThree ==
    ASSUME NEW a \in Int, NEW b \in Int, NEW c \in Int
    PROVE  /\ Max({a, b, c}) \in {a, b, c}
           /\ Max({a, b, c}) >= a /\ Max({a, b, c}) >= b /\ Max({a, b, c}) >= c
<1> DEFINE S == {a, b, c}
<1>1. \E x \in S : \A y \in S : x >= y
    <2>1. CASE a >= b /\ a >= c BY <2>1
    <2>2. CASE b >= a /\ b >= c BY <2>2
    <2>3. CASE c >= a /\ c >= b BY <2>3
    <2> QED BY <2>1, <2>2, <2>3
<1>2. Max(S) \in S /\ \A y \in S : Max(S) >= y
    <2> HIDE DEF S
    <2> QED BY <1>1 DEF Max
<1> QED BY <1>2

LEMMA MinOfTwo ==
    ASSUME NEW a \in Int, NEW b \in Int
    PROVE  Min({a, b}) \in {a, b} /\ Min({a, b}) <= a /\ Min({a, b}) <= b
<1> DEFINE S == {a, b}
<1>1. \E x \in S : \A y \in S : x <= y
    <2>1. CASE a <= b BY <2>1
    <2>2. CASE b <= a BY <2>2
    <2> QED BY <2>1, <2>2
<1>2. Min(S) \in S /\ \A y \in S : Min(S) <= y
    <2> HIDE DEF S
    <2> QED BY <1>1 DEF Min
<1> QED BY <1>2

\* PendingDueIn, of any times.
DueOf(pf, rf, im, cf) ==
    Max({0, IF im THEN -pf ELSE Min({Debounce - rf, MaxWait - pf}), Cooldown - cf})

DueIsBounded(due, pf, im, cf) ==
    /\ due \in Nat /\ due >= Cooldown - cf
    /\ due <= 0 \/ due <= MaxWait - pf \/ due <= Cooldown - cf
    /\ im => due = Cooldown - cf

LEMMA DueBounds ==
    ASSUME NEW pf \in 0..MaxWait, NEW rf \in 0..Debounce, NEW im \in BOOLEAN, NEW cf \in 0..Cooldown
    PROVE  DueIsBounded(DueOf(pf, rf, im, cf), pf, im, cf)
<1> DEFINE b == IF im THEN -pf ELSE Min({Debounce - rf, MaxWait - pf})
           d == Cooldown - cf
           due == Max({0, b, d})
<1>1. MaxWait \in Nat /\ Debounce \in Nat /\ Cooldown \in Nat BY DurationsAssumption
<1>2. b \in Int /\ b <= MaxWait - pf /\ (im => b <= 0)
    <2>1. CASE im BY <1>1, <2>1
    <2>2. CASE ~im
        <3>1. Debounce - rf \in Int /\ MaxWait - pf \in Int BY <1>1
        <3>2. /\ Min({Debounce - rf, MaxWait - pf}) \in {Debounce - rf, MaxWait - pf}
              /\ Min({Debounce - rf, MaxWait - pf}) <= MaxWait - pf
            BY <3>1, MinOfTwo
        <3>3. b = Min({Debounce - rf, MaxWait - pf}) BY <2>2
        <3> HIDE DEF b
        <3> QED BY <2>2, <3>1, <3>2, <3>3
    <2> QED BY <2>1, <2>2
<1>3. d \in Nat /\ 0 \in Int BY <1>1
<1>4. DueOf(pf, rf, im, cf) = due BY DEF DueOf
<1> HIDE DEF b, d
<1>5. due \in {0, b, d} /\ due >= 0 /\ due >= b /\ due >= d
    <2>1. b \in Int /\ d \in Int BY <1>2, <1>3
    <2> DEFINE zero == 0
    <2>2. zero \in Int OBVIOUS
    <2>3. due = Max({zero, b, d}) OBVIOUS
    <2> HIDE DEF zero, due
    <2>4. due \in {zero, b, d} /\ due >= zero /\ due >= b /\ due >= d
        BY <2>1, <2>2, <2>3, MaxOfThree
    <2> QED BY <2>4 DEF zero
<1> HIDE DEF due
<1>6. /\ due \in Nat /\ due >= d /\ (due <= 0 \/ due <= MaxWait - pf \/ due <= d)
      /\ im => due = d
    BY <1>1, <1>2, <1>3, <1>5
<1> QED BY <1>4, <1>6 DEF DueIsBounded, d

LEMMA DueNow ==
    ASSUME pendingFor \in 0..MaxWait, requestedFor \in 0..Debounce,
           pendingImmediate \in BOOLEAN, completedFor \in 0..Cooldown
    PROVE  DueIsBounded(PendingDueIn, pendingFor, pendingImmediate, completedFor)
BY DueBounds DEF PendingDueIn, DueOf

LEMMA DueNext ==
    ASSUME pendingFor' \in 0..MaxWait, requestedFor' \in 0..Debounce,
           pendingImmediate' \in BOOLEAN, completedFor' \in 0..Cooldown
    PROVE  DueIsBounded(PendingDueIn', pendingFor', pendingImmediate', completedFor')
<1>1. PICK pf \in 0..MaxWait, rf \in 0..Debounce, im \in BOOLEAN, cf \in 0..Cooldown :
        pf = pendingFor' /\ rf = requestedFor' /\ im = pendingImmediate' /\ cf = completedFor'
    OBVIOUS
<1>2. DueIsBounded(DueOf(pf, rf, im, cf), pf, im, cf) BY DueBounds
<1>3. PendingDueIn' = DueOf(pf, rf, im, cf) BY <1>1 DEF PendingDueIn, DueOf
<1> QED BY <1>1, <1>2, <1>3
\* schedulePending leaves the timer of a request that may be made set, and any other as
\* its caller has left it.
LEMMA TimerNext ==
    ASSUME active' \in BOOLEAN, pendingImmediate' \in BOOLEAN, completedFor' \in 0..Cooldown,
           pendingFor' \in (0..MaxWait) \cup {Off}, requestedFor' \in (0..Debounce) \cup {Off},
           pendingFor' # Off => requestedFor' # Off,
           NEW timer \in Nat \cup {Off}, SchedulePending(timer)
    PROVE  /\ timerIn' \in Nat \cup {Off}
           /\ active' /\ pendingFor' # Off /\ inFlight' = None =>
                /\ timerIn' \in Nat /\ timerIn' # Off
                /\ DueIsBounded(timerIn', pendingFor', pendingImmediate', completedFor')
           /\ ~(active' /\ pendingFor' # Off /\ inFlight' = None) => timerIn' = timer
<1>1. CASE active' /\ pendingFor' # Off /\ inFlight' = None
    <2>1. timerIn' = PendingDueIn' BY <1>1 DEF SchedulePending
    <2>2. DueIsBounded(PendingDueIn', pendingFor', pendingImmediate', completedFor')
        BY <1>1, DueNext
    <2>3. PendingDueIn' \in Nat BY <2>2 DEF DueIsBounded
    <2> QED BY <1>1, <2>1, <2>2, <2>3 DEF Off
<1>2. CASE ~(active' /\ pendingFor' # Off /\ inFlight' = None)
    BY <1>2 DEF SchedulePending
<1> QED BY <1>1, <1>2

-----------------------------------------------------------------------------
\* The steps of the page.

LEMMA RequestInv ==
    ASSUME PageInv, active, NEW immediate \in BOOLEAN, Request(immediate),
           UNCHANGED <<runs, stream, shownLag, healthy>>,
           fallbackIn' = fallbackIn \/ (immediate /\ fallbackIn' = Fallback)
    PROVE  PageInv'
<1> USE DurationsAssumption, CacheAssumption
<1>1. PageType /\ OneRun /\ Scheduled /\ Fresh BY DEF PageInv
<1>2. /\ active' = TRUE /\ inFlight' = inFlight /\ completedFor' = completedFor
      /\ requestedFor' = 0
      /\ pendingImmediate' = (pendingImmediate \/ immediate)
      /\ pendingFor' = IF pendingFor = Off THEN 0 ELSE pendingFor
      /\ SchedulePending(timerIn)
    BY <1>1 DEF Request, PageType
<1>3. /\ pendingFor' \in 0..MaxWait /\ pendingFor' # Off
      /\ requestedFor' \in 0..Debounce /\ requestedFor' # Off
      /\ pendingImmediate' \in BOOLEAN /\ completedFor' \in 0..Cooldown
    BY <1>1, <1>2 DEF PageType, Off
<1>4. /\ timerIn' \in Nat \cup {Off}
      /\ inFlight = None =>
            /\ timerIn' \in Nat
            /\ DueIsBounded(timerIn', pendingFor', pendingImmediate', completedFor')
      /\ inFlight # None => timerIn' = timerIn
    BY <1>1, <1>2, <1>3, TimerNext DEF PageType
<1>5. PageType'
    <2>1. fallbackIn' \in Nat \cup {Off} BY <1>1 DEF PageType
    <2> QED BY <1>1, <1>2, <1>3, <1>4, <2>1 DEF PageType
<1>6. HiddenIsQuiet' BY <1>2 DEF HiddenIsQuiet
<1>7. OneRun' BY <1>1, <1>2 DEF OneRun, Unsettled
<1>8. fallbackIn \in 0..Fallback /\ fallbackIn' \in 0..Fallback BY <1>1 DEF Scheduled
<1>9. Scheduled'
    BY <1>2, <1>3, <1>4, <1>8 DEF Scheduled, DueIsBounded, Off
<1>10. Fresh'
    <2>1. inFlight # None /\ ~pendingImmediate' /\ ~runs[inFlight].aborted =>
            runs[inFlight].age + fallbackIn' <= Fallback
        BY <1>1, <1>2 DEF Fresh, PageType
    <2>2. ASSUME healthy, inFlight = None
          PROVE  /\ pendingImmediate' => shownLag + timerIn' <= Tolerated
                 /\ ~pendingImmediate' => shownLag + fallbackIn' <= Tolerated
        <3>1. /\ completedFor < Cooldown => shownLag <= (CacheMaxAge - 1) + Timeout + completedFor
              /\ pendingImmediate => shownLag + timerIn <= Tolerated
              /\ ~pendingImmediate => shownLag + fallbackIn <= Tolerated
            BY <1>1, <2>2 DEF Fresh
        <3>2. shownLag \in Int /\ completedFor \in 0..Cooldown /\ Tolerated \in Int
            BY <1>1 DEF PageType, Off, Tolerated
        <3>3. pendingImmediate => timerIn \in Nat BY <1>1, <2>2 DEF Scheduled, PageType
        <3>4. completedFor = Cooldown => shownLag <= Tolerated
            BY <1>8, <3>1, <3>2, <3>3
        <3>5. pendingImmediate' => timerIn' = Cooldown - completedFor
            BY <1>2, <1>4, <2>2 DEF DueIsBounded
        <3>6. pendingImmediate' => shownLag + timerIn' <= Tolerated
            BY <3>1, <3>2, <3>4, <3>5 DEF Tolerated
        <3>7. ~pendingImmediate' => ~pendingImmediate /\ fallbackIn' = fallbackIn
            BY <1>2 
        <3> QED BY <3>1, <3>6, <3>7
    <2> QED BY <1>1, <1>2, <2>1, <2>2 DEF Fresh, Tolerated
<1> QED BY <1>5, <1>6, <1>7, <1>9, <1>10 DEF PageInv
LEMMA ShownInv == ASSUME PageInv, PageShown PROVE PageInv'
<1> USE DurationsAssumption
<1>1. PageType /\ HiddenIsQuiet /\ OneRun /\ Scheduled /\ Fresh BY DEF PageInv
<1>2. /\ ~active /\ active' = TRUE
      /\ completedFor' = Cooldown /\ fallbackIn' = Fallback
      /\ stream' \in {"connecting", "none"}
      /\ pendingFor' = 0 /\ requestedFor' = 0 /\ pendingImmediate' = TRUE
      /\ inFlight' = inFlight /\ shownLag' = shownLag /\ healthy' = healthy
      /\ SchedulePending(timerIn)
    BY DEF PageShown
<1>3. \A r \in Runs :
        /\ runs'[r] = [runs[r] EXCEPT !.own = FALSE]
        /\ runs'[r] \in RunRecord
        /\ runs'[r].phase = runs[r].phase /\ runs'[r].aborted = runs[r].aborted
        /\ runs'[r].lag = runs[r].lag /\ runs'[r].age = runs[r].age
    BY <1>1 DEF PageShown, NewGeneration, PageType, RunRecord
<1>4. runs' \in [Runs -> RunRecord]
    <2>1. runs' = [r \in Runs |-> runs'[r]] BY DEF PageShown, NewGeneration
    <2> QED BY <1>3, <2>1
<1>5. /\ timerIn' \in Nat \cup {Off}
      /\ inFlight = None =>
            timerIn' \in Nat /\ DueIsBounded(timerIn', pendingFor', pendingImmediate', completedFor')
    <2>1. /\ active' \in BOOLEAN /\ pendingImmediate' \in BOOLEAN /\ completedFor' \in 0..Cooldown
          /\ pendingFor' \in 0..MaxWait /\ requestedFor' \in 0..Debounce
          /\ pendingFor' # Off /\ requestedFor' # Off /\ timerIn \in Nat \cup {Off}
        BY <1>1, <1>2 DEF PageType, Off
    <2> QED BY <1>2, <2>1, TimerNext
<1>6. PageType' BY <1>1, <1>2, <1>4, <1>5 DEF PageType
<1>7. HiddenIsQuiet' BY <1>2 DEF HiddenIsQuiet
<1>8. Unsettled' = Unsettled BY <1>3 DEF Unsettled
<1>9. OneRun' BY <1>1, <1>2, <1>3, <1>8 DEF OneRun, HiddenIsQuiet, Unsettled
<1>10. Scheduled' BY <1>2, <1>5 DEF Scheduled, DueIsBounded, Off
<1>11. Fresh'
    <2>1. ~healthy' BY <1>1, <1>2 DEF HiddenIsQuiet
    <2>2. \A r \in Runs : runs'[r].phase = "answered" /\ ~runs'[r].aborted =>
            runs'[r].lag <= (CacheMaxAge - 1) + runs'[r].age
        BY <1>1, <1>3 DEF Fresh
    <2> QED BY <1>2, <2>1, <2>2 DEF Fresh
<1> QED BY <1>6, <1>7, <1>9, <1>10, <1>11 DEF PageInv

LEMMA HiddenInv == ASSUME PageInv, PageHidden PROVE PageInv'
<1>1. PageType /\ OneRun /\ Scheduled /\ Fresh BY DEF PageInv
<1>2. /\ active' = FALSE /\ stream' = "none" /\ fallbackIn' = Off /\ timerIn' = Off
      /\ pendingFor' = Off /\ requestedFor' = Off /\ pendingImmediate' = FALSE /\ healthy' = FALSE
      /\ UNCHANGED <<completedFor, inFlight, shownLag>>
    BY DEF PageHidden
<1>3. \A r \in Runs :
        /\ runs'[r] \in RunRecord
        /\ runs'[r].phase = runs[r].phase /\ runs'[r].lag = runs[r].lag /\ runs'[r].age = runs[r].age
        /\ runs'[r].aborted = (runs[r].aborted \/ r = inFlight)
    BY <1>1 DEF PageHidden, PageType, RunRecord
<1>4. runs' \in [Runs -> RunRecord]
    <2>1. runs' = [r \in Runs |-> runs'[r]] BY DEF PageHidden
    <2> QED BY <1>3, <2>1
<1>5. PageType' BY <1>1, <1>2, <1>4 DEF PageType
<1>6. Unsettled' = Unsettled BY <1>3 DEF Unsettled
<1>7. \A r \in Unsettled' : runs'[r].aborted BY <1>1, <1>3, <1>6 DEF OneRun, Unsettled
<1>8. HiddenIsQuiet' BY <1>2, <1>7 DEF HiddenIsQuiet
<1>9. OneRun' BY <1>1, <1>2, <1>6, <1>7 DEF OneRun
<1>10. Scheduled' BY <1>2 DEF Scheduled
<1>11. Fresh'
    <2>1. \A r \in Runs : runs'[r].phase = "answered" /\ ~runs'[r].aborted =>
            runs'[r].lag <= (CacheMaxAge - 1) + runs'[r].age
        BY <1>1, <1>3 DEF Fresh
    <2> QED BY <1>2, <2>1 DEF Fresh
<1> QED BY <1>5, <1>8, <1>9, <1>10, <1>11 DEF PageInv

LEMMA StreamChangesInv == ASSUME PageInv, StreamChanges PROVE PageInv'
<1>1. stream' \in {"connecting", "open", "none"} /\ active /\ active' = active
    BY DEF StreamChanges, PageInv, PageType, HiddenIsQuiet
<1>2. UNCHANGED <<active, fallbackIn, timerIn, pendingFor, requestedFor, pendingImmediate,
                  completedFor, inFlight, runs, shownLag, healthy>>
    BY DEF StreamChanges
<1> HIDE DEF StreamChanges
<1>3. PageType' BY <1>1, <1>2 DEF PageInv, PageType
<1>4. HiddenIsQuiet' BY <1>1 DEF HiddenIsQuiet
<1>5. OneRun' BY <1>2 DEF PageInv, OneRun, Unsettled
<1>6. Scheduled' BY <1>2 DEF PageInv, Scheduled
<1>7. Fresh' BY <1>2 DEF PageInv, Fresh
<1> QED BY <1>3, <1>4, <1>5, <1>6, <1>7 DEF PageInv

\* A pending request becomes the run, when there is none.
LEMMA RefreshTimerInv == ASSUME PageInv, RefreshTimerFires PROVE PageInv'
<1> USE DurationsAssumption, CacheAssumption
<1>1. PageType /\ HiddenIsQuiet /\ OneRun /\ Scheduled /\ Fresh BY DEF PageInv
<1>2. UNCHANGED <<fallbackIn, stream, shownLag, healthy>> /\ timerIn \in {0, 1}
    BY DEF RefreshTimerFires
<1>3. active BY <1>1, <1>2 DEF HiddenIsQuiet, Off
<1>4. CASE inFlight = None /\ pendingFor # Off /\ PendingDueIn = 0
    <2> DEFINE q == inFlight'
               new == [Free EXCEPT !.phase = "sent", !.own = TRUE]
    <2>1. /\ q = CHOOSE r \in Runs \ Unsettled : TRUE
          /\ runs' = [runs EXCEPT ![q] = new]
          /\ pendingFor' = Off /\ requestedFor' = Off /\ pendingImmediate' = FALSE
          /\ timerIn' = Off /\ active' = active /\ completedFor' = completedFor
        BY <1>3, <1>4 DEF RefreshTimerFires
    <2>2. q \in Runs
        <3>1. Unsettled = {} BY <1>1, <1>4 DEF OneRun, Unsettled, Runs, None
        <3>2. 1 \in Runs BY DEF Runs
        <3> QED BY <2>1, <3>1, <3>2
    <2>3. q # None BY <2>2 DEF Runs, None
    <2>4. /\ new = [phase |-> "sent", age |-> 0, lag |-> Off, aborted |-> FALSE, own |-> TRUE]
          /\ new \in RunRecord
        <3>1. new = [phase |-> "sent", age |-> 0, lag |-> Off, aborted |-> FALSE, own |-> TRUE]
            <4>1. PICK f : f = Free OBVIOUS
            <4>2. new = [f EXCEPT !.phase = "sent", !.own = TRUE] BY <4>1
            <4> HIDE DEF new
            <4> QED BY <4>1, <4>2 DEF Free
        <3>2. 0 \in 0..Timeout OBVIOUS
        <3> HIDE DEF new
        <3> QED BY <3>1, <3>2 DEF RunRecord
    <2> HIDE DEF new, q
    <2>5. /\ runs'[q] = new /\ \A r \in Runs \ {q} : runs'[r] = runs[r]
          /\ runs' \in [Runs -> RunRecord]
        BY <1>1, <2>1, <2>2, <2>4 DEF PageType
    <2>6. PageType' BY <1>1, <1>2, <2>1, <2>2, <2>5 DEF PageType, q
    <2>7. \A r \in Runs : r \in Unsettled' <=> r = q
        <3>1. \A r \in Runs : r \notin Unsettled BY <1>1, <1>4 DEF OneRun, Runs, None
        <3> QED BY <2>2, <2>4, <2>5, <3>1 DEF Unsettled
    <2>8. OneRun' BY <2>4, <2>5, <2>7 DEF OneRun, Unsettled, q
    <2>9. HiddenIsQuiet' BY <1>3, <2>1 DEF HiddenIsQuiet
    <2>10. Scheduled' BY <1>1, <1>2, <2>1 DEF Scheduled
    <2>11. Fresh'
        <3>1. \A r \in Runs : runs'[r].phase = "answered" /\ ~runs'[r].aborted =>
                runs'[r].lag <= (CacheMaxAge - 1) + runs'[r].age
            BY <1>1, <2>4, <2>5 DEF Fresh
        <3>2. healthy => shownLag <= Tolerated
            <4> SUFFICES ASSUME healthy PROVE shownLag <= Tolerated OBVIOUS
            <4>1. /\ pendingImmediate => shownLag + timerIn <= Tolerated
                  /\ ~pendingImmediate => shownLag + fallbackIn <= Tolerated
                BY <1>1, <1>4 DEF Fresh
            <4>2. shownLag \in Int /\ Tolerated \in Int BY <1>1 DEF PageType, Off, Tolerated
            <4>3. timerIn \in Nat /\ fallbackIn \in Nat BY <1>1, <1>2, <1>3 DEF Scheduled
            <4>4. pendingImmediate \in BOOLEAN BY <1>1 DEF PageType
            <4> QED BY <4>1, <4>2, <4>3, <4>4
        <3>3. runs'[q].age = 0 /\ fallbackIn' <= Fallback
            BY <1>1, <1>2, <1>3, <2>4, <2>5 DEF Scheduled
        <3>4. shownLag \in Int /\ Tolerated \in Int /\ fallbackIn' \in Int
            BY <1>1, <1>2 DEF PageType, Off, Tolerated
        <3>5. healthy' => shownLag' <= Tolerated + runs'[q].age BY <1>2, <3>2, <3>3, <3>4
        <3>6. runs'[q].age + fallbackIn' <= Fallback BY <3>3, <3>4
        <3> QED BY <2>3, <3>1, <3>5, <3>6 DEF Fresh, q, Tolerated
    <2> QED BY <2>6, <2>8, <2>9, <2>10, <2>11 DEF PageInv
<1>5. CASE ~(inFlight = None /\ pendingFor # Off /\ PendingDueIn = 0)
    <2>1. /\ UNCHANGED <<active, pendingFor, requestedFor, pendingImmediate, completedFor,
                         inFlight, runs>>
          /\ SchedulePending(Off)
        BY <1>5 DEF RefreshTimerFires
    <2>2. /\ timerIn' \in Nat \cup {Off}
          /\ pendingFor # Off /\ inFlight = None =>
                /\ timerIn' \in Nat
                /\ DueIsBounded(timerIn', pendingFor', pendingImmediate', completedFor')
        BY <1>1, <1>3, <2>1, TimerNext DEF PageType, Scheduled
    <2>3. PageType' BY <1>1, <1>2, <2>1, <2>2 DEF PageType
    <2>4. HiddenIsQuiet' BY <1>3, <2>1 DEF HiddenIsQuiet
    <2>5. OneRun' BY <1>1, <2>1 DEF OneRun, Unsettled
    <2>6. Scheduled' BY <1>1, <1>2, <1>3, <2>1, <2>2 DEF Scheduled, DueIsBounded, Off
    <2>7. Fresh'
        <3>1. ASSUME healthy, inFlight = None, pendingImmediate
              PROVE  shownLag + timerIn' <= Tolerated
            <4>1. timerIn' = Cooldown - completedFor
                BY <1>1, <2>1, <2>2, <3>1 DEF Scheduled, DueIsBounded
            <4>2. /\ completedFor < Cooldown => shownLag <= (CacheMaxAge - 1) + Timeout + completedFor
                  /\ shownLag + timerIn <= Tolerated
                BY <1>1, <3>1 DEF Fresh
            <4>3. /\ shownLag \in Int /\ completedFor \in 0..Cooldown /\ Tolerated \in Int
                  /\ timerIn \in Nat
                BY <1>1, <1>2 DEF PageType, Off, Tolerated
            <4>4. CASE completedFor < Cooldown BY <4>1, <4>2, <4>3, <4>4 DEF Tolerated
            <4>5. CASE completedFor = Cooldown BY <4>1, <4>2, <4>3, <4>5
            <4> QED BY <4>3, <4>4, <4>5
        <3> QED BY <1>1, <1>2, <2>1, <3>1 DEF Fresh
    <2> QED BY <2>3, <2>4, <2>5, <2>6, <2>7 DEF PageInv
<1> QED BY <1>4, <1>5
LEMMA TimeoutInv == ASSUME PageInv, NEW r \in Runs, TimeoutFires(r) PROVE PageInv'
<1>1. PageType /\ HiddenIsQuiet /\ OneRun /\ Scheduled /\ Fresh BY DEF PageInv
<1>2. /\ UNCHANGED <<active, fallbackIn, timerIn, pendingFor, requestedFor, pendingImmediate,
                     completedFor, inFlight, stream, shownLag, healthy>>
      /\ runs' = [runs EXCEPT ![r].aborted = TRUE]
    BY DEF TimeoutFires
<1>3. /\ runs' \in [Runs -> RunRecord]
      /\ \A q \in Runs :
            /\ runs'[q].phase = runs[q].phase /\ runs'[q].lag = runs[q].lag
            /\ runs'[q].age = runs[q].age /\ runs'[q].own = runs[q].own
            /\ runs'[q].aborted = (runs[q].aborted \/ q = r)
    BY <1>1, <1>2 DEF PageType, RunRecord
<1>4. PageType' BY <1>1, <1>2, <1>3 DEF PageType
<1>5. Unsettled' = Unsettled BY <1>3 DEF Unsettled
<1>6. HiddenIsQuiet' BY <1>1, <1>2, <1>3, <1>5 DEF HiddenIsQuiet, Unsettled
<1>7. OneRun' BY <1>1, <1>2, <1>3, <1>5 DEF OneRun, Unsettled
<1>8. Scheduled' BY <1>1, <1>2 DEF Scheduled
<1>9. Fresh'
    <2>1. inFlight # None => inFlight \in Runs BY <1>1 DEF PageType
    <2> QED BY <1>1, <1>2, <1>3, <2>1 DEF Fresh
<1> QED BY <1>4, <1>6, <1>7, <1>8, <1>9 DEF PageInv

LEMMA AnsweredInv ==
    ASSUME PageInv, NEW r \in Runs, NEW lag \in Nat \cup {Off}, lag <= CacheMaxAge - 1,
           Answered(r, lag)
    PROVE  PageInv'
<1> USE CacheAssumption, DurationsAssumption
<1>1. PageType /\ HiddenIsQuiet /\ OneRun /\ Scheduled /\ Fresh BY DEF PageInv
<1>2. /\ UNCHANGED <<active, fallbackIn, timerIn, pendingFor, requestedFor, pendingImmediate,
                     completedFor, inFlight, stream, shownLag, healthy>>
      /\ runs[r].phase = "sent"
      /\ runs' = [runs EXCEPT ![r].phase = "answered", ![r].lag = lag]
    BY DEF Answered
<1>3. /\ runs' \in [Runs -> RunRecord]
      /\ \A q \in Runs :
            /\ runs'[q].phase = "free" <=> runs[q].phase = "free"
            /\ runs'[q].age = runs[q].age /\ runs'[q].own = runs[q].own
            /\ runs'[q].aborted = runs[q].aborted
            /\ q # r => runs'[q] = runs[q]
      /\ runs'[r].lag = lag
    BY <1>1, <1>2 DEF PageType, RunRecord
<1>4. PageType' BY <1>1, <1>2, <1>3 DEF PageType
<1>5. Unsettled' = Unsettled BY <1>3 DEF Unsettled
<1>6. HiddenIsQuiet' BY <1>1, <1>2, <1>3, <1>5 DEF HiddenIsQuiet, Unsettled
<1>7. OneRun' BY <1>1, <1>2, <1>3, <1>5 DEF OneRun, Unsettled
<1>8. Scheduled' BY <1>1, <1>2 DEF Scheduled
<1>9. Fresh'
    <2>1. inFlight # None => inFlight \in Runs BY <1>1 DEF PageType
    <2>2. lag <= (CacheMaxAge - 1) + runs'[r].age
        <3>1. runs'[r].age \in Nat /\ lag \in Int BY <1>3 DEF RunRecord, Off
        <3> QED BY <3>1
    <2> QED BY <1>1, <1>2, <1>3, <2>1, <2>2 DEF Fresh
<1> QED BY <1>4, <1>6, <1>7, <1>8, <1>9 DEF PageInv

\* What the end of the run does to all but the lag and the health of the page.
LEMMA SettledInv ==
    ASSUME PageInv, NEW r \in Runs, r \in Unsettled, Settled(r),
           shownLag' \in Nat \cup {Off}, healthy' \in BOOLEAN
    PROVE  /\ PageType' /\ OneRun' /\ Scheduled'
           /\ HiddenIsQuiet \/ active
           /\ (~active => ~healthy') => HiddenIsQuiet'
           /\ inFlight = r /\ inFlight' = None
           /\ completedFor' = IF runs[r].own THEN 0 ELSE completedFor
           /\ UNCHANGED <<active, fallbackIn, pendingFor, pendingImmediate>>
           /\ active /\ pendingFor # Off =>
                timerIn' \in Nat /\ DueIsBounded(timerIn', pendingFor', pendingImmediate', completedFor')
           /\ runs'[r] = Free /\ \A q \in Runs \ {r} : runs'[q] = runs[q]
<1> USE DurationsAssumption
<1>1. PageType /\ HiddenIsQuiet /\ OneRun /\ Scheduled BY DEF PageInv
<1>2. inFlight = r /\ r # None BY <1>1 DEF OneRun, Runs, None
<1>3. /\ UNCHANGED <<active, fallbackIn, pendingFor, requestedFor, pendingImmediate, stream>>
      /\ inFlight' = None /\ runs' = [runs EXCEPT ![r] = Free]
      /\ completedFor' = IF runs[r].own THEN 0 ELSE completedFor
      /\ SchedulePending(timerIn)
    BY <1>2 DEF Settled
<1>4. completedFor' \in 0..Cooldown BY <1>1, <1>3 DEF PageType
<1>5. /\ timerIn' \in Nat \cup {Off}
      /\ active /\ pendingFor # Off =>
            timerIn' \in Nat /\ DueIsBounded(timerIn', pendingFor', pendingImmediate', completedFor')
      /\ ~active => timerIn' = timerIn
    <2>1. /\ active' \in BOOLEAN /\ pendingImmediate' \in BOOLEAN
          /\ pendingFor' \in (0..MaxWait) \cup {Off} /\ requestedFor' \in (0..Debounce) \cup {Off}
          /\ pendingFor' # Off => requestedFor' # Off
          /\ timerIn \in Nat \cup {Off}
        BY <1>1, <1>3 DEF PageType, Scheduled
    <2> QED BY <1>3, <1>4, <2>1, TimerNext
<1>6. Free \in RunRecord BY DEF Free, RunRecord
<1>7. /\ runs' \in [Runs -> RunRecord] /\ runs'[r] = Free
      /\ \A q \in Runs \ {r} : runs'[q] = runs[q]
    <2> HIDE DEF Free
    <2> QED BY <1>1, <1>3, <1>6 DEF PageType
<1>8. PageType' BY <1>1, <1>3, <1>4, <1>5, <1>7 DEF PageType
<1>9. \A q \in Runs : q \notin Unsettled'
    <2>1. Free.phase = "free" BY DEF Free
    <2>2. \A q \in Runs \ {r} : runs[q].phase = "free" BY <1>1, <1>2 DEF OneRun, Unsettled
    <2> QED BY <1>7, <2>1, <2>2 DEF Unsettled
<1>10. OneRun' BY <1>3, <1>9 DEF OneRun, Unsettled, Runs, None
<1>11. Scheduled' BY <1>1, <1>3, <1>5 DEF Scheduled, DueIsBounded, Off
<1>12. (~active => ~healthy') => HiddenIsQuiet'
    BY <1>1, <1>3, <1>5, <1>9 DEF HiddenIsQuiet, Unsettled
<1> QED BY <1>1, <1>2, <1>3, <1>5, <1>7, <1>8, <1>10, <1>11, <1>12

LEMMA DeliveredInv == ASSUME PageInv, NEW r \in Runs, Delivered(r) PROVE PageInv'
<1> USE DurationsAssumption, CacheAssumption, IntervalAssumption
<1>1. PageType /\ HiddenIsQuiet /\ OneRun /\ Scheduled /\ Fresh BY DEF PageInv
<1>2. /\ runs[r].phase = "answered" /\ ~runs[r].aborted /\ Settled(r)
      /\ shownLag' = runs[r].lag /\ healthy' = TRUE
    BY DEF Delivered
<1>3. r \in Unsettled BY <1>2 DEF Unsettled
<1>4. active /\ runs[r].own BY <1>1, <1>2, <1>3 DEF HiddenIsQuiet, OneRun, PageType
<1>5. runs[r].lag \in Nat \cup {Off} /\ runs[r].age \in 0..Timeout BY <1>1 DEF PageType, RunRecord
<1>6. /\ PageType' /\ OneRun' /\ Scheduled'
      /\ inFlight = r /\ inFlight' = None /\ completedFor' = 0
      /\ UNCHANGED <<active, fallbackIn, pendingFor, pendingImmediate>>
      /\ pendingFor # Off =>
            timerIn' \in Nat /\ DueIsBounded(timerIn', pendingFor', pendingImmediate', completedFor')
      /\ runs'[r] = Free /\ \A q \in Runs \ {r} : runs'[q] = runs[q]
    BY <1>2, <1>3, <1>4, <1>5, SettledInv
<1>7. HiddenIsQuiet' BY <1>4, <1>6 DEF HiddenIsQuiet
<1>8. Fresh'
    <2>1. \A q \in Runs : runs'[q].phase = "answered" /\ ~runs'[q].aborted =>
            runs'[q].lag <= (CacheMaxAge - 1) + runs'[q].age
        BY <1>1, <1>6 DEF Fresh, Free
    <2>2. shownLag' <= (CacheMaxAge - 1) + runs[r].age BY <1>1, <1>2 DEF Fresh
    <2>3. shownLag' \in Int BY <1>2, <1>5 DEF Off
    <2>4. shownLag' <= (CacheMaxAge - 1) + Timeout + completedFor' BY <1>5, <1>6, <2>2, <2>3
    <2>5. pendingImmediate' => shownLag' + timerIn' <= Tolerated
        <3>1. pendingImmediate' => timerIn' = Cooldown - completedFor' /\ pendingFor # Off
            BY <1>1, <1>6 DEF Scheduled, DueIsBounded
        <3> QED BY <1>6, <2>3, <2>4, <3>1 DEF Tolerated
    <2>6. ~pendingImmediate' => shownLag' + fallbackIn' <= Tolerated
        <3>1. r # None BY DEF Runs, None
        <3>2. ~pendingImmediate => runs[r].age + fallbackIn <= Fallback
            BY <1>1, <1>2, <1>4, <1>6, <3>1 DEF Fresh
        <3>3. fallbackIn \in Nat BY <1>1, <1>4 DEF Scheduled
        <3> QED BY <1>5, <1>6, <2>2, <2>3, <3>2, <3>3 DEF Tolerated
    <2> QED BY <1>6, <2>1, <2>4, <2>5, <2>6 DEF Fresh, Tolerated
<1> QED BY <1>6, <1>7, <1>8 DEF PageInv

LEMMA FailedInv == ASSUME PageInv, NEW r \in Runs, Failed(r) PROVE PageInv'
<1>1. PageType /\ HiddenIsQuiet /\ Fresh BY DEF PageInv
<1>2. r \in Unsettled /\ Settled(r) /\ healthy' = FALSE /\ shownLag' = shownLag BY DEF Failed
<1>3. shownLag' \in Nat \cup {Off} /\ healthy' \in BOOLEAN BY <1>1, <1>2 DEF PageType
<1>4. /\ PageType' /\ OneRun' /\ Scheduled' /\ HiddenIsQuiet'
      /\ inFlight' = None /\ runs'[r] = Free /\ \A q \in Runs \ {r} : runs'[q] = runs[q]
    BY <1>2, <1>3, SettledInv
<1>5. Fresh'
    <2>1. \A q \in Runs : runs'[q].phase = "answered" /\ ~runs'[q].aborted =>
            runs'[q].lag <= (CacheMaxAge - 1) + runs'[q].age
        BY <1>1, <1>4 DEF Fresh, Free
    <2> QED BY <1>2, <1>4, <2>1 DEF Fresh
<1> QED BY <1>4, <1>5 DEF PageInv
-----------------------------------------------------------------------------
\* The steps of the server and of the clock.

LEMMA ChangeInv == ASSUME PageInv, RefreshMissesChange PROVE PageInv'
<1> USE DurationsAssumption, CacheAssumption, IntervalAssumption
<1>1. PageType /\ HiddenIsQuiet /\ OneRun /\ Scheduled /\ Fresh BY DEF PageInv
<1>2. UNCHANGED <<active, fallbackIn, timerIn, pendingFor, requestedFor, pendingImmediate,
                  completedFor, inFlight, stream, healthy>>
    BY DEF RefreshMissesChange
<1>3. shownLag' = Missing(shownLag) /\ shownLag' \in Nat
    BY <1>1 DEF RefreshMissesChange, Missing, PageType, Off
<1>4. ASSUME NEW r \in Runs
      PROVE  /\ runs'[r] \in RunRecord
             /\ runs'[r].phase = runs[r].phase /\ runs'[r].age = runs[r].age
             /\ runs'[r].aborted = runs[r].aborted /\ runs'[r].own = runs[r].own
             /\ runs'[r].lag = runs[r].lag \/ runs'[r].lag = Missing(runs[r].lag)
    <2>1. runs[r] \in RunRecord BY <1>1 DEF PageType
    <2>2. CASE runs[r].phase = "answered"
        <3> DEFINE lag == Missing(runs[r].lag)
        <3>1. runs'[r] = [runs[r] EXCEPT !.lag = lag] BY <2>2 DEF RefreshMissesChange
        <3>2. lag \in Nat BY <2>1 DEF RunRecord, Missing, Off
        <3> HIDE DEF lag
        <3>3. /\ runs'[r] \in RunRecord
              /\ runs'[r].phase = runs[r].phase /\ runs'[r].age = runs[r].age
              /\ runs'[r].aborted = runs[r].aborted /\ runs'[r].own = runs[r].own
              /\ runs'[r].lag = lag
            BY <2>1, <3>1, <3>2 DEF RunRecord
        <3> QED BY <3>3 DEF lag
    <2>3. CASE runs[r].phase # "answered"
        <3>1. runs'[r] = runs[r] BY <2>3 DEF RefreshMissesChange
        <3> QED BY <2>1, <3>1
    <2> QED BY <2>2, <2>3
<1>5. runs' \in [Runs -> RunRecord]
    <2>1. runs' = [r \in Runs |-> runs'[r]] BY DEF RefreshMissesChange
    <2> QED BY <1>4, <2>1
<1>6. PageType' BY <1>1, <1>2, <1>3, <1>5 DEF PageType
<1>7. Unsettled' = Unsettled BY <1>4 DEF Unsettled
<1>8. HiddenIsQuiet' BY <1>1, <1>2, <1>4, <1>7 DEF HiddenIsQuiet, Unsettled
<1>9. OneRun' BY <1>1, <1>2, <1>4, <1>7 DEF OneRun, Unsettled
<1>10. Scheduled' BY <1>1, <1>2 DEF Scheduled
<1>11. Fresh'
    <2>1. ASSUME NEW r \in Runs, runs'[r].phase = "answered", ~runs'[r].aborted
          PROVE  runs'[r].lag <= (CacheMaxAge - 1) + runs'[r].age
        <3>1. runs[r].lag <= (CacheMaxAge - 1) + runs[r].age BY <1>1, <1>4, <2>1 DEF Fresh
        <3>2. runs[r].lag \in Nat \cup {Off} /\ runs[r].age \in Nat BY <1>1 DEF PageType, RunRecord
        <3> QED BY <1>4, <3>1, <3>2 DEF Missing, Off
    <2>2. inFlight # None => inFlight \in Runs BY <1>1 DEF PageType
    <2>3. shownLag' = shownLag \/ (shownLag = Off /\ shownLag' = 0) BY <1>3 DEF Missing
    <2>4. CASE shownLag' = shownLag
        BY <1>1, <1>2, <1>4, <2>1, <2>2, <2>4 DEF Fresh
    <2>5. CASE shownLag' = 0
        <3>1. Tolerated \in Nat /\ Tolerated >= Cooldown /\ Tolerated >= Fallback BY DEF Tolerated
        <3>2. ASSUME healthy', inFlight' = None
              PROVE  /\ completedFor' < Cooldown =>
                            shownLag' <= (CacheMaxAge - 1) + Timeout + completedFor'
                     /\ pendingImmediate' => shownLag' + timerIn' <= Tolerated
                     /\ ~pendingImmediate' => shownLag' + fallbackIn' <= Tolerated
            <4>1. active BY <1>1, <1>2, <3>2 DEF HiddenIsQuiet, PageType
            <4>2. completedFor \in Nat BY <1>1 DEF PageType
            <4>3. pendingImmediate => timerIn <= Cooldown - completedFor /\ timerIn \in Nat
                BY <1>1, <1>2, <3>2, <4>1 DEF Scheduled, PageType
            <4>4. fallbackIn \in 0..Fallback BY <1>1, <4>1 DEF Scheduled
            <4>5. pendingImmediate => shownLag' + timerIn <= Tolerated BY <2>5, <3>1, <4>2, <4>3
            <4>6. shownLag' + fallbackIn <= Tolerated BY <2>5, <3>1, <4>4
            <4> QED BY <1>2, <2>5, <4>2, <4>5, <4>6
        <3>3. inFlight # None => shownLag' <= Tolerated + runs'[inFlight].age
            <4> SUFFICES ASSUME inFlight # None PROVE shownLag' <= Tolerated + runs'[inFlight].age
                OBVIOUS
            <4>1. runs'[inFlight].age \in Nat BY <1>4, <2>2 DEF RunRecord
            <4> QED BY <2>5, <3>1, <4>1
        <3>4. active /\ inFlight # None /\ ~pendingImmediate /\ ~runs'[inFlight].aborted =>
                runs'[inFlight].age + fallbackIn <= Fallback
            BY <1>1, <1>4, <2>2 DEF Fresh
        <3> QED BY <1>2, <2>1, <3>2, <3>3, <3>4 DEF Fresh
    <2> QED BY <2>3, <2>4, <2>5
<1> QED BY <1>6, <1>8, <1>9, <1>10, <1>11 DEF PageInv

\* What a timer loses in a millisecond pays for what the page grows older by.
LEMMA Traded ==
    ASSUME NEW a \in Int, NEW b \in Int, NEW c \in Int, NEW d \in Int, NEW t \in Int,
           a + b <= t, c <= a + 1, d = b - 1
    PROVE  c + d <= t
OBVIOUS

\* A millisecond passes.
LEMMA TickInv == ASSUME PageInv, RefreshTick PROVE PageInv'
<1> USE DurationsAssumption, CacheAssumption
<1>1. PageType /\ HiddenIsQuiet /\ OneRun /\ Scheduled /\ Fresh BY DEF PageInv
<1>2. /\ fallbackIn # 0 /\ timerIn # 0
      /\ \A r \in Unsettled : IF runs[r].aborted THEN ~active ELSE runs[r].age < Timeout
      /\ fallbackIn' = Sooner(fallbackIn) /\ timerIn' = Sooner(timerIn)
      /\ pendingFor' = Older(pendingFor, MaxWait)
      /\ requestedFor' = Older(requestedFor, Debounce)
      /\ completedFor' = Older(completedFor, Cooldown)
      /\ shownLag' = Older(shownLag, LagCap)
      /\ UNCHANGED <<active, pendingImmediate, inFlight, stream, healthy>>
    BY DEF RefreshTick
<1>3. /\ fallbackIn' \in Nat \cup {Off} /\ timerIn' \in Nat \cup {Off}
      /\ pendingFor' \in (0..MaxWait) \cup {Off} /\ requestedFor' \in (0..Debounce) \cup {Off}
      /\ completedFor' \in 0..Cooldown /\ shownLag' \in Nat \cup {Off}
      /\ fallbackIn = Off => fallbackIn' = Off
      /\ timerIn = Off => timerIn' = Off
      /\ timerIn # Off => timerIn' = timerIn - 1
      /\ fallbackIn # Off => fallbackIn' = fallbackIn - 1
      /\ pendingFor = Off <=> pendingFor' = Off
      /\ requestedFor = Off <=> requestedFor' = Off
      /\ shownLag' <= shownLag + 1
      /\ completedFor < Cooldown => completedFor' = completedFor + 1
      /\ completedFor = Cooldown => completedFor' = Cooldown
    BY <1>1, <1>2 DEF PageType, Older, Sooner, Off
<1>4. ASSUME NEW r \in Runs
      PROVE  /\ runs'[r] \in RunRecord
             /\ runs'[r].phase = runs[r].phase
             /\ runs'[r].aborted = runs[r].aborted /\ runs'[r].own = runs[r].own
             /\ r \in Unsettled => runs'[r].age = Older(runs[r].age, Timeout)
             /\ r \in Unsettled => runs'[r].lag = Older(runs[r].lag, LagCap)
             /\ r \notin Unsettled => runs'[r] = runs[r]
    <2>1. runs[r] \in RunRecord BY <1>1 DEF PageType
    <2>2. CASE r \in Unsettled
        <3> DEFINE age == Older(runs[r].age, Timeout)
                   lag == Older(runs[r].lag, LagCap)
        <3>1. runs'[r] = [runs[r] EXCEPT !.age = age, !.lag = lag] BY <2>2 DEF RefreshTick
        <3>2. age \in 0..Timeout /\ lag \in Nat \cup {Off} BY <2>1 DEF RunRecord, Older, Off
        <3> HIDE DEF age, lag
        <3>3. /\ runs'[r] \in RunRecord
              /\ runs'[r].phase = runs[r].phase
              /\ runs'[r].aborted = runs[r].aborted /\ runs'[r].own = runs[r].own
              /\ runs'[r].age = age /\ runs'[r].lag = lag
            BY <2>1, <3>1, <3>2 DEF RunRecord
        <3> QED BY <2>2, <3>3 DEF age, lag
    <2>3. CASE r \notin Unsettled
        <3>1. runs'[r] = runs[r] BY <2>3 DEF RefreshTick
        <3> QED BY <2>1, <2>3, <3>1
    <2> QED BY <2>2, <2>3
<1>5. runs' \in [Runs -> RunRecord]
    <2>1. runs' = [r \in Runs |-> runs'[r]] BY DEF RefreshTick
    <2> QED BY <1>4, <2>1
<1>6. PageType' BY <1>1, <1>2, <1>3, <1>5 DEF PageType
<1>7. Unsettled' = Unsettled BY <1>4 DEF Unsettled
<1>8. HiddenIsQuiet' BY <1>1, <1>2, <1>3, <1>4, <1>7 DEF HiddenIsQuiet, Unsettled
<1>9. OneRun' BY <1>1, <1>2, <1>4, <1>7 DEF OneRun, Unsettled
<1>10. ASSUME active PROVE fallbackIn \in 0..Fallback /\ fallbackIn' = fallbackIn - 1
                           /\ fallbackIn' \in 0..Fallback
    BY <1>1, <1>2, <1>3, <1>10 DEF Scheduled, Off
<1>11. ASSUME active, pendingFor # Off, inFlight = None
       PROVE  /\ timerIn' # Off /\ timerIn' = timerIn - 1 /\ timerIn' \in Nat
              /\ timerIn' >= Cooldown - completedFor'
              /\ timerIn' <= 0 \/ timerIn' <= MaxWait - pendingFor'
                 \/ timerIn' <= Cooldown - completedFor'
              /\ pendingImmediate => timerIn' <= Cooldown - completedFor' /\ completedFor < Cooldown
    <2>1. /\ timerIn \in Nat \ {0} /\ timerIn # Off /\ timerIn >= Cooldown - completedFor
          /\ timerIn <= 0 \/ timerIn <= MaxWait - pendingFor \/ timerIn <= Cooldown - completedFor
          /\ pendingImmediate => timerIn <= Cooldown - completedFor
        BY <1>1, <1>2, <1>11 DEF Scheduled, PageType
    <2>2. completedFor \in 0..Cooldown /\ pendingFor \in 0..MaxWait BY <1>1, <1>11 DEF PageType
    <2>3. pendingFor' = IF pendingFor = MaxWait THEN MaxWait ELSE pendingFor + 1
        BY <1>2, <1>11 DEF Older
    <2>4. timerIn' = timerIn - 1 BY <1>3, <2>1
    <2>5. timerIn' \in Nat /\ timerIn' # Off BY <2>1, <2>4 DEF Off
    <2>6. completedFor' = IF completedFor = Cooldown THEN Cooldown ELSE completedFor + 1
        BY <1>3, <2>2
    <2>7. timerIn' >= Cooldown - completedFor' BY <2>1, <2>2, <2>4, <2>6
    <2>8. timerIn <= Cooldown - completedFor => completedFor < Cooldown
        BY <2>1, <2>2
    <2>9. timerIn <= MaxWait - pendingFor => timerIn' <= MaxWait - pendingFor'
        BY <2>1, <2>2, <2>3, <2>4
    <2>10. timerIn <= Cooldown - completedFor => timerIn' <= Cooldown - completedFor'
        BY <2>1, <2>2, <2>4, <2>6, <2>8
    <2> QED BY <2>1, <2>4, <2>5, <2>7, <2>8, <2>9, <2>10
<1>12. Scheduled' BY <1>1, <1>2, <1>3, <1>10, <1>11 DEF Scheduled
<1>13. Fresh'
    <2>1. ASSUME NEW r \in Runs, runs'[r].phase = "answered", ~runs'[r].aborted
          PROVE  runs'[r].lag <= (CacheMaxAge - 1) + runs'[r].age
        <3>1. runs[r].phase = "answered" /\ ~runs[r].aborted /\ r \in Unsettled
            BY <1>4, <2>1 DEF Unsettled
        <3>2. runs[r].lag <= (CacheMaxAge - 1) + runs[r].age BY <1>1, <3>1 DEF Fresh
        <3>3. runs[r].lag \in Nat \cup {Off} /\ runs[r].age \in Nat BY <1>1 DEF PageType, RunRecord
        <3>4. runs[r].age < Timeout BY <1>2, <3>1
        <3>5. runs'[r].age = runs[r].age + 1 BY <1>4, <3>1, <3>3, <3>4 DEF Older, Off
        <3>6. runs'[r].lag \in Int /\ runs'[r].lag <= runs[r].lag + 1
            BY <1>4, <3>1, <3>3 DEF Older, Off
        <3> QED BY <3>2, <3>3, <3>5, <3>6 DEF Off
    <2>2. ASSUME healthy, inFlight = None
          PROVE  /\ completedFor' < Cooldown =>
                        shownLag' <= (CacheMaxAge - 1) + Timeout + completedFor'
                 /\ pendingImmediate => shownLag' + timerIn' <= Tolerated
                 /\ ~pendingImmediate => shownLag' + fallbackIn' <= Tolerated
        <3>1. active BY <1>1, <2>2 DEF HiddenIsQuiet, PageType
        <3>2. /\ completedFor < Cooldown => shownLag <= (CacheMaxAge - 1) + Timeout + completedFor
              /\ pendingImmediate => shownLag + timerIn <= Tolerated
              /\ ~pendingImmediate => shownLag + fallbackIn <= Tolerated
            BY <1>1, <2>2 DEF Fresh
        <3>3. /\ shownLag \in Int /\ shownLag' \in Int /\ completedFor \in 0..Cooldown
              /\ shownLag' <= shownLag + 1 /\ Tolerated \in Int
            BY <1>1, <1>3 DEF PageType, Off, Tolerated
        <3>4. completedFor' < Cooldown => shownLag' <= (CacheMaxAge - 1) + Timeout + completedFor'
            BY <1>3, <3>2, <3>3
        <3>5. pendingImmediate => shownLag' + timerIn' <= Tolerated
            <4>1. pendingImmediate => pendingFor # Off BY <1>1 DEF Scheduled
            <4>2. pendingImmediate => timerIn' = timerIn - 1 /\ timerIn' \in Nat
                BY <1>11, <2>2, <3>1, <4>1
            <4>3. pendingImmediate => timerIn \in Int BY <1>1 DEF PageType, Off
            <4> QED BY <3>2, <3>3, <4>2, <4>3
        <3>6. ~pendingImmediate => shownLag' + fallbackIn' <= Tolerated
            <4> SUFFICES ASSUME ~pendingImmediate PROVE shownLag' + fallbackIn' <= Tolerated
                OBVIOUS
            <4>1. fallbackIn' = fallbackIn - 1 /\ fallbackIn \in 0..Fallback BY <1>10, <3>1
            <4>2. shownLag + fallbackIn <= Tolerated BY <3>2
            <4>3. fallbackIn \in Int /\ fallbackIn' \in Int BY <4>1
            <4>4. /\ shownLag \in Int /\ shownLag' \in Int /\ Tolerated \in Int
                  /\ shownLag' <= shownLag + 1 /\ fallbackIn' = fallbackIn - 1
                BY <3>3, <4>1
            <4> DEFINE a == shownLag
                       b == fallbackIn
                       c == shownLag'
                       d == fallbackIn'
                       t == Tolerated
            <4>5. a \in Int /\ b \in Int /\ c \in Int /\ d \in Int /\ t \in Int BY <4>3, <4>4
            <4>6. a + b <= t BY <4>2
            <4>7. c <= a + 1 BY <4>4
            <4>8. d = b - 1 BY <4>4
            <4> HIDE DEF a, b, c, d, t
            <4>9. c + d <= t BY <4>5, <4>6, <4>7, <4>8, Traded
            <4> QED BY <4>9 DEF c, d, t
        <3> QED BY <3>4, <3>5, <3>6
    <2>3. ASSUME inFlight # None, active
          PROVE  /\ inFlight \in Runs /\ runs'[inFlight].aborted = runs[inFlight].aborted
                 /\ runs[inFlight].age \in Nat /\ runs'[inFlight].age = runs[inFlight].age + 1
        <3>1. inFlight \in Runs /\ inFlight \in Unsettled BY <1>1, <2>3 DEF PageType, OneRun
        <3>2. runs[inFlight].age < Timeout BY <1>2, <2>3, <3>1
        <3>3. runs[inFlight].age \in 0..Timeout BY <1>1, <3>1 DEF PageType, RunRecord
        <3> QED BY <1>4, <3>1, <3>2, <3>3 DEF Older, Off
    <2>4. ASSUME healthy, inFlight # None PROVE shownLag' <= Tolerated + runs'[inFlight].age
        <3>1. active BY <1>1, <2>4 DEF HiddenIsQuiet, PageType
        <3>2. shownLag <= Tolerated + runs[inFlight].age BY <1>1, <2>4 DEF Fresh
        <3>3. /\ shownLag \in Int /\ shownLag' \in Int
              /\ shownLag' <= shownLag + 1 /\ Tolerated \in Int
            BY <1>1, <1>3 DEF PageType, Off, Tolerated
        <3> QED BY <2>3, <2>4, <3>1, <3>2, <3>3
    <2>5. ASSUME active, inFlight # None, ~pendingImmediate, ~runs'[inFlight].aborted
          PROVE  runs'[inFlight].age + fallbackIn' <= Fallback
        <3>1. runs[inFlight].age + fallbackIn <= Fallback BY <1>1, <2>3, <2>5 DEF Fresh
        <3>2. fallbackIn \in Nat /\ fallbackIn' = fallbackIn - 1 BY <1>10, <2>5
        <3> QED BY <2>3, <2>5, <3>1, <3>2
    <2> QED BY <1>2, <2>1, <2>2, <2>4, <2>5 DEF Fresh
<1> QED BY <1>6, <1>8, <1>9, <1>12, <1>13 DEF PageInv
\* A snapshot that is served misses nothing for longer than the cache allows.
LEMMA ServeInv ==
    ASSUME CacheInv, Serve
    PROVE  CacheInv' /\ cacheLag' \in Nat \cup {NoLag} /\ cacheLag' <= CacheMaxAge - 1
<1> USE CacheAssumption
<1>1. CacheType /\ CacheIsDated BY DEF CacheInv
<1>2. CASE Valid
    <2>1. UNCHANGED <<builtFor, cacheLag, versionMoved>> BY <1>2 DEF Serve, cacheVars
    <2>2. builtFor # NoSnapshot /\ builtFor < CacheMaxAge /\ cacheLag <= builtFor
        BY <1>1, <1>2 DEF Valid, CacheIsDated
    <2>3. builtFor \in Nat /\ cacheLag \in Int /\ builtFor <= CacheMaxAge - 1
        BY <1>1, <2>2 DEF CacheType, NoLag
    <2>4. cacheLag' <= CacheMaxAge - 1 BY <2>1, <2>2, <2>3
    <2> QED BY <1>1, <2>1, <2>4 DEF CacheInv, CacheType, CacheIsDated
<1>3. CASE ~Valid
    <2>1. builtFor' = 0 /\ cacheLag' = NoLag /\ versionMoved' = FALSE BY <1>3 DEF Serve
    <2>2. CacheType'
        <3>1. builtFor' \in 0..CacheMaxAge BY <2>1
        <3> QED BY <2>1, <3>1 DEF CacheType
    <2>3. CacheIsDated' BY <2>1 DEF CacheIsDated, NoLag
    <2>4. cacheLag' <= CacheMaxAge - 1 BY <2>1 DEF NoLag
    <2> QED BY <2>1, <2>2, <2>3, <2>4 DEF CacheInv
<1> QED BY <1>2, <1>3

LEMMA CacheChangeInv == ASSUME CacheInv, NEW foreign \in BOOLEAN, CacheMissesChange(foreign) PROVE CacheInv'
<1>1. CacheType /\ CacheIsDated BY DEF CacheInv
<1>2. /\ cacheLag' = IF builtFor # NoSnapshot /\ cacheLag = NoLag THEN 0 ELSE cacheLag
      /\ versionMoved' \in BOOLEAN /\ builtFor' = builtFor
    BY DEF CacheMissesChange
<1>3. CacheType' BY <1>1, <1>2 DEF CacheType
<1>4. CacheIsDated' BY <1>1, <1>2 DEF CacheIsDated, CacheType, NoSnapshot, NoLag
<1> QED BY <1>3, <1>4 DEF CacheInv

LEMMA CacheTickInv == ASSUME CacheInv, CacheTick PROVE CacheInv'
<1> USE CacheAssumption
<1>1. CacheType /\ CacheIsDated BY DEF CacheInv
<1>2. /\ builtFor' = IF builtFor \in {NoSnapshot, CacheMaxAge} THEN builtFor ELSE builtFor + 1
      /\ cacheLag' = IF cacheLag \in {NoLag, CacheLagCap} THEN cacheLag ELSE cacheLag + 1
      /\ versionMoved' = versionMoved
    BY DEF CacheTick
<1>3. CacheType' BY <1>1, <1>2 DEF CacheType, NoSnapshot, NoLag
<1>4. CacheIsDated' BY <1>1, <1>2 DEF CacheIsDated, CacheType, NoSnapshot, NoLag
<1> QED BY <1>3, <1>4 DEF CacheInv

LEMMA PageSame == ASSUME PageInv, UNCHANGED refreshVars PROVE PageInv'
<1>1. UNCHANGED <<active, fallbackIn, timerIn, pendingFor, requestedFor, pendingImmediate,
                  completedFor, inFlight, runs, stream, shownLag, healthy>>
    BY DEF refreshVars
<1>2. PageType' /\ HiddenIsQuiet' /\ OneRun'
    BY <1>1 DEF PageInv, PageType, HiddenIsQuiet, OneRun, Unsettled
<1>3. Scheduled' /\ Fresh' BY <1>1 DEF PageInv, Scheduled, Fresh
<1> QED BY <1>2, <1>3 DEF PageInv

LEMMA CacheSame == ASSUME CacheInv, UNCHANGED cacheVars PROVE CacheInv'
BY DEF cacheVars, CacheInv, CacheType, CacheIsDated

-----------------------------------------------------------------------------
\* The composition.

LEMMA InitLivePageInv == Init => LivePageInv
<1> USE DurationsAssumption, CacheAssumption
<1> SUFFICES ASSUME Init PROVE LivePageInv OBVIOUS
<1>1. CacheInv BY DEF Init, CacheInit, CacheInv, CacheType, CacheIsDated, NoSnapshot, NoLag
<1>2. Free \in RunRecord /\ Free.phase = "free" BY DEF Free, RunRecord
<1>3. PageType
    <2> HIDE DEF Free
    <2>1. runs \in [Runs -> RunRecord] BY <1>2 DEF Init, RefreshInit
    <2>2. completedFor \in 0..Cooldown BY DEF Init, RefreshInit
    <2> QED BY <2>1, <2>2 DEF Init, RefreshInit, PageType
<1>4. \A r \in Runs : r \notin Unsettled BY <1>2 DEF Init, RefreshInit, Unsettled
<1>5. HiddenIsQuiet BY <1>4 DEF Init, RefreshInit, HiddenIsQuiet, Unsettled
<1>6. OneRun BY <1>4 DEF Init, RefreshInit, OneRun, Unsettled, Runs, None
<1>7. Scheduled BY DEF Init, RefreshInit, Scheduled
<1>8. Fresh BY <1>2 DEF Init, RefreshInit, Fresh
<1> QED BY <1>1, <1>3, <1>5, <1>6, <1>7, <1>8 DEF LivePageInv, PageInv

LEMMA StepLivePageInv == LivePageInv /\ [Next]_vars => LivePageInv'
<1> SUFFICES ASSUME LivePageInv, [Next]_vars PROVE LivePageInv' OBVIOUS
<1>1. PageInv /\ CacheInv BY DEF LivePageInv
<1>2. ASSUME Page PROVE PageInv'
    <2>1. ASSUME PageShown PROVE PageInv' BY <1>1, <2>1, ShownInv
    <2>2. ASSUME PageHidden PROVE PageInv' BY <1>1, <2>2, HiddenInv
    <2>3. ASSUME StreamChanges PROVE PageInv' BY <1>1, <2>3, StreamChangesInv
    <2>4. ASSUME StreamEvent PROVE PageInv'
        <3>1. /\ stream = "open" /\ Request(FALSE)
              /\ UNCHANGED <<fallbackIn, runs, stream, shownLag, healthy>>
            BY <2>4 DEF StreamEvent
        <3>2. active BY <1>1, <3>1 DEF PageInv, HiddenIsQuiet, PageType
        <3> QED BY <1>1, <3>1, <3>2, RequestInv
    <2>5. ASSUME FallbackFires PROVE PageInv'
        <3>1. /\ fallbackIn = 0 /\ fallbackIn' = Fallback /\ Request(TRUE)
              /\ UNCHANGED <<runs, stream, shownLag, healthy>>
            BY <2>5 DEF FallbackFires
        <3>2. active BY <1>1, <3>1 DEF PageInv, HiddenIsQuiet, PageType, Off
        <3> QED BY <1>1, <3>1, <3>2, RequestInv
    <2>6. ASSUME RefreshTimerFires PROVE PageInv' BY <1>1, <2>6, RefreshTimerInv
    <2>7. ASSUME NEW r \in Runs, TimeoutFires(r) PROVE PageInv' BY <1>1, <2>7, TimeoutInv
    <2>8. ASSUME NEW r \in Runs, Delivered(r) PROVE PageInv' BY <1>1, <2>8, DeliveredInv
    <2>9. ASSUME NEW r \in Runs, Failed(r) PROVE PageInv' BY <1>1, <2>9, FailedInv
    <2> QED BY <1>2, <2>1, <2>2, <2>3, <2>4, <2>5, <2>6, <2>7, <2>8, <2>9 DEF Page
<1>3. CASE Page /\ UNCHANGED cacheVars BY <1>1, <1>2, <1>3, CacheSame DEF LivePageInv
<1>4. ASSUME NEW r \in Runs, PageReads(r) PROVE LivePageInv'
    <2>1. Serve /\ Answered(r, cacheLag') BY <1>4 DEF PageReads
    <2>2. CacheInv' /\ cacheLag' \in Nat \cup {NoLag} /\ cacheLag' <= CacheMaxAge - 1
        BY <1>1, <2>1, ServeInv
    <2>3. PICK lag \in Nat \cup {Off} : lag = cacheLag' BY <2>2 DEF NoLag, Off
    <2>4. Answered(r, lag) /\ lag <= CacheMaxAge - 1 BY <2>1, <2>2, <2>3
    <2> QED BY <1>1, <2>2, <2>4, AnsweredInv DEF LivePageInv
<1>5. CASE OtherReads BY <1>1, <1>5, ServeInv, PageSame DEF OtherReads, LivePageInv
<1>6. CASE Change BY <1>1, <1>6, ChangeInv, CacheChangeInv DEF Change, LivePageInv
<1>7. CASE Tick BY <1>1, <1>7, TickInv, CacheTickInv DEF Tick, LivePageInv
<1>8. CASE UNCHANGED vars BY <1>1, <1>8, PageSame, CacheSame DEF vars, LivePageInv
<1> QED BY <1>3, <1>4, <1>5, <1>6, <1>7, <1>8 DEF Next

-----------------------------------------------------------------------------
\* Theorems.

\* The inductive invariant of the page and of the cache holds in every reachable state.
THEOREM LivePageInvariance == Spec => []LivePageInv
BY InitLivePageInv, StepLivePageInv, PTL DEF Spec

\* Downloads never overlap, hidden pages and runs of an earlier life included, and a
\* pending request of a visible page has a run to wait for or a timer, which neither a
\* burst of events puts off beyond the maximum wait nor an immediate one sets before
\* the end of the cooldown.
THEOREM OneDownload == Spec => []NoOverlap
<1>1. ASSUME LivePageInv PROVE NoOverlap
    <2>1. PageType /\ OneRun /\ Scheduled BY <1>1 DEF LivePageInv, PageInv
    <2>2. Cardinality(Unsettled) <= 1
        <3>1. CASE inFlight = None
            <4>1. Unsettled = {} BY <2>1, <3>1 DEF OneRun, Unsettled, Runs, None
            <4> QED BY <4>1, FS_EmptySet
        <3>2. CASE inFlight # None
            <4>1. Unsettled = {inFlight} BY <2>1, <3>2 DEF OneRun, Unsettled, PageType
            <4>2. Cardinality({inFlight}) = 1 BY FS_Singleton
            <4> QED BY <4>1, <4>2
        <3> QED BY <3>1, <3>2
    <2>3. ASSUME active, pendingFor # Off
          PROVE  \/ inFlight \in Unsettled
                 \/ /\ inFlight = None /\ timerIn # Off
                    /\ timerIn >= Cooldown - completedFor
                    /\ timerIn <= Max({0, MaxWait - pendingFor, Cooldown - completedFor})
        <3>1. CASE inFlight # None BY <2>1, <3>1 DEF OneRun, PageType
        <3>2. CASE inFlight = None
            <4>1. /\ timerIn # Off /\ timerIn >= Cooldown - completedFor
                  /\ timerIn <= 0 \/ timerIn <= MaxWait - pendingFor \/ timerIn <= Cooldown - completedFor
                BY <2>1, <2>3, <3>2 DEF Scheduled
            <4> DEFINE a == 0
                       b == MaxWait - pendingFor
                       c == Cooldown - completedFor
                       d == Max({a, b, c})
            <4>2. a \in Int /\ b \in Int /\ c \in Int /\ timerIn \in Int
                BY <2>1, <2>3, DurationsAssumption DEF PageType, Off
            <4>3. timerIn <= a \/ timerIn <= b \/ timerIn <= c BY <4>1
            <4>4. d = Max({a, b, c}) OBVIOUS
            <4> HIDE DEF a, b, c, d
            <4>5. d \in {a, b, c} /\ d >= a /\ d >= b /\ d >= c BY <4>2, <4>4, MaxOfThree
            <4>6. timerIn <= d BY <4>2, <4>3, <4>5
            <4> QED BY <3>2, <4>1, <4>6 DEF a, b, c, d
        <3> QED BY <3>1, <3>2
    <2> QED BY <2>2, <2>3 DEF NoOverlap
<1> QED BY <1>1, LivePageInvariance, PTL

\* What a visible page shows is never older than the cache, a request, a cooldown and
\* a request explain, while its requests succeed, for any durations with the interval
\* no longer than a cooldown and a request; the stream need deliver nothing.
THEOREM BoundedStaleness == Spec => []StalenessIsBounded
<1>1. ASSUME LivePageInv PROVE StalenessIsBounded
    <2> USE DurationsAssumption, CacheAssumption
    <2>1. PageType /\ Scheduled /\ Fresh BY <1>1 DEF LivePageInv, PageInv
    <2> SUFFICES ASSUME active, healthy PROVE shownLag <= Bound BY DEF StalenessIsBounded
    <2>2. shownLag \in Int /\ Tolerated \in Int /\ Bound = Tolerated + Timeout
        BY <2>1 DEF PageType, Off, Tolerated, Bound
    <2>3. CASE inFlight = None
        <3>1. /\ pendingImmediate => shownLag + timerIn <= Tolerated
              /\ ~pendingImmediate => shownLag + fallbackIn <= Tolerated
            BY <2>1, <2>3 DEF Fresh
        <3>2. fallbackIn \in Nat /\ (pendingImmediate => timerIn \in Nat)
            BY <2>1, <2>3 DEF Scheduled, PageType
        <3>3. pendingImmediate \in BOOLEAN BY <2>1 DEF PageType
        <3> QED BY <2>2, <3>1, <3>2, <3>3
    <2>4. CASE inFlight # None
        <3>1. runs[inFlight].age \in 0..Timeout BY <2>1, <2>4 DEF PageType, RunRecord
        <3>2. shownLag <= Tolerated + runs[inFlight].age BY <2>1, <2>4 DEF Fresh
        <3> QED BY <2>2, <3>1, <3>2
    <2> QED BY <2>3, <2>4
<1> QED BY <1>1, LivePageInvariance, PTL

-----------------------------------------------------------------------------
\* The sockets the server listens to.

SocketState == {"gone", "connecting", "open", "closing"}

\* A connector that has not begun has no socket; the socket it uses is one it has not
\* given up, so that none of its listeners hears a socket that is closing.
FeedInv ==
    /\ feedSock \in [FeedSockets -> SocketState]
    /\ feedWs \in FeedSockets \cup {NoSocket} /\ feedTimer \in BOOLEAN
    /\ feedWs # NoSocket => feedSock[feedWs] \in {"connecting", "open"}
    /\ connection = "idle" => /\ \A s \in FeedSockets : feedSock[s] = "gone"
                              /\ feedWs = NoSocket /\ ~feedTimer
    /\ Feed!OneSocket /\ Feed!LiveIsOpen

CalloutInv ==
    /\ calloutSock \in [CalloutSockets -> SocketState]
    /\ calloutWs \in CalloutSockets \cup {NoSocket}
    /\ calloutTimer \in BOOLEAN /\ calloutClosed \in BOOLEAN
    /\ calloutWs # NoSocket => calloutSock[calloutWs] \in {"connecting", "open"}
    /\ calloutStatus = "idle" => /\ \A s \in CalloutSockets : calloutSock[s] = "gone"
                                 /\ calloutWs = NoSocket /\ ~calloutTimer
    /\ Callouts!OneSocket /\ Callouts!LiveIsOpen

FeedsInv == FeedInv /\ CalloutInv

\* A socket comes to be used, by the first attempt or by one after a failure, only when
\* no other is.
LEMMA FeedConnectInv == ASSUME FeedInv, Feed!Start \/ Feed!Reconnect PROVE FeedInv'
<1> USE SocketsAssumption DEF Feed!closed
<1>1. /\ feedWs = NoSocket
      /\ \A s \in FeedSockets : feedSock[s] \notin {"connecting", "open"}
      /\ connection \notin {"closed", "connecting"}
    BY DEF FeedInv, Feed!Start, Feed!Reconnect, Feed!Connect, Feed!OneSocket
<1>2. Feed!Connect BY DEF Feed!Start, Feed!Reconnect
<1>3. ASSUME NEW s \in FeedSockets, Feed!Attempt(s), feedTimer' = FALSE PROVE FeedInv'
    BY <1>1, <1>3 DEF FeedInv, Feed!Attempt, Feed!OneSocket, Feed!LiveIsOpen, SocketState
<1>4. ASSUME Feed!Refused PROVE FeedInv'
    BY <1>1, <1>4 DEF FeedInv, Feed!Refused, Feed!OneSocket, Feed!LiveIsOpen
<1> QED BY <1>2, <1>3, <1>4 DEF Feed!Connect

\* What the listeners of a socket do when it has opened, failed, closed or said something,
\* and when it took too long to open.
LEMMA FeedSocketInv ==
    ASSUME FeedInv, NEW s \in FeedSockets,
           \/ Feed!Opened(s) \/ Feed!Failed(s) \/ Feed!Closed(s) \/ Feed!Timeout(s)
           \/ \E frame \in Feed!Frames : Feed!Message(s, frame)
    PROVE  FeedInv'
<1> USE SocketsAssumption DEF Feed!closed, Feed!Current, SocketState
<1>1. CASE Feed!Opened(s)
    BY <1>1 DEF FeedInv, Feed!Opened, Feed!OneSocket, Feed!LiveIsOpen
<1>2. CASE Feed!Failed(s)
    BY <1>2 DEF FeedInv, Feed!Failed, Feed!Abandon, Feed!ScheduleReconnect, Feed!OneSocket, Feed!LiveIsOpen
<1>3. CASE Feed!Closed(s)
    BY <1>3 DEF FeedInv, Feed!Closed, Feed!Abandon, Feed!ScheduleReconnect, Feed!OneSocket, Feed!LiveIsOpen
<1>4. CASE Feed!Timeout(s)
    BY <1>4 DEF FeedInv, Feed!Timeout, Feed!Abandon, Feed!ScheduleReconnect, Feed!OneSocket, Feed!LiveIsOpen
<1>5. CASE \E frame \in Feed!Frames : Feed!Message(s, frame)
    BY <1>5 DEF FeedInv, Feed!Message, Feed!OneSocket, Feed!LiveIsOpen
<1> QED BY <1>1, <1>2, <1>3, <1>4, <1>5

LEMMA FeedStopInv == ASSUME FeedInv, Feed!Stop PROVE FeedInv'
BY SocketsAssumption
   DEF FeedInv, Feed!Stop, Feed!Abandon, Feed!closed, Feed!OneSocket, Feed!LiveIsOpen, SocketState

LEMMA FeedNextInv == ASSUME FeedInv, Feed!Next PROVE FeedInv'
BY FeedConnectInv, FeedSocketInv, FeedStopInv DEF Feed!Next

LEMMA CalloutConnectInv == ASSUME CalloutInv, Callouts!Start \/ Callouts!Reconnect PROVE CalloutInv'
<1> USE SocketsAssumption
<1>1. /\ ~calloutClosed /\ calloutWs = NoSocket
      /\ \A s \in CalloutSockets : calloutSock[s] \notin {"connecting", "open"}
    BY DEF CalloutInv, Callouts!Start, Callouts!Reconnect, Callouts!Connect, Callouts!OneSocket
<1>2. calloutClosed' = calloutClosed
    BY DEF Callouts!Start, Callouts!Reconnect, Callouts!Connect
<1>3. ASSUME NEW s \in CalloutSockets, calloutSock' = [calloutSock EXCEPT ![s] = "connecting"],
             calloutWs' = s, calloutStatus' = "connecting", calloutTimer' = FALSE
      PROVE  CalloutInv'
    BY <1>1, <1>2, <1>3 DEF CalloutInv, Callouts!OneSocket, Callouts!LiveIsOpen, SocketState
<1>4. ASSUME calloutStatus' = "reconnecting", calloutTimer' = TRUE, UNCHANGED <<calloutSock, calloutWs>>
      PROVE  CalloutInv'
    BY <1>1, <1>2, <1>4 DEF CalloutInv, Callouts!OneSocket, Callouts!LiveIsOpen
<1> QED BY <1>3, <1>4 DEF Callouts!Start, Callouts!Reconnect, Callouts!Connect

LEMMA CalloutSocketInv ==
    ASSUME CalloutInv, NEW s \in CalloutSockets,
           \/ Callouts!Opened(s) \/ Callouts!Failed(s) \/ Callouts!Closed(s)
           \/ \E accepted \in BOOLEAN : Callouts!Message(s, accepted)
    PROVE  CalloutInv'
<1> USE SocketsAssumption DEF Callouts!Current, SocketState
<1>1. CASE Callouts!Opened(s)
    BY <1>1 DEF CalloutInv, Callouts!Opened, Callouts!OneSocket, Callouts!LiveIsOpen
<1>2. CASE Callouts!Failed(s)
    BY <1>2 DEF CalloutInv, Callouts!Failed, Callouts!ScheduleReconnect, Callouts!OneSocket, Callouts!LiveIsOpen
<1>3. CASE Callouts!Closed(s)
    BY <1>3 DEF CalloutInv, Callouts!Closed, Callouts!ScheduleReconnect, Callouts!OneSocket, Callouts!LiveIsOpen
<1>4. CASE \E accepted \in BOOLEAN : Callouts!Message(s, accepted)
    BY <1>4 DEF CalloutInv, Callouts!Message, Callouts!OneSocket, Callouts!LiveIsOpen
<1> QED BY <1>1, <1>2, <1>3, <1>4

LEMMA CalloutNextInv == ASSUME CalloutInv, Callouts!Next PROVE CalloutInv'
<1>1. CASE Callouts!Stop
    BY <1>1, SocketsAssumption
       DEF CalloutInv, Callouts!Stop, Callouts!OneSocket, Callouts!LiveIsOpen, SocketState
<1> QED BY <1>1, CalloutConnectInv, CalloutSocketInv DEF Callouts!Next

LEMMA InitFeedsInv == FeedsInit => FeedsInv
BY SocketsAssumption
   DEF FeedsInit, FeedsInv, FeedInv, CalloutInv, SocketState,
       Feed!Init, Feed!OneSocket, Feed!LiveIsOpen, Feed!closed,
       Callouts!Init, Callouts!OneSocket, Callouts!LiveIsOpen

LEMMA StepFeedsInv == FeedsInv /\ [FeedsNext]_feedsVars => FeedsInv'
<1> SUFFICES ASSUME FeedsInv, [FeedsNext]_feedsVars PROVE FeedsInv'
    OBVIOUS
<1>1. FeedInv /\ CalloutInv BY DEF FeedsInv
<1>2. UNCHANGED feed => FeedInv'
    BY <1>1 DEF feed, FeedInv, Feed!OneSocket, Feed!LiveIsOpen, Feed!closed
<1>3. UNCHANGED callouts => CalloutInv'
    BY <1>1 DEF callouts, CalloutInv, Callouts!OneSocket, Callouts!LiveIsOpen
<1>4. CASE Feed!Next /\ UNCHANGED callouts BY <1>1, <1>3, <1>4, FeedNextInv DEF FeedsInv
<1>5. CASE Callouts!Next /\ UNCHANGED feed BY <1>1, <1>2, <1>5, CalloutNextInv DEF FeedsInv
<1>6. CASE Ended
    BY <1>6, SocketsAssumption
       DEF Ended, FeedsInv, FeedInv, CalloutInv, SocketState, Feed!OneSocket, Feed!LiveIsOpen,
           Feed!closed, Callouts!OneSocket, Callouts!LiveIsOpen
<1>7. CASE UNCHANGED feedsVars BY <1>2, <1>3, <1>7 DEF feedsVars, FeedsInv
<1> QED BY <1>4, <1>5, <1>6, <1>7 DEF FeedsNext

\* The inductive invariant of the two connectors holds in every reachable state.
THEOREM FeedsInvariance == FeedsSpec => []FeedsInv
BY InitFeedsInv, StepFeedsInv, PTL DEF FeedsSpec

\* Each connector has at most one socket that connects or is open, the one it uses, and is
\* live only while that one is open, however its opens, failures, closes and late events
\* interleave and whatever sockets are still closing.
THEOREM SocketsAreOne == FeedsSpec => []OneSocketEach
<1>1. FeedsInv => OneSocketEach BY DEF FeedsInv, FeedInv, CalloutInv, OneSocketEach
<1> QED BY <1>1, FeedsInvariance, PTL

-----------------------------------------------------------------------------
\* The clients of the providers.

Wait == IF RequestTimeout > GeckoInterval THEN RequestTimeout ELSE GeckoInterval

\* Each queued request is of a caller of its own, which awaits it and asked for it before.
Queued(p, callers, now) ==
    /\ p \in Seq(Gecko!Requests)
    /\ \A i \in DOMAIN p :
        /\ p[i].caller \in callers /\ p[i].kind \in Kinds[p[i].caller] /\ p[i].at <= now
        /\ \A j \in DOMAIN p : p[i].caller = p[j].caller => i = j

\* A queued selection came after the last request had started: it would have gone first.
Overtakes(p, start) == \A i \in DOMAIN p : p[i].kind = "selection" => start <= p[i].at

\* The next request is due after the pacing interval and the pause, and no later than both.
Paced(next, start, until) ==
    /\ next \in Nat /\ until \in Nat /\ start \in Int
    /\ next >= start + GeckoInterval /\ next >= until
    /\ next <= start + GeckoInterval \/ next <= until

\* The request in execution is of a caller with nothing in the queue.
Executed(p, callers) ==
    /\ current \in Gecko!Requests /\ current.caller \in callers
    /\ \A i \in DOMAIN p : p[i].caller # current.caller

\* A request has waited no longer than a selection may, or a pause has begun since.
InTime(r, started) == r.kind = "selection" => started <= r.at + Wait \/ paused > r.at

GeckoInv ==
    /\ clock \in Nat /\ waiting \subseteq GeckoCallers
    /\ drain \in {"idle", "sleeping", "requesting"}
    /\ drain = "idle" <=> pending = <<>> /\ drain # "requesting"
    /\ drain = "requesting" => Executed(pending, waiting) /\ clock <= lastStart + RequestTimeout
    /\ drain = "sleeping" => clock <= geckoNextAt
    /\ lastStart <= clock
    /\ Queued(pending, waiting, clock) /\ Overtakes(pending, lastStart)
    /\ Paced(geckoNextAt, lastStart, paused)
    /\ current \in Gecko!Requests \cup {NoRequest}
    /\ current # NoRequest => InTime(current, lastStart)

\* The next operation is due after the interval from the end of the last.
RpcInv ==
    /\ clock \in Nat /\ rpcNextAt \in Nat /\ lastEnd \in Int
    /\ rpcNextAt >= lastEnd + RpcInterval
    /\ tail \in Seq(RpcCallers) /\ phase \in {"none", "sleeping", "requesting"}
    /\ phase = "none" <=> tail = <<>>

UpstreamInv == GeckoInv /\ RpcInv

\* A request of the queue goes before another: more urgent, or as urgent and earlier.
Goes(p, j, i) ==
    \/ Gecko!Priority(p[j].kind) < Gecko!Priority(p[i].kind)
    \/ Gecko!Priority(p[j].kind) = Gecko!Priority(p[i].kind) /\ j < i

Before(p, i) == {p[j].caller : j \in {k \in DOMAIN p : Goes(p, k, i)}}

Since(r, until) == IF until > r.at THEN until ELSE r.at

\* The turns a request may still wait, its own and those of what goes before it taken off.
TurnsLeft(p, i, allowed) == 1 + allowed[p[i].caller] - Cardinality(Before(p, i))

InTurn(p, time, allowed, until) ==
    \A i \in DOMAIN p :
        /\ TurnsLeft(p, i, allowed) >= 1
        /\ time <= Since(p[i], until) + Wait * TurnsLeft(p, i, allowed)

\* A request that was started had waited its turns.
HadTurn(r, started, allowed, until) ==
    r # NoRequest => started <= Since(r, until) + Wait * (1 + allowed[r.caller])

\* The next start may be a turn after the last one.
WaitInv ==
    /\ ahead \in [GeckoCallers -> Nat]
    /\ InTurn(pending, lastStart + Wait, ahead, paused)
    /\ HadTurn(current, lastStart, ahead, paused)
    /\ drain # "requesting" => current = NoRequest

\* The operation in turn starts when it is due, and has not run out.
TurnsInv ==
    /\ startedAt \in Int
    /\ rpcNextAt <= lastEnd + RpcInterval
    /\ phase = "sleeping" => clock <= rpcNextAt
    /\ phase = "requesting" => rpcNextAt <= clock /\ clock <= startedAt + RequestTimeout

-----------------------------------------------------------------------------
\* A set of numbers has a least one.
LEMMA LeastNumber ==
    ASSUME NEW S, S \subseteq Nat, S # {}
    PROVE  \E m \in S : \A k \in S : m <= k
<1> DEFINE T == {0..x : x \in S}
<1>1. T \subseteq FiniteSubsetsOf(Nat) /\ T # {}
    <2>1. \A x \in S : 0..x \subseteq Nat /\ IsFiniteSet(0..x) BY FS_Interval
    <2> QED BY <2>1 DEF FiniteSubsetsOf
<1>2. PICK u \in T : \A v \in T : <<v, u>> \notin StrictSubsetOrdering(Nat)
    BY <1>1, FS_StrictSubsetOrderingWellFounded, WFMin, Zenon
<1>3. PICK m \in S : u = 0..m OBVIOUS
<1>4. \A k \in S : m <= k
    <2> SUFFICES ASSUME NEW k \in S, k < m PROVE FALSE OBVIOUS
    <2>1. 0..k \subseteq Nat /\ 0..m \subseteq Nat /\ 0..k \subseteq 0..m /\ 0..k # 0..m
        <3>1. m \in 0..m /\ m \notin 0..k OBVIOUS
        <3> QED BY <3>1
    <2>2. <<0..k, 0..m>> \in StrictSubsetOrdering(Nat) BY <2>1 DEF StrictSubsetOrdering
    <2> QED BY <1>2, <1>3, <2>2
<1> QED BY <1>4

\* The queue has a first request of the first priority it has.
LEMMA UrgentIsFirst ==
    ASSUME NEW p \in Seq(Gecko!Requests), p # <<>>
    PROVE  /\ Gecko!Urgent(p) \in DOMAIN p
           /\ \A j \in DOMAIN p : p[j].kind = "selection" => p[Gecko!Urgent(p)].kind = "selection"
           /\ \A j \in DOMAIN p \ {Gecko!Urgent(p)} : Goes(p, Gecko!Urgent(p), j)
<1> DEFINE rank(i) == Gecko!Priority(p[i].kind)
           All == DOMAIN p
           Ranks == {rank(i) : i \in All}
           First(i) == \A j \in All \ {i} : rank(i) < rank(j) \/ (rank(i) = rank(j) /\ i < j)
<1>1. All \subseteq Nat /\ All # {} /\ \A i \in All : rank(i) \in 0..2
    <2>1. Len(p) \in Nat /\ Len(p) # 0 /\ All = 1..Len(p) BY EmptySeq, LenProperties
    <2>2. ASSUME NEW i \in All PROVE rank(i) \in 0..2 BY DEF Gecko!Priority
    <2> HIDE DEF All, rank
    <2>3. 1 \in All BY <2>1
    <2> QED BY <2>1, <2>2, <2>3
<1>2. PICK low \in Ranks : \A k \in Ranks : low <= k
    <2>1. Ranks \subseteq Nat /\ Ranks # {} BY <1>1
    <2> HIDE DEF Ranks
    <2> QED BY <2>1, LeastNumber
<1> DEFINE Lowest == {i \in All : rank(i) = low}
<1>3. PICK m \in Lowest : \A k \in Lowest : m <= k
    <2>1. Lowest \subseteq Nat /\ Lowest # {} BY <1>1, <1>2
    <2> HIDE DEF Lowest
    <2> QED BY <2>1, LeastNumber
<1>4. m \in All /\ First(m)
    <2>1. m \in All /\ rank(m) = low BY <1>3
    <2> SUFFICES ASSUME NEW j \in All \ {m} PROVE rank(m) < rank(j) \/ (rank(m) = rank(j) /\ m < j)
        BY <2>1
    <2>2. low <= rank(j) /\ rank(j) \in 0..2 /\ low \in 0..2 BY <1>1, <1>2, <2>1
    <2>3. rank(j) = low => m <= j BY <1>3
    <2>4. m \in Nat /\ j \in Nat /\ m # j BY <1>1, <2>1
    <2> HIDE DEF rank
    <2> QED BY <2>1, <2>2, <2>3, <2>4
<1> DEFINE u == Gecko!Urgent(p)
<1>5. u = CHOOSE i \in All : First(i) BY DEF Gecko!Urgent
<1>6. u \in All /\ First(u)
    <2> HIDE DEF First, All, u
    <2> QED BY <1>4, <1>5
<1>7. ASSUME NEW j \in All, p[j].kind = "selection" PROVE p[u].kind = "selection"
    <2>1. rank(j) = 0 BY <1>7 DEF Gecko!Priority
    <2>2. u = j \/ rank(u) <= rank(j)
        <3> HIDE DEF rank, u
        <3> QED BY <1>1, <1>6
    <2>3. rank(u) = 0 BY <1>1, <1>6, <2>1, <2>2
    <2> QED BY <2>3 DEF Gecko!Priority
<1>8. ASSUME NEW j \in All \ {u} PROVE Goes(p, u, j) BY <1>6, <1>8 DEF Goes
<1> HIDE DEF First, u
<1> QED BY <1>6, <1>7, <1>8 DEF u

LEMMA RemovedAt ==
    ASSUME NEW S, NEW p \in Seq(S), NEW i \in DOMAIN p
    PROVE  LET q == Gecko!RemoveAt(p, i) IN
           /\ q \in Seq(S)
           /\ \A k \in DOMAIN q : LET m == IF k < i THEN k ELSE k + 1 IN
                m \in DOMAIN p \ {i} /\ q[k] = p[m]
<1> DEFINE a == SubSeq(p, 1, i - 1)
           b == SubSeq(p, i + 1, Len(p))
           q == a \o b
<1>1. i \in 1..Len(p) /\ Len(p) \in Nat OBVIOUS
<1>2. a \in Seq(S) /\ Len(a) = i - 1 /\ \A k \in 1..(i - 1) : a[k] = p[k]
    <2>1. \A k \in 1..(i - 1) : p[k] \in S BY <1>1
    <2> QED BY <1>1, <2>1, SubSeqProperties, SMTT(30)
<1>3. b \in Seq(S) /\ Len(b) = Len(p) - i /\ \A k \in 1..(Len(p) - i) : b[k] = p[i + k]
    <2>1. \A k \in (i + 1)..Len(p) : p[k] \in S BY <1>1
    <2> QED BY <1>1, <2>1, SubSeqProperties, SMTT(30)
<1>4. /\ q \in Seq(S) /\ Len(q) = Len(p) - 1
      /\ \A k \in 1..(Len(p) - 1) : q[k] = IF k < i THEN p[k] ELSE p[k + 1]
    <2> HIDE DEF a, b
    <2>1. /\ q \in Seq(S) /\ Len(q) = Len(a) + Len(b)
          /\ \A k \in 1..(Len(a) + Len(b)) : q[k] = IF k <= Len(a) THEN a[k] ELSE b[k - Len(a)]
        BY <1>2, <1>3, ConcatProperties
    <2> HIDE DEF q
    <2>2. Len(q) = Len(p) - 1 BY <1>1, <1>2, <1>3, <2>1
    <2>3. ASSUME NEW k \in 1..(Len(p) - 1) PROVE q[k] = IF k < i THEN p[k] ELSE p[k + 1]
        <3>1. k \in 1..(Len(a) + Len(b)) BY <1>1, <1>2, <1>3
        <3>2. q[k] = IF k <= Len(a) THEN a[k] ELSE b[k - Len(a)] BY <2>1, <3>1
        <3>3. CASE k < i
            <4>1. k \in 1..(i - 1) /\ k <= Len(a) BY <1>1, <1>2, <3>3
            <4> QED BY <1>2, <3>2, <3>3, <4>1
        <3>4. CASE k >= i
            <4>1. /\ k - Len(a) \in 1..(Len(p) - i) /\ i + (k - Len(a)) = k + 1
                  /\ ~(k <= Len(a)) /\ ~(k < i)
                BY <1>1, <1>2, <3>4
            <4> QED BY <1>3, <3>2, <4>1
        <3> QED BY <1>1, <3>3, <3>4
    <2> QED BY <2>1, <2>2, <2>3
<1>6. q = Gecko!RemoveAt(p, i) BY DEF Gecko!RemoveAt
<1> HIDE DEF q
<1>5. DOMAIN q = 1..(Len(p) - 1) /\ DOMAIN p = 1..Len(p) BY <1>4, LenProperties
<1>7. \A k \in DOMAIN q : LET m == IF k < i THEN k ELSE k + 1 IN
        m \in DOMAIN p \ {i} /\ q[k] = p[m]
    BY <1>1, <1>4, <1>5
<1> QED BY <1>4, <1>6, <1>7

\* A request joins the end of the queue.
Joined(q, p, r) ==
    /\ q # <<>>
    /\ \A i \in DOMAIN q : (i \in DOMAIN p /\ q[i] = p[i]) \/ (i = Len(p) + 1 /\ q[i] = r)

LEMMA Asked ==
    ASSUME NEW p, NEW callers, NEW now \in Nat, Queued(p, callers, now),
           NEW r \in Gecko!Requests, r.caller \in GeckoCallers \ callers,
           r.kind \in Kinds[r.caller], r.at = now
    PROVE  /\ Queued(Append(p, r), callers \cup {r.caller}, now)
           /\ Joined(Append(p, r), p, r)
<1> DEFINE q == Append(p, r)
<1>1. p \in Seq(Gecko!Requests) BY DEF Queued
<1>4. /\ q \in Seq(Gecko!Requests) /\ q # <<>> /\ Len(q) = Len(p) + 1
      /\ \A i \in 1..Len(p) : q[i] = p[i]
      /\ q[Len(p) + 1] = r
    BY <1>1, AppendProperties
<1> HIDE DEF q
<1>6. \A i \in DOMAIN q : (i \in DOMAIN p /\ q[i] = p[i]) \/ (i = Len(p) + 1 /\ q[i] = r)
    <2>1. /\ Len(p) \in Nat /\ DOMAIN p = 1..Len(p) /\ DOMAIN q = 1..(Len(p) + 1)
        BY <1>1, <1>4, LenProperties
    <2>2. ASSUME NEW i \in 1..(Len(p) + 1)
          PROVE  (i \in 1..Len(p) /\ q[i] = p[i]) \/ (i = Len(p) + 1 /\ q[i] = r)
        <3>1. i \in 1..Len(p) \/ i = Len(p) + 1 BY <2>1
        <3> QED BY <1>4, <3>1
    <2> QED BY <2>1, <2>2
<1>7. ASSUME NEW i \in DOMAIN p PROVE p[i].caller \in callers BY DEF Queued
<1>8. Queued(q, callers \cup {r.caller}, now)
    <2>1. ASSUME NEW i \in DOMAIN q
          PROVE  /\ q[i].caller \in callers \cup {r.caller}
                 /\ q[i].kind \in Kinds[q[i].caller] /\ q[i].at <= now
                 /\ \A j \in DOMAIN q : q[i].caller = q[j].caller => i = j
        BY <1>6, <1>7 DEF Queued
    <2> QED BY <1>4, <2>1 DEF Queued
<1> QED BY <1>4, <1>6, <1>8 DEF q, Joined

\* A selection in the queue has waited for the request in execution or for the pace.
LEMMA QueuedInTime ==
    ASSUME GeckoInv
    PROVE  \A i \in DOMAIN pending : InTime(pending[i], clock)
<1> SUFFICES ASSUME NEW i \in DOMAIN pending, pending[i].kind = "selection"
             PROVE  clock <= pending[i].at + Wait \/ paused > pending[i].at
    BY DEF InTime
<1>1. /\ clock \in Nat /\ lastStart \in Int /\ geckoNextAt \in Nat /\ paused \in Nat
      /\ lastStart <= pending[i].at
      /\ geckoNextAt <= lastStart + GeckoInterval \/ geckoNextAt <= paused
      /\ pending # <<>>
    BY DEF GeckoInv, Paced, Overtakes
<1>2. pending[i].at \in Nat
    <2>1. pending[i] \in Gecko!Requests BY ElementOfSeq, LenProperties DEF GeckoInv, Queued
    <2> QED BY <2>1 DEF Gecko!Requests
<1>3. /\ RequestTimeout \in Nat /\ GeckoInterval \in Nat
      /\ Wait \in Nat /\ Wait >= RequestTimeout /\ Wait >= GeckoInterval
    BY UpstreamAssumption DEF Wait
<1>4. pending[i].at <= clock BY DEF GeckoInv, Queued
<1>5. clock <= lastStart + RequestTimeout \/ clock <= geckoNextAt BY <1>1 DEF GeckoInv
<1> QED BY <1>1, <1>2, <1>3, <1>4, <1>5

\* The first of the queue is started, at its time.
LEMMA StartInv ==
    ASSUME NEW p, NEW next, clock \in Nat, clock' = clock, waiting' \subseteq GeckoCallers,
           p # <<>>, Queued(p, waiting', clock), Overtakes(p, lastStart),
           Paced(next, lastStart, paused'), next <= clock,
           \A i \in DOMAIN p : InTime(p[i], clock)', 
           Gecko!Start(p, next)
    PROVE  GeckoInv'
<1> DEFINE u == Gecko!Urgent(p)
           q == Gecko!RemoveAt(p, u)
<1>1. /\ current' = p[u] /\ pending' = q /\ drain' = "requesting" /\ lastStart' = clock
      /\ geckoNextAt' = (IF next > clock THEN next ELSE clock) + GeckoInterval
    BY DEF Gecko!Start
<1>2. p \in Seq(Gecko!Requests) BY DEF Queued
<1>3. /\ u \in DOMAIN p
      /\ \A j \in DOMAIN p : p[j].kind = "selection" => p[u].kind = "selection"
    BY <1>2, UrgentIsFirst
<1>4. /\ q \in Seq(Gecko!Requests)
      /\ \A k \in DOMAIN q : LET m == IF k < u THEN k ELSE k + 1 IN
            m \in DOMAIN p \ {u} /\ q[k] = p[m]
    <2> HIDE DEF u
    <2> QED BY <1>2, <1>3, RemovedAt
<1> HIDE DEF u, q
<1>5. PICK r : r = p[u] OBVIOUS
<1>6. /\ r \in Gecko!Requests /\ r.caller \in waiting' /\ InTime(r, clock)'
      /\ \A j \in DOMAIN p : p[j].caller = r.caller => j = u
    <2>1. r \in Gecko!Requests BY <1>2, <1>3, <1>5, ElementOfSeq, LenProperties
    <2>2. InTime(p[u], clock)' BY <1>3
    <2> QED BY <1>3, <1>5, <2>1, <2>2 DEF Queued, InTime
<1>7. Queued(q, waiting', clock)
    <2>1. ASSUME NEW k \in DOMAIN q
          PROVE  /\ q[k].caller \in waiting' /\ q[k].kind \in Kinds[q[k].caller] /\ q[k].at <= clock
                 /\ \A j \in DOMAIN q : q[k].caller = q[j].caller => k = j
        <3> DEFINE m(n) == IF n < u THEN n ELSE n + 1
        <3>1. \A j \in DOMAIN q : m(j) \in DOMAIN p \ {u} /\ q[j] = p[m(j)] BY <1>4
        <3>2. \A j \in DOMAIN q : m(k) = m(j) => k = j
            <4>1. u \in Nat /\ DOMAIN q \subseteq Nat BY <1>2, <1>3, <1>4, LenProperties
            <4> QED BY <4>1
        <3> HIDE DEF m
        <3> QED BY <3>1, <3>2 DEF Queued
    <2> QED BY <1>4, <2>1 DEF Queued
<1>8. ASSUME NEW k \in DOMAIN q PROVE q[k].caller # r.caller /\ q[k].kind # "selection"
    <2>1. PICK m \in DOMAIN p \ {u} : q[k] = p[m] BY <1>4
    <2>2. p[m].caller # r.caller BY <1>6, <2>1
    <2>3. p[m].kind # "selection"
        <3>1. /\ p[m].caller \in GeckoCallers /\ p[m].kind \in Kinds[p[m].caller]
              /\ p[u].caller \in GeckoCallers /\ p[u].kind \in Kinds[p[u].caller]
            BY <1>3, <2>1 DEF Queued
        <3> QED BY <1>3, <1>5, <2>1, <2>2, <3>1, UpstreamAssumption
    <2> QED BY <2>1, <2>2, <2>3
<1>9. Overtakes(q, clock) BY <1>8 DEF Overtakes
<1>10. /\ clock \in Nat /\ next \in Nat /\ GeckoInterval \in Nat /\ RequestTimeout \in Nat
       /\ paused' \in Nat /\ next >= paused'
    BY UpstreamAssumption DEF Paced
<1>11. geckoNextAt' = clock + GeckoInterval BY <1>1, <1>10
<1>12. Paced(clock + GeckoInterval, clock, paused') BY <1>10 DEF Paced
<1>13. /\ current' = r /\ r.caller \in waiting' /\ \A i \in DOMAIN q : q[i].caller # r.caller
    BY <1>1, <1>5, <1>6, <1>8
<1>14. Executed(pending, waiting)' BY <1>1, <1>6, <1>13 DEF Executed
<1>15. InTime(current, lastStart)' BY <1>1, <1>6, <1>13 DEF InTime
<1>16. clock' <= lastStart' + RequestTimeout /\ lastStart' <= clock' BY <1>1, <1>10
<1>17. Queued(pending, waiting, clock)' /\ Overtakes(pending, lastStart)' /\ Paced(geckoNextAt, lastStart, paused)'
    BY <1>1, <1>7, <1>9, <1>11, <1>12 DEF Queued, Overtakes, Paced
<1> QED BY <1>1, <1>6, <1>10, <1>13, <1>14, <1>15, <1>16, <1>17 DEF GeckoInv

\* The head of the loop: nothing to do, a pause, or a start.
LEMMA LoopInv ==
    ASSUME NEW p, NEW next, clock \in Nat, clock' = clock, waiting' \subseteq GeckoCallers,
           Queued(p, waiting', clock), Overtakes(p, lastStart),
           Paced(next, lastStart, paused'), lastStart <= clock,
           \A i \in DOMAIN p : InTime(p[i], clock)', 
           Gecko!Loop(p, next)
    PROVE  GeckoInv'
<1>1. next \in Nat BY DEF Paced
<1>2. CASE p # <<>> /\ next <= clock
    <2>1. Gecko!Start(p, next) BY <1>1, <1>2 DEF Gecko!Loop
    <2> QED BY <1>2, <2>1, StartInv
<1>3. CASE p = <<>> \/ next > clock
    <2>1. /\ IF p = <<>> THEN drain' = "idle" ELSE drain' = "sleeping" /\ next > clock
          /\ current' = NoRequest /\ pending' = p /\ geckoNextAt' = next /\ lastStart' = lastStart
        BY <1>1, <1>3 DEF Gecko!Loop
    <2>2. clock <= next \/ p = <<>> BY <1>1, <2>1
    <2>3. Queued(pending, waiting, clock)' /\ Overtakes(pending, lastStart)' /\ Paced(geckoNextAt, lastStart, paused)'
        BY <2>1 DEF Queued, Overtakes, Paced
    <2> QED BY <2>1, <2>2, <2>3 DEF GeckoInv
<1> QED BY <1>1, <1>2, <1>3

LEMMA AskedInv == ASSUME GeckoInv, NEW c \in GeckoCallers, NEW kind \in Kinds[c], Gecko!Request(c, kind)
                    PROVE  GeckoInv'
<1> DEFINE r == [caller |-> c, kind |-> kind, at |-> clock]
           p == Append(pending, r)
<1>1. /\ c \notin waiting /\ waiting' = waiting \cup {c} /\ clock' = clock /\ paused' = paused
      /\ IF drain = "idle" THEN Gecko!Loop(p, geckoNextAt)
         ELSE pending' = p /\ UNCHANGED <<drain, current, geckoNextAt, lastStart>>
    BY DEF Gecko!Request
<1>2. /\ clock \in Nat /\ waiting \subseteq GeckoCallers /\ Queued(pending, waiting, clock)
      /\ Overtakes(pending, lastStart) /\ Paced(geckoNextAt, lastStart, paused)
      /\ lastStart <= clock /\ lastStart \in Int
    BY DEF GeckoInv, Paced
<1>3. /\ r \in Gecko!Requests /\ r.caller = c /\ r.kind = kind /\ r.at = clock
    BY <1>2, UpstreamAssumption DEF Gecko!Requests
<1> HIDE DEF r
<1>4. Queued(p, waiting \cup {c}, clock) /\ Joined(p, pending, r)
    BY <1>1, <1>2, <1>3, Asked
<1> HIDE DEF p
<1>5. PICK q : q = p OBVIOUS
<1>6. /\ q # <<>> /\ Queued(q, waiting', clock) /\ Overtakes(q, lastStart)
      /\ \A i \in DOMAIN q : \/ i \in DOMAIN pending /\ q[i] = pending[i]
                             \/ q[i].caller = c /\ q[i].at = clock
    <2>1. Overtakes(q, lastStart) BY <1>2, <1>3, <1>4, <1>5 DEF Overtakes, Joined
    <2> QED BY <1>1, <1>3, <1>4, <1>5, <2>1 DEF Joined
<1>7. CASE drain = "idle"
    <2>1. pending = <<>> BY <1>7 DEF GeckoInv
    <2>2. ASSUME NEW i \in DOMAIN q PROVE InTime(q[i], clock)'
        <3>1. q[i].at = clock
            <4>1. ~\E k \in DOMAIN pending : TRUE BY <2>1, EmptySeq
            <4> QED BY <1>6, <4>1
        <3>2. Wait \in Nat BY UpstreamAssumption DEF Wait
        <3> QED BY <1>1, <1>2, <3>1, <3>2 DEF InTime
    <2>3. Paced(geckoNextAt, lastStart, paused') BY <1>1, <1>2
    <2>4. waiting' \subseteq GeckoCallers /\ Gecko!Loop(q, geckoNextAt) BY <1>1, <1>2, <1>5, <1>7
    <2> QED BY <1>1, <1>2, <1>6, <2>2, <2>3, <2>4, LoopInv
<1>8. CASE drain # "idle"
    <2>1. pending' = q /\ UNCHANGED <<drain, current, geckoNextAt, lastStart>> BY <1>1, <1>5, <1>8
    <2>2. drain = "requesting" => Executed(pending, waiting)'
        <3> SUFFICES ASSUME drain = "requesting" PROVE Executed(pending, waiting)' OBVIOUS
        <3>1. Executed(pending, waiting) BY DEF GeckoInv
        <3> QED BY <1>1, <1>6, <2>1, <3>1 DEF Executed
    <2>3. Queued(pending, waiting, clock)' /\ Overtakes(pending, lastStart)' /\ Paced(geckoNextAt, lastStart, paused)'
        BY <1>1, <1>2, <1>6, <2>1 DEF Queued, Overtakes, Paced
    <2>4. current' # NoRequest => InTime(current, lastStart)'
        BY <1>1, <2>1 DEF GeckoInv, InTime
    <2> QED BY <1>1, <1>2, <1>6, <1>8, <2>1, <2>2, <2>3, <2>4 DEF GeckoInv
<1> QED BY <1>7, <1>8

\* The end of the pacing sleep.
LEMMA WakeInv == ASSUME GeckoInv, Gecko!Wake PROVE GeckoInv'
<1>1. /\ drain = "sleeping" /\ clock >= geckoNextAt /\ Gecko!Start(pending, geckoNextAt)
      /\ clock' = clock /\ waiting' = waiting /\ paused' = paused
    BY DEF Gecko!Wake
<1>2. /\ clock \in Nat /\ waiting \subseteq GeckoCallers /\ Queued(pending, waiting, clock)
      /\ Overtakes(pending, lastStart) /\ Paced(geckoNextAt, lastStart, paused)
      /\ pending # <<>> /\ geckoNextAt \in Nat
    BY <1>1 DEF GeckoInv, Paced
<1>3. PICK p : p = pending OBVIOUS
<1>4. \A i \in DOMAIN p : InTime(p[i], clock)' BY <1>1, <1>3, QueuedInTime DEF InTime
<1>5. geckoNextAt <= clock BY <1>1, <1>2
<1>6. PICK next : next = geckoNextAt OBVIOUS
<1> QED BY <1>1, <1>2, <1>3, <1>4, <1>5, <1>6, StartInv

\* A request ends: its caller no longer waits, and the loop goes on.
LEMMA EndInv ==
    ASSUME GeckoInv, drain = "requesting", Gecko!Settled, clock' = clock,
           NEW next, Paced(next, lastStart, paused'), paused' >= paused, Gecko!Loop(pending, next)
    PROVE  GeckoInv'
<1>1. /\ clock \in Nat /\ waiting \subseteq GeckoCallers /\ Queued(pending, waiting, clock)
      /\ Overtakes(pending, lastStart) /\ Executed(pending, waiting)
      /\ lastStart <= clock /\ paused \in Nat /\ paused' \in Nat
    BY DEF GeckoInv, Paced
<1>2. waiting' = waiting \ {current.caller} BY DEF Gecko!Settled
<1>3. PICK p : p = pending OBVIOUS
<1>4. PICK w : w = waiting' OBVIOUS
<1>5. Queued(p, w, clock)
    BY <1>1, <1>2, <1>3, <1>4 DEF Queued, Executed
<1>6. ASSUME NEW i \in DOMAIN p PROVE InTime(p[i], clock)'
    <2>1. InTime(p[i], clock) BY <1>3, QueuedInTime
    <2>2. p[i].at \in Nat
        <3>1. p[i] \in Gecko!Requests BY <1>5, ElementOfSeq, LenProperties DEF Queued
        <3> QED BY <3>1 DEF Gecko!Requests
    <2> QED BY <1>1, <2>1, <2>2 DEF InTime
<1>7. waiting' \subseteq GeckoCallers BY <1>1, <1>2
<1> QED BY <1>1, <1>3, <1>4, <1>5, <1>6, <1>7, LoopInv

LEMMA AnswerInv == ASSUME GeckoInv, Gecko!Answer PROVE GeckoInv'
<1>1. /\ drain = "requesting" /\ Gecko!Settled /\ Gecko!Loop(pending, geckoNextAt)
      /\ clock' = clock /\ paused' = paused
    BY DEF Gecko!Answer
<1>2. Paced(geckoNextAt, lastStart, paused) /\ paused \in Nat BY DEF GeckoInv, Paced
<1>3. PICK next : next = geckoNextAt OBVIOUS
<1>4. Paced(next, lastStart, paused') /\ paused' >= paused BY <1>1, <1>2, <1>3
<1> QED BY <1>1, <1>3, <1>4, EndInv

\* A pause moves the next start, never to an earlier time.
LEMMA LimitedInv == ASSUME GeckoInv, NEW pause \in Pauses \cup {DefaultPause}, Gecko!Limited(pause)
                    PROVE  GeckoInv'
<1>1. /\ drain = "requesting" /\ Gecko!Settled /\ clock' = clock
      /\ paused' = IF clock + pause > paused THEN clock + pause ELSE paused
      /\ Gecko!Loop(pending, Gecko!Paused(clock + pause))
    BY DEF Gecko!Limited
<1>2. /\ Paced(geckoNextAt, lastStart, paused) /\ clock \in Nat /\ pause \in Nat /\ GeckoInterval \in Nat
    BY UpstreamAssumption DEF GeckoInv
<1>3. PICK next : next = Gecko!Paused(clock + pause) OBVIOUS
<1>4. Paced(next, lastStart, paused') /\ paused' >= paused
    BY <1>1, <1>2, <1>3 DEF Paced, Gecko!Paused
<1> QED BY <1>1, <1>3, <1>4, EndInv

\* Time passes until a timer is due.
LEMMA TimePassesInv == ASSUME UpstreamInv, TimePasses PROVE UpstreamInv'
<1>1. /\ clock' = clock + 1 /\ UNCHANGED geckoVars /\ UNCHANGED rpcVars /\ Gecko!Quiet
    BY DEF TimePasses
<1>2. UNCHANGED <<pending, drain, current, geckoNextAt, waiting, lastStart, paused>>
    BY <1>1 DEF geckoVars
<1>3. GeckoInv /\ clock \in Nat /\ geckoNextAt \in Nat /\ lastStart \in Int
    BY DEF UpstreamInv, GeckoInv, Paced
<1>4. /\ drain = "sleeping" => clock' <= geckoNextAt
      /\ drain = "requesting" => clock' <= lastStart + RequestTimeout
      /\ lastStart <= clock' /\ clock' \in Nat
    <2>1. /\ drain = "sleeping" => clock < geckoNextAt
          /\ drain = "requesting" => clock < lastStart + RequestTimeout
        BY <1>1 DEF Gecko!Quiet
    <2>2. RequestTimeout \in Nat /\ lastStart <= clock BY <1>3, UpstreamAssumption DEF GeckoInv
    <2> QED BY <1>1, <1>3, <2>1, <2>2
<1>5. Queued(pending, waiting, clock)'
    <2>1. Queued(pending, waiting, clock) BY <1>3 DEF GeckoInv
    <2>2. ASSUME NEW i \in DOMAIN pending PROVE pending[i].at <= clock'
        <3>1. pending[i] \in Gecko!Requests BY <2>1, ElementOfSeq, LenProperties DEF Queued
        <3> QED BY <1>1, <1>3, <2>1, <3>1 DEF Queued, Gecko!Requests
    <2> QED BY <1>2, <2>1, <2>2 DEF Queued
<1>6. /\ (drain = "requesting" => Executed(pending, waiting)') /\ Overtakes(pending, lastStart)'
      /\ Paced(geckoNextAt, lastStart, paused)' /\ (current # NoRequest => InTime(current, lastStart)')
    BY <1>2, <1>3 DEF GeckoInv, Executed, Overtakes, Paced, InTime
<1>7. GeckoInv' BY <1>2, <1>3, <1>4, <1>5, <1>6 DEF GeckoInv
<1>8. RpcInv' BY <1>1, <1>4 DEF UpstreamInv, RpcInv, rpcVars
<1> QED BY <1>7, <1>8 DEF UpstreamInv

LEMMA GeckoSame == ASSUME GeckoInv, UNCHANGED geckoVars, clock' = clock PROVE GeckoInv'
BY DEF GeckoInv, geckoVars, Queued, Overtakes, Paced, Executed, InTime

\* An operation of the chain starts, waits or settles.
LEMMA RpcNextInv == ASSUME RpcInv, Rpc!Next PROVE RpcInv' /\ clock' = clock
<1>1. /\ clock \in Nat /\ rpcNextAt \in Nat /\ lastEnd \in Int /\ RpcInterval \in Nat
      /\ rpcNextAt >= lastEnd + RpcInterval
      /\ tail \in Seq(RpcCallers) /\ phase \in {"none", "sleeping", "requesting"}
      /\ phase = "none" <=> tail = <<>>
    BY UpstreamAssumption DEF RpcInv
<1>2. ASSUME NEW c \in RpcCallers, Rpc!Enqueue(c) PROVE RpcInv' /\ clock' = clock
    <2>1. /\ tail' = Append(tail, c) /\ UNCHANGED <<clock, rpcNextAt, lastEnd>>
          /\ IF tail = <<>> THEN Rpc!Turn(tail', rpcNextAt) ELSE UNCHANGED <<phase, startedAt>>
        BY <1>2 DEF Rpc!Enqueue
    <2>2. tail' \in Seq(RpcCallers) /\ tail' # <<>> BY <1>1, <2>1, AppendProperties
    <2>3. phase' \in {"sleeping", "requesting"} BY <1>1, <2>1, <2>2 DEF Rpc!Turn
    <2> QED BY <1>1, <2>1, <2>2, <2>3 DEF RpcInv
<1>3. CASE Rpc!Wake BY <1>1, <1>3 DEF Rpc!Wake, RpcInv
<1>4. CASE Rpc!Settle
    <2>1. /\ phase = "requesting" /\ tail' = Tail(tail) /\ Rpc!Turn(tail', rpcNextAt')
          /\ clock' = clock /\ lastEnd' = clock /\ rpcNextAt' = Rpc!Paced
        BY <1>4 DEF Rpc!Settle
    <2>2. rpcNextAt' \in Nat /\ rpcNextAt' >= lastEnd' + RpcInterval /\ lastEnd' \in Int
        BY <1>1, <2>1 DEF Rpc!Paced
    <2>3. tail' \in Seq(RpcCallers) BY <1>1, <2>1, HeadTailProperties
    <2>4. phase' \in {"none", "sleeping", "requesting"} /\ (phase' = "none" <=> tail' = <<>>)
        BY <2>1 DEF Rpc!Turn
    <2> QED BY <1>1, <2>1, <2>2, <2>3, <2>4 DEF RpcInv
<1> QED BY <1>2, <1>3, <1>4 DEF Rpc!Next

LEMMA InitUpstreamInv == UpstreamInit => UpstreamInv
<1> SUFFICES ASSUME UpstreamInit PROVE UpstreamInv OBVIOUS
<1>1. /\ clock = 0 /\ pending = <<>> /\ drain = "idle" /\ current = NoRequest
      /\ geckoNextAt = 0 /\ waiting = {} /\ lastStart = -GeckoInterval /\ paused = 0
      /\ rpcNextAt = 0 /\ lastEnd = -RpcInterval /\ tail = <<>> /\ phase = "none"
    BY DEF UpstreamInit, Gecko!Init, Rpc!Init
<1>2. GeckoInterval \in Nat /\ RpcInterval \in Nat BY UpstreamAssumption
<1>3. Queued(pending, waiting, clock) /\ Overtakes(pending, lastStart) /\ tail \in Seq(RpcCallers)
    BY <1>1, EmptySeq DEF Queued, Overtakes
<1> QED BY <1>1, <1>2, <1>3 DEF UpstreamInv, GeckoInv, RpcInv, Paced

LEMMA StepUpstreamInv == UpstreamInv /\ [UpstreamNext]_upstreamVars => UpstreamInv'
<1> SUFFICES ASSUME UpstreamInv, [UpstreamNext]_upstreamVars PROVE UpstreamInv'
    OBVIOUS
<1>1. GeckoInv /\ RpcInv BY DEF UpstreamInv
<1>2. ASSUME UNCHANGED rpcVars, clock' = clock PROVE RpcInv' BY <1>1, <1>2 DEF RpcInv, rpcVars
<1>3. ASSUME NEW c \in GeckoCallers, NEW kind \in Kinds[c], Gecko!Request(c, kind), UNCHANGED rpcVars
      PROVE  UpstreamInv'
    BY <1>1, <1>2, <1>3, AskedInv DEF UpstreamInv, Gecko!Request
<1>4. CASE GeckoWakes BY <1>1, <1>2, <1>4, WakeInv DEF GeckoWakes, UpstreamInv, Gecko!Wake
<1>5. CASE GeckoAnswers BY <1>1, <1>2, <1>5, AnswerInv DEF GeckoAnswers, UpstreamInv, Gecko!Answer
<1>6. CASE GeckoLimits BY <1>1, <1>2, <1>6, LimitedInv DEF GeckoLimits, UpstreamInv, Gecko!Limited
<1>7. CASE AskRpc \/ RpcWakes \/ RpcSettles
    <2>1. Rpc!Next /\ UNCHANGED geckoVars BY <1>7 DEF AskRpc, RpcWakes, RpcSettles, Rpc!Next
    <2> QED BY <1>1, <2>1, RpcNextInv, GeckoSame DEF UpstreamInv
<1>8. CASE UNCHANGED upstreamVars
    BY <1>1, <1>2, <1>8, GeckoSame DEF upstreamVars, UpstreamInv
<1> QED BY <1>3, <1>4, <1>5, <1>6, <1>7, <1>8, TimePassesInv DEF UpstreamNext, AskGecko


-----------------------------------------------------------------------------
\* The waiting of a request.

LEMMA CardinalityIsOne == ASSUME NEW S PROVE Gecko!Cardinality(S) = Cardinality(S)
BY DEF Gecko!Cardinality, Cardinality

LEMMA WaitType == Wait \in Nat /\ Wait >= RequestTimeout /\ Wait >= GeckoInterval
BY UpstreamAssumption DEF Wait

LEMMA MoreTurns == ASSUME NEW w \in Nat, NEW m \in Int, NEW n \in Int, m <= n PROVE w * m <= w * n
<1>1. n - m \in Nat /\ w * n = w * m + w * (n - m) /\ w * m \in Int /\ w * (n - m) \in Nat OBVIOUS
<1> QED BY <1>1

LEMMA OneTurnMore == ASSUME NEW w \in Nat, NEW n \in Int PROVE w * (n + 1) = w * n + w
OBVIOUS

LEMMA Images ==
    ASSUME NEW S, IsFiniteSet(S), NEW f
    PROVE  IsFiniteSet({f[x] : x \in S}) /\ Cardinality({f[x] : x \in S}) <= Cardinality(S)
<1> DEFINE T == {f[x] : x \in S}
           g == [x \in S |-> f[x]]
<1>1. g \in Surjection(S, T) BY DEF Surjection
<1> HIDE DEF g, T
<1>2. IsFiniteSet(T) /\ Cardinality(T) <= Cardinality(S) BY <1>1, FS_Surjection
<1> QED BY <1>2 DEF T

\* What goes before a request is as many as the places in the queue that do, at most.
LEMMA BeforeIsFinite ==
    ASSUME NEW p \in Seq(Gecko!Requests), NEW i,
           NEW S, {k \in DOMAIN p : Goes(p, k, i)} \subseteq S, S \subseteq DOMAIN p
    PROVE  /\ IsFiniteSet(Before(p, i)) /\ Cardinality(Before(p, i)) \in Nat
           /\ Cardinality(Before(p, i)) <= Cardinality(S) /\ Cardinality(S) \in Nat
<1> DEFINE B == {k \in DOMAIN p : Goes(p, k, i)}
           f == [k \in DOMAIN p |-> p[k].caller]
<1>1. DOMAIN p = 1..Len(p) /\ Len(p) \in Nat BY LenProperties
<1>2. IsFiniteSet(DOMAIN p) BY <1>1, FS_Interval
<1>3. IsFiniteSet(S) /\ Cardinality(S) \in Nat BY <1>2, FS_Subset, FS_CardinalityType
<1>4. IsFiniteSet(B) /\ Cardinality(B) <= Cardinality(S) /\ Cardinality(B) \in Nat
    <2>1. B \subseteq S OBVIOUS
    <2> HIDE DEF B
    <2> QED BY <1>3, <2>1, FS_Subset, FS_CardinalityType
<1>5. Before(p, i) = {f[k] : k \in B} BY DEF Before
<1> HIDE DEF B, f
<1>6. IsFiniteSet(Before(p, i)) /\ Cardinality(Before(p, i)) <= Cardinality(B) BY <1>4, <1>5, Images
<1>7. Cardinality(Before(p, i)) \in Nat BY <1>6, FS_CardinalityType
<1> QED BY <1>3, <1>4, <1>6, <1>7

LEMMA TurnsType ==
    ASSUME NEW p, NEW callers, callers \subseteq GeckoCallers, NEW now \in Nat, Queued(p, callers, now),
           NEW allowed \in [GeckoCallers -> Nat], NEW i \in DOMAIN p
    PROVE  /\ p[i] \in Gecko!Requests /\ p[i].at \in Nat /\ p[i].caller \in GeckoCallers
           /\ IsFiniteSet(Before(p, i)) /\ Cardinality(Before(p, i)) \in Nat
           /\ allowed[p[i].caller] \in Nat /\ TurnsLeft(p, i, allowed) \in Int
           /\ TurnsLeft(p, i, allowed) <= 1 + allowed[p[i].caller]
<1>1. p \in Seq(Gecko!Requests) /\ p[i].caller \in GeckoCallers BY DEF Queued
<1>2. p[i] \in Gecko!Requests BY <1>1, ElementOfSeq, LenProperties
<1>3. p[i].at \in Nat BY <1>2 DEF Gecko!Requests
<1>4. IsFiniteSet(Before(p, i)) /\ Cardinality(Before(p, i)) \in Nat
    <2>1. {k \in DOMAIN p : Goes(p, k, i)} \subseteq DOMAIN p OBVIOUS
    <2> QED BY <1>1, <2>1, BeforeIsFinite
<1>5. allowed[p[i].caller] \in Nat BY <1>1
<1>6. TurnsLeft(p, i, allowed) \in Int /\ TurnsLeft(p, i, allowed) <= 1 + allowed[p[i].caller]
    BY <1>4, <1>5 DEF TurnsLeft
<1> QED BY <1>1, <1>2, <1>3, <1>4, <1>5, <1>6

\* A later pause leaves a request all its turns.
LEMMA LaterPause ==
    ASSUME NEW p, NEW callers, callers \subseteq GeckoCallers, NEW now \in Nat, Queued(p, callers, now),
           NEW allowed \in [GeckoCallers -> Nat], NEW time \in Int,
           NEW until \in Nat, NEW later \in Nat, until <= later, InTurn(p, time, allowed, until)
    PROVE  InTurn(p, time, allowed, later)
<1> SUFFICES ASSUME NEW i \in DOMAIN p
             PROVE  /\ TurnsLeft(p, i, allowed) >= 1
                    /\ time <= Since(p[i], later) + Wait * TurnsLeft(p, i, allowed)
    BY DEF InTurn
<1>1. p[i].at \in Nat /\ TurnsLeft(p, i, allowed) \in Int BY TurnsType
<1>2. PICK x \in Int : x = Wait * TurnsLeft(p, i, allowed) BY <1>1, WaitType
<1>3. TurnsLeft(p, i, allowed) >= 1 /\ time <= Since(p[i], until) + x BY <1>2 DEF InTurn
<1> QED BY <1>1, <1>2, <1>3 DEF Since


\* When the first of the queue is started, one less goes before each of the others.
LEMMA StartTurn ==
    ASSUME NEW p, NEW callers, callers \subseteq GeckoCallers, Queued(p, callers, clock), p # <<>>,
           NEW allowed \in [GeckoCallers -> Nat], NEW until \in Nat, clock \in Nat,
           InTurn(p, clock, allowed, until), NEW next, Gecko!Start(p, next)
    PROVE  /\ InTurn(pending', lastStart' + Wait, allowed, until)
           /\ HadTurn(current', lastStart', allowed, until)
<1> DEFINE u == Gecko!Urgent(p)
           q == Gecko!RemoveAt(p, u)
<1>1. current' = p[u] /\ pending' = q /\ lastStart' = clock BY DEF Gecko!Start
<1>2. p \in Seq(Gecko!Requests) BY DEF Queued
<1>3. u \in DOMAIN p /\ \A j \in DOMAIN p \ {u} : Goes(p, u, j) BY <1>2, UrgentIsFirst
<1>4. /\ q \in Seq(Gecko!Requests)
      /\ \A k \in DOMAIN q : LET m == IF k < u THEN k ELSE k + 1 IN
            m \in DOMAIN p \ {u} /\ q[k] = p[m]
    <2> HIDE DEF u
    <2> QED BY <1>2, <1>3, RemovedAt
<1> HIDE DEF u, q
<1>5. DOMAIN q \subseteq Nat /\ DOMAIN p \subseteq Nat /\ u \in Nat BY <1>2, <1>3, <1>4, LenProperties
<1>6. HadTurn(p[u], clock, allowed, until)
    <2>1. /\ p[u].at \in Nat /\ TurnsLeft(p, u, allowed) \in Int /\ allowed[p[u].caller] \in Nat
          /\ TurnsLeft(p, u, allowed) <= 1 + allowed[p[u].caller]
        BY <1>3, TurnsType
    <2>2. clock <= Since(p[u], until) + Wait * TurnsLeft(p, u, allowed) BY <1>3 DEF InTurn
    <2>3. PICK x \in Int : x = Wait * TurnsLeft(p, u, allowed) BY <2>1, WaitType
    <2>4. PICK y \in Int : y = Wait * (1 + allowed[p[u].caller]) BY <2>1, WaitType
    <2>5. x <= y
        <3>1. 1 + allowed[p[u].caller] \in Int BY <2>1
        <3> QED BY <2>1, <2>3, <2>4, <3>1, WaitType, MoreTurns
    <2>6. Since(p[u], until) \in Nat BY <2>1 DEF Since
    <2>7. clock <= Since(p[u], until) + y BY <2>2, <2>3, <2>5, <2>6
    <2> QED BY <2>4, <2>7 DEF HadTurn
<1>7. ASSUME NEW k \in DOMAIN q
      PROVE  /\ TurnsLeft(q, k, allowed) >= 1
             /\ clock + Wait <= Since(q[k], until) + Wait * TurnsLeft(q, k, allowed)
    <2> DEFINE m(n) == IF n < u THEN n ELSE n + 1
    <2>1. \A j \in DOMAIN q : m(j) \in DOMAIN p \ {u} /\ q[j] = p[m(j)] BY <1>4
    <2>2. \A j \in DOMAIN q : j < k => m(j) < m(k) BY <1>5
    <2> HIDE DEF m
    <2>3. PICK i \in DOMAIN p \ {u} : i = m(k) BY <2>1
    <2>4. q[k] = p[i] /\ p[u].caller \in Before(p, i) BY <1>3, <2>1, <2>3 DEF Before
    <2>5. Before(q, k) \subseteq Before(p, i) \ {p[u].caller}
        <3> SUFFICES ASSUME NEW j \in DOMAIN q, Goes(q, j, k)
                     PROVE  q[j].caller \in Before(p, i) /\ q[j].caller # p[u].caller
            BY DEF Before
        <3>1. PICK n \in DOMAIN p \ {u} : n = m(j) /\ q[j] = p[n] BY <2>1
        <3>2. Goes(p, n, i) BY <2>2, <2>3, <2>4, <3>1 DEF Goes
        <3>3. p[n].caller # p[u].caller BY <1>3, <3>1 DEF Queued
        <3> QED BY <3>1, <3>2, <3>3 DEF Before
    <2>6. /\ p[i].at \in Nat /\ IsFiniteSet(Before(p, i)) /\ Cardinality(Before(p, i)) \in Nat
          /\ allowed[p[i].caller] \in Nat /\ TurnsLeft(p, i, allowed) \in Int
        BY <2>3, TurnsType
    <2>7. Cardinality(Before(q, k)) \in Nat /\ Cardinality(Before(q, k)) + 1 <= Cardinality(Before(p, i))
        <3>1. /\ IsFiniteSet(Before(p, i) \ {p[u].caller})
              /\ Cardinality(Before(p, i) \ {p[u].caller}) = Cardinality(Before(p, i)) - 1
            BY <2>4, <2>6, FS_RemoveElement
        <3>2. /\ IsFiniteSet(Before(q, k))
              /\ Cardinality(Before(q, k)) <= Cardinality(Before(p, i) \ {p[u].caller})
            BY <2>5, <3>1, FS_Subset
        <3>3. Cardinality(Before(q, k)) \in Nat BY <3>2, FS_CardinalityType
        <3> QED BY <2>6, <3>1, <3>2, <3>3
    <2>8. TurnsLeft(q, k, allowed) \in Int /\ TurnsLeft(p, i, allowed) + 1 <= TurnsLeft(q, k, allowed)
        BY <2>4, <2>6, <2>7 DEF TurnsLeft
    <2>9. TurnsLeft(p, i, allowed) >= 1 /\ clock <= Since(p[i], until) + Wait * TurnsLeft(p, i, allowed)
        BY <2>3 DEF InTurn
    <2>10. PICK l \in Int : l = TurnsLeft(p, i, allowed) BY <2>6
    <2>11. PICK l2 \in Int : l2 = TurnsLeft(q, k, allowed) BY <2>8
    <2>12. l + 1 <= l2 /\ l >= 1 BY <2>8, <2>9, <2>10, <2>11
    <2>13. Wait * (l + 1) <= Wait * l2 /\ Wait * (l + 1) = Wait * l + Wait
        BY <2>10, <2>12, WaitType, MoreTurns, OneTurnMore
    <2>14. PICK x \in Int : x = Wait * l BY WaitType
    <2>15. PICK y \in Int : y = Wait * l2 BY WaitType
    <2>16. x + Wait <= y BY <2>13, <2>14, <2>15
    <2>17. Since(p[i], until) \in Nat BY <2>6 DEF Since
    <2>18. clock <= Since(p[i], until) + x BY <2>9, <2>10, <2>14
    <2>19. clock + Wait <= Since(p[i], until) + y BY <2>14, <2>15, <2>16, <2>17, <2>18, WaitType
    <2> QED BY <2>4, <2>11, <2>12, <2>15, <2>19
<1> QED BY <1>1, <1>6, <1>7 DEF InTurn

LEMMA LoopTurn ==
    ASSUME NEW p, NEW callers, callers \subseteq GeckoCallers, Queued(p, callers, clock),
           NEW allowed \in [GeckoCallers -> Nat], NEW until \in Nat, clock \in Nat,
           InTurn(p, clock, allowed, until), InTurn(p, lastStart + Wait, allowed, until),
           NEW next \in Nat, Gecko!Loop(p, next)
    PROVE  /\ InTurn(pending', lastStart' + Wait, allowed, until)
           /\ HadTurn(current', lastStart', allowed, until)
<1>1. CASE p # <<>> /\ next <= clock
    <2>1. Gecko!Start(p, next) BY <1>1 DEF Gecko!Loop
    <2> QED BY <1>1, <2>1, StartTurn
<1>2. CASE p = <<>> \/ next > clock
    <2>1. current' = NoRequest /\ pending' = p /\ lastStart' = lastStart BY <1>2 DEF Gecko!Loop
    <2> QED BY <2>1 DEF HadTurn
<1> QED BY <1>1, <1>2

\* The clock is never past the turn that is due.
LEMMA NowInTurn == ASSUME GeckoInv, WaitInv PROVE InTurn(pending, clock, ahead, paused)
<1> SUFFICES ASSUME NEW i \in DOMAIN pending
             PROVE  /\ TurnsLeft(pending, i, ahead) >= 1
                    /\ clock <= Since(pending[i], paused) + Wait * TurnsLeft(pending, i, ahead)
    BY DEF InTurn
<1>1. /\ clock \in Nat /\ lastStart \in Int /\ geckoNextAt \in Nat /\ paused \in Nat
      /\ geckoNextAt <= lastStart + GeckoInterval \/ geckoNextAt <= paused
      /\ pending # <<>> /\ waiting \subseteq GeckoCallers /\ Queued(pending, waiting, clock)
      /\ ahead \in [GeckoCallers -> Nat]
    BY DEF GeckoInv, Paced, WaitInv
<1>2. /\ RequestTimeout \in Nat /\ GeckoInterval \in Nat
      /\ Wait \in Nat /\ Wait >= RequestTimeout /\ Wait >= GeckoInterval
    BY WaitType, UpstreamAssumption
<1>3. pending[i].at \in Nat /\ TurnsLeft(pending, i, ahead) \in Int
    <2>1. PICK p : p = pending OBVIOUS
    <2> QED BY <1>1, <2>1, TurnsType
<1>4. PICK l \in Int : l = TurnsLeft(pending, i, ahead) BY <1>3
<1>5. l >= 1 /\ lastStart + Wait <= Since(pending[i], paused) + Wait * l
    BY <1>4 DEF WaitInv, InTurn
<1>6. PICK x \in Int : x = Wait * l BY <1>2
<1>7. x >= 0 BY <1>2, <1>5, <1>6
<1>8. clock <= lastStart + RequestTimeout \/ clock <= geckoNextAt BY <1>1 DEF GeckoInv
<1>9. clock <= Since(pending[i], paused) + x
    BY <1>1, <1>2, <1>3, <1>5, <1>6, <1>7, <1>8 DEF Since
<1> QED BY <1>4, <1>5, <1>6, <1>9


\* A request that joins the queue goes before those it overtakes, to which that is allowed, and
\* finds before it what it is allowed itself.
LEMMA AskedTurn ==
    ASSUME GeckoInv, WaitInv, NEW c \in GeckoCallers, NEW kind \in Kinds[c], Gecko!Request(c, kind),
           NEW time \in Int, time <= clock + Wait, InTurn(pending, time, ahead, paused),
           NEW r, r = [caller |-> c, kind |-> kind, at |-> clock],
           NEW q, q = Append(pending, r), Queued(q, waiting', clock), waiting' \subseteq GeckoCallers
    PROVE  ahead' \in [GeckoCallers -> Nat] /\ InTurn(q, time, ahead', paused)
<1>1. /\ c \notin waiting /\ Gecko!Preceded(c, kind)
    BY DEF Gecko!Request
<1>2. /\ clock \in Nat /\ paused \in Nat /\ pending \in Seq(Gecko!Requests)
      /\ Queued(pending, waiting, clock) /\ waiting \subseteq GeckoCallers /\ ahead \in [GeckoCallers -> Nat]
    BY DEF GeckoInv, Paced, Queued, WaitInv
<1>3. r \in Gecko!Requests /\ r.caller = c /\ r.kind = kind /\ r.at = clock
    BY <1>2, UpstreamAssumption DEF Gecko!Requests
<1>4. /\ Len(q) = Len(pending) + 1 /\ Len(pending) \in Nat
      /\ DOMAIN pending = 1..Len(pending) /\ DOMAIN q = 1..(Len(pending) + 1)
      /\ q \in Seq(Gecko!Requests)
      /\ \A i \in DOMAIN pending : q[i] = pending[i]
      /\ q[Len(pending) + 1] = r
    BY <1>2, <1>3, AppendProperties, LenProperties
<1>5. \A k \in {"selection", "ohlcv", "info"} : Gecko!Rank[k] = Gecko!Priority(k) /\ Gecko!Priority(k) \in 0..2
    BY DEF Gecko!Rank, Gecko!Priority
<1>6. kind \in {"selection", "ohlcv", "info"} BY UpstreamAssumption
<1>7. \A i \in DOMAIN pending : pending[i].kind \in {"selection", "ohlcv", "info"}
    <2>1. \A i \in DOMAIN pending : pending[i] \in Gecko!Requests BY <1>2, ElementOfSeq, LenProperties
    <2> QED BY <2>1 DEF Gecko!Requests
<1> DEFINE S == {i \in DOMAIN pending : Gecko!Rank[pending[i].kind] <= Gecko!Rank[kind]}
<1>8. /\ ahead'[c] = Cardinality(S)
      /\ \A d \in GeckoCallers \ {c} :
            ahead'[d] = IF Gecko!Overtaken(d, kind) THEN ahead[d] + 1 ELSE ahead[d]
    BY <1>1, CardinalityIsOne DEF Gecko!Preceded
<1>9. {k \in DOMAIN q : Goes(q, k, Len(pending) + 1)} \subseteq S
    <2> SUFFICES ASSUME NEW k \in DOMAIN q, Goes(q, k, Len(pending) + 1) PROVE k \in S OBVIOUS
    <2>1. k # Len(pending) + 1 BY <1>3, <1>4, <1>5, <1>6 DEF Goes
    <2>2. k \in DOMAIN pending /\ q[k] = pending[k] BY <1>4, <2>1
    <2> QED BY <1>3, <1>4, <1>5, <1>6, <1>7, <2>2 DEF Goes
<1>10. /\ Cardinality(S) \in Nat
       /\ Cardinality(Before(q, Len(pending) + 1)) \in Nat
       /\ Cardinality(Before(q, Len(pending) + 1)) <= Cardinality(S)
    <2>1. S \subseteq DOMAIN q BY <1>4
    <2> HIDE DEF S
    <2> QED BY <1>4, <1>9, <2>1, BeforeIsFinite
<1>11. ahead' \in [GeckoCallers -> Nat]
    <2>1. \A d \in GeckoCallers : ahead'[d] \in Nat
        <3> HIDE DEF S
        <3> QED BY <1>2, <1>8, <1>10
    <2>2. ahead' = [d \in GeckoCallers |-> ahead'[d]] BY <1>1 DEF Gecko!Preceded
    <2> QED BY <2>1, <2>2
<1>12. ASSUME NEW i \in DOMAIN pending
       PROVE  /\ q[i] = pending[i] /\ TurnsLeft(pending, i, ahead) \in Int /\ TurnsLeft(q, i, ahead') \in Int
              /\ TurnsLeft(pending, i, ahead) <= TurnsLeft(q, i, ahead')
    <2>1. q[i] = pending[i] /\ i \in DOMAIN q BY <1>4
    <2>2. PICK p : p = pending OBVIOUS
    <2>3. PICK d : d = p[i].caller OBVIOUS
    <2>4. /\ d \in GeckoCallers /\ d # c /\ IsFiniteSet(Before(p, i)) /\ Cardinality(Before(p, i)) \in Nat
          /\ ahead[d] \in Nat /\ TurnsLeft(p, i, ahead) \in Int
        <3>1. d # c BY <1>1, <1>2, <2>2, <2>3 DEF Queued
        <3> QED BY <1>2, <2>2, <2>3, <3>1, TurnsType
    <2>5. PICK a : a = ahead' OBVIOUS
    <2>6. /\ IsFiniteSet(Before(q, i)) /\ Cardinality(Before(q, i)) \in Nat
          /\ a[d] \in Nat /\ TurnsLeft(q, i, a) \in Int
        BY <1>2, <1>11, <2>1, <2>2, <2>3, <2>5, TurnsType
    <2>7. Before(q, i) \subseteq Before(p, i) \cup {c}
        <3> SUFFICES ASSUME NEW j \in DOMAIN q, Goes(q, j, i), q[j].caller # c
                     PROVE  q[j].caller \in Before(p, i)
            BY DEF Before
        <3>1. j \in DOMAIN p /\ q[j] = p[j] BY <1>3, <1>4, <2>2
        <3> QED BY <2>1, <2>2, <3>1 DEF Before, Goes
    <2>0. /\ TurnsLeft(q, i, a) = 1 + a[d] - Cardinality(Before(q, i))
          /\ TurnsLeft(p, i, ahead) = 1 + ahead[d] - Cardinality(Before(p, i))
        BY <2>1, <2>2, <2>3 DEF TurnsLeft
    <2>8. CASE Gecko!Overtaken(d, kind)
        <3>1. a[d] = ahead[d] + 1 BY <1>8, <2>4, <2>5, <2>8
        <3>2. /\ IsFiniteSet(Before(p, i) \cup {c})
              /\ Cardinality(Before(p, i) \cup {c}) <= Cardinality(Before(p, i)) + 1
            <4>1. PICK B : B = Before(p, i) OBVIOUS
            <4>2. /\ IsFiniteSet(B \cup {c})
                  /\ Cardinality(B \cup {c}) = IF c \in B THEN Cardinality(B) ELSE Cardinality(B) + 1
                BY <2>4, <4>1, FS_AddElement
            <4> QED BY <2>4, <4>1, <4>2
        <3>3. /\ Cardinality(Before(p, i) \cup {c}) \in Nat
              /\ Cardinality(Before(q, i)) <= Cardinality(Before(p, i) \cup {c})
            BY <2>7, <3>2, FS_Subset, FS_CardinalityType
        <3>4. Cardinality(Before(q, i)) <= Cardinality(Before(p, i)) + 1 BY <2>4, <2>6, <3>2, <3>3
        <3>5. TurnsLeft(p, i, ahead) <= TurnsLeft(q, i, a) BY <2>0, <2>4, <2>6, <3>1, <3>4
        <3> QED BY <2>1, <2>2, <2>4, <2>5, <2>6, <3>5
    <2>9. CASE ~Gecko!Overtaken(d, kind)
        <3>1. a[d] = ahead[d] BY <1>8, <2>4, <2>5, <2>9
        <3>2. ~(Gecko!Priority(kind) < Gecko!Priority(p[i].kind))
            BY <1>5, <1>6, <1>7, <2>2, <2>3, <2>9 DEF Gecko!Overtaken
        <3>3. c \notin Before(q, i)
            <4> SUFFICES ASSUME NEW j \in DOMAIN q, Goes(q, j, i), q[j].caller = c PROVE FALSE
                BY DEF Before
            <4>1. j = Len(pending) + 1 BY <1>1, <1>2, <1>4 DEF Queued
            <4>2. q[j].kind = kind /\ q[i].kind = p[i].kind /\ i < j BY <1>3, <1>4, <2>1, <2>2, <4>1
            <4>3. Gecko!Priority(kind) \in 0..2 /\ Gecko!Priority(p[i].kind) \in 0..2
                BY <1>5, <1>6, <1>7, <2>2
            <4>4. ~(j < i) BY <1>4, <4>1
            <4> QED BY <3>2, <4>2, <4>3, <4>4 DEF Goes
        <3>4. Before(q, i) \subseteq Before(p, i) BY <2>7, <3>3
        <3>5. Cardinality(Before(q, i)) <= Cardinality(Before(p, i)) BY <2>4, <3>4, FS_Subset
        <3>6. TurnsLeft(p, i, ahead) <= TurnsLeft(q, i, a) BY <2>0, <2>4, <2>6, <3>1, <3>5
        <3> QED BY <2>1, <2>2, <2>4, <2>5, <2>6, <3>6
    <2> QED BY <2>8, <2>9
<1>13. ASSUME NEW i \in DOMAIN q
       PROVE  /\ TurnsLeft(q, i, ahead') >= 1
              /\ time <= Since(q[i], paused) + Wait * TurnsLeft(q, i, ahead')
    <2>1. CASE i \in DOMAIN pending
        <3>1. PICK l \in Int : l = TurnsLeft(pending, i, ahead) BY <1>12, <2>1
        <3>2. PICK m \in Int : m = TurnsLeft(q, i, ahead') BY <1>12, <2>1
        <3>3. q[i] = pending[i] /\ l <= m BY <1>12, <2>1, <3>1, <3>2
        <3>4. l >= 1 /\ time <= Since(pending[i], paused) + Wait * l BY <2>1, <3>1 DEF InTurn
        <3>5. PICK x \in Int : x = Wait * l BY WaitType
        <3>6. PICK y \in Int : y = Wait * m BY WaitType
        <3>7. x <= y BY <3>1, <3>2, <3>3, <3>5, <3>6, WaitType, MoreTurns
        <3>8. Since(pending[i], paused) \in Nat
            <4>1. pending[i] \in Gecko!Requests BY <1>2, <2>1, ElementOfSeq, LenProperties
            <4> QED BY <1>2, <4>1 DEF Since, Gecko!Requests
        <3>9. time <= Since(pending[i], paused) + y BY <3>4, <3>5, <3>6, <3>7, <3>8
        <3> QED BY <3>2, <3>3, <3>4, <3>6, <3>9
    <2>2. CASE i = Len(pending) + 1
        <3>1. q[i] = r BY <1>4, <2>2
        <3>2. TurnsLeft(q, i, ahead') \in Int /\ TurnsLeft(q, i, ahead') >= 1
            <4> HIDE DEF S
            <4> QED BY <1>3, <1>8, <1>10, <2>2, <3>1 DEF TurnsLeft
        <3>3. PICK l \in Int : l = TurnsLeft(q, i, ahead') BY <3>2
        <3>4. Wait * 1 = Wait /\ Wait * 1 <= Wait * l BY <3>2, <3>3, WaitType, MoreTurns
        <3>5. Since(r, paused) \in Nat /\ clock <= Since(r, paused) BY <1>2, <1>3 DEF Since
        <3>6. PICK y \in Int : y = Wait * l BY WaitType
        <3>7. Wait <= y BY <3>4, <3>6
        <3>8. time <= Since(r, paused) + y
            <4>1. PICK z \in Nat : z = Since(r, paused) BY <3>5
            <4>2. time \in Int /\ clock \in Nat /\ Wait \in Nat /\ time <= clock + Wait BY <1>2, WaitType
            <4> QED BY <3>5, <3>6, <3>7, <4>1, <4>2
        <3> QED BY <3>1, <3>2, <3>3, <3>6, <3>8
    <2> QED BY <1>4, <2>1, <2>2
<1> QED BY <1>11, <1>13 DEF InTurn


LEMMA AskedWait ==
    ASSUME GeckoInv, WaitInv, NEW c \in GeckoCallers, NEW kind \in Kinds[c], Gecko!Request(c, kind)
    PROVE  WaitInv'
<1>1. PICK r : r = [caller |-> c, kind |-> kind, at |-> clock] OBVIOUS
<1>2. PICK q : q = Append(pending, r) OBVIOUS
<1>3. /\ c \notin waiting /\ waiting' = waiting \cup {c} /\ clock' = clock /\ paused' = paused
      /\ IF drain = "idle" THEN Gecko!Loop(q, geckoNextAt)
         ELSE pending' = q /\ UNCHANGED <<drain, current, geckoNextAt, lastStart>>
    BY <1>1, <1>2 DEF Gecko!Request
<1>4. /\ clock \in Nat /\ paused \in Nat /\ geckoNextAt \in Nat /\ lastStart \in Int /\ lastStart <= clock
      /\ Queued(pending, waiting, clock) /\ waiting \subseteq GeckoCallers /\ ahead \in [GeckoCallers -> Nat]
    BY DEF GeckoInv, Paced, WaitInv
<1>5. /\ r \in Gecko!Requests /\ r.caller = c /\ r.kind = kind /\ r.at = clock
    BY <1>1, <1>4, UpstreamAssumption DEF Gecko!Requests
<1>6. Queued(q, waiting', clock) /\ waiting' \subseteq GeckoCallers
    <2>1. r.caller \in GeckoCallers \ waiting /\ r.kind \in Kinds[r.caller] BY <1>3, <1>5
    <2>2. Queued(Append(pending, r), waiting \cup {r.caller}, clock) BY <1>4, <1>5, <2>1, Asked
    <2> QED BY <1>2, <1>3, <1>4, <1>5, <2>2
<1>7. lastStart + Wait \in Int /\ lastStart + Wait <= clock + Wait /\ clock <= clock + Wait /\ clock \in Int
    BY <1>4, WaitType
<1>8. ahead' \in [GeckoCallers -> Nat] /\ InTurn(q, clock, ahead', paused)
    BY <1>1, <1>2, <1>6, <1>7, NowInTurn, AskedTurn
<1>9. InTurn(q, lastStart + Wait, ahead', paused)
    <2>1. InTurn(pending, lastStart + Wait, ahead, paused) BY DEF WaitInv
    <2>2. PICK time \in Int : time = lastStart + Wait BY <1>7
    <2>3. InTurn(q, time, ahead', paused)
        BY <1>1, <1>2, <1>6, <1>7, <2>1, <2>2, AskedTurn
    <2> QED BY <2>2, <2>3
<1>10. CASE drain = "idle"
    <2>1. Gecko!Loop(q, geckoNextAt) BY <1>3, <1>10
    <2>2. PICK a : a = ahead' OBVIOUS
    <2>3. PICK w : w = waiting' OBVIOUS
    <2>4. /\ InTurn(pending', lastStart' + Wait, a, paused)
          /\ HadTurn(current', lastStart', a, paused)
        BY <1>4, <1>6, <1>8, <1>9, <2>1, <2>2, <2>3, LoopTurn
    <2>5. drain' # "requesting" => current' = NoRequest BY <2>1 DEF Gecko!Loop, Gecko!Start
    <2> QED BY <1>3, <1>8, <2>2, <2>4, <2>5 DEF WaitInv, InTurn, HadTurn
<1>11. CASE drain # "idle"
    <2>1. pending' = q /\ drain' = drain /\ current' = current /\ lastStart' = lastStart BY <1>3, <1>11
    <2>2. HadTurn(current, lastStart, ahead', paused)
        <3> SUFFICES ASSUME current # NoRequest
                     PROVE  lastStart <= Since(current, paused) + Wait * (1 + ahead'[current.caller])
            BY DEF HadTurn
        <3>1. drain = "requesting" BY DEF WaitInv
        <3>2. current \in Gecko!Requests /\ current.caller \in waiting BY <3>1 DEF GeckoInv, Executed
        <3>3. PICK d : d = current.caller OBVIOUS
        <3>4. d \in GeckoCallers \ {c} BY <1>3, <1>4, <3>2, <3>3
        <3>5. ahead'[d] = ahead[d] \/ ahead'[d] = ahead[d] + 1
            <4>1. Gecko!Preceded(c, kind) BY DEF Gecko!Request
            <4> QED BY <3>4, <4>1 DEF Gecko!Preceded
        <3>6. ahead[d] \in Nat /\ ahead'[d] \in Nat BY <1>4, <1>8, <3>4
        <3>7. Wait * (1 + ahead[d]) <= Wait * (1 + ahead'[d])
            <4>1. 1 + ahead[d] \in Int /\ 1 + ahead'[d] \in Int /\ 1 + ahead[d] <= 1 + ahead'[d]
                BY <3>5, <3>6
            <4> QED BY <4>1, WaitType, MoreTurns
        <3>8. Since(current, paused) \in Nat BY <1>4, <3>2 DEF Since, Gecko!Requests
        <3>9. lastStart <= Since(current, paused) + Wait * (1 + ahead[d]) BY <3>3 DEF WaitInv, HadTurn
        <3>10. PICK x \in Int : x = Wait * (1 + ahead[d]) BY <3>6, WaitType
        <3>11. PICK y \in Int : y = Wait * (1 + ahead'[d]) BY <3>6, WaitType
        <3> QED BY <1>4, <3>3, <3>7, <3>8, <3>9, <3>10, <3>11
    <2>3. drain' # "requesting" => current' = NoRequest BY <2>1 DEF WaitInv
    <2> QED BY <1>3, <1>8, <1>9, <2>1, <2>2, <2>3 DEF WaitInv, InTurn, HadTurn
<1> QED BY <1>10, <1>11

LEMMA WakeWait == ASSUME GeckoInv, WaitInv, Gecko!Wake PROVE WaitInv'
<1>1. /\ drain = "sleeping" /\ Gecko!Start(pending, geckoNextAt)
      /\ ahead' = ahead /\ paused' = paused
    BY DEF Gecko!Wake
<1>2. /\ clock \in Nat /\ waiting \subseteq GeckoCallers /\ Queued(pending, waiting, clock)
      /\ pending # <<>> /\ paused \in Nat /\ ahead \in [GeckoCallers -> Nat]
    BY <1>1 DEF GeckoInv, Paced, WaitInv
<1>3. PICK p : p = pending OBVIOUS
<1>4. PICK next : next = geckoNextAt OBVIOUS
<1>5. InTurn(p, clock, ahead, paused) BY <1>3, NowInTurn
<1>6. /\ InTurn(pending', lastStart' + Wait, ahead, paused)
      /\ HadTurn(current', lastStart', ahead, paused)
    BY <1>1, <1>2, <1>3, <1>4, <1>5, StartTurn
<1>7. drain' = "requesting" BY <1>1 DEF Gecko!Start
<1> QED BY <1>1, <1>2, <1>6, <1>7 DEF WaitInv, InTurn, HadTurn

LEMMA EndWait ==
    ASSUME GeckoInv, WaitInv, ahead' = ahead, paused' \in Nat, paused' >= paused,
           NEW next \in Nat, Gecko!Loop(pending, next)
    PROVE  WaitInv'
<1>1. /\ clock \in Nat /\ waiting \subseteq GeckoCallers /\ Queued(pending, waiting, clock)
      /\ paused \in Nat /\ ahead \in [GeckoCallers -> Nat] /\ lastStart \in Int
    BY DEF GeckoInv, Paced, WaitInv
<1>2. PICK p : p = pending OBVIOUS
<1>3. PICK until : until = paused' OBVIOUS
<1>4. InTurn(p, clock, ahead, until)
    <2>1. InTurn(p, clock, ahead, paused) BY <1>2, NowInTurn
    <2> QED BY <1>1, <1>2, <1>3, <2>1, LaterPause
<1>5. InTurn(p, lastStart + Wait, ahead, until)
    <2>1. PICK time \in Int : time = lastStart + Wait BY <1>1, WaitType
    <2>2. InTurn(p, time, ahead, paused) BY <1>2, <2>1 DEF WaitInv
    <2>3. InTurn(p, time, ahead, until) BY <1>1, <1>2, <1>3, <2>2, LaterPause
    <2> QED BY <2>1, <2>3
<1>6. /\ InTurn(pending', lastStart' + Wait, ahead, until)
      /\ HadTurn(current', lastStart', ahead, until)
    BY <1>1, <1>2, <1>3, <1>4, <1>5, LoopTurn
<1>7. drain' # "requesting" => current' = NoRequest BY DEF Gecko!Loop, Gecko!Start
<1> QED BY <1>1, <1>3, <1>6, <1>7 DEF WaitInv, InTurn, HadTurn

LEMMA StepWaitInv == GeckoInv /\ WaitInv /\ [UpstreamNext]_upstreamVars => WaitInv'
<1> SUFFICES ASSUME GeckoInv, WaitInv, [UpstreamNext]_upstreamVars PROVE WaitInv' OBVIOUS
<1>1. CASE UNCHANGED geckoVars BY <1>1 DEF geckoVars, WaitInv, InTurn, HadTurn
<1>2. CASE AskGecko BY <1>2, AskedWait DEF AskGecko
<1>3. CASE GeckoWakes BY <1>3, WakeWait DEF GeckoWakes
<1>4. clock \in Nat /\ geckoNextAt \in Nat /\ paused \in Nat BY DEF GeckoInv, Paced
<1>5. CASE GeckoAnswers BY <1>4, <1>5, EndWait DEF GeckoAnswers, Gecko!Answer
<1>6. CASE GeckoLimits
    <2>1. PICK pause \in Pauses \cup {DefaultPause} : Gecko!Limited(pause) BY <1>6 DEF GeckoLimits
    <2>2. /\ paused' = (IF clock + pause > paused THEN clock + pause ELSE paused) /\ ahead' = ahead
          /\ Gecko!Loop(pending, Gecko!Paused(clock + pause))
        BY <2>1 DEF Gecko!Limited
    <2>3. pause \in Nat BY UpstreamAssumption
    <2>4. PICK next : next = Gecko!Paused(clock + pause) OBVIOUS
    <2>5. next \in Nat /\ paused' \in Nat /\ paused' >= paused BY <1>4, <2>2, <2>3, <2>4 DEF Gecko!Paused
    <2> QED BY <2>2, <2>4, <2>5, EndWait
<1>7. CASE AskRpc \/ RpcWakes \/ RpcSettles \/ TimePasses \/ UNCHANGED upstreamVars
    <2>1. UNCHANGED geckoVars BY <1>7 DEF AskRpc, RpcWakes, RpcSettles, TimePasses, upstreamVars
    <2> QED BY <1>1, <2>1
<1> QED BY <1>2, <1>3, <1>5, <1>6, <1>7 DEF UpstreamNext

LEMMA InitWaitInv == UpstreamInit => WaitInv /\ TurnsInv
<1> SUFFICES ASSUME UpstreamInit PROVE WaitInv /\ TurnsInv OBVIOUS
<1>1. /\ clock = 0 /\ pending = <<>> /\ current = NoRequest /\ ahead = [c \in GeckoCallers |-> 0]
      /\ startedAt = 0 /\ rpcNextAt = 0 /\ lastEnd = -RpcInterval /\ phase = "none" /\ RpcInterval \in Nat
    BY UpstreamAssumption DEF UpstreamInit, Gecko!Init, Rpc!Init
<1>2. WaitInv
    <2>1. ~\E i \in DOMAIN pending : TRUE BY <1>1, EmptySeq
    <2> QED BY <1>1, <2>1 DEF WaitInv, InTurn, HadTurn
<1>3. TurnsInv BY <1>1 DEF TurnsInv
<1> QED BY <1>2, <1>3

\* The chain of operations: what is due starts, and what has started ends.
LEMMA StepTurnsInv == UpstreamInv /\ TurnsInv /\ [UpstreamNext]_upstreamVars => TurnsInv'
<1> SUFFICES ASSUME UpstreamInv, TurnsInv, [UpstreamNext]_upstreamVars PROVE TurnsInv' OBVIOUS
<1>1. /\ clock \in Nat /\ rpcNextAt \in Nat /\ lastEnd \in Int /\ startedAt \in Int
      /\ RpcInterval \in Nat /\ RequestTimeout \in Nat
    BY UpstreamAssumption DEF UpstreamInv, RpcInv, TurnsInv
<1>2. CASE UNCHANGED rpcVars /\ clock' = clock BY <1>2 DEF rpcVars, TurnsInv
<1>3. CASE AskRpc
    BY <1>1, <1>3 DEF AskRpc, Rpc!Enqueue, Rpc!Turn, TurnsInv
<1>4. CASE RpcWakes BY <1>1, <1>4 DEF RpcWakes, Rpc!Wake, TurnsInv
<1>5. CASE RpcSettles
    <2>1. /\ phase = "requesting" /\ rpcNextAt' = Rpc!Paced /\ lastEnd' = clock /\ clock' = clock
          /\ Rpc!Turn(tail', rpcNextAt')
        BY <1>5 DEF RpcSettles, Rpc!Settle
    <2>2. rpcNextAt <= clock BY <2>1 DEF TurnsInv
    <2>3. rpcNextAt' = clock + RpcInterval BY <1>1, <2>1, <2>2 DEF Rpc!Paced
    <2> QED BY <1>1, <2>1, <2>3 DEF Rpc!Turn, TurnsInv
<1>6. CASE TimePasses
    <2>1. clock' = clock + 1 /\ UNCHANGED rpcVars /\ Rpc!Quiet BY <1>6 DEF TimePasses
    <2> QED BY <1>1, <2>1 DEF rpcVars, Rpc!Quiet, TurnsInv
<1>7. CASE AskGecko \/ GeckoWakes \/ GeckoAnswers \/ GeckoLimits \/ UNCHANGED upstreamVars
    <2>1. UNCHANGED rpcVars /\ clock' = clock
        BY <1>7 DEF AskGecko, GeckoWakes, GeckoAnswers, GeckoLimits, Gecko!Request, Gecko!Wake,
            Gecko!Answer, Gecko!Limited, upstreamVars
    <2> QED BY <1>2, <2>1
<1> QED BY <1>3, <1>4, <1>5, <1>6, <1>7 DEF UpstreamNext

-----------------------------------------------------------------------------
\* Theorems about the clients.

\* The inductive invariant of the two clients holds in every reachable state.
THEOREM UpstreamInvariance == UpstreamSpec => []UpstreamInv
BY InitUpstreamInv, StepUpstreamInv, PTL DEF UpstreamSpec

\* The state of each client has its type.
THEOREM ClientsTypeCorrect == UpstreamSpec => [](Gecko!TypeOK /\ Rpc!TypeOK)
<1>1. UpstreamInv => Gecko!TypeOK /\ Rpc!TypeOK
    BY DEF UpstreamInv, GeckoInv, RpcInv, Queued, Paced, Gecko!TypeOK, Rpc!TypeOK
<1> QED BY <1>1, UpstreamInvariance, PTL

\* A pool selection waits for one request or one pacing interval at most, unless a pause
\* begins after it was asked for: it goes before every queued request of another kind.
THEOREM PromptSelection == UpstreamSpec => []SelectionIsPrompt
<1>1. ASSUME UpstreamInv PROVE SelectionIsPrompt
    <2>1. GeckoInv BY <1>1 DEF UpstreamInv
    <2>2. ASSUME NEW r \in {current} \cup {pending[i] : i \in DOMAIN pending},
                 r # NoRequest, r.kind = "selection"
          PROVE  \/ (IF r = current THEN lastStart ELSE clock) <= r.at + Wait
                 \/ paused > r.at
        <3>1. CASE r = current BY <2>1, <2>2, <3>1 DEF GeckoInv, InTime
        <3>2. CASE r # current
            <4>1. PICK i \in DOMAIN pending : r = pending[i] BY <2>2, <3>2
            <4> QED BY <2>1, <2>2, <3>2, <4>1, QueuedInTime DEF InTime
        <3> QED BY <3>1, <3>2
    <2> QED
        BY <2>2 DEF SelectionIsPrompt, Gecko!SelectionIsPrompt, Gecko!Asked, Gecko!Turn,
                    Gecko!StartedBy, Wait
<1> QED BY <1>1, UpstreamInvariance, PTL

\* No request of the provider waits longer than one turn for the request in execution, one
\* for each that goes before it, and a pause; the operation of the node that is in turn starts
\* when its interval is over and ends with its timeout.  However often the callers ask.
THEOREM BoundedWait == UpstreamSpec => []WaitIsBounded
<1>1. ASSUME GeckoInv, WaitInv PROVE Gecko!WaitIsBounded
    <2>1. ASSUME NEW r \in {current} \cup {pending[i] : i \in DOMAIN pending}, r # NoRequest
          PROVE  (IF r = current THEN lastStart ELSE clock)
                     <= (IF paused > r.at THEN paused ELSE r.at) + Wait * (1 + ahead[r.caller])
        <3>1. CASE r = current BY <1>1, <2>1, <3>1 DEF WaitInv, HadTurn, Since
        <3>2. CASE r # current
            <4>1. PICK i \in DOMAIN pending : r = pending[i] BY <2>1, <3>2
            <4>2. PICK p : p = pending OBVIOUS
            <4>3. /\ clock \in Nat /\ paused \in Nat /\ waiting \subseteq GeckoCallers
                  /\ Queued(p, waiting, clock) /\ ahead \in [GeckoCallers -> Nat]
                BY <1>1, <4>2 DEF GeckoInv, Paced, WaitInv
            <4>4. /\ p[i].at \in Nat /\ ahead[p[i].caller] \in Nat /\ TurnsLeft(p, i, ahead) \in Int
                  /\ TurnsLeft(p, i, ahead) <= 1 + ahead[p[i].caller]
                BY <4>2, <4>3, TurnsType
            <4>5. clock <= Since(p[i], paused) + Wait * TurnsLeft(p, i, ahead)
                BY <1>1, <4>2, NowInTurn DEF InTurn
            <4>6. PICK x \in Int : x = Wait * TurnsLeft(p, i, ahead) BY <4>4, WaitType
            <4>7. PICK y \in Int : y = Wait * (1 + ahead[p[i].caller]) BY <4>4, WaitType
            <4>8. x <= y
                <5>1. 1 + ahead[p[i].caller] \in Int BY <4>4
                <5> QED BY <4>4, <4>6, <4>7, <5>1, WaitType, MoreTurns
            <4>9. Since(p[i], paused) \in Nat BY <4>3, <4>4 DEF Since
            <4>10. clock <= Since(p[i], paused) + y BY <4>3, <4>5, <4>6, <4>8, <4>9
            <4> QED BY <3>2, <4>1, <4>2, <4>7, <4>10 DEF Since
        <3> QED BY <3>1, <3>2
    <2> QED
        BY <2>1 DEF Gecko!WaitIsBounded, Gecko!Asked, Gecko!Turn, Gecko!StartedBy, Wait
<1>2. RpcInv /\ TurnsInv => Rpc!TurnsEnd
    <2> SUFFICES ASSUME RpcInv, TurnsInv, tail # <<>> PROVE Rpc!TurnsEnd BY DEF Rpc!TurnsEnd
    <2>1. phase \in {"sleeping", "requesting"} /\ clock \in Nat /\ rpcNextAt \in Nat /\ lastEnd \in Int
        BY DEF RpcInv
    <2>2. RpcInterval \in Nat BY UpstreamAssumption
    <2>3. CASE phase = "sleeping"
        <3>1. clock <= lastEnd + RpcInterval BY <2>1, <2>2, <2>3 DEF TurnsInv
        <3> QED BY <2>3, <3>1 DEF Rpc!TurnsEnd
    <2>4. CASE phase = "requesting" BY <2>4 DEF TurnsInv, Rpc!TurnsEnd
    <2> QED BY <2>1, <2>3, <2>4
<1>3. UpstreamInv /\ WaitInv /\ TurnsInv => WaitIsBounded BY <1>1, <1>2 DEF UpstreamInv, WaitIsBounded
<1>4. UpstreamInv /\ WaitInv /\ TurnsInv /\ [UpstreamNext]_upstreamVars => WaitInv' /\ TurnsInv'
    BY StepWaitInv, StepTurnsInv DEF UpstreamInv
<1> QED BY <1>3, <1>4, InitWaitInv, UpstreamInvariance, PTL DEF UpstreamSpec

\* No request of the provider starts before the pacing interval from the start of the one
\* before, or before a pause is over; no operation of the node before the interval from the
\* end of the one before, for any callers and durations.
THEOREM KeptPace == UpstreamSpec => PacingIsKept
<1>1. ASSUME UpstreamInv, [UpstreamNext]_upstreamVars, ~UNCHANGED Gecko!vars, Gecko!Started
      PROVE  clock >= lastStart + GeckoInterval /\ clock >= paused
    <2>1. /\ clock \in Nat /\ lastStart \in Int /\ geckoNextAt \in Nat /\ paused \in Nat
          /\ geckoNextAt >= lastStart + GeckoInterval /\ geckoNextAt >= paused
          /\ GeckoInterval \in Nat /\ Pauses \cup {DefaultPause} \subseteq Nat
        BY <1>1, UpstreamAssumption DEF UpstreamInv, GeckoInv, Paced
    <2> SUFFICES \E next \in Int : next <= clock /\ next >= geckoNextAt BY <2>1
    <2>2. drain' = "requesting" /\ current' # current BY <1>1 DEF Gecko!Started
    <2>3. CASE AskGecko
        BY <1>1, <2>1, <2>2, <2>3 DEF AskGecko, Gecko!Request, Gecko!Loop
    <2>4. CASE GeckoWakes BY <2>1, <2>4 DEF GeckoWakes, Gecko!Wake
    <2>5. CASE GeckoAnswers BY <2>1, <2>2, <2>5 DEF GeckoAnswers, Gecko!Answer, Gecko!Loop
    <2>6. CASE GeckoLimits
        <3>1. PICK pause \in Pauses \cup {DefaultPause} : Gecko!Loop(pending, Gecko!Paused(clock + pause))
            BY <2>6 DEF GeckoLimits, Gecko!Limited
        <3>2. Gecko!Paused(clock + pause) <= clock BY <2>2, <3>1 DEF Gecko!Loop
        <3> QED BY <2>1, <3>2 DEF Gecko!Paused
    <2>7. CASE AskRpc \/ RpcWakes \/ RpcSettles \/ TimePasses \/ UNCHANGED upstreamVars
        BY <2>2, <2>7 DEF AskRpc, RpcWakes, RpcSettles, TimePasses, upstreamVars, geckoVars
    <2> QED BY <1>1, <2>3, <2>4, <2>5, <2>6, <2>7 DEF UpstreamNext
<1>2. ASSUME UpstreamInv, [UpstreamNext]_upstreamVars, startedAt' # startedAt
      PROVE  clock >= lastEnd + RpcInterval
    <2>1. /\ clock \in Nat /\ rpcNextAt \in Nat /\ lastEnd \in Int /\ RpcInterval \in Nat
          /\ rpcNextAt >= lastEnd + RpcInterval
        BY <1>2, UpstreamAssumption DEF UpstreamInv, RpcInv
    <2>2. CASE AskRpc BY <1>2, <2>1, <2>2 DEF AskRpc, Rpc!Enqueue, Rpc!Turn
    <2>3. CASE RpcWakes BY <2>1, <2>3 DEF RpcWakes, Rpc!Wake
    <2>4. CASE RpcSettles
        <3>1. rpcNextAt' = Rpc!Paced /\ rpcNextAt' <= clock
            BY <1>2, <2>4 DEF RpcSettles, Rpc!Settle, Rpc!Turn
        <3> QED BY <2>1, <3>1 DEF Rpc!Paced
    <2>5. CASE ~(AskRpc \/ RpcWakes \/ RpcSettles)
        <3>1. UNCHANGED rpcVars
            BY <1>2, <2>5 DEF UpstreamNext, AskGecko, GeckoWakes, GeckoAnswers, GeckoLimits,
                TimePasses, upstreamVars
        <3> QED BY <1>2, <3>1 DEF rpcVars
    <2> QED BY <2>2, <2>3, <2>4, <2>5
<1>3. UpstreamInv /\ [UpstreamNext]_upstreamVars =>
        /\ [Gecko!Started => clock >= lastStart + GeckoInterval /\ clock >= paused]_(Gecko!vars)
        /\ [startedAt' # startedAt => clock >= lastEnd + RpcInterval]_(Rpc!vars)
    BY <1>1, <1>2
<1> QED BY <1>3, UpstreamInvariance, PTL
        DEF PacingIsKept, Gecko!PacingIsKept, Rpc!PacingIsKept, UpstreamSpec
=============================================================================
