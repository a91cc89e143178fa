-------------------------- MODULE SnapshotRefresh --------------------------
(***************************************************************************)
(* The refresh scheduler of an open dashboard page with the stream that    *)
(* feeds it: public/snapshot-refresh.js and refresh() of public/app.js.    *)
(* Times are kept relative to now: an age counts up to the duration it is  *)
(* compared with, a timer counts down.  Timers are punctual: Tick waits    *)
(* for the ones that are due.                                              *)
(***************************************************************************)
EXTENDS Integers, FiniteSets, FiniteSetsExt

CONSTANTS
    Debounce, MaxWait, Cooldown, Fallback, Timeout,  \* the scheduler's durations, in ticks
    MaxRuns,       \* requests that may be unsettled at once (bound of the model)
    LagCap         \* where the age of a missing change stops counting (bound of the model)

ASSUME DurationsAssumption ==
    /\ {Debounce, MaxWait, Cooldown} \subseteq Nat
    /\ {Fallback, Timeout, MaxRuns, LagCap} \subseteq Nat \ {0}
    /\ Debounce <= MaxWait

\* The page takes the scheduler's defaults (snapshot-refresh.js 3-5): the interval does not
\* outlast a cooldown and a request, so that every answer is followed by a request in time.
ASSUME IntervalAssumption == Fallback <= Cooldown + Timeout

VARIABLES
    active,
    fallbackIn,       \* time to the next tick of the interval
    timerIn,          \* time to the refresh timer
    pendingFor,       \* age of pendingSince
    requestedFor,     \* age of lastRequestedAt
    pendingImmediate,
    completedFor,     \* age of lastCompletedAt
    inFlight,         \* the run the scheduler waits for
    runs,             \* every request that has not settled
    stream,           \* the page's EventSource
    shownLag,         \* age of the oldest change the page does not show
    healthy           \* history: no request failed since the page last changed

refreshVars == <<active, fallbackIn, timerIn, pendingFor, requestedFor, pendingImmediate,
                 completedFor, inFlight, runs, stream, shownLag, healthy>>

-----------------------------------------------------------------------------
Off == -1          \* a null time
None == 0          \* a null run
Runs == 1..MaxRuns

Free == [phase |-> "free", age |-> 0, lag |-> Off, aborted |-> FALSE, own |-> FALSE]
Unsettled == {r \in Runs : runs[r].phase # "free"}

Older(age, cap) == IF age = Off \/ age = cap THEN age ELSE age + 1
Sooner(time) == IF time = Off THEN Off ELSE time - 1

\* pendingDueAt, as the time still to wait.
PendingDueIn ==
    LET burst == IF pendingImmediate THEN -pendingFor
                 ELSE Min({Debounce - requestedFor, MaxWait - pendingFor})
    IN  Max({0, burst, Cooldown - completedFor})

\* schedulePending, after the caller's changes; timer is what the caller has left of it.
SchedulePending(timer) ==
    timerIn' = IF active' /\ inFlight' = None /\ pendingFor' # Off THEN PendingDueIn' ELSE timer

Request(immediate) ==
    /\ pendingFor' = IF pendingFor = Off THEN 0 ELSE pendingFor
    /\ requestedFor' = 0
    /\ pendingImmediate' = (pendingImmediate \/ immediate)
    /\ UNCHANGED <<active, completedFor, inFlight>>
    /\ SchedulePending(timerIn)

\* The generation is only compared with that of a run, so a run keeps whether it is
\* of this one.
NewGeneration == runs' = [r \in Runs |-> [runs[r] EXCEPT !.own = FALSE]]

-----------------------------------------------------------------------------
\* Loading the page, and pageshow of a page kept in memory: start, then an immediate
\* request.  The constructor of the stream may throw.
PageShown ==
    /\ ~active /\ active' = TRUE
    /\ NewGeneration
    /\ completedFor' = Cooldown
    /\ fallbackIn' = Fallback
    /\ stream' \in {"connecting", "none"}
    /\ pendingFor' = 0 /\ requestedFor' = 0 /\ pendingImmediate' = TRUE
    /\ UNCHANGED <<inFlight, shownLag, healthy>>
    /\ SchedulePending(timerIn)

\* pagehide: the stream is closed, every timer and pending request dropped, the run
\* aborted; it settles later.
MutantPageHidden ==
    /\ active /\ active' = FALSE
    /\ stream' = "none"
    /\ runs' = [r \in Runs |-> [runs[r] EXCEPT !.own = FALSE, !.aborted = @ \/ r = inFlight]]
    /\ fallbackIn' = Off /\ timerIn' = Off
    /\ pendingFor' = Off /\ requestedFor' = Off /\ pendingImmediate' = FALSE
    /\ inFlight' = None
    /\ healthy' = FALSE
    /\ UNCHANGED <<completedFor, shownLag>>
PageHidden ==
    /\ active /\ active' = FALSE
    /\ stream' = "none"
    /\ runs' = [r \in Runs |-> [runs[r] EXCEPT !.own = FALSE, !.aborted = @ \/ r = inFlight]]
    /\ fallbackIn' = Off /\ timerIn' = Off
    /\ pendingFor' = Off /\ requestedFor' = Off /\ pendingImmediate' = FALSE
    /\ healthy' = FALSE
    /\ UNCHANGED <<completedFor, inFlight, shownLag>>

\* The stream opens, is lost and retried by the browser, or is answered 503, which the
\* browser does not retry.
StreamChanges ==
    /\ \/ stream = "connecting" /\ stream' \in {"open", "none"}
       \/ stream = "open" /\ stream' = "connecting"
    /\ UNCHANGED <<active, fallbackIn, timerIn, pendingFor, requestedFor, pendingImmediate,
                   completedFor, inFlight, runs, shownLag, healthy>>

\* An event of the stream asks for a refresh that may wait.
StreamEvent ==
    /\ stream = "open"
    /\ Request(FALSE)
    /\ UNCHANGED <<fallbackIn, runs, stream, shownLag, healthy>>

\* The interval asks for one that may not, with or without a stream.
FallbackFires ==
    /\ fallbackIn = 0 /\ fallbackIn' = Fallback
    /\ Request(TRUE)
    /\ UNCHANGED <<runs, stream, shownLag, healthy>>

-----------------------------------------------------------------------------
\* runPending, from the refresh timer: a pending request becomes a run, unless the timer
\* fired a little early.
RefreshTimerFires ==
    /\ timerIn \in {0, 1}
    /\ IF active /\ inFlight = None /\ pendingFor # Off /\ PendingDueIn = 0
       THEN /\ inFlight' = CHOOSE r \in Runs \ Unsettled : TRUE
            /\ runs' = [runs EXCEPT ![inFlight'] = [Free EXCEPT !.phase = "sent", !.own = TRUE]]
            /\ pendingFor' = Off /\ requestedFor' = Off /\ pendingImmediate' = FALSE
            /\ timerIn' = Off
            /\ UNCHANGED <<active, completedFor>>
       ELSE /\ UNCHANGED <<active, pendingFor, requestedFor, pendingImmediate, completedFor,
                           inFlight, runs>>
            /\ SchedulePending(Off)
    /\ UNCHANGED <<fallbackIn, stream, shownLag, healthy>>

\* The deadline of a run.
TimeoutFires(r) ==
    /\ r \in Unsettled /\ runs[r].age = Timeout /\ ~runs[r].aborted
    /\ runs' = [runs EXCEPT ![r].aborted = TRUE]
    /\ UNCHANGED <<active, fallbackIn, timerIn, pendingFor, requestedFor, pendingImmediate,
                   completedFor, inFlight, stream, shownLag, healthy>>

\* The server answers with a snapshot whose oldest missing change has age lag.
Answered(r, lag) ==
    /\ runs[r].phase = "sent" /\ ~runs[r].aborted
    /\ runs' = [runs EXCEPT ![r].phase = "answered", ![r].lag = lag]
    /\ UNCHANGED <<active, fallbackIn, timerIn, pendingFor, requestedFor, pendingImmediate,
                   completedFor, inFlight, stream, shownLag, healthy>>

\* The end of a run, for the scheduler.
MutantSettled(r) ==
    /\ runs' = [runs EXCEPT ![r] = Free]
    /\ completedFor' = IF runs[r].own THEN 0 ELSE completedFor
    /\ inFlight' = IF inFlight = r /\ runs[r].own THEN None ELSE inFlight
    /\ UNCHANGED <<active, fallbackIn, pendingFor, requestedFor, pendingImmediate, stream>>
    /\ SchedulePending(timerIn)
Settled(r) ==
    /\ runs' = [runs EXCEPT ![r] = Free]
    /\ completedFor' = IF runs[r].own THEN 0 ELSE completedFor
    /\ inFlight' = IF inFlight = r THEN None ELSE inFlight
    /\ UNCHANGED <<active, fallbackIn, pendingFor, requestedFor, pendingImmediate, stream>>
    /\ SchedulePending(timerIn)

\* The page takes the snapshot over and renders it.
Delivered(r) ==
    /\ runs[r].phase = "answered" /\ ~runs[r].aborted
    /\ Settled(r)
    /\ shownLag' = runs[r].lag /\ healthy' = TRUE

\* The run was aborted, the rate limiter refused it (the bucket is shared by every
\* page), or the network lost it: the page keeps what it shows.
Failed(r) ==
    /\ r \in Unsettled
    /\ Settled(r)
    /\ healthy' = FALSE /\ UNCHANGED shownLag

-----------------------------------------------------------------------------
\* A change at the server makes older snapshots miss something.
Missing(lag) == IF lag = Off THEN 0 ELSE lag
RefreshMissesChange ==
    /\ shownLag' = Missing(shownLag)
    /\ runs' = [r \in Runs |-> IF runs[r].phase = "answered"
                               THEN [runs[r] EXCEPT !.lag = Missing(@)] ELSE runs[r]]
    /\ UNCHANGED <<active, fallbackIn, timerIn, pendingFor, requestedFor, pendingImmediate,
                   completedFor, inFlight, stream, healthy>>

\* Time passes for the page.  Only a hidden page leaves an aborted run unsettled: it is
\* frozen with it.
RefreshTick ==
    /\ fallbackIn # 0 /\ timerIn # 0
    /\ \A r \in Unsettled : IF runs[r].aborted THEN ~active ELSE runs[r].age < Timeout
    /\ fallbackIn' = Sooner(fallbackIn) /\ timerIn' = Sooner(timerIn)
    /\ pendingFor' = Older(pendingFor, MaxWait)
    /\ requestedFor' = Older(requestedFor, Debounce)
    /\ completedFor' = Older(completedFor, Cooldown)
    /\ shownLag' = Older(shownLag, LagCap)
    /\ runs' = [r \in Runs |-> IF r \in Unsettled
                               THEN [runs[r] EXCEPT !.age = Older(@, Timeout), !.lag = Older(@, LagCap)]
                               ELSE runs[r]]
    /\ UNCHANGED <<active, pendingImmediate, inFlight, stream, healthy>>

RefreshInit ==
    /\ active = FALSE /\ stream = "none"
    /\ fallbackIn = Off /\ timerIn = Off
    /\ pendingFor = Off /\ requestedFor = Off /\ pendingImmediate = FALSE
    /\ completedFor = Cooldown
    /\ inFlight = None /\ runs = [r \in Runs |-> Free]
    /\ shownLag = Off /\ healthy = FALSE
=============================================================================
