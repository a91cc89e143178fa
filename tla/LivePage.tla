------------------------------ MODULE LivePage ------------------------------
(***************************************************************************)
(* One dashboard page and the server it refreshes from: SnapshotRefresh    *)
(* composed with SnapshotCache on a common clock.                          *)
(***************************************************************************)
EXTENDS SnapshotRefresh, SnapshotCache

vars == <<refreshVars, cacheVars>>

\* The /api/snapshot handler answers a request of the page.
PageReads(r) == Serve /\ Answered(r, cacheLag')

\* Another reader of the snapshot: another page, the analyst, a comparison.
OtherReads == Serve /\ UNCHANGED refreshVars

\* Something the snapshot shows changes.
Change == \E foreign \in BOOLEAN : CacheMissesChange(foreign) /\ RefreshMissesChange

Tick == RefreshTick /\ CacheTick

Init == RefreshInit /\ CacheInit

Page ==
    \/ PageShown \/ PageHidden
    \/ StreamChanges \/ StreamEvent
    \/ FallbackFires \/ RefreshTimerFires
    \/ \E r \in Runs : TimeoutFires(r) \/ Delivered(r) \/ Failed(r)

Next ==
    \/ Page /\ UNCHANGED cacheVars
    \/ \E r \in Runs : PageReads(r)
    \/ OtherReads
    \/ Change
    \/ Tick

Spec == Init /\ [][Next]_vars

\* Time passes, the runtime fires timers that are due, and an aborted fetch rejects.
\* Nothing is assumed of the network or the server.
FairSpec ==
    /\ Spec
    /\ WF_vars(Tick)
    /\ WF_vars((FallbackFires \/ RefreshTimerFires) /\ UNCHANGED cacheVars)
    /\ \A r \in Runs : WF_vars(TimeoutFires(r) /\ UNCHANGED cacheVars)
    /\ \A r \in Runs : WF_vars(runs[r].aborted /\ Failed(r) /\ UNCHANGED cacheVars)

-----------------------------------------------------------------------------
\* Snapshots are downloaded one at a time, over hiding and showing the page as well:
\* the run of the earlier life is waited for until it settles (snapshot-refresh.js
\* 79-80, 111-112, 143; "a slow snapshot never overlaps another download",
\* src/test/snapshot-refresh.test.js:137).
\* And a pending request of a visible page is never forgotten: there is a run to wait
\* for, or a timer set.  A burst of events cannot put it off beyond the maximum wait, nor
\* an immediate request cut the cooldown short (every path through request, runPending,
\* start and the end of a run has to leave it so).
NoOverlap ==
    /\ Cardinality(Unsettled) <= 1
    /\ (active /\ pendingFor # Off) =>
          \/ inFlight \in Unsettled
          \/ /\ inFlight = None /\ timerIn # Off
             /\ timerIn >= Cooldown - completedFor
             /\ timerIn <= Max({0, MaxWait - pendingFor, Cooldown - completedFor})

\* What a visible page shows is never older than the server's cache, a cooldown and two
\* requests explain, as long as its requests succeed, whatever the stream does
\* (SNAPSHOT_CACHE_MAX_AGE_MS, SNAPSHOT_REFRESH_COOLDOWN_MS, SNAPSHOT_REFRESH_TIMEOUT_MS).
Bound == (CacheMaxAge - 1) + Timeout + Cooldown + Timeout
StalenessIsBounded == (active /\ healthy) => shownLag <= Bound

\* A pending request is served by a run, or dropped with the page, even when the server
\* never answers (the deadline of snapshot-refresh.js 94).
RequestsAreServed == (pendingFor # Off) ~> (pendingFor = Off)
=============================================================================
