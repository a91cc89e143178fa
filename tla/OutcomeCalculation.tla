------------------------- MODULE OutcomeCalculation -------------------------
(***************************************************************************)
(* The arithmetic of one launch's outcome: from the candle rows of the     *)
(* provider to the durable record, the rules that accept a record, and the *)
(* merge with the record of an earlier refresh.  Every operator is a pure  *)
(* function.  Candles are of one pool and one interval; a candle is known  *)
(* by its start.  Prices are integers and percentages whole numbers.       *)
(***************************************************************************)
EXTENDS Integers, FiniteSets, Sequences, Folds

CONSTANTS
    Launch,
    Horizons,       \* offsets from the launch
    ClockSkew, MaxCreationDelay, SelectionDeadline, \* bounds of the pool selection
    Interval,       \* intervalSeconds
    MaxStaleness,   \* maxStalenessMs
    MaxBaselineLag, \* maxBaselineLagMs
    HistoryLimit,   \* HISTORY_LIMIT_MS
    MaxRevisions,   \* length of the revision history
    MaxRatio,       \* the largest ratio of two closes that a number holds
    Nothing

ASSUME CalculationAssumption ==
    /\ Launch \in Nat
    /\ Horizons \subseteq Nat \ {0} /\ IsFiniteSet(Horizons) /\ Horizons # {}
    /\ ClockSkew \in Nat /\ MaxCreationDelay \in Nat /\ SelectionDeadline \in Nat
    /\ Interval \in Nat \ {0} /\ MaxStaleness \in Nat /\ MaxBaselineLag \in Nat
    /\ HistoryLimit \in Nat /\ MaxRevisions \in Nat \ {0} /\ MaxRatio \in Nat \ {0}

End(c) == c.start + Interval
LaterOf(a, b) == IF a > b THEN a ELSE b

-----------------------------------------------------------------------------
(* The selection of a pool. *)

(* From five minutes before the launch was observed to one minute after. *)
Eligible(pool) == Launch - ClockSkew <= pool.created /\ pool.created <= Launch + MaxCreationDelay

(* selectGeckoTerminalPool: the earliest created, whatever the provider ranks first. *)
SelectPool(offered) ==
    LET eligible == {p \in offered : Eligible(p)} IN
    IF eligible = {} THEN Nothing
    ELSE CHOOSE p \in eligible : \A q \in eligible :
             \/ p.created < q.created
             \/ p.created = q.created /\ p.address <= q.address

(* Selected within two minutes of the launch. *)
Prospective(selectedAt) == selectedAt <= Launch + SelectionDeadline

-----------------------------------------------------------------------------
(* From rows to candles. *)

(* parseGeckoTerminalOhlcv: rows of a minute not yet over when they were   *)
(* fetched are left out, and so is a minute with rows that disagree.       *)
Parse(rows, fetched) ==
    LET complete == {r \in rows : End(r) <= fetched} IN
    {[start |-> r.start, close |-> r.close, fetched |-> fetched] :
        r \in {r \in complete : \A q \in complete : q.start = r.start => q.close = r.close}}

(* The acquisition window of a refresh that began at `begun`. *)
Bounded(candles, created, begun) ==
    LET lower == LaterOf(Launch, created)
        upper == IF begun < lower + HistoryLimit THEN begun ELSE lower + HistoryLimit
    IN {c \in candles : lower - Interval <= End(c) /\ End(c) <= upper}

(* normalizeCandles, of all pages of a refresh: a minute on which pages    *)
(* agree counts once, as it was first fetched; one on which they disagree  *)
(* is an error.                                                            *)
Conflicting(candles) == \E c, d \in candles : c.start = d.start /\ c.close # d.close
Normalized(candles) == {c \in candles : \A d \in candles : d.start = c.start => c.fetched <= d.fetched}

-----------------------------------------------------------------------------
(* calculateVerifiedOutcome *)

Available(candles, asOf) == {c \in candles : End(c) <= asOf /\ c.fetched <= asOf}

Earliest(candles) == CHOOSE c \in candles : \A d \in candles : c.start <= d.start
Latest(candles) == CHOOSE c \in candles : \A d \in candles : d.start <= c.start

(* The first candle that lies wholly after the launch. *)
FirstBaseline(candles) ==
    LET after == {c \in candles : c.start >= Launch} IN
    IF after = {} THEN Nothing ELSE Earliest(after)

(* Mutant: the search starts from the other end. *)
MutantLastAtOrBefore(candles, expected, base) ==
    LET eligible == {c \in candles : End(c) <= expected /\ End(c) > End(base)} IN
    IF eligible = {} THEN Nothing ELSE Earliest(eligible)

LastAtOrBefore(candles, expected, base) ==
    LET eligible == {c \in candles : End(c) <= expected /\ End(c) > End(base)} IN
    IF eligible = {} THEN Nothing ELSE Latest(eligible)

(* The ratio is neither infinite nor nothing. *)
InRange(from, to) == to.close <= MaxRatio * from.close /\ from.close <= MaxRatio * to.close
Change(from, to) == (100 * (to.close - from.close)) \div from.close
Fall(peak, c) == (100 * (peak.close - c.close)) \div peak.close

(* One pass over the closes with the highest one so far. *)
Pass(c, seen) ==
    IF c.close > seen.high.close THEN [seen EXCEPT !.high = c]
    ELSE IF Fall(seen.high, c) > seen.maximum
         THEN [seen EXCEPT !.maximum = Fall(seen.high, c), !.peak = seen.high, !.trough = c]
         ELSE seen

ObservedDrawdown(path) ==
    LET first == Earliest(path)
        start == [high |-> first, maximum |-> 0, peak |-> first, trough |-> first]
        last == MapThenFoldSet(Pass, start, LAMBDA c : c, Latest, path \ {first})
    IN [maximum |-> last.maximum, peak |-> End(last.peak), trough |-> End(last.trough),
        samples |-> Cardinality(path)]

(* What the durable record keeps of a candle: no close, no volume. *)
Evidence(c) == IF c = Nothing THEN Nothing ELSE [end |-> End(c), fetched |-> c.fetched]

Missing(reason, base, target, asOf) ==
    [status |-> "unavailable", reason |-> reason, calculatedAt |-> asOf,
     base |-> Evidence(base), target |-> Evidence(target), return |-> Nothing, drawdown |-> Nothing]

BaselineReason(base) ==
    IF base = Nothing THEN "baseline-missing"
    ELSE IF End(base) - Launch > MaxBaselineLag THEN "baseline-observation-stale" ELSE Nothing

Window(h, available, base, asOf) ==
    LET expected == Launch + h
        target == LastAtOrBefore(available, expected, base)
    IN
    IF BaselineReason(base) # Nothing THEN Missing(BaselineReason(base), Nothing, Nothing, asOf)
    ELSE IF asOf < expected THEN Missing("window-not-mature", base, Nothing, asOf)
    ELSE IF target = Nothing THEN Missing("target-observation-missing", base, Nothing, asOf)
    ELSE IF expected - End(target) > MaxStaleness THEN Missing("target-observation-stale", base, target, asOf)
    ELSE IF ~InRange(base, target) THEN Missing("return-calculation-out-of-range", base, target, asOf)
    ELSE [status |-> "observed", reason |-> Nothing, calculatedAt |-> asOf,
          base |-> Evidence(base), target |-> Evidence(target),
          return |-> Change(base, target),
          drawdown |-> ObservedDrawdown({c \in available : End(base) <= End(c) /\ End(c) <= End(target)})]

Observed(windows) == {h \in Horizons : windows[h].status = "observed"}

Status(baseline, windows) ==
    IF baseline.status # "observed" THEN "awaiting-baseline"
    ELSE IF Observed(windows) = Horizons THEN "complete"
    ELSE IF Observed(windows) # {} THEN "partial" ELSE "awaiting-observations"

Calculate(candles, asOf) ==
    LET normalized == Normalized(candles)
        available == Available(normalized, asOf)
        base == FirstBaseline(available)
        baseline == [status |-> IF BaselineReason(base) = Nothing THEN "observed" ELSE "unavailable",
                     reason |-> BaselineReason(base), candle |-> Evidence(base)]
        windows == [h \in Horizons |-> Window(h, available, base, asOf)]
    IN [status |-> Status(baseline, windows), asOf |-> asOf,
        series |-> normalized # {}, baseline |-> baseline, windows |-> windows,
        missing |-> Nothing, revisions |-> <<>>, selection |-> Nothing]

-----------------------------------------------------------------------------
(* The outcome shown of a launch with no stored record. *)

ErrorReason(code) ==
    IF code = "selection-window-missed" THEN "provider-selection-window-missed"
    ELSE IF code \in {"pool-unavailable", "not-found"} THEN "provider-pool-unavailable"
    ELSE IF code = "rate-limited" THEN "provider-rate-limited"
    ELSE IF code \in {"token-mismatch", "invalid-response", "invalid-json", "provider-request-rejected"}
         THEN "provider-invalid-response"
    ELSE IF code \in {"provider-unavailable", "network-error", "timeout", "provider-http-error", "enrichment-failed"}
         THEN "provider-unavailable"
    ELSE Nothing

StatusReason(status) ==
    IF status = "awaiting-pool" THEN "provider-pool-unavailable"
    ELSE IF status = "rate-limited" THEN "provider-rate-limited"
    ELSE IF status = "invalid-response" THEN "provider-invalid-response"
    ELSE IF status = "degraded" THEN "provider-unavailable"
    ELSE IF status = "baseline-unavailable" THEN "provider-baseline-unavailable"
    ELSE IF status \in {"pool-selected", "awaiting-price", "observing", "complete"} THEN "provider-observation-pending"
    ELSE IF status = "queued" THEN "provider-admission-pending"
    ELSE "provider-evidence-unavailable"

(* The order in which the two are asked. *)
ReasonRank == <<"provider-selection-window-missed", "provider-pool-unavailable", "provider-rate-limited",
                "provider-invalid-response", "provider-unavailable">>

Rank(reason) ==
    IF \E i \in DOMAIN ReasonRank : ReasonRank[i] = reason
    THEN CHOOSE i \in DOMAIN ReasonRank : ReasonRank[i] = reason
    ELSE Len(ReasonRank) + 1

(* providerMissingReason *)
MissingReason(state) ==
    LET byError == ErrorReason(state.code)
        byStatus == StatusReason(state.status)
    IN IF byError # Nothing /\ Rank(byError) <= Rank(byStatus) THEN byError ELSE byStatus

Unavailable(state, asOf) ==
    LET o == Calculate({}, asOf)
        reason == MissingReason(state)
    IN [o EXCEPT
          !.baseline.reason = reason,
          !.missing = [reason |-> reason, status |-> state.status, code |-> state.code],
          !.windows = [h \in Horizons |->
              [o.windows[h] EXCEPT !.reason = IF Launch + h <= asOf THEN reason ELSE "window-not-mature"]]]

-----------------------------------------------------------------------------
(* validateOutcome: what a record must be to be stored, shown or counted. *)

Reasons ==
    {"baseline-missing", "baseline-observation-stale", "window-not-mature", "target-observation-missing",
     "target-observation-stale", "return-calculation-out-of-range", "provider-admission-pending", "provider-observation-pending",
     "provider-pool-unavailable", "provider-selection-window-missed", "provider-invalid-response",
     "provider-rate-limited", "provider-unavailable", "provider-baseline-unavailable",
     "provider-evidence-unavailable"}

Lag(candle) == candle.end - Launch

(* A completed candle wholly after the launch, fetched by then. *)
PostLaunch(candle, by) ==
    /\ candle.end - Interval >= Launch
    /\ candle.end <= candle.fetched /\ candle.fetched <= by

ValidBaseline(o) ==
    LET b == o.baseline IN
    IF b.status = "observed"
    THEN b.reason = Nothing /\ PostLaunch(b.candle, o.asOf) /\ Lag(b.candle) <= MaxBaselineLag /\ o.series
    ELSE /\ b.reason \in Reasons
         /\ b.candle # Nothing =>
               /\ b.reason = "baseline-observation-stale"
               /\ PostLaunch(b.candle, o.asOf) /\ Lag(b.candle) > MaxBaselineLag /\ o.series

ValidMissing(o) ==
    o.missing # Nothing =>
        /\ o.missing.reason \in Reasons
        /\ MissingReason(o.missing) = o.missing.reason
        /\ o.baseline.reason = o.missing.reason

ValidObserved(o, h, w) ==
    /\ w.reason = Nothing /\ w.target # Nothing /\ w.base # Nothing /\ w.drawdown # Nothing /\ o.series
    /\ w.base.end - Interval >= Launch /\ Lag(w.base) <= MaxBaselineLag
    /\ w.base.fetched <= w.calculatedAt
    /\ w.target.end <= Launch + h /\ Launch + h - w.target.end <= MaxStaleness
    /\ w.target.fetched <= w.calculatedAt
    /\ w.drawdown.samples >= 2 /\ w.drawdown.maximum \in 0..100
    /\ w.base.end <= w.drawdown.peak /\ w.drawdown.peak <= w.target.end
    /\ w.drawdown.peak <= w.drawdown.trough /\ w.drawdown.trough <= w.target.end

ValidUnavailable(o, h, w) ==
    /\ w.reason \in Reasons
    /\ o.missing # Nothing =>
          w.reason = IF Launch + h <= o.asOf THEN o.missing.reason ELSE "window-not-mature"
    /\ o.missing = Nothing /\ o.baseline.status = "unavailable" => w.reason = o.baseline.reason
    /\ w.return = Nothing /\ w.drawdown = Nothing
    /\ w.base # Nothing => w.base.fetched <= w.calculatedAt
    /\ IF w.target = Nothing THEN w.reason \notin {"target-observation-stale", "return-calculation-out-of-range"}
       ELSE /\ w.target.end <= Launch + h /\ w.target.fetched <= w.calculatedAt /\ o.series
            /\ w.reason = IF Launch + h - w.target.end > MaxStaleness
                          THEN "target-observation-stale" ELSE "return-calculation-out-of-range"

Valid(o) ==
    /\ o.asOf >= Launch
    /\ ValidBaseline(o)
    /\ ValidMissing(o)
    /\ Len(o.revisions) <= MaxRevisions
    /\ \A i \in DOMAIN o.revisions : Launch <= o.revisions[i] /\ o.revisions[i] <= o.asOf
    /\ \A h \in Horizons :
          LET w == o.windows[h] IN
          /\ Launch <= w.calculatedAt /\ w.calculatedAt <= o.asOf
          /\ IF w.status = "observed" THEN ValidObserved(o, h, w) ELSE ValidUnavailable(o, h, w)
    /\ o.status = Status(o.baseline, o.windows)

(* validateProviderObservedOutcome of a record that claims a prospective   *)
(* selection.                                                              *)
Accepted(o) ==
    /\ Valid(o)
    /\ Observed(o.windows) # {} \/ o.selection # Nothing =>
          /\ o.selection # Nothing
          /\ Launch <= o.selection.selected /\ Prospective(o.selection.selected)
          /\ o.selection.created <= o.selection.selected
          /\ Eligible(o.selection)

-----------------------------------------------------------------------------
(* mergeOutcomeHistory: the baseline and each window keep what was first   *)
(* observed; what the provider now says otherwise is only noted.           *)

Noted(previous, candidate) ==
    \E h \in Horizons :
        LET prior == previous.windows[h]
            latest == candidate.windows[h]
        IN IF prior.status # "observed" THEN latest.status = "observed"
           ELSE \/ latest.status # "observed"
                \/ prior.return # latest.return
                \/ prior.drawdown.maximum # latest.drawdown.maximum
                \/ prior.target.end # latest.target.end

(* Mutant: the status of the candidate is kept. *)
MutantMergedStatus(baseline, windows, candidate) == candidate.status

(* Counted anew, the windows before the baseline. *)
MergedStatus(baseline, windows, candidate) ==
    IF Observed(windows) = Horizons THEN "complete"
    ELSE IF Observed(windows) # {} THEN "partial"
    ELSE IF baseline.status = "observed" THEN "awaiting-observations" ELSE "awaiting-baseline"

(* Mutant: the latest calculation wins. *)
MutantRetained(prior, latest) == IF latest.status = "observed" THEN latest ELSE prior

Retained(prior, latest) == IF prior.status = "observed" THEN prior ELSE latest

LastOf(s, n) == SubSeq(s, LaterOf(1, Len(s) - n + 1), Len(s))

MergeHistory(previous, candidate) ==
    IF previous = Nothing THEN candidate
    ELSE IF ~Accepted(previous) THEN candidate
    ELSE
    LET baseline == IF previous.baseline.status = "observed" THEN previous.baseline ELSE candidate.baseline
        windows == [h \in Horizons |-> Retained(previous.windows[h], candidate.windows[h])]
    IN [candidate EXCEPT
          !.baseline = baseline,
          !.series = previous.series \/ @,
          !.windows = windows,
          !.status = MergedStatus(baseline, windows, candidate),
          !.revisions = LastOf(IF Noted(previous, candidate)
                               THEN Append(previous.revisions, candidate.asOf)
                               ELSE previous.revisions, MaxRevisions)]
=============================================================================
