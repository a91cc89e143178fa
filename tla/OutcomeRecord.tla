--------------------------- MODULE OutcomeRecord ---------------------------
(***************************************************************************)
(* The outcome record of one launch over the refreshes of the outcome      *)
(* worker: the selection of its pool, then, any number of times, candles   *)
(* asked for page by page, awaited, and turned into a record that is       *)
(* merged with the stored one.  The provider may answer each request       *)
(* otherwise than the last: a candle missing, revised, or there twice; or  *)
(* not at all.  Time is in half minutes.                                   *)
(***************************************************************************)
EXTENDS OutcomeCalculation

CONSTANTS
    Offers,         \* pools the provider may offer: created, address
    Answers,        \* charts it may answer from: sets of candle rows
    Times,          \* when a refresh may begin
    Delays,         \* how long a request may wait and take
    PageSize,       \* rows of a page
    MaxPages,       \* MAX_OHLCV_PAGES
    ProviderAhead,  \* how far the clock of the provider may be ahead
    States          \* states of a launch without a record

ASSUME RecordAssumption ==
    /\ Offers \subseteq [created : Int, address : Nat]
    /\ \A rows \in Answers :
          IsFiniteSet(rows) /\ \A r \in rows : r.start \in Int /\ r.close \in Nat \ {0}
    /\ Times \subseteq Nat /\ Delays \subseteq Nat /\ ProviderAhead \in Nat
    /\ PageSize \in Nat \ {0} /\ MaxPages \in Nat \ {0}

(* The window that is asked for reaches back to the launch, whenever the   *)
(* pool was created, and on to the last horizon.                           *)
ASSUME WindowAssumption ==
    MaxCreationDelay <= 2 * Interval /\ \A h \in Horizons : h <= HistoryLimit

ASSUME NothingAssumption ==
    /\ Nothing \notin Reasons
    /\ Nothing \notin [start : Int, close : Nat \ {0}, fetched : Nat]
    /\ Nothing \notin [end : Int, fetched : Int]
    /\ Nothing \notin [maximum : Int, peak : Int, trough : Int, samples : Int]
    /\ \A state \in States, reason \in Reasons :
          [reason |-> reason, status |-> state.status, code |-> state.code] # Nothing

VARIABLES
    now,
    selection,      \* the pool fixed for the launch
    begun,          \* the refresh in flight began then
    pages,          \* and these pages of rows it was answered with so far
    record,         \* the durable record
    thrown          \* the last refresh ended in an error

recordVars == <<now, selection, begun, pages, record, thrown>>

NoRefresh == begun = Nothing

RecordTypeOK ==
    /\ now \in Nat
    /\ selection # Nothing => selection.created \in Int /\ selection.selected \in Nat
    /\ Len(pages) <= MaxPages /\ \A i \in DOMAIN pages : pages[i].fetched \in Nat
    /\ record # Nothing => record.asOf <= now
    /\ thrown \in BOOLEAN

RecordInit ==
    /\ now = Launch /\ selection = Nothing /\ begun = Nothing /\ pages = <<>>
    /\ record = Nothing /\ thrown = FALSE

-----------------------------------------------------------------------------
(* The pages of a refresh. *)

Observations(page) == Parse(page.rows, page.fetched)
LastPage == pages[Len(pages)]

Lower == LaterOf(Launch, selection.created)
Upper == IF begun < Lower + HistoryLimit THEN begun ELSE Lower + HistoryLimit

(* A second page when the first was full and reaches not back to the start. *)
MorePages ==
    /\ Len(pages) < MaxPages
    /\ pages # <<>> =>
          /\ Cardinality(LastPage.rows) >= PageSize /\ Observations(LastPage) # {}
          /\ Earliest(Observations(LastPage)).start > Lower

(* beforeTimestamp: a minute past the window, then where the last page began. *)
BeforeMinute == IF pages = <<>> THEN Upper + Interval ELSE Earliest(Observations(LastPage)).start

(* The provider: the latest rows of its chart up to and with that minute. *)
Page(chart, before) ==
    LET upTo == {r \in chart : r.start <= before} IN
    {r \in upTo : Cardinality({q \in upTo : q.start > r.start}) < PageSize}

-----------------------------------------------------------------------------
(* Time passes to the next moment at which a refresh may begin. *)
Wait ==
    /\ NoRefresh
    /\ now' \in {t \in Times : t > now}
    /\ UNCHANGED <<selection, begun, pages, record, thrown>>

(* poolForToken: a pool fixed within the deadline, or an error; a provider *)
(* whose clock is ahead names a creation that is yet to come.              *)
Select ==
    /\ NoRefresh /\ selection = Nothing
    /\ Prospective(now)
    /\ \E offered \in SUBSET {p \in Offers : p.created <= now + ProviderAhead} :
          /\ SelectPool(offered) # Nothing
          /\ selection' = [created |-> SelectPool(offered).created, selected |-> now]
    /\ UNCHANGED <<now, begun, pages, record, thrown>>

(* A refresh of a launch whose pool is fixed begins. *)
Begin ==
    /\ NoRefresh /\ selection # Nothing /\ now \in Times
    /\ begun' = now /\ thrown' = FALSE
    /\ UNCHANGED <<now, selection, pages, record>>

(* ohlcv is asked for a page, and answered then or later. *)
Fetch ==
    /\ ~NoRefresh /\ MorePages
    /\ \E chart \in Answers, delay \in Delays :
          /\ pages' = Append(pages, [rows |-> Page(chart, BeforeMinute), fetched |-> now + delay])
          /\ now' = now + delay
    /\ UNCHANGED <<selection, begun, record, thrown>>

(* It is not answered, or refused: the refresh ends, and the row that is   *)
(* written for the failure keeps the record (the catch of refreshToken).   *)
Fail ==
    /\ ~NoRefresh /\ MorePages
    /\ begun' = Nothing /\ pages' = <<>> /\ thrown' = TRUE
    /\ UNCHANGED <<now, selection, record>>

Collected ==
    Bounded(UNION {Observations(pages[i]) : i \in DOMAIN pages}, selection.created, begun)

(* The rest of refreshToken: calculate, strip, merge, store.  What fails a *)
(* check of its own throws, and the stored record stays.                   *)
Complete ==
    /\ ~NoRefresh /\ ~MorePages
    /\ LET candidate == [Calculate(Collected, now) EXCEPT !.selection = selection]
           merged == MergeHistory(record, candidate)
           sound == /\ ~Conflicting(Collected)
                    /\ Valid(candidate)
                    /\ record # Nothing => (Accepted(record) => Accepted(merged))
       IN /\ record' = IF sound THEN merged ELSE record
          /\ thrown' = ~sound
    /\ begun' = Nothing /\ pages' = <<>>
    /\ UNCHANGED <<now, selection>>

RecordNext == Wait \/ Select \/ Begin \/ Fetch \/ Fail \/ Complete

RecordSpec == RecordInit /\ [][RecordNext]_recordVars

-----------------------------------------------------------------------------
(* Properties. *)

(* What the provider said in a page of minutes that were over, and said    *)
(* one thing of; the pages of a refresh may say different things.          *)
Said(page) ==
    {r \in page.rows : /\ End(r) <= page.fetched
                       /\ \A q \in page.rows : q.start = r.start => q.close = r.close}
Trades == UNION {Said(pages[i]) : i \in DOMAIN pages}
PagesDisagree == \E r, q \in Trades : r.start = q.start /\ r.close # q.close

(* The result a horizon should have, from all that the provider said and   *)
(* the definition of the method: a close at or before the horizon, fresh   *)
(* enough, over the first wholly later than the launch, the last such, and *)
(* the deepest fall between any two closes in between.                     *)
IsBaseline(b) ==
    /\ b.start >= Launch /\ End(b) - Launch <= MaxBaselineLag
    /\ \A d \in Trades : d.start < b.start => d.start < Launch
Fits(b, c, h) ==
    /\ IsBaseline(b) /\ b.start < c.start /\ InRange(b, c)
    /\ End(c) <= Launch + h /\ Launch + h - End(c) <= MaxStaleness
IsTarget(c, h) == \A d \in Trades : d.start > c.start => End(d) > Launch + h
DeepestFall(b, c) ==
    LET path == {d \in Trades : b.start <= d.start /\ d.start <= c.start}
        falls == {Fall(p, q) : p \in path, q \in path} \cup {0}
        down == {Fall(pq[1], pq[2]) : pq \in {pq \in path \X path : pq[1].start <= pq[2].start}}
    IN CHOOSE x \in falls : x \in down /\ \A y \in down : y <= x

Shows(w, b, c) ==
    /\ w.status = "observed" /\ w.return = Change(b, c)
    /\ w.drawdown.maximum = DeepestFall(b, c)

(* What a refresh newly records of a horizon is what the provider's own    *)
(* answers say: of a horizon that had passed when it began, the result by  *)
(* the last close before it, and one if there is one; of one that passed   *)
(* while it was under way, a result by a close that is fresh enough, if it *)
(* records any (calculateVerifiedOutcome, refreshToken).                   *)
ResultsAreHonest ==
    [][~NoRefresh /\ NoRefresh' /\ ~thrown' =>
        \A h \in Horizons :
            record = Nothing \/ record.windows[h].status # "observed" =>
                /\ record'.windows[h].status = "observed" =>
                      /\ Launch + h <= now
                      /\ \E b, c \in Trades : /\ Fits(b, c, h) /\ Shows(record'.windows[h], b, c)
                                              /\ Launch + h <= begun => IsTarget(c, h)
                /\ Launch + h <= begun /\ (\E b, c \in Trades : Fits(b, c, h) /\ IsTarget(c, h))
                      => record'.windows[h].status = "observed"]_recordVars

(* A pool that was created by the time it was selected. *)
PoolExisted == selection.created <= selection.selected

(* The first result of a horizon and the first baseline are never          *)
(* rewritten, whatever later refreshes are answered (mergeOutcomeHistory), *)
(* unless the pool was created after it was selected.                      *)
FirstResultIsKept ==
    [][record # Nothing /\ PoolExisted =>
        /\ record.baseline.status = "observed" => record'.baseline = record.baseline
        /\ \A h \in Observed(record.windows) : record'.windows[h] = record.windows[h]]_recordVars

(* Whatever the provider answers, sparse, revised or out of order, a       *)
(* refresh is never rejected by a check of the worker itself, which would  *)
(* have it retried for ever, unless its two pages disagree on a minute;    *)
(* what is stored is accepted when the outcomes are read, unless the pool  *)
(* was created after it was selected; and the outcome shown before there   *)
(* is a record is accepted as well.                                        *)
StoredIsAccepted == record # Nothing /\ PoolExisted => Accepted(record)
MissingIsAccepted == record = Nothing /\ NoRefresh => \A state \in States : Valid(Unavailable(state, now))
RecordsAreAccepted ==
    /\ [](StoredIsAccepted /\ MissingIsAccepted)
    /\ [][~thrown /\ thrown' => MorePages \/ PagesDisagree]_recordVars
=============================================================================
