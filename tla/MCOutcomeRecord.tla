-------------------------- MODULE MCOutcomeRecord --------------------------
(* A small instance of OutcomeRecord in half minutes: a launch at 00:30,    *)
(* candles of a minute, horizons four and six minutes after the launch.    *)
EXTENDS OutcomeRecord, TLC

Minutes == {0, 2, 4, 6, 10}
OfferedPools == {[created |-> 0, address |-> 2], [created |-> 2, address |-> 1], [created |-> -10, address |-> 3]}

Row(minute, close) == [start |-> minute, close |-> close]

(* What each minute may be answered with: no row, a price, or, in one, two *)
(* rows that disagree.  The row before the launch always comes.  From one  *)
(* to four is out of range.                                                *)
Closes(minute) ==
    CASE minute = 0 -> {{2}}
      [] minute = 2 -> {{}, {1}, {2}}
      [] minute = 4 -> {{1}, {2}}
      [] minute = 6 -> {{1}, {1, 2}}
      [] minute = 10 -> {{}, {4}}

ProviderAnswers ==
    {UNION {{Row(m, close) : close \in prices[m]} : m \in Minutes} :
        prices \in {p \in [Minutes -> SUBSET {1, 2, 4}] : \A m \in Minutes : p[m] \in Closes(m)}}

(* Every status with every class of error. *)
AllStates ==
    [status : {Nothing, "queued", "pool-selected", "awaiting-pool", "awaiting-price", "baseline-unavailable",
               "observing", "complete", "rate-limited", "degraded", "invalid-response"},
     code : {Nothing, "selection-window-missed", "pool-unavailable", "rate-limited", "invalid-json", "timeout",
             "invalid-limit"}]
=============================================================================
