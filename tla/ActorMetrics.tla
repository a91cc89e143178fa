---------------------------- MODULE ActorMetrics ----------------------------
(***************************************************************************)
(* The summary of the observations of a launch: summarizeEarlyActorEvents  *)
(* of src/src/early-actors.js.                                             *)
(*                                                                         *)
(* A trade is an observation with its transaction; the transaction and the *)
(* actor make up its event_key.                                            *)
(* Figures are withheld until enough trades of enough actors are retained. *)
(* Shares are kept as pairs of amounts, the medians are left out, and so   *)
(* is the share of trades with a block time: each trade has one.           *)
(***************************************************************************)
EXTENDS ActorEvidence

CONSTANTS
    EarlyWindow,    \* block times that are inspected (30 m)
    BurstWindow,    \* length of an activity burst (DEFAULTS.burstWindowMs)
    MinimumEvents, MinimumActors    \* the gate (5 and 3)

ASSUME MetricsAssumption ==
    /\ EarlyWindow \in Nat /\ BurstWindow \in Nat
    /\ MinimumEvents \in Nat \ {0} /\ MinimumActors \in Nat \ {0}

-----------------------------------------------------------------------------
\* The trades that the transactions of the early window show.

Candidates == {i \in DOMAIN Ledger : Ledger[i].at \in 0..EarlyWindow}
Shown(i) ==
    {[tx |-> i, actor |-> o.actor, side |-> o.side, amount |-> o.amount, at |-> o.at] :
        o \in Extract(Ledger[i])}
Trades == UNION {Shown(i) : i \in Candidates}

ActorsOf(S) == {x.actor : x \in S}
Of(S, a) == {x \in S : x.actor = a}
OnSide(S, side) == {x \in S : x.side = side}

\* eventOrder.
Ordered(S) ==
    CHOOSE q \in [1..Cardinality(S) -> S] :
        /\ \A i, j \in DOMAIN q : q[i] = q[j] => i = j
        /\ \A i, j \in DOMAIN q : i < j => q[i].at <= q[j].at

-----------------------------------------------------------------------------
\* aggregateMetrics.

\* holdingDurationEvidence: a sell closes the oldest open buy of its actor,
\* when that is earlier.
HoldingDurations(S, a) ==
    LET q == Ordered(Of(S, a))
        step[n \in 0..Len(q)] ==
            IF n = 0 THEN [open |-> <<>>, held |-> <<>>]
            ELSE LET s == step[n - 1]
                     at == q[n].at
                 IN IF q[n].side = "buy" THEN [s EXCEPT !.open = Append(@, at)]
                    ELSE IF s.open = <<>> \/ Head(s.open) >= at THEN s
                    ELSE [open |-> Tail(s.open), held |-> Append(s.held, at - Head(s.open))]
    IN step[Len(q)].held

\* concentration.
TokenAmount(S) == LET q == Ordered(S) IN Total([n \in DOMAIN q |-> q[n].amount])
LargestAmount(S) ==
    LET amounts == {TokenAmount(Of(S, a)) : a \in ActorsOf(S)}
    IN CHOOSE n \in amounts : \A p \in amounts : p <= n

\* activityBurst: for each trade, those of the window that ends with it; the
\* most trades win, then the most actors, then the first.
EndingAt(q, right) ==
    {q[i] : i \in {i \in 1..right : q[right].at - q[i].at <= BurstWindow}}
Better(S, T) ==
    \/ Cardinality(S) > Cardinality(T)
    \/ /\ Cardinality(S) = Cardinality(T)
       /\ Cardinality(ActorsOf(S)) > Cardinality(ActorsOf(T))
ActivityBurst(S) ==
    LET q == Ordered(S)
        best[n \in 1..Len(q)] ==
            IF n > 1 /\ ~Better(EndingAt(q, n), best[n - 1]) THEN best[n - 1]
            ELSE EndingAt(q, n)
    IN best[Len(q)]

First(S, a) == Ordered(Of(S, a))[1].at

AggregateMetrics(S) ==
    [actors |-> Cardinality(ActorsOf(S)),
     withinWindow |-> Cardinality({a \in ActorsOf(S) : First(S, a) \in -1..EarlyWindow}),
     manyBuys |-> Cardinality({a \in ActorsOf(S) : Cardinality(OnSide(Of(S, a), "buy")) > 1}),
     manySells |-> Cardinality({a \in ActorsOf(S) : Cardinality(OnSide(Of(S, a), "sell")) > 1}),
     bothSides |-> Cardinality({a \in ActorsOf(S) :
                       OnSide(Of(S, a), "buy") # {} /\ OnSide(Of(S, a), "sell") # {}}),
     held |-> [a \in ActorsOf(S) |-> HoldingDurations(S, a)],
     largest |-> <<LargestAmount(S), TokenAmount(S)>>,
     burst |-> Cardinality(ActivityBurst(S))]

-----------------------------------------------------------------------------
\* coinSummary.

GateIsMet(S) ==
    Cardinality(S) >= MinimumEvents /\ Cardinality(ActorsOf(S)) >= MinimumActors

CoinSummary(S) ==
    [trades |-> S, metrics |-> IF GateIsMet(S) THEN {AggregateMetrics(S)} ELSE {}]

=============================================================================
