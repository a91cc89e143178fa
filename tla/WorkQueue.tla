----------------------------- MODULE WorkQueue -----------------------------
(***************************************************************************)
(* What the ingestion workers' in-memory queues are built from.            *)
(***************************************************************************)
EXTENDS Integers, Sequences, FiniteSets

Contents(s) == {s[i] : i \in DOMAIN s}

\* The first n members of s, or all of s.
Take(s, n) == SubSeq(s, 1, IF Len(s) <= n THEN Len(s) ELSE n)

\* The ways to list the set S, and those that put earlier times first: what
\* ORDER BY time may return when equal times are not told apart.
Listings(S) ==
    {s \in [1..Cardinality(S) -> S] :
        \A i, j \in 1..Cardinality(S) : i < j => s[i] # s[j]}
InOrder(S, time) ==
    {s \in Listings(S) : \A i, j \in 1..Cardinality(S) : i < j => time[s[i]] <= time[s[j]]}

=============================================================================
