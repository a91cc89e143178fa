-------------------------- MODULE SolanaRpcClient --------------------------
(***************************************************************************)
(* The client of the public Solana RPC: operations are chained to the tail *)
(* of one promise, so that one is executed at a time, in order of arrival, *)
(* an interval after the end of the one before.  A failure settles its own *)
(* operation and not the chain.                                            *)
(***************************************************************************)
EXTENDS Integers, Sequences

CONSTANTS
    Callers,
    MinInterval,    \* minimumIntervalMs
    RequestTimeout  \* timeoutMs

VARIABLES
    clock,
    tail,           \* the chain, oldest first; its head is the operation in turn
    phase,          \* of the head: none, sleeping or requesting
    nextRequestAt,
    startedAt,
    lastEnd         \* history: when the last operation ended

vars == <<clock, tail, phase, nextRequestAt, startedAt, lastEnd>>

TypeOK ==
    /\ tail \in Seq(Callers)
    /\ phase \in {"none", "sleeping", "requesting"}
    /\ nextRequestAt \in Nat

Init ==
    /\ tail = <<>> /\ phase = "none" /\ nextRequestAt = 0
    /\ startedAt = 0 /\ lastEnd = -MinInterval

Waiting(c) == \E i \in DOMAIN tail : tail[i] = c

(* The head's turn: it sleeps for the pace, or starts at once. *)
Turn(t, next) ==
    \/ t = <<>> /\ phase' = "none" /\ UNCHANGED startedAt
    \/ t # <<>> /\ next > clock /\ phase' = "sleeping" /\ UNCHANGED startedAt
    \/ t # <<>> /\ next <= clock /\ phase' = "requesting" /\ startedAt' = clock

(* signaturesForAddress, transaction *)
Enqueue(c) ==
    /\ ~Waiting(c)
    /\ tail' = Append(tail, c)
    /\ IF tail = <<>> THEN Turn(tail', nextRequestAt) ELSE UNCHANGED <<phase, startedAt>>
    /\ UNCHANGED <<clock, nextRequestAt, lastEnd>>

Wake ==
    /\ phase = "sleeping" /\ clock >= nextRequestAt
    /\ phase' = "requesting" /\ startedAt' = clock
    /\ UNCHANGED <<clock, tail, nextRequestAt, lastEnd>>

(* The interval counts from the end of the operation. *)
Paced == (IF nextRequestAt > clock THEN nextRequestAt ELSE clock) + MinInterval

(* The operation settles: a result, an error of the transport, an envelope *)
(* that does not match, a limit, or the timeout.                           *)
Settle ==
    /\ phase = "requesting"
    /\ tail' = Tail(tail)
    /\ nextRequestAt' = Paced
    /\ lastEnd' = clock
    /\ Turn(tail', nextRequestAt')
    /\ UNCHANGED clock

Quiet ==
    /\ phase = "sleeping" => clock < nextRequestAt
    /\ phase = "requesting" => clock < startedAt + RequestTimeout

Next == (\E c \in Callers : Enqueue(c)) \/ Wake \/ Settle

-----------------------------------------------------------------------------
(* An operation starts at least the interval after the end of the last. *)
PacingIsKept ==
    [][startedAt' # startedAt => clock >= lastEnd + MinInterval]_vars

(* The chain never stands still: the operation in turn starts an interval  *)
(* after the end of the last, and ends with the timeout, failed or not.    *)
TurnsEnd ==
    tail # <<>> =>
        \/ phase = "sleeping" /\ clock <= lastEnd + MinInterval
        \/ phase = "requesting" /\ clock <= startedAt + RequestTimeout
=============================================================================
