------------------------ MODULE GeckoTerminalClient ------------------------
(***************************************************************************)
(* The GeckoTerminal client of the server: one instance, used by the       *)
(* outcome worker and by the risk worker.  It keeps a queue of requests    *)
(* and executes one at a time, a pacing interval apart; a pause the        *)
(* provider asks for moves the next start.  Time is a clock shared with    *)
(* whatever else the process does; timers fire when they are due.          *)
(***************************************************************************)
EXTENDS Integers, SequencesExt

CONSTANTS
    Callers,        \* the workers that use the client
    Kinds,          \* what each one asks for, one request at a time
    MinInterval,    \* minIntervalMs
    RequestTimeout, \* timeoutMs
    DefaultPause,   \* after a 429 that names no time
    Pauses,         \* the Retry-After times the provider may name
    NoRequest

VARIABLES
    clock,
    pending,        \* pendingRequests, oldest first
    drain,          \* drainingRequests: idle, sleeping for the pace, or requesting
    current,        \* the request being executed
    nextRequestAt,
    waiting,        \* callers that await an answer
    lastStart,      \* history: when the last request started
    paused,         \* history: the end of the last pause asked for
    ahead           \* history: ahead[c]: requests that have gone or may go before that of c

vars == <<clock, pending, drain, current, nextRequestAt, waiting, lastStart, paused, ahead>>

Requests == [caller: Callers, kind: {"selection", "ohlcv", "info"}, at: Nat]

TypeOK ==
    /\ pending \in Seq(Requests)
    /\ drain \in {"idle", "sleeping", "requesting"}
    /\ current \in Requests \cup {NoRequest}
    /\ nextRequestAt \in Nat
    /\ waiting \subseteq Callers

Init ==
    /\ pending = <<>> /\ drain = "idle" /\ current = NoRequest
    /\ nextRequestAt = 0 /\ waiting = {}
    /\ lastStart = -MinInterval /\ paused = 0
    /\ ahead = [c \in Callers |-> 0]

-----------------------------------------------------------------------------
(* Mutant: outcomes and token information take turns. *)
MutantPriority(kind) == IF kind = "selection" THEN 0 ELSE 1

(* The smaller goes first. *)
Priority(kind) ==
    IF kind = "selection" THEN 0 ELSE IF kind = "ohlcv" THEN 1 ELSE 2

(* Mutant: the queue is left in the order of arrival. *)
MutantUrgent(p) == 1

(* The head of the queue sorted by priority, then by arrival. *)
Urgent(p) ==
    CHOOSE i \in DOMAIN p :
        \A j \in DOMAIN p \ {i} :
            \/ Priority(p[i].kind) < Priority(p[j].kind)
            \/ Priority(p[i].kind) = Priority(p[j].kind) /\ i < j

Start(p, next) ==
    /\ current' = p[Urgent(p)]
    /\ pending' = RemoveAt(p, Urgent(p))
    /\ drain' = "requesting"
    /\ nextRequestAt' = (IF next > clock THEN next ELSE clock) + MinInterval
    /\ lastStart' = clock

(* The head of the loop of drainRequests. *)
Loop(p, next) ==
    \/ /\ p = <<>>
       /\ drain' = "idle" /\ current' = NoRequest
       /\ pending' = p /\ nextRequestAt' = next /\ UNCHANGED lastStart
    \/ /\ p # <<>> /\ next > clock
       /\ drain' = "sleeping" /\ current' = NoRequest
       /\ pending' = p /\ nextRequestAt' = next /\ UNCHANGED lastStart
    \/ /\ p # <<>> /\ next <= clock
       /\ Start(p, next)

-----------------------------------------------------------------------------
(* How many go before the request of a caller: those as urgent that it     *)
(* found, and those more urgent that were asked for since.                 *)
Rank == [selection |-> 0, ohlcv |-> 1, info |-> 2]
Overtaken(d, kind) == \E i \in DOMAIN pending : pending[i].caller = d /\ Rank[kind] < Rank[pending[i].kind]
Preceded(c, kind) ==
    ahead' = [d \in Callers |->
        IF d = c THEN Cardinality({i \in DOMAIN pending : Rank[pending[i].kind] <= Rank[kind]})
        ELSE IF Overtaken(d, kind) THEN ahead[d] + 1 ELSE ahead[d]]

(* A worker asks and awaits; a queue nobody drains is drained. *)
Request(c, kind) ==
    /\ c \notin waiting
    /\ waiting' = waiting \cup {c}
    /\ LET p == Append(pending, [caller |-> c, kind |-> kind, at |-> clock]) IN
       IF drain = "idle" THEN Loop(p, nextRequestAt)
       ELSE pending' = p /\ UNCHANGED <<drain, current, nextRequestAt, lastStart>>
    /\ Preceded(c, kind)
    /\ UNCHANGED <<clock, paused>>

(* The end of the pacing sleep: only now is the queue sorted. *)
Wake ==
    /\ drain = "sleeping" /\ clock >= nextRequestAt
    /\ Start(pending, nextRequestAt)
    /\ UNCHANGED <<clock, waiting, paused, ahead>>

(* The promise of the caller is resolved or rejected. *)
Settled == waiting' = waiting \ {current.caller}

(* A payload, or an error that asks for no pause; at the latest the timeout. *)
Answer ==
    /\ drain = "requesting"
    /\ Settled
    /\ Loop(pending, nextRequestAt)
    /\ UNCHANGED <<clock, paused, ahead>>

(* Mutant: the pause replaces the pace. *)
MutantPaused(until) == until

Paused(until) == IF until > nextRequestAt THEN until ELSE nextRequestAt

(* HTTP 429, or 503 with a Retry-After. *)
Limited(pause) ==
    /\ drain = "requesting"
    /\ Settled
    /\ paused' = IF clock + pause > paused THEN clock + pause ELSE paused
    /\ Loop(pending, Paused(clock + pause))
    /\ UNCHANGED <<clock, ahead>>

(* No timer is due: the pacing sleep and the timeout of the request. *)
Quiet ==
    /\ drain = "sleeping" => clock < nextRequestAt
    /\ drain = "requesting" => clock < lastStart + RequestTimeout

Next ==
    \/ \E c \in Callers : \E kind \in Kinds[c] : Request(c, kind)
    \/ Wake
    \/ Answer
    \/ \E pause \in Pauses \cup {DefaultPause} : Limited(pause)

-----------------------------------------------------------------------------
Started == drain' = "requesting" /\ lastStart' = clock /\ current' # current

(* A request starts at least the pacing interval after the last one and    *)
(* never within a pause the provider asked for, whichever caller asked.    *)
PacingIsKept ==
    [][Started => clock >= lastStart + MinInterval /\ clock >= paused]_vars

Asked == {current} \cup {pending[i] : i \in DOMAIN pending}
Turn == IF RequestTimeout > MinInterval THEN RequestTimeout ELSE MinInterval
StartedBy(r, time) == r # NoRequest => (IF r = current THEN lastStart ELSE clock) <= time

(* The selection of a pool, which counts only within two minutes of the    *)
(* launch, waits for one request or one pacing interval at most, or for a  *)
(* pause, however many other requests are queued.                          *)
SelectionIsPrompt ==
    \A r \in Asked : r # NoRequest /\ r.kind = "selection" => StartedBy(r, r.at + Turn) \/ paused > r.at

(* A request waits for the one in execution and for each that goes before  *)
(* it: found in the queue and as urgent, or more urgent and asked for      *)
(* since.  Each costs it one turn, a pause is waited out once, and nothing *)
(* else keeps it waiting: token information, which all others overtake, is *)
(* late only by as much as they have asked for.                            *)
WaitIsBounded ==
    \A r \in Asked : r # NoRequest =>
        StartedBy(r, (IF paused > r.at THEN paused ELSE r.at) + Turn * (1 + ahead[r.caller]))
=============================================================================
