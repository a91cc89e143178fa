------------------------------ MODULE Upstream ------------------------------
(***************************************************************************)
(* The two clients of upstream providers in the server, on its one clock:  *)
(* the GeckoTerminal client of the outcome and risk workers and the RPC    *)
(* client of the actor worker.                                             *)
(***************************************************************************)
EXTENDS Integers

CONSTANTS
    GeckoCallers, Kinds, RpcCallers,
    GeckoInterval, RpcInterval, RequestTimeout, DefaultPause, Pauses,
    NoRequest,
    MaxTime         \* bound of the clock

\* Only the outcome worker selects pools, one at a time.
ASSUME UpstreamAssumption ==
    /\ {GeckoInterval, RpcInterval, RequestTimeout, DefaultPause} \cup Pauses \subseteq Nat
    /\ Kinds \in [GeckoCallers -> SUBSET {"selection", "ohlcv", "info"}]
    /\ \A c, d \in GeckoCallers : "selection" \in Kinds[c] \cap Kinds[d] => c = d

VARIABLES
    clock,
    pending, drain, current, geckoNextAt, waiting, lastStart, paused, ahead,
    tail, phase, rpcNextAt, startedAt, lastEnd

geckoVars == <<pending, drain, current, geckoNextAt, waiting, lastStart, paused, ahead>>
rpcVars == <<tail, phase, rpcNextAt, startedAt, lastEnd>>
upstreamVars == <<clock, geckoVars, rpcVars>>

Gecko == INSTANCE GeckoTerminalClient WITH
    Callers <- GeckoCallers, MinInterval <- GeckoInterval, nextRequestAt <- geckoNextAt

Rpc == INSTANCE SolanaRpcClient WITH
    Callers <- RpcCallers, MinInterval <- RpcInterval, nextRequestAt <- rpcNextAt

UpstreamInit == clock = 0 /\ Gecko!Init /\ Rpc!Init

AskGecko == (\E c \in GeckoCallers : \E kind \in Kinds[c] : Gecko!Request(c, kind)) /\ UNCHANGED rpcVars
AskRpc == (\E c \in RpcCallers : Rpc!Enqueue(c)) /\ UNCHANGED geckoVars
GeckoWakes == Gecko!Wake /\ UNCHANGED rpcVars
GeckoAnswers == Gecko!Answer /\ UNCHANGED rpcVars
GeckoLimits == (\E pause \in Pauses \cup {DefaultPause} : Gecko!Limited(pause)) /\ UNCHANGED rpcVars
RpcWakes == Rpc!Wake /\ UNCHANGED geckoVars
RpcSettles == Rpc!Settle /\ UNCHANGED geckoVars

(* Time passes while no timer is due. *)
TimePasses ==
    /\ clock < MaxTime
    /\ Gecko!Quiet /\ Rpc!Quiet
    /\ clock' = clock + 1
    /\ UNCHANGED <<geckoVars, rpcVars>>

UpstreamNext ==
    \/ AskGecko \/ GeckoWakes \/ GeckoAnswers \/ GeckoLimits
    \/ AskRpc \/ RpcWakes \/ RpcSettles
    \/ TimePasses

UpstreamSpec == UpstreamInit /\ [][UpstreamNext]_upstreamVars

-----------------------------------------------------------------------------
\* Neither client starts a request before its pace, nor, for GeckoTerminal, before
\* the end of a pause the provider asked for (drainRequests, enqueue).
PacingIsKept == Gecko!PacingIsKept /\ Rpc!PacingIsKept

\* A pool selection overtakes whatever else is queued (REQUEST_PRIORITY).
SelectionIsPrompt == Gecko!SelectionIsPrompt

\* No request waits longer than what goes before it takes: the workers may ask as often
\* as they like, failures, pauses and timeouts included (drainRequests, enqueue).
WaitIsBounded == Gecko!WaitIsBounded /\ Rpc!TurnsEnd
=============================================================================
