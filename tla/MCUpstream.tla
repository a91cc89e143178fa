----------------------------- MODULE MCUpstream -----------------------------
(* The workers of the server: the outcome worker selects pools and fetches *)
(* candles, the risk worker asks for token information.                    *)
EXTENDS Upstream

CONSTANTS outcomes, risks

WorkerKinds ==
    [c \in {outcomes, risks} |->
        IF c = outcomes THEN {"selection", "ohlcv"} ELSE {"info"}]
=============================================================================
