------------------------------- MODULE Feeds -------------------------------
(***************************************************************************)
(* The two connectors of the server, started together and ended together:  *)
(* an exception that leaves a listener of the launch feed (upsert writes   *)
(* to the store) or anything else that ends the process takes both along.  *)
(***************************************************************************)
EXTENDS Naturals

CONSTANTS FeedSockets, CalloutSockets, MaxBackoff, NoSocket

ASSUME SocketsAssumption == NoSocket \notin FeedSockets \cup CalloutSockets

VARIABLES
    feedSock, feedWs, connection, feedStatus, connectTimer, feedTimer, feedBackoff,
    calloutSock, calloutWs, calloutStatus, calloutTimer, calloutBackoff, calloutClosed

feed == <<feedSock, feedWs, connection, feedStatus, connectTimer, feedTimer, feedBackoff>>
callouts == <<calloutSock, calloutWs, calloutStatus, calloutTimer, calloutBackoff, calloutClosed>>
feedsVars == <<feed, callouts>>

Feed == INSTANCE FeedSocket WITH
    Sockets <- FeedSockets, sock <- feedSock, ws <- feedWs, status <- feedStatus,
    reconnectTimer <- feedTimer, backoff <- feedBackoff

Callouts == INSTANCE CalloutSocket WITH
    Sockets <- CalloutSockets, sock <- calloutSock, ws <- calloutWs, status <- calloutStatus,
    reconnectTimer <- calloutTimer, backoff <- calloutBackoff, closed <- calloutClosed

FeedsInit == Feed!Init /\ Callouts!Init

\* The process ends; the next one starts with new connectors.
Ended ==
    /\ feedSock' = [s \in FeedSockets |-> "gone"]
    /\ calloutSock' = [s \in CalloutSockets |-> "gone"]
    /\ feedWs' = NoSocket /\ calloutWs' = NoSocket /\ connectTimer' = NoSocket
    /\ connection' = "idle" /\ feedStatus' = "idle" /\ calloutStatus' = "idle"
    /\ feedTimer' = FALSE /\ calloutTimer' = FALSE /\ calloutClosed' = FALSE
    /\ feedBackoff' = 0 /\ calloutBackoff' = 0

FeedsNext ==
    \/ Feed!Next /\ UNCHANGED callouts
    \/ Callouts!Next /\ UNCHANGED feed
    \/ Ended

FeedsSpec == FeedsInit /\ [][FeedsNext]_feedsVars
FairFeedsSpec ==
    /\ FeedsSpec
    /\ WF_feedsVars(Feed!Reconnect /\ UNCHANGED callouts)
    /\ \A s \in FeedSockets : WF_feedsVars(Feed!Timeout(s) /\ UNCHANGED callouts)

-----------------------------------------------------------------------------
\* Each connector uses one socket, or has a reconnect timer set, whatever order its
\* opens, errors, closes, timeouts and late events come in (FeedSocket, CalloutSocket),
\* and neither stream is shown as live without an open socket.
OneSocketEach ==
    /\ Feed!OneSocket /\ Callouts!OneSocket
    /\ Feed!LiveIsOpen /\ Callouts!LiveIsOpen

\* Each attempt to connect to the feed ends, also when the peer stays silent.
AttemptsEnd == Feed!AttemptsEnd
=============================================================================
