----------------------------- MODULE FeedSocket -----------------------------
(***************************************************************************)
(* The connector of the launch feed: PumpPortalIngestor of                 *)
(* src/src/ingest.js, with the runtime's sockets around it.  A socket that *)
(* the connector has closed may still deliver events; "gone" is one that   *)
(* will not, or that does not exist yet.                                   *)
(***************************************************************************)
EXTENDS Naturals

CONSTANTS
    Sockets,       \* identities of sockets
    MaxBackoff,    \* doublings of the delay that still change it (bound of the model)
    NoSocket

VARIABLES
    sock,          \* sock[s]: the runtime's state of s
    ws,            \* the socket the connector listens to
    connection,    \* connectionStatus
    status,        \* statusName, what the server shows
    connectTimer,  \* the socket the connect timeout watches
    reconnectTimer,\* the reconnect timer is set
    backoff        \* doublings of reconnectMs

vars == <<sock, ws, connection, status, connectTimer, reconnectTimer, backoff>>

-----------------------------------------------------------------------------
closed == connection = "closed"

\* Every listener first compares its socket with the one in use.
MutantCurrent(s) == ~closed
Current(s) == ~closed /\ s = ws

\* _scheduleReconnect, after the caller has set connection and status: nothing more
\* when a timer is set already.
ScheduleReconnect(connectionSet, statusSet) ==
    IF reconnectTimer THEN
        connection' = connectionSet /\ status' = statusSet /\ UNCHANGED <<reconnectTimer, backoff>>
    ELSE
        /\ connection' = "reconnecting" /\ status' = "reconnecting"
        /\ reconnectTimer' = TRUE
        /\ backoff' = IF backoff < MaxBackoff THEN backoff + 1 ELSE backoff

\* The socket in use is given up, and its connect timeout with it.
Abandon == ws' = NoSocket /\ connectTimer' = NoSocket

\* connect: an attempt is watched by its connect timeout.
MutantAttempt(s) ==
    /\ sock[s] = "gone" /\ sock' = [sock EXCEPT ![s] = "connecting"]
    /\ ws' = s /\ UNCHANGED connectTimer
    /\ connection' = "connecting" /\ status' = "connecting"
    /\ UNCHANGED backoff
Attempt(s) ==
    /\ sock[s] = "gone" /\ sock' = [sock EXCEPT ![s] = "connecting"]
    /\ ws' = s /\ connectTimer' = s
    /\ connection' = "connecting" /\ status' = "connecting"
    /\ UNCHANGED backoff

\* The constructor throws.  The reconnect timer has been cancelled just before.
Refused ==
    /\ connection' = "reconnecting" /\ status' = "reconnecting"
    /\ reconnectTimer' = TRUE
    /\ backoff' = IF backoff < MaxBackoff THEN backoff + 1 ELSE backoff
    /\ UNCHANGED <<sock, ws, connectTimer>>

Connect ==
    /\ connection \notin {"closed", "connecting", "connected", "degraded"}
    /\ \/ \E s \in Sockets : Attempt(s) /\ reconnectTimer' = FALSE
       \/ Refused

Start == connection = "idle" /\ Connect
Reconnect == reconnectTimer /\ Connect

-----------------------------------------------------------------------------
\* _onOpen subscribes; a subscription that cannot be sent is reported and the
\* socket kept.
Opened(s) ==
    /\ sock[s] = "connecting" /\ sock' = [sock EXCEPT ![s] = "open"]
    /\ IF Current(s)
       THEN /\ connectTimer' = NoSocket /\ backoff' = 0
            /\ connection' = "connected"
            /\ status' \in {"connected", "degraded"}
            /\ UNCHANGED <<ws, reconnectTimer>>
       ELSE UNCHANGED <<ws, connection, status, connectTimer, reconnectTimer, backoff>>

\* _onMessage: a frame that cannot be parsed degrades the status, a create or
\* migration frame goes to the server and is activity, any other is ignored.
Frames == {"malformed", "ignored", "create", "migration"}

Message(s, frame) ==
    /\ sock[s] \in {"open", "closing"} /\ Current(s)
    /\ status' = CASE frame = "malformed" -> "degraded"
                   [] frame = "ignored" -> status
                   [] OTHER -> IF connection \in {"connected", "degraded"} THEN "live" ELSE status
    /\ connection' = IF frame \in {"create", "migration"} /\ connection = "degraded"
                     THEN "connected" ELSE connection
    /\ UNCHANGED <<sock, ws, connectTimer, reconnectTimer, backoff>>

\* _onError closes the socket and does not wait for its close event.
Failed(s) ==
    /\ sock[s] # "gone" /\ sock' = [sock EXCEPT ![s] = "closing"]
    /\ IF Current(s)
       THEN Abandon /\ ScheduleReconnect("degraded", "degraded")
       ELSE UNCHANGED <<ws, connection, status, connectTimer, reconnectTimer, backoff>>

\* _onClose
Closed(s) ==
    /\ sock[s] # "gone" /\ sock' = [sock EXCEPT ![s] = "gone"]
    /\ IF Current(s)
       THEN Abandon /\ ScheduleReconnect(connection, status)
       ELSE UNCHANGED <<ws, connection, status, connectTimer, reconnectTimer, backoff>>

\* The connect timeout fires.
Timeout(s) ==
    /\ connectTimer = s
    /\ IF Current(s) /\ connection = "connecting"
       THEN /\ sock' = [sock EXCEPT ![s] = "closing"]
            /\ Abandon /\ ScheduleReconnect("degraded", "degraded")
       ELSE /\ connectTimer' = NoSocket
            /\ UNCHANGED <<sock, ws, connection, status, reconnectTimer, backoff>>

\* close, by the owner of the connector.
Stop ==
    /\ ~closed /\ connection' = "closed" /\ status' = "closed"
    /\ reconnectTimer' = FALSE /\ Abandon
    /\ sock' = [s \in Sockets |-> IF s = ws THEN "closing" ELSE sock[s]]
    /\ UNCHANGED backoff

Init ==
    /\ sock = [s \in Sockets |-> "gone"] /\ ws = NoSocket
    /\ connection = "idle" /\ status = "idle"
    /\ connectTimer = NoSocket /\ reconnectTimer = FALSE
    /\ backoff = 0

Next ==
    \/ Start \/ Reconnect \/ Stop
    \/ \E s \in Sockets :
        \/ Opened(s) \/ Failed(s) \/ Closed(s) \/ Timeout(s)
        \/ \E frame \in Frames : Message(s, frame)

Spec == Init /\ [][Next]_vars

\* Timers fire.  Nothing is assumed of the peer: a socket may neither open nor fail.
Fairness == WF_vars(Reconnect) /\ \A s \in Sockets : WF_vars(Timeout(s))

-----------------------------------------------------------------------------
\* Properties.

\* A socket that may still open or deliver frames is the one in use; without one, a
\* reconnect timer is set, and never both; an attempt has its timeout; a connector
\* that was stopped keeps nothing.  Errors, closes, timeouts and timers of replaced
\* sockets, in any order, break none of this.
OneSocket ==
    /\ \A s \in Sockets : sock[s] \in {"connecting", "open"} => s = ws
    /\ connection # "idle" /\ ~closed => (reconnectTimer <=> ws = NoSocket)
    /\ connection = "connecting" => connectTimer = ws
    /\ closed => ws = NoSocket /\ ~reconnectTimer /\ connectTimer = NoSocket

\* The server shows the feed as live or connected only while its socket is open.
LiveIsOpen == status \in {"live", "connected"} => ws \in Sockets /\ sock[ws] = "open"

\* An attempt ends even when the peer never answers the handshake.
AttemptsEnd == connection = "connecting" ~> connection # "connecting"
=============================================================================
