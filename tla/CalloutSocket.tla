--------------------------- MODULE CalloutSocket ---------------------------
(***************************************************************************)
(* The connector of the optional callout stream: BarkCalloutIngestor of    *)
(* src/src/callouts.js.  It has no connect timeout and no state besides    *)
(* its socket and its timer; the status is what the server keeps of it.    *)
(***************************************************************************)
EXTENDS Naturals

CONSTANTS
    Sockets,       \* identities of sockets
    MaxBackoff,    \* doublings of the delay that still change it (bound of the model)
    NoSocket

VARIABLES
    sock,          \* sock[s]: the runtime's state of s
    ws,            \* the socket the connector listens to
    status,        \* calloutStatus
    reconnectTimer,\* the reconnect timer is set
    backoff,       \* doublings of reconnectMs
    closed         \* the owner has stopped the connector

vars == <<sock, ws, status, reconnectTimer, backoff, closed>>

-----------------------------------------------------------------------------
Current(s) == ~closed /\ s = ws

\* _scheduleReconnect: nothing when a timer is set already.
ScheduleReconnect(statusSet) ==
    IF reconnectTimer THEN status' = statusSet /\ UNCHANGED <<reconnectTimer, backoff>>
    ELSE
        /\ status' = "reconnecting" /\ reconnectTimer' = TRUE
        /\ backoff' = IF backoff < MaxBackoff THEN backoff + 1 ELSE backoff

\* connect: nothing when there is a socket.  The constructor may throw.
Connect ==
    /\ ~closed /\ ws = NoSocket
    /\ \/ \E s \in Sockets :
            /\ sock[s] = "gone" /\ sock' = [sock EXCEPT ![s] = "connecting"]
            /\ ws' = s /\ status' = "connecting" /\ reconnectTimer' = FALSE
            /\ UNCHANGED backoff
       \/ /\ status' = "reconnecting" /\ reconnectTimer' = TRUE
          /\ backoff' = IF backoff < MaxBackoff THEN backoff + 1 ELSE backoff
          /\ UNCHANGED <<sock, ws>>
    /\ UNCHANGED closed

Start == status = "idle" /\ Connect
Reconnect == reconnectTimer /\ Connect

\* The socket opens, and the login is sent or fails.
Opened(s) ==
    /\ sock[s] = "connecting"
    /\ IF Current(s)
       THEN \/ /\ sock' = [sock EXCEPT ![s] = "open"]
               /\ status' = "live" /\ backoff' = 0
               /\ UNCHANGED <<ws, reconnectTimer>>
            \/ /\ sock' = [sock EXCEPT ![s] = "closing"]
               /\ ws' = NoSocket
               /\ status' = "reconnecting" /\ reconnectTimer' = TRUE
               /\ backoff' = IF MaxBackoff = 0 THEN 0 ELSE 1
       ELSE sock' = [sock EXCEPT ![s] = "open"] /\ UNCHANGED <<ws, status, reconnectTimer, backoff>>
    /\ UNCHANGED closed

\* A callout is stored; one that cannot be parsed or stored degrades the status.
Message(s, accepted) ==
    /\ sock[s] \in {"open", "closing"} /\ Current(s)
    /\ status' = IF accepted THEN status ELSE "degraded"
    /\ UNCHANGED <<sock, ws, reconnectTimer, backoff, closed>>

\* The socket fails; its close event is not waited for.
Failed(s) ==
    /\ sock[s] # "gone" /\ sock' = [sock EXCEPT ![s] = "closing"]
    /\ IF Current(s)
       THEN ws' = NoSocket /\ ScheduleReconnect("degraded")
       ELSE UNCHANGED <<ws, status, reconnectTimer, backoff>>
    /\ UNCHANGED closed

\* The socket closes.
Closed(s) ==
    /\ sock[s] # "gone" /\ sock' = [sock EXCEPT ![s] = "gone"]
    /\ IF Current(s)
       THEN ws' = NoSocket /\ ScheduleReconnect(status)
       ELSE UNCHANGED <<ws, status, reconnectTimer, backoff>>
    /\ UNCHANGED closed

\* close, by the owner of the connector.
Stop ==
    /\ ~closed /\ closed' = TRUE
    /\ reconnectTimer' = FALSE /\ ws' = NoSocket
    /\ sock' = [s \in Sockets |-> IF s = ws THEN "closing" ELSE sock[s]]
    /\ UNCHANGED <<status, backoff>>

Init ==
    /\ sock = [s \in Sockets |-> "gone"] /\ ws = NoSocket
    /\ status = "idle" /\ reconnectTimer = FALSE
    /\ backoff = 0 /\ closed = FALSE

Next ==
    \/ Start \/ Reconnect \/ Stop
    \/ \E s \in Sockets :
        \/ Opened(s) \/ Failed(s) \/ Closed(s)
        \/ \E accepted \in BOOLEAN : Message(s, accepted)

Spec == Init /\ [][Next]_vars

-----------------------------------------------------------------------------
\* Properties.

\* As for the feed: one socket in use, and a reconnect timer exactly when there is none.
OneSocket ==
    /\ \A s \in Sockets : sock[s] \in {"connecting", "open"} => s = ws
    /\ status # "idle" /\ ~closed => (reconnectTimer <=> ws = NoSocket)
    /\ closed => ws = NoSocket /\ ~reconnectTimer

\* A running connector is shown as live only while its socket is open.
LiveIsOpen == status = "live" /\ ~closed => ws \in Sockets /\ sock[ws] = "open"
=============================================================================
