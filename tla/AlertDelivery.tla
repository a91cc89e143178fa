---------------------------- MODULE AlertDelivery ----------------------------
(***************************************************************************)
(* What the Telegram outbox promises, without timers, retries or crashes:  *)
(* a queued alert is posted to the chat zero or more times while it is     *)
(* queued, it is confirmed only after a post, and once it is settled       *)
(* (confirmed or given up) it never changes again.  Only requests already  *)
(* on the wire may still reach the chat after that.                        *)
(***************************************************************************)
EXTENDS Naturals

CONSTANTS Alerts   \* the alerts that may be recorded

VARIABLES
    state,   \* state[a]: where alert a stands
    asked,   \* asked[a]: requests whose effect on the chat is still open
    posted   \* posted[a]: how often the chat has received a

deliveryVars == <<state, asked, posted>>

States == {"absent", "unqueued", "queued", "confirmed", "abandoned"}

DeliveryInit ==
    /\ state = [a \in Alerts |-> "absent"]
    /\ asked = [a \in Alerts |-> 0]
    /\ posted = [a \in Alerts |-> 0]

\* The alert row is inserted, with or without a delivery to make.
Accept(a) ==
    /\ state[a] = "absent"
    /\ \E s \in {"unqueued", "queued"} : state' = [state EXCEPT ![a] = s]
    /\ UNCHANGED <<asked, posted>>

\* A request leaves: only for an alert that is still queued.
Ask(a) ==
    /\ state[a] = "queued"
    /\ asked' = [asked EXCEPT ![a] = @ + 1]
    /\ UNCHANGED <<state, posted>>

\* The chat receives one of the open requests.
Post(a) ==
    /\ asked[a] > 0
    /\ asked' = [asked EXCEPT ![a] = @ - 1]
    /\ posted' = [posted EXCEPT ![a] = @ + 1]
    /\ UNCHANGED state

\* An open request is lost or refused, and the alert may be given up with it.
Lose(a) ==
    /\ asked[a] > 0
    /\ asked' = [asked EXCEPT ![a] = @ - 1]
    /\ state' \in {state, [state EXCEPT ![a] = IF @ = "queued" THEN "abandoned" ELSE @]}
    /\ UNCHANGED posted

\* The row is settled: confirmed only if the chat has the alert.
Settle(a) ==
    /\ state[a] = "queued"
    /\ \/ posted[a] > 0 /\ state' = [state EXCEPT ![a] = "confirmed"]
       \/ state' = [state EXCEPT ![a] = "abandoned"]
    /\ UNCHANGED <<asked, posted>>

DeliveryNext ==
    \E a \in Alerts : Accept(a) \/ Ask(a) \/ Post(a) \/ Lose(a) \/ Settle(a)

DeliverySpec == DeliveryInit /\ [][DeliveryNext]_deliveryVars

=============================================================================
