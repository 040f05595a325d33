------------------------------ MODULE Delivery ------------------------------
(***************************************************************************)
(* What the inbox promises for every event it has acknowledged, without    *)
(* leases, jobs or processes: an accepted event ends as delivered or dead  *)
(* and stays there; delivered means the collector has it; the collector    *)
(* never sees an event that was not accepted first; raw evidence expires   *)
(* only after the end.  Delivery is at least once: the collector may be    *)
(* handed an event again at any time after it was accepted.                *)
(***************************************************************************)
EXTENDS Naturals

CONSTANT Event

VARIABLES
    state,      \* "unknown", "accepted", "delivered" or "dead"
    received,   \* events the collector accepted
    expired     \* events whose raw evidence was pruned

deliveryVars == <<state, received, expired>>

Final == {"delivered", "dead"}

DeliveryInit ==
    /\ state = [e \in Event |-> "unknown"]
    /\ received = {}
    /\ expired = {}

Accept(events) ==
    /\ \A e \in events : state[e] = "unknown"
    /\ state' = [e \in Event |-> IF e \in events THEN "accepted" ELSE state[e]]
    /\ UNCHANGED <<received, expired>>

Receive(events) ==
    /\ \A e \in events : state[e] # "unknown"
    /\ received' = received \cup events
    /\ UNCHANGED <<state, expired>>

Deliver(events) ==
    /\ events \subseteq received
    /\ \A e \in events : state[e] = "accepted"
    /\ state' = [e \in Event |-> IF e \in events THEN "delivered" ELSE state[e]]
    /\ UNCHANGED <<received, expired>>

GiveUp(events) ==
    /\ \A e \in events : state[e] = "accepted"
    /\ state' = [e \in Event |-> IF e \in events THEN "dead" ELSE state[e]]
    /\ UNCHANGED <<received, expired>>

Expire(events) ==
    /\ \A e \in events : state[e] \in Final
    /\ expired' = expired \cup events
    /\ UNCHANGED <<state, received>>

DeliveryNext ==
    \E events \in SUBSET Event :
        \/ Accept(events)
        \/ Receive(events)
        \/ Deliver(events)
        \/ GiveUp(events)
        \/ Expire(events)

DeliverySpec == DeliveryInit /\ [][DeliveryNext]_deliveryVars
=============================================================================
