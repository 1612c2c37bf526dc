------------------------------- MODULE Outbox -------------------------------
(***************************************************************************)
(* What the webhook subsystem promises (webhooks/doc.go: "at-least-once    *)
(* outbound HTTP delivery"): an event owed to an endpoint stays owed until *)
(* a receiver has accepted it, it is dead-lettered, or the operator        *)
(* deletes the endpoint.                                                   *)
(***************************************************************************)
CONSTANTS Notices, Receivers

VARIABLES
  fate,      \* event, endpoint -> what became of the delivery
  accepted,  \* deliveries some receiver has answered with 2xx
  open       \* the endpoints there are

outboxVars == <<fate, accepted, open>>

Deliveries == Notices \X Receivers
Fates == {"none", "owed", "delivered", "dead", "gone"}

OutboxInit ==
  /\ fate = [d \in Deliveries |-> "none"]
  /\ accepted = {}
  /\ open = Receivers

\* The fan-out of one event: all of its deliveries or none.
Owe(S) ==
  /\ \A d \in S : fate[d] = "none" /\ d[2] \in open
  /\ fate' = [d \in Deliveries |-> IF d \in S THEN "owed" ELSE fate[d]]
  /\ UNCHANGED <<accepted, open>>

\* A receiver accepts; it may do so again, and after the endpoint was deleted.
Accept(d) ==
  /\ fate[d] \in {"owed", "gone"}
  /\ accepted' = accepted \union {d}
  /\ UNCHANGED <<fate, open>>

Settle(d, outcome) ==
  /\ fate[d] = "owed"
  /\ outcome \in {"delivered", "dead"}
  /\ outcome = "delivered" => d \in accepted
  /\ fate' = [fate EXCEPT ![d] = outcome]
  /\ UNCHANGED <<accepted, open>>

\* Retention removes settled deliveries only.
Forget(S) ==
  /\ \A d \in S : fate[d] \in {"delivered", "dead"}
  /\ fate' = [d \in Deliveries |-> IF d \in S THEN "gone" ELSE fate[d]]
  /\ UNCHANGED <<accepted, open>>

\* The operator deletes an endpoint and everything owed to it.
Close(e) ==
  /\ e \in open
  /\ open' = open \ {e}
  /\ fate' = [d \in Deliveries |-> IF d[2] = e /\ fate[d] # "none" THEN "gone" ELSE fate[d]]
  /\ UNCHANGED accepted

OutboxNext ==
  \/ \E S \in SUBSET Deliveries : Owe(S) \/ Forget(S)
  \/ \E d \in Deliveries : Accept(d) \/ \E outcome \in {"delivered", "dead"} : Settle(d, outcome)
  \/ \E e \in Receivers : Close(e)

OutboxSpec == OutboxInit /\ [][OutboxNext]_outboxVars
=============================================================================
