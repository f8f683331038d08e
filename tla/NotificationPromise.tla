-------------------------- MODULE NotificationPromise --------------------------
(***************************************************************************)
(* What the webhook outbox promises about one event for one subscriber,    *)
(* without workers, leases or attempts: it is announced once, may reach    *)
(* the receiver any number of times, and ends in exactly one way, which is *)
(* final.  It ends delivered only if the receiver has it, and is withdrawn *)
(* only if the receiver had no right to it at some time since the          *)
(* announcement, or never had.                                             *)
(***************************************************************************)
CONSTANT Deliveries

VARIABLES
  state,    \* where each notification stands
  reached,  \* those the receiver has seen
  lapsed    \* those the receiver had no right to at some time since their announcement

promise == <<state, reached, lapsed>>

States == {"absent", "open", "delivered", "dead", "cancelled"}

PromiseInit ==
  /\ state = [d \in Deliveries |-> "absent"]
  /\ reached = {}
  /\ lapsed = {}

\* Some may be announced to a receiver that has no right to them.
Announce(D, unentitled) ==
  /\ \A d \in D : state[d] = "absent"
  /\ unentitled \subseteq D
  /\ state' = [d \in Deliveries |-> IF d \in D THEN "open" ELSE state[d]]
  /\ lapsed' = lapsed \cup unentitled
  /\ UNCHANGED reached

Reach(d) ==
  /\ state[d] # "absent"
  /\ reached' = reached \cup {d}
  /\ UNCHANGED <<state, lapsed>>

End(d, outcome) ==
  /\ state[d] = "open"
  /\ outcome = "delivered" => d \in reached
  /\ outcome = "cancelled" => d \in lapsed
  /\ state' = [state EXCEPT ![d] = outcome]
  /\ UNCHANGED <<reached, lapsed>>

\* A revocation may withdraw, in the same step, what is still open.
Lapse(D, W) ==
  /\ W \subseteq D
  /\ \A d \in W : state[d] = "open"
  /\ lapsed' = lapsed \cup D
  /\ state' = [d \in Deliveries |-> IF d \in W THEN "cancelled" ELSE state[d]]
  /\ UNCHANGED reached

PromiseNext ==
  \/ \E D, unentitled \in SUBSET Deliveries : Announce(D, unentitled)
  \/ \E d \in Deliveries :
       \/ Reach(d)
       \/ \E outcome \in {"delivered", "dead", "cancelled"} : End(d, outcome)
  \/ \E D \in SUBSET Deliveries : \E W \in SUBSET D : Lapse(D, W)

PromiseSpec == PromiseInit /\ [][PromiseNext]_promise
=============================================================================
