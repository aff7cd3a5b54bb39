--------------------------- MODULE OutboxContract ---------------------------
(***************************************************************************)
(* What the transactional outbox promises the services that write to it:   *)
(* an event that was committed is delivered at least once before it counts *)
(* as published, and is given up only after the broker has refused it      *)
(* often enough.  Nothing is promised about duplicates or order.           *)
(***************************************************************************)
EXTENDS Naturals

CONSTANTS
  Events,   \* the events services may commit
  Refusals  \* how many refusals make an event undeliverable

VARIABLES
  state,     \* of each event: "absent", "queued", "published" or "dead"
  delivered, \* the events the broker has
  refused    \* how often the broker has refused each event

cvars == <<state, delivered, refused>>

Init ==
  /\ state = [e \in Events |-> "absent"]
  /\ delivered = {}
  /\ refused = [e \in Events |-> 0]

\* A service commits an event.
Enqueue(e) ==
  /\ state[e] = "absent"
  /\ state' = [state EXCEPT ![e] = "queued"]
  /\ UNCHANGED <<delivered, refused>>

\* The broker takes an event; again, perhaps, and perhaps late.
Deliver(e) ==
  /\ state[e] # "absent"
  /\ delivered' = delivered \cup {e}
  /\ UNCHANGED <<state, refused>>

\* The broker refuses an event, or its answer to having taken it is lost.
Refuse(e) ==
  /\ state[e] # "absent"
  /\ refused' = [refused EXCEPT ![e] = @ + 1]
  /\ delivered' \in {delivered, delivered \cup {e}}
  /\ UNCHANGED state

\* The fate of a batch of queued events is recorded, all at once.
Settle(published, dead) ==
  /\ \A e \in published : state[e] = "queued" /\ e \in delivered
  /\ \A e \in dead : state[e] = "queued" /\ refused[e] >= Refusals
  /\ state' = [e \in Events |-> IF e \in published THEN "published"
                                ELSE IF e \in dead THEN "dead"
                                ELSE state[e]]
  /\ UNCHANGED <<delivered, refused>>

Next ==
  \/ \E e \in Events : Enqueue(e) \/ Deliver(e) \/ Refuse(e)
  \/ \E published, dead \in SUBSET Events : Settle(published, dead)

Spec == Init /\ [][Next]_cvars
=============================================================================
