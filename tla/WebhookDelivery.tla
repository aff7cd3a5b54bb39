--------------------------- MODULE WebhookDelivery ---------------------------
(***************************************************************************)
(* The webhook delivery service (services/webhook-delivery).  One process  *)
(* reads the topic webhook.delivery and handles every message in a         *)
(* goroutine of its own, at most Slots at a time: it inserts a row in      *)
(* webhook_deliveries, POSTs the payload to the target up to MaxAttempts   *)
(* times, sends what was refused every time to webhook.dlq, and commits    *)
(* the message's offset whatever the outcome.                              *)
(*                                                                         *)
(* CommitMessages with CommitInterval 0 sets the group's offset to the one *)
(* after the given message, also when that covers earlier messages that    *)
(* are still being handled, or moves it backwards.                         *)
(***************************************************************************)
EXTENDS Naturals, Sequences, FiniteSets

CONSTANTS
  LastMsg,      \* the topic holds the messages 1 .. LastMsg
  Malformed,    \* the messages that do not unmarshal
  Slots,        \* the semaphore's capacity (50 in the code)
  MaxAttempts,  \* deliveries tried per message (5 in the code)
  MaxFaults     \* bound: lost answers, failed calls, panics and crashes

ASSUME LastMsgAssumption == LastMsg \in Nat
ASSUME MalformedAssumption == Malformed \subseteq 1..LastMsg
ASSUME SlotsAssumption == Slots \in Nat \ {0}
ASSUME MaxAttemptsAssumption == MaxAttempts \in Nat \ {0}
ASSUME MaxFaultsAssumption == MaxFaults \in Nat

Msgs == 1..LastMsg

VARIABLES
  next,       \* the message FetchMessage returns next
  committed,  \* the group's offset: the message a restart begins with
  pc,         \* where each message's goroutine is
  tries,      \* its loop counter: failed deliveries so far
  rowOf,      \* its deliveryID: an index of rows, 0 for ""
  rows,       \* the table webhook_deliveries
  accepted,   \* how often the target has accepted each message
  refused,    \* how often Deliver has failed for each message
  dlq,        \* the messages in webhook.dlq
  faults      \* how much of MaxFaults has been used

goroutine == <<pc, tries, rowOf>>
world == <<accepted, refused, dlq>>
vars == <<next, committed, pc, tries, rowOf, rows, accepted, refused, dlq, faults>>

Init ==
  /\ next = 1
  /\ committed = 1
  /\ pc = [m \in Msgs |-> "idle"]
  /\ tries = [m \in Msgs |-> 0]
  /\ rowOf = [m \in Msgs |-> 0]
  /\ rows = << >>
  /\ accepted = [m \in Msgs |-> 0]
  /\ refused = [m \in Msgs |-> 0]
  /\ dlq = {}
  /\ faults = 0

Fault == faults < MaxFaults /\ faults' = faults + 1

Goto(m, l) == pc' = [pc EXCEPT ![m] = l]

\* The messages whose goroutines hold a place in the semaphore.
InFlight == {m \in Msgs : pc[m] \notin {"idle", "done"}}

HasSlot == Cardinality(InFlight) < Slots

\* Start: FetchMessage returns a message and the semaphore admits its
\* goroutine.  (Waiting for the semaphore with the message in hand changes
\* nothing anyone else can see.)  A message that does not unmarshal is only
\* committed.
Fetch ==
  /\ next <= LastMsg
  /\ HasSlot
  /\ next' = next + 1
  /\ Goto(next, IF next \in Malformed THEN "commit" ELSE "create")
  /\ tries' = [tries EXCEPT ![next] = 0]
  /\ rowOf' = [rowOf EXCEPT ![next] = 0]
  /\ UNCHANGED <<committed, rows, world, faults>>

\* Repository.Create: a row with status pending.
Create(m) ==
  /\ pc[m] = "create"
  /\ rows' = Append(rows, [msg |-> m, attempts |-> 0, status |-> "pending"])
  /\ rowOf' = [rowOf EXCEPT ![m] = Len(rows) + 1]
  /\ Goto(m, "deliver")
  /\ UNCHANGED <<next, committed, tries, world, faults>>

\* Create fails, or there is no database: deliveryID stays "".
CreateFails(m) ==
  /\ pc[m] = "create"
  /\ Fault
  /\ Goto(m, "deliver")
  /\ UNCHANGED <<next, committed, tries, rowOf, rows, world>>

\* Deliver: the target answers with a status below 400.
DeliverOk(m) ==
  /\ pc[m] = "deliver"
  /\ accepted' = [accepted EXCEPT ![m] = @ + 1]
  /\ Goto(m, "delivered")
  /\ UNCHANGED <<next, committed, tries, rowOf, rows, refused, dlq, faults>>

\* Deliver: the target answers 4xx or 5xx, or cannot be reached.
DeliverError(m) ==
  /\ pc[m] = "deliver"
  /\ refused' = [refused EXCEPT ![m] = @ + 1]
  /\ tries' = [tries EXCEPT ![m] = @ + 1]
  /\ Goto(m, "failed")
  /\ UNCHANGED <<next, committed, rowOf, rows, accepted, dlq, faults>>

\* Deliver: the target accepts the request, but its answer is lost or comes
\* after the 30 s timeout.
DeliverTimeout(m) ==
  /\ pc[m] = "deliver"
  /\ Fault
  /\ accepted' = [accepted EXCEPT ![m] = @ + 1]
  /\ refused' = [refused EXCEPT ![m] = @ + 1]
  /\ tries' = [tries EXCEPT ![m] = @ + 1]
  /\ Goto(m, "failed")
  /\ UNCHANGED <<next, committed, rowOf, rows, dlq>>

-----------------------------------------------------------------------------
(* Repository.Update; its error is ignored.                                *)

Write(m, status, attempts) ==
  rows' = IF rowOf[m] = 0 THEN rows
          ELSE [rows EXCEPT ![rowOf[m]].status = status,
                            ![rowOf[m]].attempts = attempts]

Update(m, status, attempts) ==
  \/ Write(m, status, attempts) /\ UNCHANGED faults
  \/ Fault /\ UNCHANGED rows

\* Mutant: processMessage does not return after a delivery.
MarkDeliveredFallsThrough(m) ==
  /\ pc[m] = "delivered"
  /\ Update(m, "delivered", tries[m] + 1)
  /\ tries' = [tries EXCEPT ![m] = @ + 1]
  /\ Goto(m, IF tries[m] + 1 < MaxAttempts THEN "deliver" ELSE "exhausted")
  /\ UNCHANGED <<next, committed, rowOf, world>>

\* After a delivery: processMessage returns.
MarkDelivered(m) ==
  /\ pc[m] = "delivered"
  /\ Update(m, "delivered", tries[m] + 1)
  /\ Goto(m, "commit")
  /\ UNCHANGED <<next, committed, tries, rowOf, world>>

\* Mutant: one attempt too few.
GivesUpEarly(m) == tries[m] + 1 >= MaxAttempts

\* The loop ends.
GivesUp(m) == tries[m] >= MaxAttempts

\* After a failure: the row is updated, and the loop goes on after the
\* backoff or ends.
MarkFailed(m) ==
  /\ pc[m] = "failed"
  /\ Update(m, "failed", tries[m])
  /\ Goto(m, IF GivesUp(m) THEN "exhausted" ELSE "deliver")
  /\ UNCHANGED <<next, committed, tries, rowOf, world>>

\* After the loop: status dlq.
MarkDlq(m) ==
  /\ pc[m] = "exhausted"
  /\ Update(m, "dlq", MaxAttempts)
  /\ Goto(m, "publish")
  /\ UNCHANGED <<next, committed, tries, rowOf, world>>

-----------------------------------------------------------------------------

\* Mutant: the dead letter is forgotten.
PublishDlqNever(m) ==
  /\ pc[m] = "publish"
  /\ Goto(m, "commit")
  /\ UNCHANGED <<next, committed, tries, rowOf, rows, accepted, refused, dlq, faults>>

\* Publish to webhook.dlq.
PublishDlq(m) ==
  /\ pc[m] = "publish"
  /\ dlq' = dlq \cup {m}
  /\ Goto(m, "commit")
  /\ UNCHANGED <<next, committed, tries, rowOf, rows, accepted, refused, faults>>

\* Publish fails: processMessage returns an error, which Start only logs.
PublishDlqFails(m) ==
  /\ pc[m] = "publish"
  /\ Fault
  /\ Goto(m, "commit")
  /\ UNCHANGED <<next, committed, tries, rowOf, rows, world>>

\* CommitMessages: the group's offset becomes the one after m.
CommitMessages(m) ==
  /\ pc[m] = "commit"
  /\ committed' = m + 1
  /\ Goto(m, "done")
  /\ UNCHANGED <<next, tries, rowOf, rows, world, faults>>

\* CommitMessages fails; the error is logged.
CommitFails(m) ==
  /\ pc[m] = "commit"
  /\ Fault
  /\ Goto(m, "done")
  /\ UNCHANGED <<next, committed, tries, rowOf, rows, world>>

\* A panic in processMessage: it is recovered, and nothing is committed.
Panic(m) ==
  /\ m \in InFlight /\ pc[m] # "commit"
  /\ Fault
  /\ Goto(m, "done")
  /\ UNCHANGED <<next, committed, tries, rowOf, rows, world>>

\* The process ends (main does not wait for the consumer) and starts again
\* at the committed offset.
Restart ==
  /\ Fault
  /\ next' = committed
  /\ pc' = [m \in Msgs |-> "idle"]
  /\ tries' = [m \in Msgs |-> 0]
  /\ rowOf' = [m \in Msgs |-> 0]
  /\ UNCHANGED <<committed, rows, world>>

-----------------------------------------------------------------------------

\* What the goroutine of m does by itself.
Step(m) ==
  \/ Create(m) \/ DeliverOk(m) \/ DeliverError(m)
  \/ MarkDelivered(m) \/ MarkFailed(m) \/ MarkDlq(m)
  \/ PublishDlq(m) \/ CommitMessages(m)

Disturbance(m) ==
  \/ CreateFails(m) \/ DeliverTimeout(m) \/ PublishDlqFails(m)
  \/ CommitFails(m) \/ Panic(m)

Next == Fetch \/ Restart \/ \E m \in Msgs : Step(m) \/ Disturbance(m)

Spec == Init /\ [][Next]_vars

\* The read loop and every goroutine keep running.
FairSpec == Spec /\ WF_vars(Fetch) /\ \A m \in Msgs : WF_vars(Step(m))

-----------------------------------------------------------------------------
(* Properties.                                                             *)

Statuses == {"pending", "delivered", "failed", "dlq"}
Row == [msg : Msgs, attempts : 0..MaxAttempts, status : Statuses]

\* Types, the semaphore's bound, and rows that belong to their goroutines
\* (consumer.go:73, 128-133).
TypeOK ==
  /\ next \in 1..LastMsg + 1
  /\ committed \in 1..LastMsg + 1
  /\ pc \in [Msgs -> {"idle", "create", "deliver", "delivered", "failed",
                      "exhausted", "publish", "commit", "done"}]
  /\ tries \in [Msgs -> 0..MaxAttempts]
  /\ rows \in Seq(Row)
  /\ rowOf \in [Msgs -> Nat]
  /\ \A m \in Msgs : rowOf[m] # 0 => rowOf[m] \in 1..Len(rows) /\ rows[rowOf[m]].msg = m
  /\ accepted \in [Msgs -> Nat]
  /\ refused \in [Msgs -> Nat]
  /\ dlq \subseteq Msgs
  /\ faults \in 0..MaxFaults
  /\ Cardinality(InFlight) <= Slots

\* Although updates may fail and messages are handled again after a restart,
\* what a row says has happened: delivered means that the target accepted the
\* message, a count of attempts that as many were made, and dlq, like a
\* message in webhook.dlq, that every attempt failed (consumer.go:136-184).
RowsTellTheTruth ==
  /\ \A i \in DOMAIN rows :
       LET r == rows[i] IN
       /\ r.status = "delivered" => accepted[r.msg] > 0
       /\ r.attempts <= accepted[r.msg] + refused[r.msg]
       /\ r.status = "dlq" => refused[r.msg] >= MaxAttempts
  /\ \A m \in dlq : refused[m] >= MaxAttempts

\* Even if a commit moves the group's offset backwards, a target gets a
\* message again only because of a fault, and then once for each
\* (consumer.go:102-105).
DuplicatesNeedFaults == \A m \in Msgs : accepted[m] <= 1 + faults

Settled(m) == m \in Malformed \/ accepted[m] > 0 \/ m \in dlq

\* Without faults every message is delivered or reaches the dead letter
\* queue, whatever the targets answer and in whatever order the goroutines
\* finish (consumer.go:72-185).
EveryMessageSettles == [](faults = 0) => \A m \in Msgs : <>Settled(m)
=============================================================================
