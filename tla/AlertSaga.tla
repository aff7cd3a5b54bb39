------------------------------ MODULE AlertSaga ------------------------------
(***************************************************************************)
(* The alerting service (services/alerting) behind the threat service: a   *)
(* reader of threat.alerts starts a goroutine per alert, which stores it,  *)
(* publishes it to notifications.outbound and to audit.trail, records each *)
(* step on the stored alert, and commits the offset.  The step for a SIEM  *)
(* is never taken, its URL is empty (saga.go:106).                         *)
(***************************************************************************)
EXTENDS Threat

CONSTANTS
  Slots,     \* goroutines at a time, 50
  MaxTries   \* attempts at a step, 5

ASSUME SagaAssumption == {Slots, MaxTries} \subseteq Nat \ {0}

VARIABLES
  position,    \* the next message to fetch
  offset,      \* the committed offset
  jobs,        \* the goroutines: [msg, step, tries, ok]
  alerts,      \* MongoDB alerting.alerts: [id, org, status, steps]
  sent,        \* what was published: <<step, message>>
  again,       \* history: what was published more than once
  unclear,     \* history: publications that happened and were answered with an error
  unrecorded,  \* history: messages with a step that could not be recorded
  interrupted  \* history: messages under way at a restart

sagaHistory == <<again, unclear, unrecorded, interrupted>>
sagaVars == <<position, offset, jobs, alerts, sent, sagaHistory>>
vars == <<threatVars, sagaVars>>

Init ==
  /\ ThreatInit
  /\ position = 1 /\ offset = 1 /\ jobs = {} /\ alerts = {} /\ sent = {}
  /\ again = {} /\ unclear = {} /\ unrecorded = {} /\ interrupted = {}

threatButFaults ==
  <<owner, reader, redis, stored, topic, threatHistory, now>>

Replace(j, k) == jobs' = (jobs \ {j}) \cup {k}

\* The reader waits for a free slot.
Start ==
  /\ position <= Len(topic) /\ Cardinality(jobs) < Slots
  /\ jobs' = jobs \cup {[msg |-> position, step |-> "persist", tries |-> 0, pc |-> "try"]}
  /\ position' = position + 1
  /\ UNCHANGED <<threatVars, offset, alerts, sent, sagaHistory>>

-----------------------------------------------------------------------------

\* Mutant: a persist that failed is gone over like any other step.
NextStepGoesOn(j, ok) ==
  CASE j.step = "persist" -> "notify" [] j.step = "notify" -> "audit" [] j.step = "audit" -> "commit"

\* processMessage: what comes after a step.  Only a failed persist ends it.
NextStep(j, ok) ==
  CASE j.step = "persist" -> IF ok THEN "notify" ELSE "commit"
    [] j.step = "notify" -> "audit"
    [] j.step = "audit" -> "commit"

\* Mutant: the last error is not recorded.
RetryForgets(j) ==
  Replace(j, IF j.tries + 1 < MaxTries THEN [j EXCEPT !.tries = @ + 1]
             ELSE [j EXCEPT !.step = NextStep(j, FALSE), !.tries = 0])

\* An attempt at a step has failed: the next one comes after the backoff, the
\* last one is recorded.
Retry(j) ==
  Replace(j, IF j.tries + 1 < MaxTries THEN [j EXCEPT !.tries = @ + 1]
             ELSE [j EXCEPT !.pc = "failed"])

Succeed(j) == Replace(j, [j EXCEPT !.pc = "completed"])

Document(a) == [id |-> a.id, org |-> a.org, status |-> "open", steps |-> {}]

\* The _id is taken: the driver reports a duplicate key.
Exists(id) == \E a \in alerts : a.id = id

\* InsertOne; its answer may be lost after the document was written.
Create(j) ==
  LET a == topic[j.msg] IN
  /\ j.step = "persist" /\ j.pc = "try"
  /\ \/ /\ ~Exists(a.id) /\ alerts' = alerts \cup {Document(a)}
        /\ \/ Succeed(j) /\ faults' = faults
           \/ Retry(j) /\ Fault
     \/ Exists(a.id) /\ alerts' = alerts /\ Retry(j) /\ faults' = faults
     \/ ~Exists(a.id) /\ alerts' = alerts /\ Retry(j) /\ Fault
  /\ UNCHANGED <<threatButFaults, position, offset, sent, sagaHistory>>

\* notify and audit.
Publish(j) ==
  LET p == <<j.step, j.msg>>
      written == /\ sent' = sent \cup {p}
                 /\ again' = IF p \in sent THEN again \cup {p} ELSE again IN
  /\ j.step \in {"notify", "audit"} /\ j.pc = "try"
  /\ \/ written /\ Succeed(j) /\ faults' = faults /\ unclear' = unclear
     \/ written /\ Retry(j) /\ Fault /\ unclear' = unclear \cup {p}
     \/ Retry(j) /\ Fault /\ UNCHANGED <<sent, again, unclear>>
  /\ UNCHANGED <<threatButFaults, position, offset, alerts, unrecorded, interrupted>>

\* The step is recorded on the stored alert, if there is one; an error is ignored.
UpdateSagaStep(j) ==
  LET id == topic[j.msg].id IN
  /\ j.pc \in {"completed", "failed"}
  /\ \/ /\ alerts' = {IF a.id = id THEN [a EXCEPT !.steps = @ \cup {<<j.step, j.pc>>}] ELSE a : a \in alerts}
        /\ unrecorded' = (IF Exists(id) THEN unrecorded ELSE unrecorded \cup {j.msg})
        /\ faults' = faults
     \/ Fault /\ alerts' = alerts /\ unrecorded' = unrecorded \cup {j.msg}
  /\ Replace(j, [j EXCEPT !.step = NextStep(j, j.pc = "completed"), !.tries = 0, !.pc = "try"])
  /\ UNCHANGED <<threatButFaults, position, offset, sent, again, unclear, interrupted>>

\* Goroutines commit in any order; a commit that fails is only logged.
Commit(j) ==
  /\ j.step = "commit"
  /\ jobs' = jobs \ {j}
  /\ \/ offset' = j.msg + 1 /\ faults' = faults
     \/ Fault /\ offset' = offset
  /\ UNCHANGED <<threatButFaults, position, alerts, sent, sagaHistory>>

\* The service restarts at the committed offset.
SagaRestart ==
  /\ Fault
  /\ jobs' = {} /\ position' = offset
  /\ interrupted' = interrupted \cup {j.msg : j \in jobs}
  /\ UNCHANGED <<owner, reader, redis, stored, topic, threatHistory, now,
                 offset, alerts, sent, again, unclear, unrecorded>>

-----------------------------------------------------------------------------
SagaNext ==
  \/ Start
  \/ \E j \in jobs : Create(j) \/ Publish(j) \/ UpdateSagaStep(j) \/ Commit(j)
  \/ SagaRestart

Next ==
  /\ (ThreatNext /\ UNCHANGED sagaVars) \/ SagaNext
  /\ UNCHANGED log

Spec == Init /\ [][Next]_vars

-----------------------------------------------------------------------------
(* Properties.                                                             *)

Steps == {"persist", "notify", "audit"}
Jobs == [msg : Nat \ {0}, step : Steps \cup {"commit"}, tries : 0..MaxTries - 1,
         pc : {"try", "completed", "failed"}]
Documents == [id : Nat, org : {"", "org"}, status : {"open"},
              steps : SUBSET (Steps \X {"completed", "failed"})]

\* Types; no more goroutines than the semaphore has places, one for a message at
\* most, and one document for an id (saga.go:52-77).
TypeOK ==
  /\ ThreatTypeOK
  /\ position \in 1..Len(topic) + 1 /\ offset \in 1..position
  /\ jobs \subseteq Jobs /\ IsFiniteSet(jobs) /\ Cardinality(jobs) <= Slots
  /\ \A j \in jobs : j.msg < position
  /\ \A j, k \in jobs : j.msg = k.msg => j = k
  /\ alerts \subseteq Documents
  /\ \A a, b \in alerts : a.id = b.id => a = b
  /\ {sent, again, unclear} \subseteq SUBSET ({"notify", "audit"} \X (1..Len(topic)))

\* An alert is announced and audited at most once, however often it is delivered,
\* unless Kafka took it and answered with an error (saga.go:91-96: a delivery that
\* finds the alert stored stops there).
AnnouncedOnce == again \subseteq unclear

\* When the saga is through with an alert that was not announced, a failed step
\* is on record for it, or could not be recorded, or a restart interrupted it:
\* no alert disappears without a trace (saga.go:84-131).
MissingExplained ==
  \A i \in 1..position - 1 :
    \/ <<"notify", i>> \in sent
    \/ \E j \in jobs : j.msg = i
    \/ i \in unrecorded \cup interrupted
    \/ \E a \in alerts : a.id = topic[i].id /\ \E s \in a.steps : s[2] = "failed"
==============================================================================
