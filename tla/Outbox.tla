------------------------------- MODULE Outbox -------------------------------
(***************************************************************************)
(* The transactional outbox of shared/kafka/outbox: business transactions  *)
(* insert rows with Writer.WriteTx, and one Relay per replica of a service *)
(* drains the table into Kafka.  A row is published while its row lock is  *)
(* held inside a database transaction whose status updates become visible  *)
(* only at the commit, so a failure between the broker's acknowledgement   *)
(* and the commit leaves the row in the table.                             *)
(*                                                                         *)
(* Rows are numbered in the order of created_at; they may become visible   *)
(* in any order, because created_at is the start of the inserting          *)
(* transaction.  dead_at is set by the same UPDATE that sets status to     *)
(* "dead" and is not kept separately.                                      *)
(***************************************************************************)
EXTENDS Naturals, Sequences, FiniteSets

CONSTANTS
  NumRecords,       \* how many rows the business transactions insert
  Relays,           \* the replicas that drain the table
  MaxAttempts,      \* maxAttempts (5 in the code)
  BatchLimit,       \* LIMIT of the SELECT (100 in the code)
  NotifyCap,        \* capacity of the notifications channel (100 in the code)
  MaxPublishErrors, \* bound: publish errors the broker returns for one row
  MaxFaults         \* bound: database errors, lost connections and crashes

ASSUME NumRecordsAssumption == NumRecords \in Nat
ASSUME MaxAttemptsAssumption == MaxAttempts \in Nat \ {0}
ASSUME BatchLimitAssumption == BatchLimit \in Nat \ {0}
ASSUME NotifyCapAssumption == NotifyCap \in Nat \ {0}
ASSUME BoundsAssumption == MaxPublishErrors \in Nat /\ MaxFaults \in Nat

Records == 1..NumRecords

Status == {"absent", "pending", "failed", "published", "dead"}

\* The status an uncommitted UPDATE gives a row; "none": no UPDATE yet.
Update == {"none", "failed", "published", "dead"}

TxState == {"none", "open", "aborted"}

VARIABLES
  status,    \* the committed status column of each row
  attempts,  \* the committed attempts column of each row
  topic,     \* what the broker has appended, in order
  pc,        \* where each relay's Run loop is: "idle", "awake", "publishing"
  notes,     \* how many notifications wait in the relay's channel
  listener,  \* the relay's LISTEN connection: "up" or "down"
  held,      \* the row locks of the relay's transaction
  todo,      \* the fetched records the drain has not reached yet
  seen,      \* the attempts column as the relay's SELECT read it
  buf,       \* the transaction's uncommitted status updates
  txstate,   \* the transaction: "none", "open", or "aborted" and unable to commit
  errs,      \* history: publish errors the broker returned for each row
  faults     \* how much of MaxFaults has been used

db == <<status, attempts>>
wakeup == <<notes, listener>>
txn == <<held, todo, seen, buf, txstate>>
vars == <<status, attempts, topic, pc, notes, listener, held, todo, seen,
          buf, txstate, errs, faults>>

TypeOK ==
  /\ status \in [Records -> Status]
  /\ attempts \in [Records -> Nat]
  /\ topic \in Seq(Records)
  /\ pc \in [Relays -> {"idle", "awake", "publishing"}]
  /\ notes \in [Relays -> 0..NotifyCap]
  /\ listener \in [Relays -> {"down", "up"}]
  /\ held \in [Relays -> SUBSET Records]
  /\ todo \in [Relays -> SUBSET Records]
  /\ seen \in [Relays -> [Records -> Nat]]
  /\ buf \in [Relays -> [Records -> Update]]
  /\ txstate \in [Relays -> TxState]
  /\ errs \in [Records -> Nat]
  /\ faults \in 0..MaxFaults

NoUpdates == [r \in Records |-> "none"]
NothingSeen == [r \in Records |-> 0]

Init ==
  /\ status = [r \in Records |-> "absent"]
  /\ attempts = [r \in Records |-> 0]
  /\ topic = << >>
  /\ pc = [p \in Relays |-> "idle"]
  /\ notes = [p \in Relays |-> 0]
  /\ listener = [p \in Relays |-> "down"]
  /\ held = [p \in Relays |-> {}]
  /\ todo = [p \in Relays |-> {}]
  /\ seen = [p \in Relays |-> NothingSeen]
  /\ buf = [p \in Relays |-> NoUpdates]
  /\ txstate = [p \in Relays |-> "none"]
  /\ errs = [r \in Records |-> 0]
  /\ faults = 0

\* A failure of the environment, drawn from the bounded budget.
Fault == faults < MaxFaults /\ faults' = faults + 1

-----------------------------------------------------------------------------
(* Inserting rows and waking the relays.                                   *)

\* A business transaction that called WriteTx commits.  The table's trigger
\* notifies every relay that is listening; a notification that finds the
\* channel full waits behind the ones that already guarantee a drain.
WriteTx(r) ==
  /\ status[r] = "absent"
  /\ status' = [status EXCEPT ![r] = "pending"]
  /\ notes' = [p \in Relays |->
                 IF listener[p] = "up" /\ notes[p] < NotifyCap THEN notes[p] + 1
                                                         ELSE notes[p]]
  /\ UNCHANGED <<attempts, topic, pc, listener, txn, errs, faults>>

\* listenLoop acquires a connection and issues LISTEN.
Listen(p) ==
  /\ listener[p] = "down"
  /\ listener' = [listener EXCEPT ![p] = "up"]
  /\ UNCHANGED <<db, topic, pc, notes, txn, errs, faults>>

\* WaitForNotification fails; what is inserted until the next LISTEN is not
\* announced to this relay.
ListenLost(p) ==
  /\ listener[p] = "up"
  /\ Fault
  /\ listener' = [listener EXCEPT ![p] = "down"]
  /\ UNCHANGED <<db, topic, pc, notes, txn, errs>>

\* Mutant: the ticker is only a fallback for a lost LISTEN connection.
TickerWakeOnlyUnlistened(p) ==
  /\ pc[p] = "idle"
  /\ listener[p] = "down"
  /\ pc' = [pc EXCEPT ![p] = "awake"]
  /\ UNCHANGED <<db, topic, wakeup, txn, errs, faults>>

\* Run: the polling ticker fires.
TickerWake(p) ==
  /\ pc[p] = "idle"
  /\ pc' = [pc EXCEPT ![p] = "awake"]
  /\ UNCHANGED <<db, topic, wakeup, txn, errs, faults>>

\* Run: a notification is received.
NotifyWake(p) ==
  /\ pc[p] = "idle"
  /\ notes[p] > 0
  /\ notes' = [notes EXCEPT ![p] = @ - 1]
  /\ pc' = [pc EXCEPT ![p] = "awake"]
  /\ UNCHANGED <<db, topic, listener, txn, errs, faults>>

-----------------------------------------------------------------------------
(* drain: one transaction over a batch of locked rows.                     *)

\* Mutant: the SELECT forgets the failed rows.
EligiblePendingOnly(r) == status[r] = "pending"

Eligible(r) ==
  \/ status[r] = "pending"
  \/ status[r] = "failed" /\ attempts[r] < MaxAttempts

\* Mutant: a plain SELECT, without FOR UPDATE.
NoRowLocks(p) == {}

\* FOR UPDATE SKIP LOCKED: the rows some other transaction has locked.
LockedByOthers(p) == UNION {held[q] : q \in Relays \ {p}}

\* ORDER BY created_at ASC ... LIMIT.
Oldest(S) == {r \in S : Cardinality({s \in S : s < r}) < BatchLimit}

Batch(p) == Oldest({r \in Records : Eligible(r) /\ r \notin LockedByOthers(p)})

\* The relay's transaction ends, with a commit or a rollback: its locks and
\* its pending updates are gone.
EndTransaction(p) ==
  /\ pc' = [pc EXCEPT ![p] = "idle"]
  /\ held' = [held EXCEPT ![p] = {}]
  /\ todo' = [todo EXCEPT ![p] = {}]
  /\ seen' = [seen EXCEPT ![p] = NothingSeen]
  /\ buf' = [buf EXCEPT ![p] = NoUpdates]
  /\ txstate' = [txstate EXCEPT ![p] = "none"]

\* Begin, the SELECT and the scan of its rows.  Rows whose scan fails are
\* skipped but stay locked.
FetchBatch(p) ==
  \E skipped \in SUBSET Batch(p) :
    /\ pc[p] = "awake"
    /\ Batch(p) \ skipped # {}
    /\ IF skipped = {} THEN UNCHANGED faults ELSE Fault
    /\ pc' = [pc EXCEPT ![p] = "publishing"]
    /\ held' = [held EXCEPT ![p] = Batch(p)]
    /\ todo' = [todo EXCEPT ![p] = Batch(p) \ skipped]
    /\ seen' = [seen EXCEPT ![p] = attempts]
    /\ txstate' = [txstate EXCEPT ![p] = "open"]
    /\ UNCHANGED <<db, topic, wakeup, buf, errs>>

\* Nothing to do, or Begin or the SELECT failed: drain returns.
FetchNothing(p) ==
  /\ pc[p] = "awake"
  /\ IF Batch(p) = {} THEN UNCHANGED faults ELSE Fault
  /\ pc' = [pc EXCEPT ![p] = "idle"]
  /\ UNCHANGED <<db, topic, wakeup, txn, errs>>

\* The loop over the fetched records takes the oldest one left.
Current(p, r) ==
  /\ pc[p] = "publishing"
  /\ r \in todo[p]
  /\ \A s \in todo[p] : r <= s

\* The UPDATE that records the outcome u of publishing r.  A statement that
\* fails aborts the transaction (its locks stay until the rollback), and in
\* an aborted transaction or on a lost connection every statement fails; the
\* error is logged and the loop goes on to the next record.
updateRecord(p, r, u) ==
  \/ /\ txstate[p] = "open"
     /\ buf' = [buf EXCEPT ![p] = [@ EXCEPT ![r] = u]]
     /\ UNCHANGED <<txstate, faults>>
  \/ /\ txstate[p] = "open"
     /\ Fault
     /\ txstate' = [txstate EXCEPT ![p] = "aborted"]
     /\ UNCHANGED buf
  \/ /\ txstate[p] # "open"
     /\ UNCHANGED <<txstate, buf, faults>>

\* Publish returns nil: the broker has appended the message.
PublishOk(p, r) ==
  /\ Current(p, r)
  /\ topic' = Append(topic, r)
  /\ updateRecord(p, r, "published")
  /\ todo' = [todo EXCEPT ![p] = @ \ {r}]
  /\ UNCHANGED <<db, pc, wakeup, held, seen, errs>>

\* Mutant: the attempt that failed is counted twice.
FailureUpdateEarly(n) == IF n + 2 >= MaxAttempts THEN "dead" ELSE "failed"

\* What drain makes of a publish error: one more attempt, or the last one.
FailureUpdate(n) == IF n + 1 >= MaxAttempts THEN "dead" ELSE "failed"

\* Mutant: the continue after a failed publish is missing, and the row is
\* marked published after all.
PublishErrorFallsThrough(p, r) ==
  /\ Current(p, r)
  /\ errs[r] < MaxPublishErrors
  /\ errs' = [errs EXCEPT ![r] = @ + 1]
  /\ topic' \in {topic, Append(topic, r)}
  /\ updateRecord(p, r, "published")
  /\ todo' = [todo EXCEPT ![p] = @ \ {r}]
  /\ UNCHANGED <<db, pc, wakeup, held, seen>>

\* Publish returns an error.  The message may have been appended all the
\* same (the acknowledgement was lost or late).
PublishError(p, r) ==
  /\ Current(p, r)
  /\ errs[r] < MaxPublishErrors
  /\ errs' = [errs EXCEPT ![r] = @ + 1]
  /\ topic' \in {topic, Append(topic, r)}
  /\ updateRecord(p, r, FailureUpdate(seen[p][r]))
  /\ todo' = [todo EXCEPT ![p] = @ \ {r}]
  /\ UNCHANGED <<db, pc, wakeup, held, seen>>

\* Commit: the updates become visible, all of them or none.
Commit(p) ==
  /\ pc[p] = "publishing"
  /\ todo[p] = {}
  /\ txstate[p] = "open"
  /\ status' = [r \in Records |->
                  IF buf[p][r] # "none" THEN buf[p][r] ELSE status[r]]
  /\ attempts' = [r \in Records |->
                  IF buf[p][r] # "none" THEN seen[p][r] + 1 ELSE attempts[r]]
  /\ EndTransaction(p)
  /\ UNCHANGED <<topic, wakeup, errs, faults>>

\* Commit returns an error: the transaction was aborted, its connection is
\* gone, or the commit itself fails.  The error is logged; drain returns and
\* the deferred Rollback runs.
CommitFails(p) ==
  /\ pc[p] = "publishing"
  /\ todo[p] = {}
  /\ IF txstate[p] = "open" THEN Fault ELSE UNCHANGED faults
  /\ EndTransaction(p)
  /\ UNCHANGED <<db, topic, wakeup, errs>>

\* Mutant: the updates are retried on a new connection that holds no locks.
ConnectionReplaced(p) ==
  /\ pc[p] = "publishing"
  /\ txstate[p] = "open"
  /\ Fault
  /\ held' = [held EXCEPT ![p] = {}]
  /\ UNCHANGED <<db, topic, pc, wakeup, todo, seen, buf, txstate, errs>>

\* The connection breaks under the running drain: the server rolls back and
\* frees the row locks, while the relay goes on publishing.
ConnectionLost(p) ==
  /\ pc[p] = "publishing"
  /\ txstate[p] = "open"
  /\ Fault
  /\ txstate' = [txstate EXCEPT ![p] = "aborted"]
  /\ held' = [held EXCEPT ![p] = {}]
  /\ UNCHANGED <<db, topic, pc, wakeup, todo, seen, buf, errs>>

\* The process dies and is started again.
Crash(p) ==
  /\ Fault
  /\ EndTransaction(p)
  /\ notes' = [notes EXCEPT ![p] = 0]
  /\ listener' = [listener EXCEPT ![p] = "down"]
  /\ UNCHANGED <<db, topic, errs>>

-----------------------------------------------------------------------------

Publish(p) == \E r \in Records : PublishOk(p, r) \/ PublishError(p, r)

Fetch(p) == FetchBatch(p) \/ FetchNothing(p)

EndDrain(p) == Commit(p) \/ CommitFails(p)

Next ==
  \/ \E r \in Records : WriteTx(r)
  \/ \E p \in Relays :
       \/ Listen(p)
       \/ ListenLost(p)
       \/ TickerWake(p)
       \/ NotifyWake(p)
       \/ FetchBatch(p)
       \/ FetchNothing(p)
       \/ \E r \in Records : PublishOk(p, r)
       \/ \E r \in Records : PublishError(p, r)
       \/ Commit(p)
       \/ CommitFails(p)
       \/ ConnectionLost(p)
       \/ Crash(p)

Spec == Init /\ [][Next]_vars

\* The ticker fires forever, and a goroutine that can run is run: each relay
\* keeps taking its own next step.  Nothing is assumed of inserts, of the
\* LISTEN connection, or of faults.
Fairness == \A p \in Relays :
  WF_vars(TickerWake(p)) /\ WF_vars(Fetch(p)) /\ WF_vars(Publish(p))
    /\ WF_vars(EndDrain(p))

FairSpec == Spec /\ Fairness

-----------------------------------------------------------------------------
(* Properties.                                                             *)

Delivered == {topic[i] : i \in DOMAIN topic}

\* A row the table says was published is in Kafka, whatever failed around the
\* transaction that said so (drain, relay.go:187-221).
PublishedIsDelivered ==
  \A r \in Records : status[r] = "published" => r \in Delivered

\* A row is given up only after the broker has really refused it maxAttempts
\* times: no attempt is counted twice across rollbacks and replicas, none is
\* lost to a stale read (relay.go:190-206).
DeadIsExhausted ==
  \A r \in Records :
    /\ status[r] = "dead" => errs[r] >= MaxAttempts
    /\ status[r] = "failed" => attempts[r] \in 1..MaxAttempts - 1

\* SKIP LOCKED keeps two drains off the same row: while its transaction can
\* commit, a relay works from the attempts the table still holds, on rows no
\* other relay has claimed (relay.go:137-147).
ClaimsAreExclusive ==
  /\ \A p, q \in Relays : p # q => held[p] \cap held[q] = {}
  /\ \A p \in Relays : txstate[p] = "open" =>
       \A r \in held[p] : Eligible(r) /\ seen[p][r] = attempts[r]

\* A relay that lost its connection in the middle of a drain never undoes
\* what another one recorded: a published or dead row keeps its status, and
\* the attempts column never goes down (relay.go:137-147, 210-221).
TerminalRowsStay ==
  [][\A r \in Records :
       /\ status[r] \in {"published", "dead"} => status'[r] = status[r]
       /\ attempts'[r] >= attempts[r]]_vars

\* Every inserted row ends up published or dead: the ticker makes up for
\* notifications that were lost, and retries end (relay.go:55-57).
EverySettles ==
  \A r \in Records :
    status[r] = "pending" ~> status[r] \in {"published", "dead"}

\* If the broker refuses a row fewer than maxAttempts times, the row is
\* published: database faults and crashes use up no attempt (relay.go:193).
EveryPublished ==
  \A r \in Records : [](errs[r] < MaxAttempts) =>
    (status[r] = "pending" ~> status[r] = "published")

\* What the outbox promises its users.
Contract == INSTANCE OutboxContract WITH
  Events <- Records,
  Refusals <- MaxAttempts,
  state <- [r \in Records |->
              IF status[r] \in {"pending", "failed"} THEN "queued"
                                                     ELSE status[r]],
  delivered <- Delivered,
  refused <- errs

\* The relay implements at-least-once delivery as OutboxContract states it.
ImplementsContract == Contract!Spec
=============================================================================
