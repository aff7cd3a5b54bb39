---------------------------- MODULE OutboxProofs ----------------------------
(***************************************************************************)
(* Proofs about Outbox, for any number of rows, relays, faults and publish *)
(* errors and any maxAttempts, LIMIT and channel capacity.                 *)
(***************************************************************************)
EXTENDS Outbox, TLAPS

USE NumRecordsAssumption, MaxAttemptsAssumption, BatchLimitAssumption,
    NotifyCapAssumption, BoundsAssumption

-----------------------------------------------------------------------------
(* The inductive invariant.                                                *)

\* A relay has a transaction that can commit, fetched records or pending
\* updates only in the middle of a drain.
DrainShape ==
  \A p \in Relays : pc[p] # "publishing" =>
    txstate[p] # "open" /\ held[p] = {} /\ todo[p] = {} /\ buf[p] = NoUpdates

\* Row locks are exclusive.
LocksDisjoint == \A p, q \in Relays : p # q => held[p] \cap held[q] = {}

\* While the transaction can commit, every record it will still publish and
\* every row it has updated is locked by it ...
WorksOnLocked ==
  \A p \in Relays : txstate[p] = "open" =>
    /\ todo[p] \subseteq held[p]
    /\ \A r \in Records : buf[p][r] # "none" => r \in held[p]

\* ... and the locked rows are as the SELECT read them.
LockedUnchanged ==
  \A p \in Relays : txstate[p] = "open" =>
    \A r \in held[p] : Eligible(r) /\ seen[p][r] = attempts[r]

\* Fetched records exist, also those of a relay whose connection is lost.
FetchedExist == \A p \in Relays : \A r \in todo[p] : status[r] # "absent"

\* A pending update says what happened at the broker.
UpdatesTrue ==
  \A p \in Relays : txstate[p] = "open" => \A r \in Records :
    /\ buf[p][r] = "published" => r \in Delivered
    /\ buf[p][r] = "failed" =>
         seen[p][r] + 1 < MaxAttempts /\ errs[r] >= seen[p][r] + 1
    /\ buf[p][r] = "dead" =>
         seen[p][r] + 1 >= MaxAttempts /\ errs[r] >= seen[p][r] + 1

\* Committed attempts are publish errors that really happened.
AttemptsReal ==
  \A r \in Records :
    /\ status[r] \in {"absent", "pending"} => attempts[r] = 0
    /\ status[r] = "failed" => attempts[r] <= errs[r]

IInv ==
  /\ TypeOK
  /\ DrainShape
  /\ LocksDisjoint
  /\ WorksOnLocked
  /\ LockedUnchanged
  /\ FetchedExist
  /\ UpdatesTrue
  /\ AttemptsReal
  /\ PublishedIsDelivered
  /\ DeadIsExhausted

-----------------------------------------------------------------------------
(* Facts about the operators.                                              *)

\* A batch is made of eligible rows that no other relay has locked.
LEMMA BatchEligible ==
  ASSUME NEW p \in Relays, NEW r \in Batch(p)
  PROVE  r \in Records /\ Eligible(r) /\ \A q \in Relays : q # p => r \notin held[q]
BY DEF Batch, Oldest, LockedByOthers

\* Appending a message to the topic delivers that message and loses none.
LEMMA AppendDelivers ==
  ASSUME topic \in Seq(Records), NEW r \in Records, topic' = Append(topic, r)
  PROVE  Delivered' = Delivered \cup {r}
<1>1. DOMAIN topic' = DOMAIN topic \cup {Len(topic) + 1}
  OBVIOUS
<1>2. \A i \in DOMAIN topic : topic'[i] = topic[i]
  OBVIOUS
<1>3. topic'[Len(topic) + 1] = r
  OBVIOUS
<1> QED
  BY <1>1, <1>2, <1>3 DEF Delivered

-----------------------------------------------------------------------------
(* Type correctness.                                                       *)

\* An UPDATE keeps the transaction's variables in their types.
LEMMA UpdateRecordType ==
  ASSUME TypeOK, NEW p \in Relays, NEW r \in Records, NEW u \in Update,
         updateRecord(p, r, u)
  PROVE  /\ buf' \in [Relays -> [Records -> Update]]
         /\ txstate' \in [Relays -> TxState]
         /\ faults' \in 0..MaxFaults
<1>1. faults' \in 0..MaxFaults
  BY DEF TypeOK, updateRecord, Fault
<1>2. txstate' \in [Relays -> TxState]
  BY DEF TypeOK, updateRecord, TxState
<1>3. buf' \in [Relays -> [Records -> Update]]
  <2>1. CASE buf' = [buf EXCEPT ![p] = [@ EXCEPT ![r] = u]]
    BY <2>1 DEF TypeOK
  <2>2. CASE buf' = buf
    BY <2>2 DEF TypeOK
  <2> QED
    BY <2>1, <2>2 DEF updateRecord
<1> QED
  BY <1>1, <1>2, <1>3

\* Ending a transaction keeps the relay's variables in their types.
LEMMA EndTransactionType ==
  ASSUME TypeOK, NEW p \in Relays, EndTransaction(p)
  PROVE  /\ pc' \in [Relays -> {"idle", "awake", "publishing"}]
         /\ held' \in [Relays -> SUBSET Records]
         /\ todo' \in [Relays -> SUBSET Records]
         /\ seen' \in [Relays -> [Records -> Nat]]
         /\ buf' \in [Relays -> [Records -> Update]]
         /\ txstate' \in [Relays -> TxState]
BY DEF TypeOK, EndTransaction, NothingSeen, NoUpdates, Update, TxState

LEMMA TypeOKStep == TypeOK /\ [Next]_vars => TypeOK'
<1> SUFFICES ASSUME TypeOK, [Next]_vars PROVE TypeOK'
  OBVIOUS
<1> USE DEF TypeOK, TxState, db, wakeup, txn
<1>1. ASSUME NEW r \in Records, WriteTx(r) PROVE TypeOK'
  BY <1>1 DEF WriteTx, Status
<1>2. ASSUME NEW p \in Relays, Listen(p) PROVE TypeOK'
  BY <1>2 DEF Listen
<1>3. ASSUME NEW p \in Relays, ListenLost(p) PROVE TypeOK'
  BY <1>3 DEF ListenLost, Fault
<1>4. ASSUME NEW p \in Relays, TickerWake(p) PROVE TypeOK'
  BY <1>4 DEF TickerWake
<1>5. ASSUME NEW p \in Relays, NotifyWake(p) PROVE TypeOK'
  BY <1>5 DEF NotifyWake
<1>6. ASSUME NEW p \in Relays, FetchBatch(p) PROVE TypeOK'
  <2>1. Batch(p) \subseteq Records
    BY BatchEligible
  <2>2. PICK skipped \in SUBSET Batch(p) : FetchBatch(p)!(skipped)
    BY <1>6 DEF FetchBatch
  <2>3. /\ held' \in [Relays -> SUBSET Records] /\ todo' \in [Relays -> SUBSET Records]
        /\ Batch(p) \ skipped \subseteq Records
    BY <2>1, <2>2
  <2>4. faults' \in 0..MaxFaults
    BY <2>2 DEF Fault
  <2> QED
    BY <2>2, <2>3, <2>4
<1>7. ASSUME NEW p \in Relays, FetchNothing(p) PROVE TypeOK'
  BY <1>7 DEF FetchNothing, Fault
<1>8. ASSUME NEW p \in Relays, NEW r \in Records, PublishOk(p, r) PROVE TypeOK'
  <2>1. "published" \in Update /\ updateRecord(p, r, "published")
    BY <1>8 DEF PublishOk, Update
  <2>2. /\ buf' \in [Relays -> [Records -> Update]]
        /\ txstate' \in [Relays -> TxState]
        /\ faults' \in 0..MaxFaults
    BY <2>1, UpdateRecordType
  <2>3. topic' \in Seq(Records)
    BY <1>8 DEF PublishOk
  <2>4. todo' \in [Relays -> SUBSET Records]
    BY <1>8 DEF PublishOk
  <2>5. UNCHANGED <<status, attempts, pc, notes, listener, held, seen, errs>>
    BY <1>8 DEF PublishOk
  <2> QED
    BY <2>2, <2>3, <2>4, <2>5
<1>9. ASSUME NEW p \in Relays, NEW r \in Records, PublishError(p, r) PROVE TypeOK'
  <2>1. FailureUpdate(seen[p][r]) \in Update
    BY DEF FailureUpdate, Update
  <2>2. updateRecord(p, r, FailureUpdate(seen[p][r]))
    BY <1>9 DEF PublishError
  <2>3. /\ buf' \in [Relays -> [Records -> Update]]
        /\ txstate' \in [Relays -> TxState]
        /\ faults' \in 0..MaxFaults
    BY <2>1, <2>2, UpdateRecordType
  <2>4. topic' \in Seq(Records)
    <3>1. CASE topic' = topic
      BY <3>1
    <3>2. CASE topic' = Append(topic, r)
      BY <3>2
    <3> QED
      BY <1>9, <3>1, <3>2 DEF PublishError
  <2>5. todo' \in [Relays -> SUBSET Records] /\ errs' \in [Records -> Nat]
    BY <1>9 DEF PublishError
  <2>6. UNCHANGED <<status, attempts, pc, notes, listener, held, seen>>
    BY <1>9 DEF PublishError
  <2> QED
    BY <2>3, <2>4, <2>5, <2>6
<1>10. ASSUME NEW p \in Relays, Commit(p) PROVE TypeOK'
  <2>1. status' \in [Records -> Status] /\ attempts' \in [Records -> Nat]
    BY <1>10 DEF Commit, Status, Update
  <2> QED
    BY <1>10, <2>1, EndTransactionType DEF Commit
<1>11. ASSUME NEW p \in Relays, CommitFails(p) PROVE TypeOK'
  BY <1>11, EndTransactionType DEF CommitFails, Fault
<1>12. ASSUME NEW p \in Relays, ConnectionLost(p) PROVE TypeOK'
  BY <1>12 DEF ConnectionLost, Fault
<1>13. ASSUME NEW p \in Relays, Crash(p) PROVE TypeOK'
  BY <1>13, EndTransactionType DEF Crash, Fault
<1>14. CASE UNCHANGED vars
  BY <1>14 DEF vars
<1> QED
  BY <1>1, <1>2, <1>3, <1>4, <1>5, <1>6, <1>7, <1>8, <1>9, <1>10, <1>11,
     <1>12, <1>13, <1>14 DEF Next

\* The outbox's state keeps its types: rows, locks, channels and transactions
\* of the relay (relay.go:127-241).
THEOREM OutboxTypeCorrect == Spec => []TypeOK
<1>1. Init => TypeOK
  BY DEF Init, TypeOK, Status, Update, NoUpdates, NothingSeen, TxState
<1> QED
  BY <1>1, TypeOKStep, PTL DEF Spec

-----------------------------------------------------------------------------
(* The invariant is inductive: one lemma per kind of step.                 *)

\* The conjuncts of IInv other than the type invariant.
IParts ==
  /\ DrainShape /\ LocksDisjoint /\ WorksOnLocked /\ LockedUnchanged
  /\ FetchedExist /\ UpdatesTrue /\ AttemptsReal
  /\ PublishedIsDelivered /\ DeadIsExhausted

\* Committing an insert disturbs no drain: nobody holds the new row.
LEMMA WriteTxStep ==
  ASSUME IInv, NEW r \in Records, WriteTx(r)
  PROVE  IParts'
<1> USE DEF IInv, TypeOK, WriteTx, txn
<1>1. DrainShape' /\ LocksDisjoint' /\ WorksOnLocked'
  BY DEF DrainShape, LocksDisjoint, WorksOnLocked
<1>2. LockedUnchanged'
  BY DEF LockedUnchanged, Eligible
<1>3. FetchedExist'
  BY DEF FetchedExist
<1>4. UpdatesTrue'
  BY DEF UpdatesTrue, Delivered
<1>5. AttemptsReal' /\ PublishedIsDelivered' /\ DeadIsExhausted'
  BY DEF AttemptsReal, PublishedIsDelivered, DeadIsExhausted, Delivered
<1> QED
  BY <1>1, <1>2, <1>3, <1>4, <1>5 DEF IParts

\* Steps outside a drain's transaction change nothing the invariant is about.
LEMMA OutsideStep ==
  ASSUME IInv, NEW p \in Relays, UNCHANGED <<db, topic, txn, errs>>,
         \/ UNCHANGED pc
         \/ pc' = [pc EXCEPT ![p] = "awake"] /\ pc[p] = "idle"
         \/ pc' = [pc EXCEPT ![p] = "idle"] /\ pc[p] = "awake"
  PROVE  IParts'
<1> USE DEF IInv, TypeOK, db, txn
<1>1. DrainShape'
  BY DEF DrainShape
<1>2. LocksDisjoint' /\ WorksOnLocked' /\ FetchedExist'
  BY DEF LocksDisjoint, WorksOnLocked, FetchedExist
<1>3. LockedUnchanged'
  BY DEF LockedUnchanged, Eligible
<1>4. UpdatesTrue' /\ AttemptsReal' /\ PublishedIsDelivered' /\ DeadIsExhausted'
  BY DEF UpdatesTrue, AttemptsReal, PublishedIsDelivered, DeadIsExhausted, Delivered
<1> QED
  BY <1>1, <1>2, <1>3, <1>4 DEF IParts

\* A fetched batch is unlocked, eligible and read as it is.
LEMMA FetchBatchStep ==
  ASSUME IInv, NEW p \in Relays, FetchBatch(p)
  PROVE  IParts'
<1> USE DEF IInv, TypeOK, db
<1>1. PICK skipped \in SUBSET Batch(p) :
        /\ pc[p] = "awake"
        /\ pc' = [pc EXCEPT ![p] = "publishing"]
        /\ held' = [held EXCEPT ![p] = Batch(p)]
        /\ todo' = [todo EXCEPT ![p] = Batch(p) \ skipped]
        /\ seen' = [seen EXCEPT ![p] = attempts]
        /\ txstate' = [txstate EXCEPT ![p] = "open"]
        /\ UNCHANGED <<status, attempts, topic, buf, errs>>
  BY DEF FetchBatch
<1>2. \A r \in Batch(p) : r \in Records /\ Eligible(r)
                           /\ \A q \in Relays : q # p => r \notin held[q]
  BY BatchEligible
<1>3. buf[p] = NoUpdates
  BY <1>1 DEF DrainShape
<1>4. DrainShape'
  BY <1>1 DEF DrainShape
<1>5. LocksDisjoint'
  BY <1>1, <1>2 DEF LocksDisjoint
<1>6. WorksOnLocked'
  BY <1>1, <1>3 DEF WorksOnLocked, NoUpdates
<1>7. LockedUnchanged'
  BY <1>1, <1>2 DEF LockedUnchanged, Eligible
<1>8. FetchedExist'
  BY <1>1, <1>2 DEF FetchedExist, Eligible
<1>9. UpdatesTrue'
  BY <1>1, <1>3 DEF UpdatesTrue, NoUpdates, Delivered
<1>10. AttemptsReal' /\ PublishedIsDelivered' /\ DeadIsExhausted'
  BY <1>1 DEF AttemptsReal, PublishedIsDelivered, DeadIsExhausted, Delivered
<1> QED
  BY <1>4, <1>5, <1>6, <1>7, <1>8, <1>9, <1>10 DEF IParts

\* Publishing a record: what is common to the broker's two answers.  The
\* update u that is recorded has to be true of the new state.
LEMMA PublishStep ==
  ASSUME IInv, NEW p \in Relays, NEW r \in Records, NEW u \in Update \ {"none"},
         Current(p, r), updateRecord(p, r, u),
         todo' = [todo EXCEPT ![p] = @ \ {r}],
         UNCHANGED <<status, attempts, pc, held, seen>>,
         Delivered \subseteq Delivered',
         errs' \in [Records -> Nat],
         \A s \in Records : errs'[s] >= errs[s],
         txstate[p] = "open" =>
           /\ u = "published" => r \in Delivered'
           /\ u = "failed" => seen[p][r] + 1 < MaxAttempts /\ errs'[r] >= seen[p][r] + 1
           /\ u = "dead" => seen[p][r] + 1 >= MaxAttempts /\ errs'[r] >= seen[p][r] + 1
  PROVE  IParts'
<1> USE DEF IInv, TypeOK
<1>1. \A q \in Relays : /\ txstate'[q] = "open" => txstate[q] = "open"
                        /\ q # p => txstate'[q] = txstate[q] /\ buf'[q] = buf[q]
  BY DEF updateRecord
<1>2. \A s \in Records : buf'[p][s] = buf[p][s] \/ (s = r /\ buf'[p][s] = u)
  BY DEF updateRecord
<1>3. todo'[p] \subseteq todo[p] /\ \A q \in Relays : q # p => todo'[q] = todo[q]
  OBVIOUS
<1>4. pc[p] = "publishing" /\ r \in todo[p]
  BY DEF Current
<1>5. DrainShape'
  BY <1>1, <1>3, <1>4 DEF DrainShape, TxState
<1>6. LocksDisjoint'
  BY DEF LocksDisjoint
<1>7. WorksOnLocked'
  <2> SUFFICES ASSUME NEW q \in Relays, txstate'[q] = "open"
               PROVE  /\ todo'[q] \subseteq held[q]
                      /\ \A s \in Records : buf'[q][s] # "none" => s \in held[q]
    BY DEF WorksOnLocked
  <2>1. /\ todo[q] \subseteq held[q]
        /\ \A s \in Records : buf[q][s] # "none" => s \in held[q]
    BY <1>1 DEF WorksOnLocked
  <2>2. todo'[q] \subseteq todo[q]
    BY <1>3
  <2>3. CASE q = p
    BY <1>2, <1>4, <2>1, <2>2, <2>3
  <2>4. CASE q # p
    BY <1>1, <2>1, <2>2, <2>4
  <2> QED
    BY <2>3, <2>4
<1>8. LockedUnchanged'
  BY <1>1 DEF LockedUnchanged, Eligible
<1>9. FetchedExist'
  BY <1>3 DEF FetchedExist
<1>10. UpdatesTrue'
  <2> SUFFICES ASSUME NEW q \in Relays, txstate'[q] = "open", NEW s \in Records
               PROVE  /\ buf'[q][s] = "published" => s \in Delivered'
                      /\ buf'[q][s] = "failed" =>
                           seen[q][s] + 1 < MaxAttempts /\ errs'[s] >= seen[q][s] + 1
                      /\ buf'[q][s] = "dead" =>
                           seen[q][s] + 1 >= MaxAttempts /\ errs'[s] >= seen[q][s] + 1
    BY DEF UpdatesTrue
  <2>1. /\ buf[q][s] = "published" => s \in Delivered
        /\ buf[q][s] = "failed" =>
             seen[q][s] + 1 < MaxAttempts /\ errs[s] >= seen[q][s] + 1
        /\ buf[q][s] = "dead" =>
             seen[q][s] + 1 >= MaxAttempts /\ errs[s] >= seen[q][s] + 1
    BY <1>1 DEF UpdatesTrue
  <2>2. seen[q][s] \in Nat /\ errs[s] \in Nat /\ errs'[s] \in Nat /\ errs'[s] >= errs[s]
    OBVIOUS
  <2>3. CASE buf'[q][s] = buf[q][s]
    BY <2>1, <2>2, <2>3
  <2>4. CASE q = p /\ s = r /\ buf'[q][s] = u
    BY <1>1, <2>4
  <2> QED
    BY <1>1, <1>2, <2>3, <2>4
<1>11. AttemptsReal' /\ PublishedIsDelivered' /\ DeadIsExhausted'
  BY DEF AttemptsReal, PublishedIsDelivered, DeadIsExhausted
<1> QED
  BY <1>5, <1>6, <1>7, <1>8, <1>9, <1>10, <1>11 DEF IParts

\* Publish returned nil.
LEMMA PublishOkStep ==
  ASSUME IInv, NEW p \in Relays, NEW r \in Records, PublishOk(p, r)
  PROVE  IParts'
<1>1. Delivered' = Delivered \cup {r}
  BY AppendDelivers DEF PublishOk, IInv, TypeOK
<1>2. /\ Current(p, r)
      /\ updateRecord(p, r, "published")
      /\ todo' = [todo EXCEPT ![p] = @ \ {r}]
      /\ UNCHANGED <<status, attempts, pc, held, seen, errs>>
  BY DEF PublishOk, db
<1>3. errs' \in [Records -> Nat] /\ \A s \in Records : errs'[s] >= errs[s]
  BY <1>2 DEF IInv, TypeOK
<1>4. "published" \in Update \ {"none"}
  BY DEF Update
<1> QED
  BY <1>1, <1>2, <1>3, <1>4, PublishStep

\* Publish returned an error.
LEMMA PublishErrorStep ==
  ASSUME IInv, NEW p \in Relays, NEW r \in Records, PublishError(p, r)
  PROVE  IParts'
<1>1. Delivered \subseteq Delivered'
  <2>1. CASE topic' = topic
    BY <2>1 DEF Delivered
  <2>2. CASE topic' = Append(topic, r)
    BY <2>2, AppendDelivers DEF IInv, TypeOK
  <2> QED
    BY <2>1, <2>2 DEF PublishError
<1>2. /\ Current(p, r)
      /\ updateRecord(p, r, FailureUpdate(seen[p][r]))
      /\ todo' = [todo EXCEPT ![p] = @ \ {r}]
      /\ UNCHANGED <<status, attempts, pc, held, seen>>
      /\ errs' = [errs EXCEPT ![r] = @ + 1]
  BY DEF PublishError, db
<1>3. /\ errs' \in [Records -> Nat]
      /\ \A s \in Records : errs'[s] >= errs[s]
      /\ errs'[r] = errs[r] + 1
      /\ errs[r] \in Nat /\ seen[p][r] \in Nat
  BY <1>2 DEF IInv, TypeOK
<1>4. FailureUpdate(seen[p][r]) \in Update \ {"none"}
  BY DEF Update, FailureUpdate
<1>5. ASSUME txstate[p] = "open" PROVE errs'[r] >= seen[p][r] + 1
  <2>1. r \in held[p]
    BY <1>2, <1>5 DEF IInv, WorksOnLocked, Current
  <2>2. seen[p][r] = attempts[r] /\ status[r] \in {"pending", "failed"}
    BY <1>5, <2>1 DEF IInv, LockedUnchanged, Eligible
  <2>3. attempts[r] <= errs[r]
    BY <1>3, <2>2 DEF IInv, AttemptsReal
  <2> QED
    BY <1>3, <2>2, <2>3
<1>6. /\ FailureUpdate(seen[p][r]) # "published"
      /\ FailureUpdate(seen[p][r]) = "failed" => seen[p][r] + 1 < MaxAttempts
      /\ FailureUpdate(seen[p][r]) = "dead" => seen[p][r] + 1 >= MaxAttempts
  BY <1>3 DEF FailureUpdate
<1> QED
  BY <1>1, <1>2, <1>3, <1>4, <1>5, <1>6, PublishStep

\* A transaction that ends without a commit leaves no trace in the table.
LEMMA RollbackStep ==
  ASSUME IInv, NEW p \in Relays, EndTransaction(p),
         UNCHANGED <<status, attempts, topic, errs>>
  PROVE  IParts'
<1> USE DEF IInv, TypeOK, EndTransaction
<1>1. DrainShape' /\ LocksDisjoint' /\ WorksOnLocked' /\ FetchedExist'
  BY DEF DrainShape, LocksDisjoint, WorksOnLocked, FetchedExist
<1>2. LockedUnchanged'
  BY DEF LockedUnchanged, Eligible
<1>3. UpdatesTrue'
  BY DEF UpdatesTrue, Delivered
<1>4. AttemptsReal' /\ PublishedIsDelivered' /\ DeadIsExhausted'
  BY DEF AttemptsReal, PublishedIsDelivered, DeadIsExhausted, Delivered
<1> QED
  BY <1>1, <1>2, <1>3, <1>4 DEF IParts

\* A lost connection frees the locks of a transaction that can no longer
\* commit.
LEMMA ConnectionLostStep ==
  ASSUME IInv, NEW p \in Relays, ConnectionLost(p)
  PROVE  IParts'
<1> USE DEF IInv, TypeOK, ConnectionLost, db
<1>1. DrainShape' /\ LocksDisjoint' /\ WorksOnLocked' /\ FetchedExist'
  BY DEF DrainShape, LocksDisjoint, WorksOnLocked, FetchedExist
<1>2. LockedUnchanged'
  BY DEF LockedUnchanged, Eligible
<1>3. UpdatesTrue'
  BY DEF UpdatesTrue, Delivered
<1>4. AttemptsReal' /\ PublishedIsDelivered' /\ DeadIsExhausted'
  BY DEF AttemptsReal, PublishedIsDelivered, DeadIsExhausted, Delivered
<1> QED
  BY <1>1, <1>2, <1>3, <1>4 DEF IParts

\* What a commit does to one row: it records a publish, a failed attempt or
\* the last failed attempt of a locked row, or leaves the row alone.
LEMMA CommitRow ==
  ASSUME IInv, NEW p \in Relays, Commit(p), NEW r \in Records
  PROVE  \/ status'[r] = status[r] /\ attempts'[r] = attempts[r]
         \/ /\ r \in held[p] /\ Eligible(r) /\ attempts'[r] = attempts[r] + 1
            /\ \/ status'[r] = "published" /\ r \in Delivered
               \/ status'[r] = "failed" /\ attempts'[r] < MaxAttempts
                    /\ errs[r] >= attempts'[r]
               \/ status'[r] = "dead" /\ errs[r] >= MaxAttempts
<1> USE DEF IInv, TypeOK
<1>1. /\ txstate[p] = "open"
      /\ status'[r] = IF buf[p][r] # "none" THEN buf[p][r] ELSE status[r]
      /\ attempts'[r] = IF buf[p][r] # "none" THEN seen[p][r] + 1 ELSE attempts[r]
  BY DEF Commit
<1>2. CASE buf[p][r] = "none"
  BY <1>1, <1>2
<1>3. CASE buf[p][r] # "none"
  <2>1. r \in held[p] /\ buf[p][r] \in {"failed", "published", "dead"}
    BY <1>1, <1>3 DEF WorksOnLocked, Update
  <2>2. Eligible(r) /\ seen[p][r] = attempts[r]
    BY <1>1, <2>1 DEF LockedUnchanged
  <2>3. attempts[r] \in Nat /\ errs[r] \in Nat
    OBVIOUS
  <2>4. /\ buf[p][r] = "published" => r \in Delivered
        /\ buf[p][r] = "failed" =>
             attempts[r] + 1 < MaxAttempts /\ errs[r] >= attempts[r] + 1
        /\ buf[p][r] = "dead" => errs[r] >= MaxAttempts
    BY <1>1, <2>2, <2>3 DEF UpdatesTrue
  <2> QED
    BY <1>1, <1>3, <2>1, <2>2, <2>3, <2>4
<1> QED
  BY <1>2, <1>3

\* A commit.
LEMMA CommitStep ==
  ASSUME IInv, NEW p \in Relays, Commit(p)
  PROVE  IParts'
<1> USE DEF IInv, TypeOK
<1>1. EndTransaction(p) /\ UNCHANGED <<topic, errs>> /\ txstate[p] = "open"
  BY DEF Commit
<1>2. Delivered' = Delivered
  BY <1>1 DEF Delivered
<1>3. \A q \in Relays : q # p =>
        /\ held'[q] = held[q] /\ todo'[q] = todo[q] /\ seen'[q] = seen[q]
        /\ buf'[q] = buf[q] /\ txstate'[q] = txstate[q] /\ pc'[q] = pc[q]
  BY <1>1 DEF EndTransaction
<1>4. /\ held'[p] = {} /\ todo'[p] = {} /\ txstate'[p] = "none"
      /\ buf'[p] = NoUpdates /\ pc'[p] = "idle"
  BY <1>1 DEF EndTransaction
<1>5. \A r \in Records : r \notin held[p] =>
        status'[r] = status[r] /\ attempts'[r] = attempts[r]
  BY CommitRow
<1>6. DrainShape' /\ LocksDisjoint' /\ WorksOnLocked'
  <2>1. NoUpdates' = NoUpdates
    BY DEF NoUpdates
  <2>2. DrainShape' /\ LocksDisjoint'
    BY <1>3, <1>4, <2>1 DEF DrainShape, LocksDisjoint
  <2>3. ASSUME NEW q \in Relays, txstate'[q] = "open"
        PROVE  /\ todo'[q] \subseteq held'[q]
               /\ \A s \in Records : buf'[q][s] # "none" => s \in held'[q]
    BY <1>3, <1>4, <2>3 DEF WorksOnLocked
  <2> QED
    BY <2>2, <2>3 DEF WorksOnLocked
<1>7. LockedUnchanged'
  <2> SUFFICES ASSUME NEW q \in Relays, txstate'[q] = "open", NEW r \in held'[q]
               PROVE  Eligible(r)' /\ seen'[q][r] = attempts'[r]
    BY DEF LockedUnchanged
  <2>1. q # p /\ r \in held[q] /\ r \notin held[p] /\ r \in Records
    BY <1>3, <1>4 DEF LocksDisjoint
  <2>2. Eligible(r) /\ seen[q][r] = attempts[r]
    BY <1>3, <2>1 DEF LockedUnchanged
  <2> QED
    BY <1>3, <1>5, <2>1, <2>2 DEF Eligible
<1>8. FetchedExist'
  <2> SUFFICES ASSUME NEW q \in Relays, NEW r \in todo'[q]
               PROVE  status'[r] # "absent"
    BY DEF FetchedExist
  <2>1. q # p /\ r \in todo[q] /\ r \in Records
    BY <1>3, <1>4
  <2>2. status[r] # "absent"
    BY <2>1 DEF FetchedExist
  <2> QED
    BY <2>1, <2>2, CommitRow
<1>9. UpdatesTrue'
  BY <1>1, <1>2, <1>3, <1>4 DEF UpdatesTrue
<1>10. AttemptsReal'
  <2> SUFFICES ASSUME NEW r \in Records
               PROVE  /\ status'[r] \in {"absent", "pending"} => attempts'[r] = 0
                      /\ status'[r] = "failed" => attempts'[r] <= errs[r]
    BY <1>1 DEF AttemptsReal
  <2> QED
    BY CommitRow DEF AttemptsReal
<1>11. PublishedIsDelivered'
  BY <1>2, CommitRow DEF PublishedIsDelivered
<1>12. DeadIsExhausted'
  <2> SUFFICES ASSUME NEW r \in Records
               PROVE  /\ status'[r] = "dead" => errs[r] >= MaxAttempts
                      /\ status'[r] = "failed" => attempts'[r] \in 1..MaxAttempts - 1
    BY <1>1 DEF DeadIsExhausted
  <2> QED
    BY CommitRow DEF DeadIsExhausted
<1> QED
  BY <1>6, <1>7, <1>8, <1>9, <1>10, <1>11, <1>12 DEF IParts

LEMMA IInvStep == IInv /\ [Next]_vars => IInv'
<1> SUFFICES ASSUME IInv, [Next]_vars PROVE IParts'
  BY TypeOKStep DEF IInv, IParts
<1> USE DEF db, wakeup, txn
<1>1. ASSUME NEW r \in Records, WriteTx(r) PROVE IParts'
  BY <1>1, WriteTxStep
<1>2. ASSUME NEW p \in Relays,
             \/ Listen(p) \/ ListenLost(p) \/ TickerWake(p) \/ NotifyWake(p)
             \/ FetchNothing(p)
      PROVE  IParts'
  BY <1>2, OutsideStep DEF Listen, ListenLost, TickerWake, NotifyWake, FetchNothing
<1>3. ASSUME NEW p \in Relays, FetchBatch(p) PROVE IParts'
  BY <1>3, FetchBatchStep
<1>4. ASSUME NEW p \in Relays, NEW r \in Records, PublishOk(p, r) PROVE IParts'
  BY <1>4, PublishOkStep
<1>5. ASSUME NEW p \in Relays, NEW r \in Records, PublishError(p, r) PROVE IParts'
  BY <1>5, PublishErrorStep
<1>6. ASSUME NEW p \in Relays, Commit(p) PROVE IParts'
  BY <1>6, CommitStep
<1>7. ASSUME NEW p \in Relays, CommitFails(p) \/ Crash(p) PROVE IParts'
  BY <1>7, RollbackStep DEF CommitFails, Crash
<1>8. ASSUME NEW p \in Relays, ConnectionLost(p) PROVE IParts'
  BY <1>8, ConnectionLostStep
<1>9. CASE UNCHANGED vars
  <2> USE <1>9 DEF vars, IInv
  <2>1. DrainShape' /\ LocksDisjoint' /\ WorksOnLocked' /\ FetchedExist'
    BY DEF DrainShape, LocksDisjoint, WorksOnLocked, FetchedExist
  <2>2. LockedUnchanged' /\ UpdatesTrue' /\ AttemptsReal'
    BY DEF LockedUnchanged, UpdatesTrue, AttemptsReal, Eligible, Delivered
  <2>3. PublishedIsDelivered' /\ DeadIsExhausted'
    BY DEF PublishedIsDelivered, DeadIsExhausted, Delivered
  <2> QED
    BY <2>1, <2>2, <2>3 DEF IParts
<1> QED
  BY <1>1, <1>2, <1>3, <1>4, <1>5, <1>6, <1>7, <1>8, <1>9 DEF Next

LEMMA IInvInit == Init => IInv
<1> SUFFICES ASSUME Init PROVE IInv
  OBVIOUS
<1>1. TypeOK
  BY DEF Init, TypeOK, Status, Update, NoUpdates, NothingSeen, TxState
<1> QED
  BY <1>1 DEF Init, IInv, DrainShape, LocksDisjoint, WorksOnLocked, LockedUnchanged,
     FetchedExist, UpdatesTrue, AttemptsReal, PublishedIsDelivered, DeadIsExhausted

LEMMA IInvAlways == Spec => []IInv
BY IInvInit, IInvStep, PTL DEF Spec

-----------------------------------------------------------------------------
(* The theorems.                                                           *)

\* A published row is in Kafka (relay.go:187-221).
THEOREM OutboxPublishedIsDelivered == Spec => []PublishedIsDelivered
<1>1. IInv => PublishedIsDelivered
  BY DEF IInv
<1> QED
  BY <1>1, IInvAlways, PTL

\* A dead row was really refused maxAttempts times (relay.go:190-206).
THEOREM OutboxDeadIsExhausted == Spec => []DeadIsExhausted
<1>1. IInv => DeadIsExhausted
  BY DEF IInv
<1> QED
  BY <1>1, IInvAlways, PTL

\* Claims are exclusive and fresh (relay.go:137-147).
THEOREM OutboxClaimsAreExclusive == Spec => []ClaimsAreExclusive
<1>1. IInv => ClaimsAreExclusive
  BY DEF IInv, LocksDisjoint, LockedUnchanged, ClaimsAreExclusive
<1> QED
  BY <1>1, IInvAlways, PTL

\* Published and dead rows stay as they are, and attempts never go down
\* (relay.go:137-147, 210-221).
THEOREM OutboxTerminalRowsStay == Spec => TerminalRowsStay
<1> DEFINE Stays(r) == /\ status[r] \in {"published", "dead"} => status'[r] = status[r]
                       /\ attempts'[r] >= attempts[r]
<1>1. ASSUME IInv, Next, NEW r \in Records PROVE Stays(r)
  <2>1. attempts[r] \in Nat /\ attempts \in [Records -> Nat] /\ status \in [Records -> Status]
    BY <1>1 DEF IInv, TypeOK
  <2>2. ASSUME NEW s \in Records, WriteTx(s) PROVE Stays(r)
    BY <2>1, <2>2 DEF WriteTx
  <2>3. ASSUME NEW p \in Relays, Commit(p) PROVE Stays(r)
    BY <1>1, <2>1, <2>3, CommitRow DEF Eligible
  <2>4. CASE UNCHANGED <<status, attempts>>
    BY <2>1, <2>4
  <2>5. \/ \E s \in Records : WriteTx(s)
        \/ \E p \in Relays : Commit(p)
        \/ UNCHANGED <<status, attempts>>
    BY <1>1 DEF Next, Listen, ListenLost, TickerWake, NotifyWake, FetchBatch, FetchNothing,
       PublishOk, PublishError, CommitFails, ConnectionLost, Crash, db
  <2> QED
    BY <2>2, <2>3, <2>4, <2>5
<1>2. IInv /\ [Next]_vars => [\A r \in Records : Stays(r)]_vars
  BY <1>1
<1> QED
  BY <1>2, IInvAlways, PTL DEF Spec, TerminalRowsStay

-----------------------------------------------------------------------------
(* The relay implements OutboxContract.                                    *)

\* The contract's view of a row.
AbstractState == [r \in Records |->
  IF status[r] \in {"pending", "failed"} THEN "queued" ELSE status[r]]

\* A commit settles the rows whose final status it records.
LEMMA CommitSettles ==
  ASSUME IInv, NEW p \in Relays, Commit(p)
  PROVE  \E published, dead \in SUBSET Records : Contract!Settle(published, dead)
<1> DEFINE P == {r \in Records : status[r] # "published" /\ status'[r] = "published"}
           D == {r \in Records : status[r] # "dead" /\ status'[r] = "dead"}
<1>1. status \in [Records -> Status] /\ status' \in [Records -> Status]
  BY TypeOKStep DEF IInv, TypeOK, Next
<1>2. UNCHANGED <<Delivered, errs>>
  BY DEF Commit, Delivered
<1>3. \A r \in P : status[r] \in {"pending", "failed"} /\ r \in Delivered
  BY CommitRow DEF Eligible
<1>4. \A r \in D : status[r] \in {"pending", "failed"} /\ errs[r] >= MaxAttempts
  BY CommitRow DEF Eligible
<1>5. ASSUME NEW r \in Records
      PROVE  AbstractState'[r] = IF r \in P THEN "published"
                                 ELSE IF r \in D THEN "dead" ELSE AbstractState[r]
  BY <1>1, CommitRow DEF AbstractState, Eligible, Status
<1>6. AbstractState' = [r \in Records |-> IF r \in P THEN "published"
                                          ELSE IF r \in D THEN "dead"
                                          ELSE AbstractState[r]]
  BY <1>5 DEF AbstractState
<1>7. Contract!Settle(P, D)
  BY <1>2, <1>3, <1>4, <1>6 DEF Contract!Settle, AbstractState
<1>8. P \in SUBSET Records /\ D \in SUBSET Records
  OBVIOUS
<1> HIDE DEF P, D
<1> QED
  BY <1>7, <1>8 DEF Contract!Settle

\* Every step of the relay is a step of the contract or leaves its view alone.
LEMMA ContractStep == IInv /\ [Next]_vars => [Contract!Next]_(Contract!cvars)
<1> SUFFICES ASSUME IInv, [Next]_vars
             PROVE  Contract!Next \/ UNCHANGED Contract!cvars
  OBVIOUS
<1> USE DEF IInv, TypeOK
<1>1. ASSUME NEW r \in Records, WriteTx(r) PROVE Contract!Next
  <2>1. UNCHANGED <<Delivered, errs>>
    BY <1>1 DEF WriteTx, Delivered
  <2>2. AbstractState[r] = "absent" /\ AbstractState' = [AbstractState EXCEPT ![r] = "queued"]
    BY <1>1 DEF WriteTx, AbstractState
  <2>3. Contract!Enqueue(r)
    BY <2>1, <2>2 DEF Contract!Enqueue, AbstractState
  <2> QED
    BY <2>3 DEF Contract!Next
<1>2. ASSUME NEW p \in Relays, NEW r \in Records, PublishOk(p, r) PROVE Contract!Next
  <2>1. Delivered' = Delivered \cup {r} /\ UNCHANGED <<status, errs>>
    BY <1>2, AppendDelivers DEF PublishOk, db
  <2>2. status[r] # "absent"
    BY <1>2 DEF PublishOk, Current, FetchedExist
  <2>3. Contract!Deliver(r)
    BY <2>1, <2>2 DEF Contract!Deliver
  <2> QED
    BY <2>3 DEF Contract!Next
<1>3. ASSUME NEW p \in Relays, NEW r \in Records, PublishError(p, r) PROVE Contract!Next
  <2>1. Delivered' \in {Delivered, Delivered \cup {r}}
    <3>1. CASE topic' = topic
      BY <3>1 DEF Delivered
    <3>2. CASE topic' = Append(topic, r)
      BY <3>2, AppendDelivers
    <3> QED
      BY <1>3, <3>1, <3>2 DEF PublishError
  <2>2. UNCHANGED status /\ errs' = [errs EXCEPT ![r] = @ + 1]
    BY <1>3 DEF PublishError, db
  <2>3. status[r] # "absent"
    BY <1>3 DEF PublishError, Current, FetchedExist
  <2>4. Contract!Refuse(r)
    BY <2>1, <2>2, <2>3 DEF Contract!Refuse
  <2> QED
    BY <2>4 DEF Contract!Next
<1>4. ASSUME NEW p \in Relays, Commit(p) PROVE Contract!Next
  BY <1>4, CommitSettles DEF Contract!Next
<1>5. CASE UNCHANGED <<status, topic, errs>>
  BY <1>5 DEF Contract!cvars, Delivered
<1>6. \/ \E r \in Records : WriteTx(r)
      \/ \E p \in Relays, r \in Records : PublishOk(p, r)
      \/ \E p \in Relays, r \in Records : PublishError(p, r)
      \/ \E p \in Relays : Commit(p)
      \/ UNCHANGED <<status, topic, errs>>
  BY DEF Next, vars, Listen, ListenLost, TickerWake, NotifyWake, FetchBatch, FetchNothing,
     CommitFails, ConnectionLost, Crash, db
<1> QED
  BY <1>1, <1>2, <1>3, <1>4, <1>5, <1>6

\* The relay with its crashes, lost connections and competing replicas
\* delivers at least once, as OutboxContract states it (relay.go:127-222).
THEOREM OutboxImplementsContract == Spec => ImplementsContract
<1>1. Init => Contract!Init
  BY DEF Init, Contract!Init, Delivered
<1> QED
  BY <1>1, ContractStep, IInvAlways, PTL DEF Spec, ImplementsContract, Contract!Spec
=============================================================================
