---------------------------- MODULE WebhookProofs ----------------------------
(***************************************************************************)
(* Proofs about WebhookDelivery, for any number of messages, slots,        *)
(* attempts and faults.                                                    *)
(***************************************************************************)
EXTENDS WebhookDelivery, FiniteSetTheorems, SequenceTheorems, TLAPS

-----------------------------------------------------------------------------
(* The inductive invariant.                                                *)

\* The loop of processMessage: its counter is below the limit as long as it goes
\* on and at the limit when it is over, and counts failures that took place.
LoopOK(m) ==
  /\ pc[m] \in {"create", "deliver", "delivered"} => tries[m] < MaxAttempts
  /\ pc[m] \in {"exhausted", "publish"} => tries[m] = MaxAttempts
  /\ pc[m] = "delivered" => accepted[m] > 0
  /\ tries[m] <= refused[m]

\* The target may still get the message from this process.
CanDeliver(m) == m >= next \/ pc[m] \in {"create", "deliver", "failed"}

\* A message that may still be delivered has been accepted only by deliveries
\* that went wrong later: each has a fault of its own.
FaultsOK(m) ==
  /\ m >= next => pc[m] = "idle"
  /\ CanDeliver(m) => accepted[m] <= faults
  /\ accepted[m] <= 1 + faults

RowTrue(i) ==
  /\ rows[i].status = "delivered" => accepted[rows[i].msg] > 0
  /\ rows[i].attempts <= accepted[rows[i].msg] + refused[rows[i].msg]
  /\ rows[i].status = "dlq" => refused[rows[i].msg] >= MaxAttempts

IInv ==
  /\ \A m \in Msgs : LoopOK(m) /\ FaultsOK(m)
  /\ \A i \in 1..Len(rows) : RowTrue(i)
  /\ \A m \in dlq : refused[m] >= MaxAttempts

-----------------------------------------------------------------------------
(* Rows and the semaphore.                                                 *)

\* A fault is counted, within the bound.
LEMMA FaultCounts == TypeOK /\ Fault => faults' = faults + 1 /\ faults' \in 0..MaxFaults /\ faults \in Nat
  BY MaxFaultsAssumption DEF TypeOK, Fault

\* What Update can do to the table: the row of m, if there is one, or nothing.
LEMMA UpdateRows ==
  ASSUME TypeOK, NEW m \in Msgs, NEW st \in Statuses, NEW n \in 0..MaxAttempts, Update(m, st, n)
  PROVE  /\ rows' \in Seq(Row) /\ Len(rows') = Len(rows)
         /\ faults' \in 0..MaxFaults /\ faults <= faults'
         /\ \A j \in 1..Len(rows) :
              \/ rows'[j] = rows[j]
              \/ /\ rows'[j].msg = rows[j].msg /\ rows[j].msg = m
                 /\ rows'[j].status = st /\ rows'[j].attempts = n
<1>1. rows \in Seq(Row) /\ faults \in 0..MaxFaults /\ rowOf[m] \in Nat
  BY DEF TypeOK
<1>2. CASE Fault /\ rows' = rows
  BY <1>1, <1>2, FaultCounts
<1>3. CASE Write(m, st, n) /\ faults' = faults
  <2>1. CASE rowOf[m] = 0
    BY <1>1, <1>3, <2>1, MaxFaultsAssumption DEF Write
  <2>2. CASE rowOf[m] # 0
    <3> DEFINE i == rowOf[m]
    <3>1. i \in 1..Len(rows) /\ rows[i].msg = m
      BY <2>2 DEF TypeOK
    <3> DEFINE r == rows[i]
               w == [[r EXCEPT !.status = st] EXCEPT !.attempts = n]
    <3>2. rows' = [rows EXCEPT ![i] = w]
      <4>1. rows' = [rows EXCEPT ![i].status = st, ![i].attempts = n]
        BY <1>3, <2>2 DEF Write
      <4> QED
        BY <1>1, <3>1, <4>1
    <3>3. w \in Row /\ w.msg = rows[i].msg /\ w.status = st /\ w.attempts = n
      <4>1. r \in Row
        BY <1>1, <3>1
      <4> HIDE DEF r
      <4>2. w \in Row /\ w.msg = r.msg /\ w.status = st /\ w.attempts = n
        BY <4>1 DEF Row
      <4> QED
        BY <4>2 DEF r
    <3> HIDE DEF i, r, w
    <3>5. /\ rows' \in Seq(Row) /\ Len(rows') = Len(rows) /\ rows'[i] = w
          /\ \A j \in 1..Len(rows) : j # i => rows'[j] = rows[j]
      BY <1>1, <3>1, <3>2, <3>3, ExceptSeq
    <3>4. faults' \in 0..MaxFaults /\ faults <= faults'
      BY <1>1, <1>3, MaxFaultsAssumption
    <3> QED
      BY <3>1, <3>3, <3>4, <3>5
  <2> QED
    BY <2>1, <2>2
<1> QED
  BY <1>2, <1>3 DEF Update

\* Messages in flight are finitely many.
LEMMA InFlightFinite == IsFiniteSet(InFlight) /\ Cardinality(InFlight) \in Nat
<1>1. IsFiniteSet(Msgs)
  BY LastMsgAssumption, FS_Interval DEF Msgs
<1>2. IsFiniteSet(InFlight)
  BY <1>1, FS_Subset DEF InFlight
<1> QED
  BY <1>2, FS_CardinalityType

\* A step that starts no goroutine keeps to the semaphore's capacity.
LEMMA NoneStarted ==
  ASSUME TypeOK, \A m \in Msgs : pc'[m] \notin {"idle", "done"} => pc[m] \notin {"idle", "done"}
  PROVE  Cardinality(InFlight') <= Slots
<1>1. InFlight' \subseteq InFlight
  BY DEF InFlight
<1>2. Cardinality(InFlight') <= Cardinality(InFlight) /\ Cardinality(InFlight') \in Nat
  BY <1>1, InFlightFinite, FS_Subset, FS_CardinalityType
<1> QED
  BY <1>2, InFlightFinite, SlotsAssumption DEF TypeOK

\* A step that starts one goroutine when there is a place for it does, too.
LEMMA OneStarted ==
  ASSUME TypeOK, HasSlot, NEW x \in Msgs,
         \A m \in Msgs \ {x} : pc'[m] \notin {"idle", "done"} => pc[m] \notin {"idle", "done"}
  PROVE  Cardinality(InFlight') <= Slots
<1> DEFINE S == InFlight \cup {x}
<1>1. InFlight' \subseteq S
  BY DEF InFlight
<1>2. IsFiniteSet(S) /\ Cardinality(S) <= Cardinality(InFlight) + 1 /\ Cardinality(S) \in Nat
  BY InFlightFinite, FS_AddElement, FS_CardinalityType, SMTT(30)
<1> HIDE DEF S
<1>3. Cardinality(InFlight') <= Cardinality(S) /\ Cardinality(InFlight') \in Nat
  BY <1>1, <1>2, FS_Subset, FS_CardinalityType
<1> QED
  BY <1>2, <1>3, InFlightFinite, SlotsAssumption DEF HasSlot

-----------------------------------------------------------------------------
(* Types.                                                                  *)

\* Appending a row keeps the others.
LEMMA AppendRow ==
  ASSUME NEW R \in Seq(Row), NEW r \in Row
  PROVE  /\ Append(R, r) \in Seq(Row)
         /\ Len(Append(R, r)) = Len(R) + 1
         /\ Append(R, r)[Len(R) + 1] = r
         /\ \A j \in 1..Len(R) : Append(R, r)[j] = R[j]
         /\ Len(R) \in Nat
  OBVIOUS

\* What Create does to the table.
LEMMA CreateRows ==
  ASSUME TypeOK, NEW m \in Msgs, Create(m)
  PROVE  /\ rows' \in Seq(Row) /\ Len(rows') = Len(rows) + 1 /\ Len(rows) \in Nat
         /\ rows'[Len(rows) + 1].msg = m
         /\ rows'[Len(rows) + 1].attempts = 0
         /\ rows'[Len(rows) + 1].status = "pending"
         /\ \A j \in 1..Len(rows) : rows'[j] = rows[j]
<1> DEFINE r == [msg |-> m, attempts |-> 0, status |-> "pending"]
<1>1. r \in Row
  BY MaxAttemptsAssumption DEF Row, Statuses
<1>2. rows \in Seq(Row) /\ rows' = Append(rows, r)
  BY DEF TypeOK, Create
<1> HIDE DEF r
<1>3. /\ rows' \in Seq(Row) /\ Len(rows') = Len(rows) + 1 /\ Len(rows) \in Nat
      /\ rows'[Len(rows) + 1] = r
      /\ \A j \in 1..Len(rows) : rows'[j] = rows[j]
  BY <1>1, <1>2, AppendRow
<1> QED
  BY <1>3 DEF r

\* The rows of the goroutines, as part of the types.
TableOK ==
  /\ rows \in Seq(Row)
  /\ rowOf \in [Msgs -> Nat]
  /\ \A m \in Msgs : rowOf[m] # 0 => rowOf[m] \in 1..Len(rows) /\ rows[rowOf[m]].msg = m

\* The types of everything else.
ShapeOK ==
  /\ next \in 1..LastMsg + 1
  /\ committed \in 1..LastMsg + 1
  /\ pc \in [Msgs -> {"idle", "create", "deliver", "delivered", "failed",
                      "exhausted", "publish", "commit", "done"}]
  /\ tries \in [Msgs -> 0..MaxAttempts]
  /\ accepted \in [Msgs -> Nat]
  /\ refused \in [Msgs -> Nat]
  /\ dlq \subseteq Msgs
  /\ faults \in 0..MaxFaults

\* The type invariant in three parts.
LEMMA TypeParts ==
  /\ TypeOK => TableOK /\ ShapeOK
  /\ TableOK /\ ShapeOK /\ Cardinality(InFlight) <= Slots => TypeOK
  /\ TableOK' /\ ShapeOK' /\ Cardinality(InFlight') <= Slots => TypeOK'
  BY DEF TypeOK, TableOK, ShapeOK

\* Update keeps the rows with their goroutines.
LEMMA UpdateTable ==
  ASSUME TypeOK, NEW m \in Msgs, NEW st \in Statuses, NEW n \in 0..MaxAttempts,
         Update(m, st, n), rowOf' = rowOf
  PROVE  TableOK'
<1>1. TableOK
  BY TypeParts
<1>2. /\ rows' \in Seq(Row) /\ Len(rows') = Len(rows)
      /\ \A j \in 1..Len(rows) : rows'[j].msg = rows[j].msg
  BY UpdateRows
<1> QED
  BY <1>1, <1>2 DEF TableOK

\* The types hold at the start.
LEMMA TypeInit == Init => TypeOK
<1> SUFFICES ASSUME Init PROVE TypeOK
  OBVIOUS
<1>1. InFlight = {}
  BY DEF Init, InFlight
<1>2. Cardinality(InFlight) <= Slots
  BY <1>1, FS_EmptySet, SlotsAssumption
<1>3. TableOK
  BY DEF Init, TableOK
<1>4. ShapeOK
  BY LastMsgAssumption, MaxAttemptsAssumption, MaxFaultsAssumption DEF Init, ShapeOK
<1> QED
  BY <1>2, <1>3, <1>4, TypeParts

\* Every step keeps the types.
LEMMA TypeNext == TypeOK /\ IInv /\ [Next]_vars => TypeOK'
<1> SUFFICES ASSUME TypeOK, IInv, [Next]_vars PROVE TypeOK'
  OBVIOUS
<1>0. TableOK /\ ShapeOK
  BY TypeParts
<1> USE LastMsgAssumption, MaxAttemptsAssumption, MaxFaultsAssumption
<1>1. CASE Fetch
  <2>1. next \in Msgs
    BY <1>0, <1>1 DEF Fetch, ShapeOK, Msgs
  <2>2. TableOK'
    BY <1>0, <1>1, <2>1 DEF Fetch, TableOK
  <2>3. ShapeOK'
    BY <1>0, <1>1, <2>1 DEF Fetch, ShapeOK, Goto, world
  <2>4. Cardinality(InFlight') <= Slots
    <3>1. HasSlot /\ \A m \in Msgs \ {next} : pc'[m] = pc[m]
      BY <1>0, <1>1, <2>1 DEF Fetch, ShapeOK, Goto
    <3> QED
      BY <2>1, <3>1, OneStarted
  <2> QED
    BY <2>2, <2>3, <2>4, TypeParts
<1>2. CASE Restart
  <2>2. TableOK'
    BY <1>0, <1>2 DEF Restart, TableOK
  <2>3. ShapeOK'
    BY <1>0, <1>2, FaultCounts DEF Restart, ShapeOK, world
  <2>4. \A m \in Msgs : pc'[m] = "idle"
    BY <1>2 DEF Restart
  <2> QED
    BY <2>2, <2>3, <2>4, NoneStarted, TypeParts
<1>3. CASE UNCHANGED vars
  <2>1. TableOK' /\ ShapeOK' /\ \A m \in Msgs : pc'[m] = pc[m]
    BY <1>0, <1>3 DEF vars, TableOK, ShapeOK
  <2> QED
    BY <2>1, NoneStarted, TypeParts
<1>4. ASSUME NEW m \in Msgs, Step(m) \/ Disturbance(m) PROVE TypeOK'
  <2>0. LoopOK(m) /\ tries[m] \in Nat
    BY <1>0 DEF IInv, ShapeOK
  <2>1. TableOK'
    <3>1. CASE Create(m)
      <4>1. rowOf' = [rowOf EXCEPT ![m] = Len(rows) + 1]
        BY <3>1 DEF Create
      <4>2. /\ rows' \in Seq(Row) /\ Len(rows') = Len(rows) + 1 /\ Len(rows) \in Nat
            /\ rows'[Len(rows) + 1].msg = m
            /\ \A j \in 1..Len(rows) : rows'[j] = rows[j]
        BY <3>1, CreateRows
      <4>3. ASSUME NEW d \in Msgs, rowOf'[d] # 0
            PROVE  rowOf'[d] \in 1..Len(rows') /\ rows'[rowOf'[d]].msg = d
        BY <1>0, <4>1, <4>2, <4>3 DEF TableOK
      <4> QED
        BY <1>0, <4>1, <4>2, <4>3 DEF TableOK
    <3>2. CASE MarkDelivered(m)
      <4>1. tries[m] + 1 \in 0..MaxAttempts /\ Update(m, "delivered", tries[m] + 1) /\ rowOf' = rowOf
        BY <2>0, <3>2 DEF LoopOK, MarkDelivered
      <4> QED
        BY <4>1, UpdateTable DEF Statuses
    <3>3. CASE MarkFailed(m)
      <4>1. tries[m] \in 0..MaxAttempts /\ Update(m, "failed", tries[m]) /\ rowOf' = rowOf
        BY <1>0, <3>3 DEF ShapeOK, MarkFailed
      <4> QED
        BY <4>1, UpdateTable DEF Statuses
    <3>4. CASE MarkDlq(m)
      <4>1. MaxAttempts \in 0..MaxAttempts /\ Update(m, "dlq", MaxAttempts) /\ rowOf' = rowOf
        BY <3>4 DEF MarkDlq
      <4> QED
        BY <4>1, UpdateTable DEF Statuses
    <3>5. CASE UNCHANGED <<rows, rowOf>>
      BY <1>0, <3>5 DEF TableOK
    <3> QED
      BY <1>4, <3>1, <3>2, <3>3, <3>4, <3>5
      DEF Step, Disturbance, DeliverOk, DeliverError, DeliverTimeout, PublishDlq, CommitMessages,
          CreateFails, PublishDlqFails, CommitFails, Panic
  <2>2. ShapeOK'
    <3>1. CASE MarkDelivered(m) \/ MarkFailed(m) \/ MarkDlq(m)
      <4>1. faults' \in 0..MaxFaults
        BY <1>0, <3>1, FaultCounts
        DEF ShapeOK, Update, MarkDelivered, MarkFailed, MarkDlq
      <4>2. ShapeOK' \/ faults' \notin 0..MaxFaults
        BY <1>0, <3>1 DEF ShapeOK, MarkDelivered, MarkFailed, MarkDlq, Goto, GivesUp, world
      <4> QED
        BY <4>1, <4>2
    <3>2. CASE Create(m) \/ PublishDlq(m)
      BY <1>0, <3>2 DEF ShapeOK, Create, PublishDlq, Goto, world
    <3>7. CASE DeliverOk(m)
      <4>1. accepted[m] + 1 \in Nat
        BY <1>0 DEF ShapeOK
      <4> QED
        BY <1>0, <3>7, <4>1 DEF ShapeOK, DeliverOk, Goto
    <3>3. CASE DeliverError(m)
      BY <1>0, <2>0, <3>3 DEF ShapeOK, DeliverError, Goto, LoopOK
    <3>4. CASE CommitMessages(m)
      BY <1>0, <3>4 DEF ShapeOK, CommitMessages, Goto, world, Msgs
    <3>5. CASE DeliverTimeout(m)
      <4>1. faults' \in 0..MaxFaults
        BY <3>5, FaultCounts DEF DeliverTimeout
      <4> QED
        BY <1>0, <2>0, <3>5, <4>1 DEF ShapeOK, DeliverTimeout, Goto, LoopOK
    <3>6. CASE CreateFails(m) \/ PublishDlqFails(m) \/ CommitFails(m) \/ Panic(m)
      <4>1. faults' \in 0..MaxFaults
        BY <3>6, FaultCounts DEF CreateFails, PublishDlqFails, CommitFails, Panic
      <4> QED
        BY <1>0, <3>6, <4>1
        DEF ShapeOK, CreateFails, PublishDlqFails, CommitFails, Panic, Goto, world
    <3> QED
      BY <1>4, <3>1, <3>2, <3>3, <3>4, <3>5, <3>6, <3>7 DEF Step, Disturbance
  <2>3. pc[m] \notin {"idle", "done"} /\ \A d \in Msgs \ {m} : pc'[d] = pc[d]
    BY <1>0, <1>4
    DEF ShapeOK, Goto, InFlight, Step, Disturbance, Create, DeliverOk, DeliverError, MarkDelivered,
        MarkFailed, MarkDlq, PublishDlq, CommitMessages, CreateFails, DeliverTimeout,
        PublishDlqFails, CommitFails, Panic
  <2> QED
    BY <2>1, <2>2, <2>3, NoneStarted, TypeParts
<1> QED
  BY <1>1, <1>2, <1>3, <1>4 DEF Next

-----------------------------------------------------------------------------
(* What rows say, and how often targets accept.                            *)

\* A step that changes no row and takes nothing back keeps the rows true.
LEMMA RowsStay ==
  ASSUME TypeOK, IInv, TypeOK', rows' = rows,
         \A d \in Msgs : accepted[d] <= accepted'[d] /\ refused[d] <= refused'[d]
  PROVE  \A i \in 1..Len(rows') : RowTrue(i)'
<1> SUFFICES ASSUME NEW i \in 1..Len(rows) PROVE RowTrue(i)'
  OBVIOUS
<1>1. rows[i] \in Row
  BY DEF TypeOK
<1>2. rows[i].msg \in Msgs /\ rows[i].attempts \in Nat
  BY <1>1 DEF Row
<1>3. /\ accepted[rows[i].msg] \in Nat /\ refused[rows[i].msg] \in Nat
      /\ accepted'[rows[i].msg] \in Nat /\ refused'[rows[i].msg] \in Nat
      /\ accepted[rows[i].msg] <= accepted'[rows[i].msg]
      /\ refused[rows[i].msg] <= refused'[rows[i].msg]
  BY <1>2 DEF TypeOK
<1>4. RowTrue(i)
  BY DEF IInv
<1> QED
  BY <1>2, <1>3, <1>4, MaxAttemptsAssumption DEF RowTrue

\* Update keeps the rows true, if it writes the truth.
LEMMA RowsUpdated ==
  ASSUME TypeOK, IInv, NEW m \in Msgs, NEW st \in Statuses, NEW n \in 0..MaxAttempts,
         Update(m, st, n), UNCHANGED <<accepted, refused>>,
         st = "delivered" => accepted[m] > 0,
         n <= accepted[m] + refused[m],
         st = "dlq" => refused[m] >= MaxAttempts
  PROVE  \A i \in 1..Len(rows') : RowTrue(i)'
<1>1. /\ Len(rows') = Len(rows)
      /\ \A j \in 1..Len(rows) :
           \/ rows'[j] = rows[j]
           \/ /\ rows'[j].msg = rows[j].msg /\ rows[j].msg = m
              /\ rows'[j].status = st /\ rows'[j].attempts = n
  BY UpdateRows
<1> SUFFICES ASSUME NEW i \in 1..Len(rows) PROVE RowTrue(i)'
  BY <1>1
<1>2. RowTrue(i)
  BY DEF IInv
<1>3. CASE rows'[i] = rows[i]
  BY <1>2, <1>3 DEF RowTrue
<1>4. CASE /\ rows'[i].msg = m /\ rows'[i].status = st /\ rows'[i].attempts = n
  BY <1>4 DEF RowTrue
<1> QED
  BY <1>1, <1>3, <1>4

\* A step of m's goroutine that delivers nothing and does not start again.
LEMMA QuietFaults ==
  ASSUME TypeOK, IInv, TypeOK', NEW m \in Msgs,
         UNCHANGED <<next, accepted>>, faults <= faults',
         \A d \in Msgs \ {m} : pc'[d] = pc[d],
         pc[m] # "idle", CanDeliver(m)' => CanDeliver(m)
  PROVE  \A d \in Msgs : FaultsOK(d)'
<1> SUFFICES ASSUME NEW d \in Msgs PROVE FaultsOK(d)'
  OBVIOUS
<1>1. FaultsOK(d) /\ (d = m => m < next)
  BY DEF IInv, FaultsOK, TypeOK, Msgs
<1>2. accepted[d] \in Nat /\ faults \in Nat /\ faults' \in Nat
  BY MaxFaultsAssumption DEF TypeOK
<1>3. CanDeliver(d)' => CanDeliver(d)
  BY DEF CanDeliver
<1> QED
  BY <1>1, <1>2, <1>3, LastMsgAssumption DEF FaultsOK, TypeOK, Msgs

\* The invariant holds at the start.
LEMMA IInvInit == Init => IInv
  BY MaxAttemptsAssumption DEF Init, IInv, LoopOK, FaultsOK, CanDeliver, Msgs

\* Every step keeps it.
LEMMA IInvNext == TypeOK /\ IInv /\ TypeOK' /\ [Next]_vars => IInv'
<1> SUFFICES ASSUME TypeOK, IInv, TypeOK', [Next]_vars PROVE IInv'
  OBVIOUS
<1>0. /\ ShapeOK /\ ShapeOK' /\ \A m \in Msgs : LoopOK(m) /\ FaultsOK(m)
      /\ \A m \in dlq : refused[m] >= MaxAttempts
  BY DEF IInv, TypeOK, ShapeOK
<1> USE MaxAttemptsAssumption, MaxFaultsAssumption, LastMsgAssumption
<1>1. CASE Fetch
  <2>1. next \in Msgs /\ UNCHANGED <<rows, accepted, refused, dlq, faults>>
    BY <1>0, <1>1 DEF Fetch, ShapeOK, Msgs, world
  <2>2. \A i \in 1..Len(rows') : RowTrue(i)'
    BY <1>0, <2>1, RowsStay DEF ShapeOK
  <2>3. \A d \in Msgs : LoopOK(d)'
    BY <1>0, <1>1, <2>1 DEF Fetch, ShapeOK, LoopOK, Goto
  <2>4. \A d \in Msgs : FaultsOK(d)'
    BY <1>0, <1>1, <2>1 DEF Fetch, ShapeOK, FaultsOK, CanDeliver, Goto, Msgs
  <2> QED
    BY <1>0, <2>1, <2>2, <2>3, <2>4 DEF IInv
<1>2. CASE Restart
  <2>1. UNCHANGED <<rows, accepted, refused, dlq>> /\ faults' = faults + 1
    BY <1>2, FaultCounts DEF Restart, world
  <2>2. \A i \in 1..Len(rows') : RowTrue(i)'
    BY <1>0, <2>1, RowsStay DEF ShapeOK
  <2>3. \A d \in Msgs : LoopOK(d)'
    BY <1>0, <1>2, <2>1 DEF Restart, ShapeOK, LoopOK
  <2>4. \A d \in Msgs : FaultsOK(d)'
    BY <1>0, <1>2, <2>1 DEF Restart, ShapeOK, FaultsOK, CanDeliver
  <2> QED
    BY <1>0, <2>1, <2>2, <2>3, <2>4 DEF IInv
<1>3. CASE UNCHANGED vars
  BY <1>3 DEF vars, IInv, LoopOK, FaultsOK, CanDeliver, RowTrue
<1>4. ASSUME NEW m \in Msgs, Step(m) \/ Disturbance(m) PROVE IInv'
  <2>0. /\ LoopOK(m) /\ FaultsOK(m)
        /\ tries[m] \in Nat /\ accepted[m] \in Nat /\ refused[m] \in Nat /\ faults \in Nat
    BY <1>0 DEF ShapeOK
  <2>1. /\ UNCHANGED next
        /\ \A d \in Msgs \ {m} : pc'[d] = pc[d]
        /\ pc[m] # "idle"
    BY <1>0, <1>4
    DEF ShapeOK, Goto, InFlight, Step, Disturbance, Create, DeliverOk, DeliverError, MarkDelivered,
        MarkFailed, MarkDlq, PublishDlq, CommitMessages, CreateFails, DeliverTimeout,
        PublishDlqFails, CommitFails, Panic
  <2>2. \A d \in Msgs : LoopOK(d)'
    <3>1. CASE Create(m) \/ CreateFails(m)
      BY <1>0, <2>0, <3>1 DEF ShapeOK, LoopOK, Create, CreateFails, Goto, world
    <3>2. CASE DeliverOk(m)
      BY <1>0, <2>0, <3>2 DEF ShapeOK, LoopOK, DeliverOk, Goto
    <3>3. CASE DeliverError(m)
      BY <1>0, <2>0, <3>3 DEF ShapeOK, LoopOK, DeliverError, Goto
    <3>4. CASE DeliverTimeout(m)
      BY <1>0, <2>0, <3>4 DEF ShapeOK, LoopOK, DeliverTimeout, Goto
    <3>5. CASE MarkDelivered(m) \/ MarkFailed(m) \/ MarkDlq(m)
      BY <1>0, <2>0, <3>5
      DEF ShapeOK, LoopOK, MarkDelivered, MarkFailed, MarkDlq, GivesUp, Goto, world
    <3>6. CASE \/ PublishDlq(m) \/ PublishDlqFails(m) \/ CommitMessages(m) \/ CommitFails(m)
               \/ Panic(m)
      BY <1>0, <2>0, <3>6
      DEF ShapeOK, LoopOK, PublishDlq, PublishDlqFails, CommitMessages, CommitFails, Panic, Goto, world
    <3> QED
      BY <1>4, <3>1, <3>2, <3>3, <3>4, <3>5, <3>6 DEF Step, Disturbance
  <2>3. \A d \in Msgs : FaultsOK(d)'
    <3>1. CASE DeliverOk(m)
      BY <1>0, <2>0, <2>1, <3>1, SMTT(30) DEF ShapeOK, FaultsOK, CanDeliver, DeliverOk, Goto, Msgs
    <3>2. CASE DeliverTimeout(m)
      <4>1. faults' = faults + 1
        BY <3>2, FaultCounts DEF DeliverTimeout
      <4> QED
        <5>1. /\ accepted' = [accepted EXCEPT ![m] = @ + 1] /\ pc' = [pc EXCEPT ![m] = "failed"]
              /\ pc[m] = "deliver"
          BY <3>2 DEF DeliverTimeout, Goto
        <5>2. FaultsOK(m)'
          BY <1>0, <2>0, <2>1, <4>1, <5>1 DEF ShapeOK, FaultsOK, CanDeliver
        <5>3. ASSUME NEW d \in Msgs \ {m} PROVE FaultsOK(d)'
          <6>1. accepted'[d] = accepted[d] /\ pc'[d] = pc[d] /\ accepted[d] \in Nat /\ FaultsOK(d)
            BY <1>0, <2>1, <5>1 DEF ShapeOK
          <6> QED
            BY <2>0, <2>1, <4>1, <6>1 DEF FaultsOK, CanDeliver
        <5> QED
          BY <5>2, <5>3
    <3>3. CASE UNCHANGED accepted
      <4>1. faults <= faults'
        BY <1>4, <2>0, FaultCounts
        DEF Step, Disturbance, Update, Create, DeliverOk, DeliverError, MarkDelivered, MarkFailed,
            MarkDlq, PublishDlq, CommitMessages, CreateFails, DeliverTimeout, PublishDlqFails,
            CommitFails, Panic
      <4>2. CanDeliver(m)' => CanDeliver(m)
        BY <1>0, <1>4, <2>1
        DEF ShapeOK, CanDeliver, Goto, Step, Disturbance, Create, DeliverOk, DeliverError,
            MarkDelivered, MarkFailed, MarkDlq, PublishDlq, CommitMessages, CreateFails,
            DeliverTimeout, PublishDlqFails, CommitFails, Panic
      <4> QED
        BY <2>1, <3>3, <4>1, <4>2, QuietFaults
    <3> QED
      BY <1>4, <3>1, <3>2, <3>3
      DEF Step, Disturbance, Create, DeliverError, MarkDelivered, MarkFailed, MarkDlq, PublishDlq,
          CommitMessages, CreateFails, PublishDlqFails, CommitFails, Panic, world
  <2>6. \A d \in Msgs : accepted[d] <= accepted'[d] /\ refused[d] <= refused'[d]
    <3>0. \A d \in Msgs : accepted[d] \in Nat /\ refused[d] \in Nat
      BY <1>0 DEF ShapeOK
    <3>1. CASE DeliverOk(m)
      BY <1>0, <3>0, <3>1 DEF ShapeOK, DeliverOk
    <3>2. CASE DeliverError(m)
      BY <1>0, <3>0, <3>2 DEF ShapeOK, DeliverError
    <3>3. CASE DeliverTimeout(m)
      BY <1>0, <3>0, <3>3 DEF ShapeOK, DeliverTimeout
    <3>4. CASE UNCHANGED <<accepted, refused>>
      BY <3>0, <3>4
    <3> QED
      BY <1>4, <3>1, <3>2, <3>3, <3>4
      DEF Step, Disturbance, Create, MarkDelivered, MarkFailed, MarkDlq, PublishDlq,
          CommitMessages, CreateFails, PublishDlqFails, CommitFails, Panic, world
  <2>4. \A i \in 1..Len(rows') : RowTrue(i)'
    <3>1. CASE Create(m)
      <4>1. /\ Len(rows') = Len(rows) + 1 /\ Len(rows) \in Nat
            /\ rows'[Len(rows) + 1].msg = m /\ rows'[Len(rows) + 1].attempts = 0
            /\ rows'[Len(rows) + 1].status = "pending"
            /\ \A j \in 1..Len(rows) : rows'[j] = rows[j]
        BY <3>1, CreateRows
      <4>2. UNCHANGED <<accepted, refused>>
        BY <3>1 DEF Create, world
      <4>3. ASSUME NEW i, i = Len(rows) + 1 PROVE RowTrue(i)'
        BY <2>0, <4>1, <4>2, <4>3, SMTT(30) DEF RowTrue
      <4>4. ASSUME NEW i \in 1..Len(rows) PROVE RowTrue(i)'
        <5>1. RowTrue(i) /\ rows'[i] = rows[i]
          BY <4>1 DEF IInv
        <5> QED
          BY <4>2, <5>1 DEF RowTrue
      <4>5. \A i \in 1..Len(rows') : i \in 1..Len(rows) \/ i = Len(rows) + 1
        BY <4>1
      <4> QED
        BY <4>3, <4>4, <4>5
    <3>2. CASE MarkDelivered(m)
      <4>1. /\ tries[m] + 1 \in 0..MaxAttempts /\ accepted[m] > 0
            /\ tries[m] + 1 <= accepted[m] + refused[m]
            /\ Update(m, "delivered", tries[m] + 1) /\ UNCHANGED <<accepted, refused>>
        BY <2>0, <3>2 DEF LoopOK, MarkDelivered, world
      <4> QED
        BY <4>1, RowsUpdated DEF Statuses
    <3>3. CASE MarkFailed(m)
      <4>1. /\ tries[m] \in 0..MaxAttempts /\ tries[m] <= accepted[m] + refused[m]
            /\ Update(m, "failed", tries[m]) /\ UNCHANGED <<accepted, refused>>
        BY <1>0, <2>0, <3>3 DEF LoopOK, MarkFailed, world, ShapeOK
      <4> QED
        BY <4>1, RowsUpdated DEF Statuses
    <3>4. CASE MarkDlq(m)
      <4>1. /\ MaxAttempts \in 0..MaxAttempts /\ MaxAttempts <= accepted[m] + refused[m]
            /\ refused[m] >= MaxAttempts
            /\ Update(m, "dlq", MaxAttempts) /\ UNCHANGED <<accepted, refused>>
        BY <2>0, <3>4 DEF LoopOK, MarkDlq, world
      <4> QED
        BY <4>1, RowsUpdated DEF Statuses
    <3>5. CASE UNCHANGED rows
      BY <2>6, <3>5, RowsStay
    <3> QED
      BY <1>4, <3>1, <3>2, <3>3, <3>4, <3>5
      DEF Step, Disturbance, DeliverOk, DeliverError, DeliverTimeout, PublishDlq, CommitMessages,
          CreateFails, PublishDlqFails, CommitFails, Panic
  <2>5. \A d \in dlq' : refused'[d] >= MaxAttempts
    <3>1. CASE PublishDlq(m)
      BY <1>0, <2>0, <3>1 DEF ShapeOK, PublishDlq, LoopOK
    <3>2. CASE UNCHANGED dlq
      BY <1>0, <2>6, <3>2 DEF ShapeOK
    <3> QED
      BY <1>4, <3>1, <3>2
      DEF Step, Disturbance, Create, DeliverOk, DeliverError, MarkDelivered, MarkFailed, MarkDlq,
          CommitMessages, CreateFails, DeliverTimeout, PublishDlqFails, CommitFails, Panic, world
  <2> QED
    BY <2>2, <2>3, <2>4, <2>5 DEF IInv
<1> QED
  BY <1>1, <1>2, <1>3, <1>4 DEF Next

-----------------------------------------------------------------------------
(* Theorems.                                                               *)

\* Types and the invariant together are inductive.
LEMMA WebhookInvariant == Spec => [](TypeOK /\ IInv)
<1>1. Init => TypeOK /\ IInv
  BY TypeInit, IInvInit
<1>2. TypeOK /\ IInv /\ [Next]_vars => (TypeOK /\ IInv)'
  BY TypeNext, IInvNext
<1> QED
  BY <1>1, <1>2, PTL DEF Spec

\* In every run of the delivery service the variables have their types, no
\* more goroutines are in flight than the semaphore has places, and a
\* goroutine's deliveryID names a row of its own message (consumer.go:73,
\* 128-133).
THEOREM WebhookTypeCorrect == Spec => []TypeOK
  BY WebhookInvariant, PTL

\* Whatever fails, and however often the process restarts, a row of
\* webhook_deliveries and a message in webhook.dlq only say what has happened
\* (consumer.go:136-184).
THEOREM WebhookRowsTellTheTruth == Spec => []RowsTellTheTruth
<1>1. TypeOK /\ IInv => RowsTellTheTruth
  <2> SUFFICES ASSUME TypeOK, IInv PROVE RowsTellTheTruth
    OBVIOUS
  <2>1. DOMAIN rows = 1..Len(rows)
    BY DEF TypeOK
  <2> QED
    BY <2>1 DEF IInv, RowTrue, RowsTellTheTruth
<1> QED
  BY <1>1, WebhookInvariant, PTL

\* However commits and restarts move the group's offset, a target gets a
\* message at most once more than there have been faults (consumer.go:102-105).
THEOREM WebhookDuplicatesNeedFaults == Spec => []DuplicatesNeedFaults
<1>1. IInv => DuplicatesNeedFaults
  BY DEF IInv, FaultsOK, DuplicatesNeedFaults
<1> QED
  BY <1>1, WebhookInvariant, PTL

-----------------------------------------------------------------------------
(* Outcomes.                                                               *)

Final == {"delivered", "dlq"}

\* What a row of webhook_deliveries says of an outcome stays: a row that is
\* delivered or dlq is never written again, by its goroutine, by another one
\* or after a restart (consumer.go:128-184).
OutcomeStays ==
  \A i \in 1..Len(rows) :
    rows[i].status \in Final => i \in 1..Len(rows') /\ rows'[i] = rows[i]

\* The row of a goroutine that may still write it has no outcome yet, and one
\* that has not called Create has no row.
OpenRow(m) ==
  /\ pc[m] = "create" => rowOf[m] = 0
  /\ /\ pc[m] \in {"deliver", "delivered", "failed", "exhausted"}
     /\ rowOf[m] # 0
     => rows[rowOf[m]].status \notin Final

\* A step that leaves the table as it is, and of the goroutine of m at most
\* moves it on in the loop, keeps its row open.
LEMMA OpenRowsStay ==
  ASSUME TypeOK, NEW m \in Msgs, OpenRow(m), UNCHANGED rows, rowOf'[m] = rowOf[m],
         pc'[m] \in {"deliver", "delivered", "failed", "exhausted"}
           => pc[m] \in {"create", "deliver", "delivered", "failed", "exhausted"},
         pc'[m] = "create" => pc[m] = "create"
  PROVE  OpenRow(m)'
  BY DEF OpenRow, Final

\* A step of the goroutine of m, which Update belongs to, and the row of
\* another one.
LEMMA OtherRows ==
  ASSUME TypeOK, NEW m \in Msgs, NEW d \in Msgs \ {m}, OpenRow(d),
         NEW st \in Statuses, NEW n \in 0..MaxAttempts, Update(m, st, n),
         UNCHANGED rowOf, pc'[d] = pc[d]
  PROVE  OpenRow(d)'
<1>1. rowOf[d] # 0 => rowOf[d] \in 1..Len(rows) /\ rows[rowOf[d]].msg = d
  BY DEF TypeOK
<1>2. \A j \in 1..Len(rows) : rows'[j] = rows[j] \/ rows[j].msg = m
  BY UpdateRows
<1>3. rowOf[d] # 0 => rows'[rowOf[d]] = rows[rowOf[d]]
  BY <1>1, <1>2
<1> QED
  BY <1>3 DEF OpenRow

\* Open rows stay open until their goroutine has written an outcome.
LEMMA OpenRowsNext ==
  TypeOK /\ IInv /\ (\A m \in Msgs : OpenRow(m)) /\ [Next]_vars => \A m \in Msgs : OpenRow(m)'
<1> SUFFICES ASSUME TypeOK, IInv, \A m \in Msgs : OpenRow(m), [Next]_vars, NEW d \in Msgs
             PROVE  OpenRow(d)'
  OBVIOUS
<1>0. TableOK /\ ShapeOK /\ OpenRow(d)
  BY TypeParts
<1>1. CASE Fetch
  BY <1>0, <1>1 DEF Fetch, TableOK, ShapeOK, OpenRow, Goto
<1>2. CASE Restart
  BY <1>2 DEF Restart, OpenRow
<1>3. CASE UNCHANGED vars
  BY <1>0, <1>3 DEF vars, OpenRow
<1>4. ASSUME NEW m \in Msgs, Step(m) \/ Disturbance(m) PROVE OpenRow(d)'
  <2>0. LoopOK(m) /\ tries[m] \in Nat
    BY <1>0 DEF IInv, ShapeOK
  <2>1. CASE Create(m)
    <3>1. /\ rows'[Len(rows) + 1].status = "pending" /\ Len(rows) \in Nat
          /\ \A j \in 1..Len(rows) : rows'[j] = rows[j]
      BY <2>1, CreateRows
    <3>2. rowOf' = [rowOf EXCEPT ![m] = Len(rows) + 1] /\ pc' = [pc EXCEPT ![m] = "deliver"]
      BY <2>1 DEF Create, Goto
    <3>3. CASE d = m
      BY <1>0, <3>1, <3>2, <3>3 DEF OpenRow, TableOK, ShapeOK, Final
    <3>4. CASE d # m
      <4>1. rowOf'[d] = rowOf[d] /\ pc'[d] = pc[d]
        BY <1>0, <3>2, <3>4 DEF TableOK, ShapeOK
      <4>2. rowOf[d] # 0 => rows'[rowOf[d]] = rows[rowOf[d]]
        BY <1>0, <3>1 DEF TableOK
      <4> QED
        BY <1>0, <4>1, <4>2 DEF OpenRow
    <3> QED
      BY <3>3, <3>4
  <2>2. CASE MarkDelivered(m)
    <3>1. /\ tries[m] + 1 \in 0..MaxAttempts /\ Update(m, "delivered", tries[m] + 1)
          /\ rowOf' = rowOf /\ pc' = [pc EXCEPT ![m] = "commit"]
      BY <2>0, <2>2, MaxAttemptsAssumption DEF LoopOK, MarkDelivered, Goto
    <3>2. CASE d = m
      BY <1>0, <3>1, <3>2 DEF OpenRow, ShapeOK
    <3>3. CASE d # m
      BY <1>0, <3>1, <3>3, OtherRows DEF ShapeOK, Statuses
    <3> QED
      BY <3>2, <3>3
  <2>3. CASE MarkFailed(m)
    <3>1. /\ tries[m] \in 0..MaxAttempts /\ Update(m, "failed", tries[m]) /\ rowOf' = rowOf
          /\ pc[m] = "failed" /\ pc'[m] \in {"deliver", "exhausted"}
          /\ \A e \in Msgs \ {m} : pc'[e] = pc[e]
      BY <1>0, <2>3 DEF ShapeOK, MarkFailed, Goto
    <3>2. CASE d = m
      <4>1. \A j \in 1..Len(rows) : rows'[j] = rows[j] \/ rows'[j].status = "failed"
        BY <3>1, UpdateRows DEF Statuses
      <4>2. rowOf[m] # 0 => rows'[rowOf[m]].status \notin Final
        BY <1>0, <3>1, <3>2, <4>1 DEF OpenRow, TableOK, Final
      <4> QED
        BY <3>1, <3>2, <4>2 DEF OpenRow
    <3>3. CASE d # m
      BY <1>0, <3>1, <3>3, OtherRows DEF Statuses
    <3> QED
      BY <3>2, <3>3
  <2>4. CASE MarkDlq(m)
    <3>1. /\ MaxAttempts \in 0..MaxAttempts /\ Update(m, "dlq", MaxAttempts)
          /\ rowOf' = rowOf /\ pc' = [pc EXCEPT ![m] = "publish"]
      BY <2>4, MaxAttemptsAssumption DEF MarkDlq, Goto
    <3>2. CASE d = m
      BY <1>0, <3>1, <3>2 DEF OpenRow, ShapeOK
    <3>3. CASE d # m
      BY <1>0, <3>1, <3>3, OtherRows DEF ShapeOK, Statuses
    <3> QED
      BY <3>2, <3>3
  <2>5. CASE UNCHANGED <<rows, rowOf>>
    <3>1. /\ pc'[d] \in {"deliver", "delivered", "failed", "exhausted"}
               => pc[d] \in {"create", "deliver", "delivered", "failed", "exhausted"}
          /\ pc'[d] = "create" => pc[d] = "create"
      BY <1>0, <1>4
      DEF ShapeOK, Goto, Step, Disturbance, Create, DeliverOk, DeliverError, MarkDelivered,
          MarkFailed, MarkDlq, PublishDlq, CommitMessages, CreateFails, DeliverTimeout,
          PublishDlqFails, CommitFails, Panic
    <3> QED
      BY <1>0, <2>5, <3>1, OpenRowsStay
  <2> QED
    BY <1>4, <2>1, <2>2, <2>3, <2>4, <2>5
    DEF Step, Disturbance, DeliverOk, DeliverError, DeliverTimeout, PublishDlq, CommitMessages,
        CreateFails, PublishDlqFails, CommitFails, Panic
<1> QED
  BY <1>1, <1>2, <1>3, <1>4 DEF Next

\* Update rewrites no outcome: it changes only its goroutine's row, and that
\* one is open.
LEMMA UpdateOwn ==
  ASSUME TypeOK, NEW m \in Msgs, NEW st \in Statuses, NEW n \in 0..MaxAttempts, Update(m, st, n),
         OpenRow(m), pc[m] \in {"deliver", "delivered", "failed", "exhausted"}
  PROVE  OutcomeStays
<1>1. rows \in Seq(Row) /\ rowOf[m] \in Nat
  BY DEF TypeOK
<1>2. Len(rows') = Len(rows)
  BY UpdateRows
<1>3. ASSUME NEW j \in 1..Len(rows), j # rowOf[m] PROVE rows'[j] = rows[j]
  <2>1. CASE rows' = rows
    BY <2>1
  <2>2. CASE rowOf[m] # 0 /\ rows' = [rows EXCEPT ![rowOf[m]].status = st, ![rowOf[m]].attempts = n]
    BY <1>1, <1>3, <2>2
  <2> QED
    BY <2>1, <2>2 DEF Update, Write
<1>4. rowOf[m] # 0 => rows[rowOf[m]].status \notin Final
  BY DEF OpenRow
<1> QED
  BY <1>1, <1>2, <1>3, <1>4 DEF OutcomeStays

\* No step rewrites an outcome.
LEMMA OutcomeStaysNext ==
  TypeOK /\ IInv /\ (\A m \in Msgs : OpenRow(m)) /\ Next => OutcomeStays
<1> SUFFICES ASSUME TypeOK, IInv, \A m \in Msgs : OpenRow(m), Next PROVE OutcomeStays
  OBVIOUS
<1>1. CASE UNCHANGED rows
  BY <1>1 DEF OutcomeStays
<1>2. ASSUME NEW m \in Msgs, Create(m) PROVE OutcomeStays
  BY <1>2, CreateRows DEF OutcomeStays
<1>3. ASSUME NEW m \in Msgs, MarkDelivered(m) \/ MarkFailed(m) \/ MarkDlq(m) PROVE OutcomeStays
  <2>0. OpenRow(m) /\ LoopOK(m) /\ tries[m] \in 0..MaxAttempts
    BY DEF IInv, TypeOK
  <2>1. CASE MarkDelivered(m)
    <3>1. tries[m] + 1 \in 0..MaxAttempts /\ Update(m, "delivered", tries[m] + 1) /\ pc[m] = "delivered"
      BY <2>0, <2>1, MaxAttemptsAssumption DEF LoopOK, MarkDelivered
    <3> QED
      BY <2>0, <3>1, UpdateOwn DEF Statuses
  <2>2. CASE MarkFailed(m)
    <3>1. Update(m, "failed", tries[m]) /\ pc[m] = "failed"
      BY <2>2 DEF MarkFailed
    <3> QED
      BY <2>0, <3>1, UpdateOwn DEF Statuses
  <2>3. CASE MarkDlq(m)
    <3>1. MaxAttempts \in 0..MaxAttempts /\ Update(m, "dlq", MaxAttempts) /\ pc[m] = "exhausted"
      BY <2>3, MaxAttemptsAssumption DEF MarkDlq
    <3> QED
      BY <2>0, <3>1, UpdateOwn DEF Statuses
  <2> QED
    BY <1>3, <2>1, <2>2, <2>3
<1> QED
  BY <1>1, <1>2, <1>3
  DEF Next, Fetch, Restart, Step, Disturbance, DeliverOk, DeliverError, DeliverTimeout, PublishDlq,
      CommitMessages, CreateFails, PublishDlqFails, CommitFails, Panic

\* Whatever fails, and however often messages are handled again, a row of
\* webhook_deliveries that says delivered or dlq keeps saying so: the retry of
\* a message works on a row of its own (consumer.go:128-184).
THEOREM WebhookOutcomesAreFinal == Spec => [][OutcomeStays]_vars
<1> DEFINE Open == \A m \in Msgs : OpenRow(m)
<1>1. Init => Open
  BY DEF Init, OpenRow
<1>2. TypeOK /\ IInv /\ Open /\ [Next]_vars => Open'
  BY OpenRowsNext
<1>3. TypeOK /\ IInv /\ Open /\ [Next]_vars => [OutcomeStays]_vars
  BY OutcomeStaysNext
<1> HIDE DEF Open
<1> QED
  BY <1>1, <1>2, <1>3, WebhookInvariant, PTL DEF Spec
=============================================================================
