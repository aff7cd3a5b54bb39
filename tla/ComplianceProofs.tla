-------------------------- MODULE ComplianceProofs --------------------------
(***************************************************************************)
(* Proofs about Compliance, for any number of messages, reports, faults    *)
(* and restarts, any batch size and any capacity of the bulkhead.          *)
(***************************************************************************)
EXTENDS Compliance, FiniteSetTheorems, SequenceTheorems, TLAPS

-----------------------------------------------------------------------------
(* The inductive invariant.                                                *)

\* What is committed is dealt with; what the writer has read it still holds, or has dealt with; the last message
\* of the batch is the last one read, and a batch on its way is not empty.
DealtWith == ingested \cup Poison \cup refused
BatchOK ==
  /\ \A m \in 1..committed - 1 : m \in DealtWith
  /\ \A m \in 1..writer.next - 1 : m \in InBatch \cup DealtWith
  /\ InBatch \subseteq 1..writer.next - 1
  /\ writer.batch # <<>> => writer.batch[Len(writer.batch)] = writer.next - 1
  /\ writer.pc \in {"flush", "commit"} => writer.batch # <<>>
  /\ writer.pc = "commit" => InBatch \subseteq DealtWith

\* A message that is in ClickHouse and still to be written is one that a restart
\* has delivered again.
OnceOK ==
  /\ twice \subseteq redelivered
  /\ \A m \in ingested : m < writer.next \/ m \in redelivered
  /\ writer.pc # "commit" => InBatch \cap ingested \subseteq redelivered

\* The worker finds nothing to do, since a pending row cannot be scanned.
WorkerIdle ==
  /\ queue = {}
  /\ \A j \in Jobs : reports[j].status = "pending" => reports[j].key = "NULL"

\* A report is generated by one goroutine, the one of its request, and is not
\* finished as long as that goroutine is there.
GenOK(g) ==
  /\ g.by = "request"
  /\ reports[g.job].status \in {"pending", "generating"}
  /\ g.pc \notin {"sign", "ready"} => g.sig = ""
  /\ g.pc \in {"sign", "ready"} => <<"pdf", g.job>> \in objects
  /\ g.pc = "ready" /\ g.sig # "" => <<"sig", g.job>> \in objects \/ g.job \in unrecorded
OneEach == \A g, h \in gens : g.job = h.job => g = h

ReportOK(j) ==
  /\ reports[j].status = "ready" =>
       /\ <<"pdf", j>> \in objects
       /\ reports[j].sig # "" => <<"sig", j>> \in objects \/ j \in unrecorded
  /\ reports[j].status \in {"pending", "generating"} =>
       j \in rejected \cup interrupted \cup unrecorded \/ \E g \in gens : g.job = j

-----------------------------------------------------------------------------
(* The writer.                                                             *)

WriterTypes ==
  /\ writer \in Writers /\ committed \in 1..writer.next
  /\ ingested \subseteq Messages \ Poison
  /\ twice \subseteq Messages /\ refused \subseteq Messages /\ redelivered \subseteq Messages

WriterOK == WriterTypes /\ BatchOK /\ OnceOK

\* The messages of a batch.
LEMMA InBatchOf ==
  ASSUME NEW s \in Seq(Messages)
  PROVE  /\ {s[i] : i \in DOMAIN s} \subseteq Messages
         /\ s = <<>> => {s[i] : i \in DOMAIN s} = {}
         /\ s # <<>> => Len(s) \in 1..Len(s)
         /\ \A m \in Messages :
              LET t == Append(s, m) IN
              /\ t \in Seq(Messages) /\ t # <<>> /\ t[Len(t)] = m
              /\ {t[i] : i \in DOMAIN t} = {s[i] : i \in DOMAIN s} \cup {m}
<1>1. DOMAIN s = 1..Len(s) /\ Len(s) \in Nat
  OBVIOUS
<1>2. s # <<>> => Len(s) \in 1..Len(s)
  OBVIOUS
<1>3. ASSUME NEW m \in Messages
      PROVE  LET t == Append(s, m) IN
             /\ t \in Seq(Messages) /\ t # <<>> /\ t[Len(t)] = m
             /\ {t[i] : i \in DOMAIN t} = {s[i] : i \in DOMAIN s} \cup {m}
  <2> DEFINE t == Append(s, m)
  <2>1. t \in Seq(Messages) /\ Len(t) = Len(s) + 1 /\ t[Len(t)] = m /\ DOMAIN t = 1..Len(s) + 1
    OBVIOUS
  <2>2. \A i \in 1..Len(s) : t[i] = s[i]
    OBVIOUS
  <2>3. t # <<>>
    BY <1>1, <2>1
  <2> HIDE DEF t
  <2>4. {t[i] : i \in DOMAIN t} = {s[i] : i \in DOMAIN s} \cup {m}
    BY <1>1, <2>1, <2>2
  <2> QED
    BY <2>1, <2>3, <2>4 DEF t
<1> QED
  BY <1>1, <1>2, <1>3

\* The fields of the writer.
LEMMA WriterFields ==
  ASSUME NEW w \in Writers
  PROVE  /\ w.pc \in {"select", "fetch", "flush", "commit"} /\ w.next \in 1..NumMessages + 1
         /\ w.batch \in Seq(Messages) /\ w.ticked \in {"yes", "no"} /\ w.next \in Nat
  BY NumbersAssumption DEF Writers

\* The empty batch.
LEMMA EmptyBatch == writer \in Writers /\ writer.batch = <<>> => InBatch = {}
  BY WriterFields, InBatchOf DEF InBatch

\* Same, after a step.
LEMMA EmptyBatchNext == writer' \in Writers /\ writer'.batch = <<>> => InBatch' = {}
  BY WriterFields, InBatchOf DEF InBatch

\* The writer at the start.
LEMMA WriterInit == Init => WriterOK
<1> SUFFICES ASSUME Init PROVE WriterOK
  OBVIOUS
<1>1. writer = Started /\ Started \in Writers
  BY NumbersAssumption DEF Init, Started, Writers
<1>2. writer.batch = <<>> /\ writer.next = 1 /\ writer.pc = "select"
  BY <1>1 DEF Started
<1>3. InBatch = {}
  BY <1>1, <1>2, EmptyBatch
<1> QED
  BY <1>1, <1>2, <1>3 DEF Init, WriterOK, WriterTypes, BatchOK, OnceOK

\* Steps of the writer, and steps of others.
LEMMA WriterNext == WriterOK /\ [Next]_vars => WriterOK'
<1> SUFFICES ASSUME WriterOK, [Next]_vars PROVE WriterOK'
  OBVIOUS
<1> USE NumbersAssumption
<1>0. /\ writer \in Writers /\ WriterTypes /\ BatchOK /\ OnceOK
      /\ writer.pc \in {"select", "fetch", "flush", "commit"} /\ writer.next \in 1..NumMessages + 1
      /\ writer.batch \in Seq(Messages) /\ writer.ticked \in {"yes", "no"} /\ writer.next \in Nat
      /\ committed \in Nat
  BY WriterFields DEF WriterOK, WriterTypes
<1>1. CASE UNCHANGED writerVars
  BY <1>0, <1>1 DEF WriterOK, WriterTypes, BatchOK, OnceOK, DealtWith, InBatch, writerVars
<1>2. ASSUME UNCHANGED <<committed, ingested, twice, refused, redelivered>>,
             writer' \in Writers, writer'.next = writer.next, writer'.batch = writer.batch,
             writer'.pc \in {"flush"} => writer.batch # <<>>, writer'.pc # "commit", writer.pc # "commit"
      PROVE  WriterOK'
  <2>1. InBatch' = InBatch
    BY <1>2 DEF InBatch
  <2> QED
    BY <1>0, <1>2, <2>1 DEF WriterOK, WriterTypes, BatchOK, OnceOK, DealtWith
<1>3. CASE FlushTick
  <2>1. /\ writer' = [writer EXCEPT !.ticked = "yes"]
        /\ UNCHANGED <<committed, ingested, twice, refused, redelivered>>
    BY <1>3 DEF FlushTick
  <2>2. /\ writer' \in Writers /\ writer'.next = writer.next /\ writer'.batch = writer.batch
        /\ writer'.pc = writer.pc
    BY <1>0, <2>1 DEF Writers
  <2>3. InBatch' = InBatch
    BY <2>2 DEF InBatch
  <2> QED
    BY <1>0, <2>1, <2>2, <2>3 DEF WriterOK, WriterTypes, BatchOK, OnceOK, DealtWith
<1>4. CASE Select
  <2>1. /\ UNCHANGED <<committed, ingested, twice, refused, redelivered>> /\ writer.pc = "select"
        /\ \/ writer' = [writer EXCEPT !.ticked = "no", !.pc = "select"]
           \/ writer' = [writer EXCEPT !.ticked = "no", !.pc = "flush"] /\ writer.batch # <<>>
           \/ writer' = [writer EXCEPT !.pc = "fetch"]
    BY <1>4 DEF Select
  <2>2. /\ writer' \in Writers /\ writer'.next = writer.next /\ writer'.batch = writer.batch
        /\ writer'.pc = "flush" => writer.batch # <<>>
        /\ writer'.pc # "commit"
    BY <1>0, <2>1 DEF Writers
  <2> QED
    BY <1>2, <2>1, <2>2
<1>5. CASE FetchMessage
  <2>1. /\ UNCHANGED <<committed, ingested, twice, refused, redelivered>>
        /\ writer.pc = "fetch" /\ writer.next \in Messages
    BY <1>0, <1>5 DEF FetchMessage, Messages
  <2> DEFINE l == IF Len(writer.batch) + 1 >= BatchSize THEN "flush" ELSE "select"
             b == Append(writer.batch, writer.next)
             n == writer.next + 1
  <2>2. writer' = [writer EXCEPT !.next = n, !.batch = b, !.pc = l]
    BY <1>5 DEF FetchMessage
  <2>3. l \in {"flush", "select"} /\ n \in 1..NumMessages + 1
    BY <1>0, <2>1 DEF Messages
  <2>4. /\ b \in Seq(Messages) /\ b # <<>> /\ b[Len(b)] = writer.next
        /\ {b[i] : i \in DOMAIN b} = InBatch \cup {writer.next}
    BY <1>0, <2>1, InBatchOf DEF InBatch
  <2> HIDE DEF l, b, n
  <2>5. /\ writer' \in Writers /\ writer'.next = n /\ writer'.batch = b /\ writer'.pc = l
    BY <1>0, <2>2, <2>3, <2>4 DEF Writers
  <2>6. /\ writer' \in Writers /\ writer'.next = writer.next + 1 /\ writer'.pc \in {"flush", "select"}
        /\ InBatch' = InBatch \cup {writer.next} /\ writer'.batch # <<>>
        /\ writer'.batch[Len(writer'.batch)] = writer.next
    BY <2>3, <2>4, <2>5 DEF InBatch, n
  <2>7. WriterTypes' /\ BatchOK'
    <3>1. WriterTypes'
      BY <1>0, <2>1, <2>6 DEF WriterTypes
    <3>2. DealtWith' = DealtWith
      BY <2>1 DEF DealtWith
    <3>3. \A m \in 1..writer'.next - 1 : m \in 1..writer.next - 1 \/ m = writer.next
      BY <1>0, <2>6
    <3>4. InBatch' \subseteq 1..writer'.next - 1
      <4>1. ASSUME NEW m \in InBatch PROVE m \in 1..writer.next
        BY <1>0 DEF BatchOK
      <4>2. 1..writer'.next - 1 = 1..writer.next /\ writer.next \in 1..writer.next
        BY <1>0, <2>6, SMTT(30)
      <4> QED
        BY <2>6, <4>1, <4>2
    <3> QED
      BY <1>0, <2>1, <2>6, <3>1, <3>2, <3>3, <3>4 DEF BatchOK
  <2>8. OnceOK'
    <3>1. ASSUME NEW m \in ingested PROVE m < writer.next + 1 \/ m \in redelivered
      BY <1>0 DEF OnceOK, WriterTypes, Messages
    <3>2. writer.next \in ingested => writer.next \in redelivered
      BY <1>0 DEF OnceOK
    <3> QED
      BY <1>0, <2>1, <2>6, <3>1, <3>2 DEF OnceOK
  <2> QED
    BY <2>7, <2>8 DEF WriterOK
<1>6. CASE IngestEvents
  <2> DEFINE new == InBatch \ Poison
  <2>0. InBatch \subseteq Messages /\ InBatch \subseteq 1..writer.next - 1
    BY <1>0, InBatchOf DEF InBatch, BatchOK
  <2>1. /\ writer.pc = "flush" /\ UNCHANGED <<committed, redelivered>>
        /\ \/ ingested' = ingested \cup new /\ twice' = twice \cup (new \cap ingested)
           \/ UNCHANGED <<ingested, twice>> /\ refused' = refused \cup new
        /\ \/ refused' = refused /\ writer' = [writer EXCEPT !.pc = "commit"]
           \/ refused' = refused \cup new /\ writer' = [writer EXCEPT !.pc = "select", !.batch = <<>>]
    BY <1>6 DEF IngestEvents, WriterGoto
  <2>2. /\ writer' \in Writers /\ writer'.next = writer.next
        /\ refused \subseteq refused' /\ refused' \subseteq Messages /\ ingested \subseteq ingested'
        /\ ingested' \subseteq ingested \cup new /\ twice' \subseteq twice \cup (new \cap ingested)
        /\ InBatch \subseteq ingested' \cup Poison \cup refused'
    <3>1. <<>> \in Seq(Messages)
      OBVIOUS
    <3>2. writer' \in Writers /\ writer'.next = writer.next
      BY <1>0, <2>1, <3>1 DEF Writers
    <3>3. /\ refused \subseteq refused' /\ refused' \subseteq Messages /\ ingested \subseteq ingested'
          /\ ingested' \subseteq ingested \cup new /\ twice' \subseteq twice \cup (new \cap ingested)
      BY <1>0, <2>0, <2>1 DEF WriterTypes
    <3>4. InBatch \subseteq ingested' \cup Poison \cup refused'
      BY <2>1
    <3> QED
      BY <3>2, <3>3, <3>4
  <2>3. \/ writer'.pc = "commit" /\ writer'.batch = writer.batch
        \/ writer'.pc = "select" /\ writer'.batch = <<>>
    BY <1>0, <2>1 DEF Writers
  <2>4. WriterTypes'
    BY <1>0, <2>0, <2>1, <2>2 DEF WriterTypes
  <2>5. twice' \subseteq redelivered /\ \A m \in ingested' : m < writer.next \/ m \in redelivered
    BY <1>0, <2>0, <2>1, <2>2 DEF OnceOK
  <2>6. CASE writer'.pc = "commit" /\ writer'.batch = writer.batch
    <3>1. InBatch' = InBatch /\ writer.batch # <<>>
      BY <1>0, <2>1, <2>6 DEF InBatch, BatchOK
    <3> QED
      BY <1>0, <2>1, <2>2, <2>4, <2>5, <2>6, <3>1 DEF WriterOK, BatchOK, OnceOK, DealtWith
  <2>7. CASE writer'.pc = "select" /\ writer'.batch = <<>>
    <3>1. InBatch' = {}
      BY <2>2, <2>7, EmptyBatchNext
    <3> QED
      BY <1>0, <2>1, <2>2, <2>4, <2>5, <2>7, <3>1 DEF WriterOK, BatchOK, OnceOK, DealtWith
  <2> QED
    BY <2>3, <2>6, <2>7
<1>7. CASE CommitBatch
  <2>1. /\ UNCHANGED <<ingested, twice, refused, redelivered>> /\ writer.pc = "commit"
        /\ committed' = writer.batch[Len(writer.batch)] + 1 \/ committed' = committed
        /\ writer' = [writer EXCEPT !.pc = "select", !.batch = <<>>]
    BY <1>7 DEF CommitBatch, WriterGoto
  <2>2. committed' \in 1..writer.next
    BY <1>0, <2>1 DEF WriterTypes, BatchOK
  <2>3. <<>> \in Seq(Messages)
    OBVIOUS
  <2>4. writer' \in Writers /\ writer'.next = writer.next /\ writer'.pc = "select" /\ writer'.batch = <<>>
    BY <1>0, <2>1, <2>3 DEF Writers
  <2>5. InBatch' = {}
    BY <2>4, EmptyBatchNext
  <2> QED
    BY <1>0, <2>1, <2>2, <2>4, <2>5, SMTT(30) DEF WriterOK, WriterTypes, BatchOK, OnceOK, DealtWith
<1>8. CASE Restart
  <2>1. /\ UNCHANGED <<committed, ingested, twice, refused>>
        /\ writer' = [Started EXCEPT !.next = committed]
        /\ redelivered' = redelivered \cup committed..writer.next - 1
    BY <1>8 DEF Restart
  <2>2. <<>> \in Seq(Messages) /\ committed \in 1..NumMessages + 1
    BY <1>0 DEF WriterTypes
  <2>3. writer' \in Writers /\ writer'.next = committed /\ writer'.pc = "select" /\ writer'.batch = <<>>
    BY <2>1, <2>2 DEF Writers, Started
  <2>4. InBatch' = {}
    BY <2>3, EmptyBatchNext
  <2>5. WriterTypes'
    BY <1>0, <2>1, <2>2, <2>3 DEF WriterTypes, Messages
  <2>7. OnceOK'
    <3>1. ASSUME NEW m \in ingested PROVE m < committed \/ m \in redelivered'
      BY <1>0, <2>1 DEF OnceOK, WriterTypes, Messages
    <3> QED
      BY <1>0, <2>1, <2>3, <2>4, <3>1 DEF OnceOK
  <2> QED
    BY <1>0, <2>1, <2>3, <2>4, <2>5, <2>7 DEF WriterOK, BatchOK, DealtWith
<1> QED
  BY <1>1, <1>3, <1>4, <1>5, <1>6, <1>7, <1>8
  DEF Next, Generating, GenStep, CreateReportJob, Execute, Launch, MarkGenerating, Upload, UploadSignature,
      MarkReady, MarkFailed, StartWorker, vars

-----------------------------------------------------------------------------
(* The reports.                                                            *)

ReportTypes ==
  /\ reports \in [Jobs -> Rows]
  /\ objects \subseteq {"pdf", "sig"} \X Jobs
  /\ gens \subseteq Gens /\ IsFiniteSet(gens) /\ InUse <= Capacity
  /\ queue \subseteq Jobs
  /\ rejected \subseteq Jobs /\ interrupted \subseteq Jobs /\ unrecorded \subseteq Jobs

ReportsOK ==
  /\ ReportTypes /\ WorkerIdle /\ OneEach
  /\ \A g \in gens : GenOK(g)
  /\ \A j \in Jobs : ReportOK(j)

Holds(g) == g.pc = "launch" \/ g.by = "worker"
Holders == {g \in gens : Holds(g)}

\* The slots in use are finitely many.
LEMMA HoldersFinite ==
  ASSUME IsFiniteSet(gens)
  PROVE  IsFiniteSet(Holders) /\ InUse = Cardinality(Holders) /\ InUse \in Nat
<1>1. IsFiniteSet(Holders)
  BY FS_Subset DEF Holders
<1>2. InUse = Cardinality(Holders)
  BY DEF InUse, Holders, Holds
<1> QED
  BY <1>1, <1>2, FS_CardinalityType

\* One more element.
LEMMA OneMore ==
  ASSUME NEW S, IsFiniteSet(S), NEW x
  PROVE  /\ IsFiniteSet(S \cup {x}) /\ Cardinality(S \cup {x}) \in Nat /\ Cardinality(S) \in Nat
         /\ Cardinality(S \cup {x}) <= Cardinality(S) + 1
<1>1. Cardinality(S) \in Nat
  BY FS_CardinalityType
<1>2. IsFiniteSet(S \cup {x})
  BY FS_AddElement
<1>3. Cardinality(S \cup {x}) = Cardinality(S) \/ Cardinality(S \cup {x}) = Cardinality(S) + 1
  BY FS_AddElement
<1> QED
  BY <1>1, <1>2, <1>3

\* A step after which nobody new holds a slot.
LEMMA NoSlotTaken ==
  ASSUME IsFiniteSet(gens), InUse <= Capacity, NEW g, NEW h,
         gens' \subseteq gens \cup {h}, Holds(h) => (Holds(g) /\ g \in gens /\ g \notin gens') \/ h \in gens
  PROVE  IsFiniteSet(gens') /\ InUse' <= Capacity
<1>1. IsFiniteSet(gens \cup {h})
  BY FS_AddElement
<1>2. IsFiniteSet(gens')
  BY <1>1, FS_Subset
<1> DEFINE H == {x \in gens' : Holds(x)}
<1>3. InUse' = Cardinality(H)
  BY DEF InUse, Holds
<1>4. IsFiniteSet(Holders) /\ InUse = Cardinality(Holders) /\ InUse \in Nat
  BY HoldersFinite
<1>5. CASE Holds(h) /\ h \notin gens
  <2>1. g \in Holders /\ H \subseteq (Holders \ {g}) \cup {h}
    BY <1>5 DEF Holders
  <2> DEFINE K == Holders \ {g}
  <2>2. IsFiniteSet(K) /\ Cardinality(K) = Cardinality(Holders) - 1
    BY <1>4, <2>1, FS_RemoveElement
  <2>3. IsFiniteSet(K \cup {h}) /\ Cardinality(K \cup {h}) <= Cardinality(K) + 1
    BY <2>2, OneMore
  <2> HIDE DEF K
  <2>4. Cardinality(H) <= Cardinality(K \cup {h}) /\ Cardinality(H) \in Nat /\ Cardinality(K \cup {h}) \in Nat
    BY <2>1, <2>3, FS_Subset, FS_CardinalityType DEF K
  <2>5. Cardinality(K) \in Nat
    BY <2>2, FS_CardinalityType
  <2> QED
    BY <1>2, <1>3, <1>4, <2>2, <2>3, <2>4, <2>5, NumbersAssumption
<1>6. CASE ~Holds(h) \/ h \in gens
  <2>1. H \subseteq Holders
    BY <1>6 DEF Holders
  <2>2. Cardinality(H) <= Cardinality(Holders) /\ Cardinality(H) \in Nat
    BY <1>4, <2>1, FS_Subset, FS_CardinalityType
  <2> QED
    BY <1>2, <1>3, <1>4, <2>2, NumbersAssumption
<1> QED
  BY <1>5, <1>6

\* A step that takes one slot when there is one.
LEMMA SlotTaken ==
  ASSUME IsFiniteSet(gens), TryAcquire, NEW h, gens' \subseteq gens \cup {h}
  PROVE  IsFiniteSet(gens') /\ InUse' <= Capacity
<1>1. IsFiniteSet(gens \cup {h})
  BY FS_AddElement
<1>2. IsFiniteSet(gens')
  BY <1>1, FS_Subset
<1> DEFINE H == {x \in gens' : Holds(x)}
           K == Holders \cup {h}
<1>3. InUse' = Cardinality(H)
  BY DEF InUse, Holds
<1>4. IsFiniteSet(Holders) /\ InUse = Cardinality(Holders) /\ InUse \in Nat
  BY HoldersFinite
<1>5. H \subseteq K
  BY DEF Holders
<1>6. IsFiniteSet(K) /\ Cardinality(K) <= Cardinality(Holders) + 1 /\ Cardinality(K) \in Nat
  BY <1>4, OneMore
<1> HIDE DEF K
<1>7. Cardinality(H) <= Cardinality(K) /\ Cardinality(H) \in Nat
  BY <1>5, <1>6, FS_Subset, FS_CardinalityType
<1> QED
  BY <1>2, <1>3, <1>4, <1>6, <1>7, NumbersAssumption DEF TryAcquire

\* The fields of a goroutine and of a row.
LEMMA GenFields ==
  \A g \in Gens : /\ g.job \in Jobs /\ g.by \in {"request", "worker"} /\ g.sig \in {"", "sig"}
                  /\ g.pc \in {"acquire", "launch", "mark", "upload", "sign", "ready", "fail"}
  BY DEF Gens

\* The reports at the start.
LEMMA ReportsInit == Init => ReportsOK
<1> SUFFICES ASSUME Init PROVE ReportsOK
  OBVIOUS
<1>1. reports \in [Jobs -> Rows] /\ \A j \in Jobs : reports[j].status = "none"
  BY DEF Init, NotAsked, Row, Rows
<1>2. IsFiniteSet(gens) /\ InUse = 0
  <2>1. {g \in gens : g.pc = "launch" \/ g.by = "worker"} = {} /\ gens = {}
    BY DEF Init
  <2> QED
    BY <2>1, FS_EmptySet DEF InUse
<1> QED
  BY <1>1, <1>2, NumbersAssumption
  DEF Init, ReportsOK, ReportTypes, WorkerIdle, OneEach, GenOK, ReportOK

\* A goroutine goes from g to h and changes no row; objects and ignored errors
\* only become more.
LEMMA GenAdvances ==
  ASSUME ReportsOK, NEW g \in gens, NEW h \in Gens, gens' = (gens \ {g}) \cup {h},
         h.job = g.job, h.by = g.by, Holds(h) => TryAcquire,
         UNCHANGED <<reports, queue, rejected, interrupted>>,
         objects \subseteq objects', objects' \subseteq {"pdf", "sig"} \X Jobs,
         unrecorded \subseteq unrecorded', unrecorded' \subseteq Jobs,
         h.pc \notin {"sign", "ready"} => h.sig = "",
         h.pc \in {"sign", "ready"} => <<"pdf", g.job>> \in objects',
         h.pc = "ready" /\ h.sig # "" => <<"sig", g.job>> \in objects' \/ g.job \in unrecorded'
  PROVE  ReportsOK'
<1>1. ReportTypes /\ WorkerIdle /\ OneEach /\ \A x \in gens : GenOK(x)
  BY DEF ReportsOK
<1>2. IsFiniteSet(gens') /\ InUse' <= Capacity
  <2>1. CASE Holds(h)
    BY <1>1, <2>1, SlotTaken DEF ReportTypes
  <2>2. CASE ~Holds(h)
    BY <1>1, <2>2, NoSlotTaken DEF ReportTypes
  <2> QED
    BY <2>1, <2>2
<1>3. ReportTypes'
  BY <1>1, <1>2 DEF ReportTypes
<1>4. WorkerIdle' /\ OneEach'
  <2>1. WorkerIdle'
    BY <1>1 DEF WorkerIdle
  <2>2. ASSUME NEW x \in gens' PROVE x = h \/ (x \in gens /\ x # g)
    <3>1. gens' = (gens \ {g}) \cup {h}
      OBVIOUS
    <3> QED
      BY <3>1
  <2>3. \A x \in gens : x.job = g.job => x = g
    BY <1>1 DEF OneEach
  <2>4. OneEach'
    BY <1>1, <2>2, <2>3 DEF OneEach
  <2> QED
    BY <2>1, <2>4
<1>5. \A x \in gens' : GenOK(x)'
  BY <1>1 DEF GenOK
<1>6. ASSUME NEW j \in Jobs PROVE ReportOK(j)'
  <2>1. ReportOK(j)
    BY DEF ReportsOK
  <2>2. (\E x \in gens : x.job = j) => \E x \in gens' : x.job = j
    OBVIOUS
  <2> QED
    BY <2>1, <2>2 DEF ReportOK
<1> QED
  BY <1>3, <1>4, <1>5, <1>6 DEF ReportsOK

\* A goroutine's row becomes row, or an error is ignored; the goroutine goes on as h
\* or returns.
LEMMA GenUpdates ==
  ASSUME ReportsOK, NEW g \in gens, NEW row \in Rows, TryUpdate(g.job, row),
         UNCHANGED <<objects, queue, rejected, interrupted>>,
         row.status # "pending",
         NEW h \in Gens, h.job = g.job, h.by = g.by, h.pc = "upload", h.sig = "",
         \/ gens' = gens \ {g} /\ row.status \in {"ready", "failed"}
         \/ gens' = (gens \ {g}) \cup {h} /\ row.status = "generating",
         row.status = "ready" =>
           /\ <<"pdf", g.job>> \in objects
           /\ row.sig # "" => <<"sig", g.job>> \in objects \/ g.job \in unrecorded
  PROVE  ReportsOK'
<1>1. ReportTypes /\ WorkerIdle /\ OneEach /\ (\A x \in gens : GenOK(x)) /\ (\A j \in Jobs : ReportOK(j))
  BY DEF ReportsOK
<1>2. g \in Gens /\ g.job \in Jobs
  BY <1>1, GenFields DEF ReportTypes
<1>4. \/ gens' = gens \ {g} /\ row.status \in {"ready", "failed"}
      \/ gens' = (gens \ {g}) \cup {h} /\ row.status = "generating"
  OBVIOUS
<1>5. IsFiniteSet(gens') /\ InUse' <= Capacity
  <2>1. h.by = "request"
    BY <1>1 DEF GenOK
  <2> QED
    BY <1>1, <1>4, <2>1, NoSlotTaken DEF ReportTypes, Holds
<1>6. /\ reports' \in [Jobs -> Rows]
      /\ \A j \in Jobs : j # g.job => reports'[j] = reports[j]
      /\ reports'[g.job] = row \/ (reports'[g.job] = reports[g.job] /\ g.job \in unrecorded')
      /\ unrecorded \subseteq unrecorded' /\ unrecorded' \subseteq Jobs
  <2>1. CASE reports' = [reports EXCEPT ![g.job] = row] /\ unrecorded' = unrecorded
    <3> DEFINE i == g.job
    <3>1. reports \in [Jobs -> Rows] /\ i \in Jobs /\ reports' = [reports EXCEPT ![i] = row]
      BY <1>1, <1>2, <2>1 DEF ReportTypes
    <3> HIDE DEF i
    <3>2. /\ reports' \in [Jobs -> Rows] /\ reports'[i] = row
          /\ \A j \in Jobs : j # i => reports'[j] = reports[j]
      BY <3>1
    <3>3. /\ reports' \in [Jobs -> Rows] /\ reports'[g.job] = row
          /\ \A j \in Jobs : j # g.job => reports'[j] = reports[j]
      BY <3>2 DEF i
    <3>4. unrecorded' \subseteq Jobs
      BY <1>1, <2>1 DEF ReportTypes
    <3> QED
      BY <2>1, <3>3, <3>4
  <2>2. CASE reports' = reports /\ unrecorded' = unrecorded \cup {g.job}
    BY <1>1, <1>2, <2>2 DEF ReportTypes
  <2> QED
    BY <2>1, <2>2 DEF TryUpdate, UpdateReportStatus
<1>7. ReportTypes'
  BY <1>1, <1>2, <1>4, <1>5, <1>6 DEF ReportTypes
<1>8. WorkerIdle'
  BY <1>1, <1>6 DEF WorkerIdle
<1>9. OneEach'
  BY <1>1, <1>4 DEF OneEach
<1>10. ASSUME NEW x \in gens' PROVE GenOK(x)'
  <2>1. CASE x = h /\ row.status = "generating"
    <3>1. GenOK(g) /\ row.status = "generating"
      BY <1>1, <2>1
    <3>2. reports'[h.job].status \in {"pending", "generating"}
      BY <1>6, <3>1 DEF GenOK
    <3> QED
      BY <2>1, <3>1, <3>2 DEF GenOK
  <2>2. CASE x \in gens /\ x # g
    <3>1. x.job # g.job /\ x.job \in Jobs /\ GenOK(x)
      BY <1>1, <2>2, GenFields DEF OneEach, ReportTypes
    <3> QED
      BY <1>6, <3>1 DEF GenOK
  <2> QED
    BY <1>4, <2>1, <2>2
<1>11. ASSUME NEW j \in Jobs PROVE ReportOK(j)'
  <2>1. ReportOK(j)
    BY <1>1
  <2>2. CASE j = g.job
    <3>1. CASE reports'[j] = row /\ gens' = gens \ {g}
      BY <1>4, <1>6, <2>2, <3>1 DEF ReportOK
    <3>2. CASE reports'[j] = row /\ gens' = (gens \ {g}) \cup {h} /\ row.status = "generating"
      BY <1>6, <2>2, <3>2 DEF ReportOK
    <3>3. CASE reports'[j] = reports[j] /\ j \in unrecorded'
      BY <1>6, <2>1, <3>3 DEF ReportOK
    <3> QED
      BY <1>4, <1>6, <2>2, <3>1, <3>2, <3>3
  <2>3. CASE j # g.job
    <3>1. reports'[j] = reports[j] /\ \A x \in gens : x.job = j => x \in gens'
      BY <1>4, <1>6, <2>3
    <3> QED
      BY <1>6, <2>1, <3>1 DEF ReportOK
  <2> QED
    BY <2>2, <2>3
<1> QED
  BY <1>7, <1>8, <1>9, <1>10, <1>11 DEF ReportsOK

\* Steps of the reports, and steps of others.
LEMMA ReportsNext == ReportsOK /\ [Next]_vars => ReportsOK'
<1> SUFFICES ASSUME ReportsOK, [Next]_vars PROVE ReportsOK'
  OBVIOUS
<1>0. /\ ReportTypes /\ WorkerIdle /\ OneEach
      /\ \A g \in gens : GenOK(g) /\ g \in Gens /\ g.job \in Jobs
      /\ \A j \in Jobs : ReportOK(j)
  BY GenFields DEF ReportsOK, ReportTypes
<1>1. CASE UNCHANGED reportVars
  BY <1>0, <1>1 DEF ReportsOK, ReportTypes, WorkerIdle, OneEach, GenOK, ReportOK, InUse, reportVars
<1>2. CASE StartWorker
  <2>1. GetPendingReports = {}
    BY <1>0 DEF WorkerIdle, GetPendingReports, Scan
  <2>2. UNCHANGED reportVars
    BY <1>0, <1>2, <2>1 DEF StartWorker, WorkerIdle, reportVars
  <2> QED
    BY <1>1, <2>2
<1>3. CASE Restart
  <2>1. /\ UNCHANGED <<reports, objects, rejected, unrecorded>>
        /\ gens' = {} /\ queue' = {} /\ interrupted' = interrupted \cup {g.job : g \in gens}
    BY <1>3 DEF Restart
  <2>2. IsFiniteSet(gens') /\ InUse' <= Capacity
    <3>1. {g \in gens' : g.pc = "launch" \/ g.by = "worker"} = {}
      BY <2>1
    <3> QED
      BY <2>1, <3>1, FS_EmptySet, NumbersAssumption DEF InUse
  <2> QED
    <3>1. ReportTypes' /\ WorkerIdle' /\ OneEach'
      BY <1>0, <2>1, <2>2 DEF ReportTypes, WorkerIdle, OneEach
    <3>2. ASSUME NEW j \in Jobs PROVE ReportOK(j)'
      BY <1>0, <2>1 DEF ReportOK
    <3> QED
      BY <2>1, <3>1, <3>2 DEF ReportsOK
<1>4. ASSUME NEW j \in Jobs, CreateReportJob(j) PROVE ReportsOK'
  <2> DEFINE g == Gen(j, "request", "acquire")
             row == Row("pending", "NULL", "NULL")
  <2>1. g \in Gens /\ g.job = j /\ g.by = "request" /\ g.pc = "acquire" /\ g.sig = ""
    BY DEF Gen, Gens
  <2>2. row \in Rows /\ row.status = "pending" /\ row.key = "NULL" /\ reports[j].status = "none"
    BY <1>4 DEF Row, Rows, CreateReportJob, NotAsked
  <2>3. /\ UNCHANGED <<objects, queue, rejected, interrupted>>
        /\ reports' = [reports EXCEPT ![j] = row]
        /\ \/ gens' = gens \cup {g} /\ unrecorded' = unrecorded
           \/ gens' = gens /\ unrecorded' = unrecorded \cup {j}
    BY <1>4 DEF CreateReportJob
  <2> HIDE DEF g, row
  <2>4. reports' \in [Jobs -> Rows] /\ reports'[j] = row /\ \A i \in Jobs \ {j} : reports'[i] = reports[i]
    BY <1>0, <2>2, <2>3 DEF ReportTypes
  <2>5. \A x \in gens : x.job # j
    BY <1>0, <2>2 DEF GenOK
  <2>6. IsFiniteSet(gens') /\ InUse' <= Capacity
    BY <1>0, <2>1, <2>3, NoSlotTaken DEF ReportTypes, Holds
  <2>7. ReportTypes'
    BY <1>0, <2>1, <2>3, <2>4, <2>6 DEF ReportTypes
  <2>8. WorkerIdle' /\ OneEach'
    BY <1>0, <2>1, <2>2, <2>3, <2>4, <2>5 DEF WorkerIdle, OneEach
  <2>9. \A x \in gens' : GenOK(x)'
    BY <1>0, <2>1, <2>2, <2>3, <2>4, <2>5 DEF GenOK
  <2>10. ASSUME NEW i \in Jobs PROVE ReportOK(i)'
    <3>1. CASE i = j
      BY <2>1, <2>2, <2>3, <2>4, <3>1 DEF ReportOK
    <3>2. CASE i # j
      BY <1>0, <2>3, <2>4, <3>2 DEF ReportOK
    <3> QED
      BY <3>1, <3>2
  <2> QED
    BY <2>7, <2>8, <2>9, <2>10 DEF ReportsOK
<1>5. ASSUME NEW g \in gens, GenStep(g) PROVE ReportsOK'
  <2>0. g \in Gens /\ g.job \in Jobs /\ GenOK(g) /\ g.by = "request" /\ g.sig \in {"", "sig"}
    BY <1>0, GenFields DEF GenOK
  <2>1. ASSUME NEW l \in {"launch", "mark", "upload", "sign", "ready", "fail"}, Goto(g, l)
        PROVE  \E h \in Gens : /\ gens' = (gens \ {g}) \cup {h} /\ h.job = g.job /\ h.by = g.by
                               /\ h.sig = g.sig /\ h.pc = l /\ (Holds(h) => l = "launch")
    <3> DEFINE h == [g EXCEPT !.pc = l]
    <3>1. h \in Gens /\ h.job = g.job /\ h.by = g.by /\ h.sig = g.sig /\ h.pc = l
      BY <2>0 DEF Gens
    <3>2. gens' = (gens \ {g}) \cup {h}
      BY <2>1 DEF Goto
    <3> HIDE DEF h
    <3> QED
      BY <2>0, <3>1, <3>2 DEF Holds
  <2>8. g.pc \notin {"sign", "ready"} => g.sig = ""
    BY <2>0 DEF GenOK
  <2>2. CASE Execute(g)
    <3>1. /\ UNCHANGED <<reports, objects, queue, interrupted, unrecorded>>
          /\ \/ TryAcquire /\ Goto(g, "launch") /\ rejected' = rejected
             \/ Return(g) /\ rejected' = rejected \cup {g.job}
      BY <2>2 DEF Execute
    <3>2. CASE TryAcquire /\ Goto(g, "launch") /\ rejected' = rejected
      <4>1. PICK h \in Gens : /\ gens' = (gens \ {g}) \cup {h} /\ h.job = g.job /\ h.by = g.by
                              /\ h.sig = g.sig /\ h.pc = "launch"
        BY <2>1, <3>2
      <4>2. g.sig = ""
        BY <2>2, <2>8 DEF Execute
      <4> QED
        BY <1>0, <4>2, <3>1, <3>2, <4>1, GenAdvances DEF ReportTypes
    <3>3. CASE gens' = gens \ {g} /\ rejected' = rejected \cup {g.job}
      <4>1. IsFiniteSet(gens') /\ InUse' <= Capacity
        BY <1>0, <3>3, NoSlotTaken DEF ReportTypes
      <4>2. ASSUME NEW j \in Jobs PROVE ReportOK(j)'
        BY <1>0, <3>1, <3>3 DEF ReportOK
      <4> QED
        BY <1>0, <2>0, <3>1, <3>3, <4>1, <4>2 DEF ReportsOK, ReportTypes, WorkerIdle, OneEach, GenOK
    <3> QED
      BY <3>1, <3>2, <3>3 DEF Return
  <2>3. CASE Launch(g)
    <3>1. /\ UNCHANGED <<reports, objects, queue, rejected, interrupted, unrecorded>> /\ Goto(g, "mark")
      BY <2>3 DEF Launch
    <3>2. PICK h \in Gens : /\ gens' = (gens \ {g}) \cup {h} /\ h.job = g.job /\ h.by = g.by
                            /\ h.sig = g.sig /\ h.pc = "mark" /\ ~Holds(h)
      BY <2>1, <3>1
    <3>3. g.sig = ""
      BY <2>3, <2>8 DEF Launch
    <3> QED
      BY <1>0, <3>1, <3>2, <3>3, GenAdvances DEF ReportTypes
  <2>4. CASE Upload(g)
    <3>1. /\ UNCHANGED <<reports, queue, rejected, interrupted, unrecorded>> /\ g.pc = "upload"
          /\ \/ /\ objects' = objects \cup {<<"pdf", g.job>>}
                /\ \/ gens' = (gens \ {g}) \cup {[g EXCEPT !.pc = "sign", !.sig = "sig"]}
                   \/ Goto(g, "ready")
             \/ objects' = objects /\ Goto(g, "fail")
      BY <2>4 DEF Upload
    <3>2. <<"pdf", g.job>> \in {"pdf", "sig"} \X Jobs
      BY <2>0
    <3>3. CASE /\ objects' = objects \cup {<<"pdf", g.job>>}
               /\ gens' = (gens \ {g}) \cup {[g EXCEPT !.pc = "sign", !.sig = "sig"]}
      <4> DEFINE h == [g EXCEPT !.pc = "sign", !.sig = "sig"]
      <4>1. h \in Gens /\ h.job = g.job /\ h.by = g.by /\ h.pc = "sign" /\ ~Holds(h)
        BY <2>0 DEF Gens, Holds
      <4>2. gens' = (gens \ {g}) \cup {h}
        BY <3>3
      <4> HIDE DEF h
      <4> QED
        BY <1>0, <3>1, <3>2, <3>3, <4>1, <4>2, GenAdvances DEF ReportTypes
    <3>4. CASE objects' = objects \cup {<<"pdf", g.job>>} /\ Goto(g, "ready")
      <4>1. PICK h \in Gens : /\ gens' = (gens \ {g}) \cup {h} /\ h.job = g.job /\ h.by = g.by
                              /\ h.sig = g.sig /\ h.pc = "ready" /\ ~Holds(h)
        BY <2>1, <3>4
      <4> QED
        BY <1>0, <2>8, <3>1, <3>2, <3>4, <4>1, GenAdvances DEF ReportTypes
    <3>5. CASE objects' = objects /\ Goto(g, "fail")
      <4>1. PICK h \in Gens : /\ gens' = (gens \ {g}) \cup {h} /\ h.job = g.job /\ h.by = g.by
                              /\ h.sig = g.sig /\ h.pc = "fail" /\ ~Holds(h)
        BY <2>1, <3>5
      <4> QED
        BY <1>0, <2>8, <3>1, <3>5, <4>1, GenAdvances DEF ReportTypes
    <3> QED
      BY <3>1, <3>3, <3>4, <3>5
  <2>5. CASE UploadSignature(g)
    <3>1. /\ UNCHANGED <<reports, queue, rejected, interrupted>> /\ g.pc = "sign" /\ Goto(g, "ready")
          /\ \/ objects' = objects \cup {<<"sig", g.job>>} /\ unrecorded' = unrecorded
             \/ objects' = objects /\ unrecorded' = unrecorded \cup {g.job}
      BY <2>5 DEF UploadSignature
    <3>2. <<"sig", g.job>> \in {"pdf", "sig"} \X Jobs /\ <<"pdf", g.job>> \in objects
      BY <2>0, <3>1 DEF GenOK
    <3>3. PICK h \in Gens : /\ gens' = (gens \ {g}) \cup {h} /\ h.job = g.job /\ h.by = g.by
                            /\ h.sig = g.sig /\ h.pc = "ready" /\ ~Holds(h)
      BY <2>1, <3>1
    <3>4. /\ objects \subseteq objects' /\ objects' \subseteq {"pdf", "sig"} \X Jobs
          /\ unrecorded \subseteq unrecorded' /\ unrecorded' \subseteq Jobs
          /\ <<"sig", g.job>> \in objects' \/ g.job \in unrecorded'
      BY <1>0, <2>0, <3>1, <3>2 DEF ReportTypes
    <3> QED
      BY <3>1, <3>2, <3>3, <3>4, GenAdvances
  <2>6. CASE MarkGenerating(g)
    <3> DEFINE row == Row("generating", "", "")
    <3>1. row \in Rows /\ row.status = "generating"
      BY DEF Row, Rows
    <3>2. TryUpdate(g.job, row) /\ Goto(g, "upload") /\ UNCHANGED <<objects, queue, rejected, interrupted>>
      BY <2>6 DEF MarkGenerating
    <3> HIDE DEF row
    <3>3. PICK h \in Gens : /\ gens' = (gens \ {g}) \cup {h} /\ h.job = g.job /\ h.by = g.by
                            /\ h.sig = g.sig /\ h.pc = "upload"
      BY <2>1, <3>2
    <3>4. g.sig = ""
      BY <2>6, <2>8 DEF MarkGenerating
    <3> QED
      BY <3>1, <3>2, <3>3, <3>4, GenUpdates
  <2>7. CASE MarkReady(g) \/ MarkFailed(g)
    <3> DEFINE row == IF MarkReady(g) THEN Row("ready", "pdf", g.sig) ELSE Row("failed", "", "")
    <3>1. row \in Rows /\ row.status \in {"ready", "failed"}
      BY <2>0 DEF Row, Rows
    <3>2. /\ TryUpdate(g.job, row) /\ gens' = gens \ {g}
          /\ UNCHANGED <<objects, queue, rejected, interrupted>>
      BY <2>7 DEF MarkReady, MarkFailed, Return
    <3>3. row.status = "ready" =>
            /\ <<"pdf", g.job>> \in objects
            /\ row.sig # "" => <<"sig", g.job>> \in objects \/ g.job \in unrecorded
      <4>1. CASE MarkReady(g)
        <5>1. g.pc = "ready" /\ row = Row("ready", "pdf", g.sig)
          BY <4>1 DEF MarkReady
        <5> QED
          BY <2>0, <5>1 DEF GenOK, Row
      <4>2. CASE ~MarkReady(g)
        BY <4>2 DEF Row
      <4> QED
        BY <4>1, <4>2
    <3> HIDE DEF row
    <3>4. PICK h \in Gens : h.job = g.job /\ h.by = g.by /\ h.pc = "upload" /\ h.sig = ""
      <4> DEFINE h == [g EXCEPT !.pc = "upload", !.sig = ""]
      <4>1. h \in Gens /\ h.job = g.job /\ h.by = g.by /\ h.pc = "upload" /\ h.sig = ""
        BY <2>0 DEF Gens
      <4> HIDE DEF h
      <4> QED
        BY <4>1
    <3> QED
      BY <3>1, <3>2, <3>3, <3>4, GenUpdates
  <2> QED
    BY <1>5, <2>2, <2>3, <2>4, <2>5, <2>6, <2>7 DEF GenStep
<1> QED
  BY <1>1, <1>2, <1>3, <1>4, <1>5
  DEF Next, Generating, FlushTick, Select, FetchMessage, IngestEvents, CommitBatch, vars

-----------------------------------------------------------------------------
(* Theorems.                                                               *)

Bounds == faults \in 0..MaxFaults /\ crashes \in 0..MaxCrashes

\* The bounds of the faults and of the restarts.
LEMMA BoundsNext == Bounds /\ [Next]_vars => Bounds'
<1> SUFFICES ASSUME Bounds, [Next]_vars PROVE Bounds'
  OBVIOUS
<1>1. \/ UNCHANGED <<faults, crashes>>
      \/ Fault /\ UNCHANGED crashes
      \/ crashes < MaxCrashes /\ crashes' = crashes + 1 /\ UNCHANGED faults
  BY DEF Next, Generating, GenStep, CreateReportJob, Execute, Launch, MarkGenerating, Upload, UploadSignature,
         MarkReady, MarkFailed, TryUpdate, StartWorker, FlushTick, Select, FetchMessage, IngestEvents,
         CommitBatch, Restart, NoFault, vars
<1> QED
  BY <1>1, NumbersAssumption DEF Bounds, Fault

\* The inductive invariant, in the parts the steps are shown to keep.
LEMMA ComplianceInvariant == Spec => [](WriterOK /\ ReportsOK /\ Bounds)
<1>1. Init => WriterOK /\ ReportsOK /\ Bounds
  <2>1. Init => Bounds
    BY NumbersAssumption DEF Init, Bounds
  <2> QED
    BY <2>1, WriterInit, ReportsInit
<1>2. (WriterOK /\ ReportsOK /\ Bounds) /\ [Next]_vars => (WriterOK /\ ReportsOK /\ Bounds)'
  BY WriterNext, ReportsNext, BoundsNext
<1> QED
  BY <1>1, <1>2, PTL DEF Spec

\* In every run of the service the variables have their types, the committed offset
\* is not ahead of the reader, and no more slots of the bulkhead are in use than it
\* has (bulkhead.go:24-30).
THEOREM ComplianceTypeCorrect == Spec => []TypeOK
<1>1. WriterOK /\ ReportsOK /\ Bounds => TypeOK
  BY DEF WriterOK, ReportsOK, WriterTypes, ReportTypes, Bounds, TypeOK
<1> QED
  BY <1>1, ComplianceInvariant, PTL

\* However writes and commits fail and the service restarts, a commit covers only
\* messages the writer has dealt with, and only a restart makes it write one twice
\* (clickhouse_writer.go:50-121).
THEOREM ComplianceIngestedOrRefused == Spec => []IngestedOrRefused
<1>1. WriterOK => IngestedOrRefused
  BY DEF WriterOK, BatchOK, OnceOK, DealtWith, IngestedOrRefused
<1> QED
  BY <1>1, ComplianceInvariant, PTL

\* A ready report can be downloaded, and a report is left behind only by a full
\* bulkhead, a restart or an ignored error (handler.go:115-161, 177-268).
THEOREM ComplianceStatusExplained == Spec => []StatusExplained
<1>1. ReportsOK => StatusExplained
  BY DEF ReportsOK, ReportOK, StatusExplained, DownloadReport
<1> QED
  BY <1>1, ComplianceInvariant, PTL

\* No step takes a ready report back, although nothing but the worker's failing
\* listing keeps two goroutines from generating the same one (handler.go:140-144,
\* 278-294).
THEOREM ComplianceReadyStays == Spec => ReadyStays
<1>1. ReportsOK /\ [Next]_vars =>
        [\A j \in Jobs : reports[j].status = "ready" => reports'[j] = reports[j]]_vars
  <2> SUFFICES ASSUME ReportsOK, Next, NEW j \in Jobs, reports[j].status = "ready"
               PROVE  reports'[j] = reports[j]
    OBVIOUS
  <2>1. reports \in [Jobs -> Rows] /\ \A g \in gens : g.job # j
    BY DEF ReportsOK, ReportTypes, GenOK
  <2>2. CASE reports' = reports
    BY <2>2
  <2>3. ASSUME NEW i \in Jobs, CreateReportJob(i) PROVE reports'[j] = reports[j]
    <3>1. reports[i].status = "none" /\ reports' = [reports EXCEPT ![i] = Row("pending", "NULL", "NULL")]
      BY <2>3 DEF CreateReportJob, NotAsked, Row
    <3> QED
      BY <2>1, <3>1
  <2>4. ASSUME NEW g \in gens, NEW row, TryUpdate(g.job, row) PROVE reports'[j] = reports[j]
    BY <2>1, <2>4 DEF TryUpdate, UpdateReportStatus
  <2> QED
    BY <2>2, <2>3, <2>4
    DEF Next, Generating, GenStep, Execute, Launch, MarkGenerating, Upload, UploadSignature, MarkReady,
        MarkFailed, StartWorker, FlushTick, Select, FetchMessage, IngestEvents, CommitBatch, Restart,
        reportVars
<1> QED
  BY <1>1, ComplianceInvariant, PTL DEF Spec, ReadyStays
=============================================================================
