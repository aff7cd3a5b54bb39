---------------------------- MODULE AuditConsumer ----------------------------
(***************************************************************************)
(* The audit service's consumers (services/audit/pkg/consumer): one per    *)
(* topic, all writing to the same MongoDB collections.  A consumer gathers *)
(* a batch of Kafka messages and flushes it: it reserves sequence numbers  *)
(* for the batch's organisation, chains the events to the hash it read     *)
(* with them, swings the chain's head with a compare-and-swap, inserts the *)
(* events and commits the offsets.  Whatever the outcome, the batch is     *)
(* then forgotten; only a restart reads from the committed offset again.   *)
(*                                                                         *)
(* The collection hash_chains has no unique index: an organisation gets a  *)
(* document with the first upsert that finds none, and a second one if two *)
(* consumers find none at the same time.                                   *)
(*                                                                         *)
(* HMAC(event_id | prevHash) is modelled as prevHash with the event id     *)
(* appended: different histories have different hashes.                    *)
(***************************************************************************)
EXTENDS Naturals, Sequences, FiniteSets, SequencesExt

CONSTANTS
  Consumers,   \* the consumers, one per topic
  Log,         \* Log[c]: the messages of c's topic, in offset order
  Orgs,        \* the organisations
  NoOrg,       \* the org_id of an event that has none
  BatchSize,   \* AUDIT_BATCH_SIZE
  MaxTries,    \* attempts to extend the chain (5 in the code)
  MaxFaults    \* bound: MongoDB and Kafka errors, and crashes

ASSUME BatchSizeAssumption == BatchSize \in Nat \ {0}
ASSUME MaxTriesAssumption == MaxTries \in Nat \ {0}
ASSUME MaxFaultsAssumption == MaxFaults \in Nat
ASSUME NoOrgAssumption == NoOrg \notin Orgs

EventIds == UNION {{Log[c][i].id : i \in DOMAIN Log[c]} : c \in Consumers}

\* A message holds an event id and an org, or does not parse.
Messages == [id : EventIds, org : Orgs \cup {NoOrg}, parses : BOOLEAN]

ASSUME LogAssumption == Log \in [Consumers -> Seq(Messages)]

VARIABLES
  keySet,    \* whether the pods have an AUDIT_SECRET_KEY: yes or no
  pc,        \* where each consumer is in Start and flush
  from,      \* the batch is made of the offsets from[c] .. next[c] - 1
  events,    \* the batch's events: its messages without those that do not parse
  next,      \* the offset FetchMessage returns next
  committed, \* the group's offset at the broker: where a restart begins
  attempt,   \* how often flush has tried to extend the chain
  startSeq,  \* what ReserveSequence returned
  prevHash,  \* ... with the hash it read
  sequence,  \* the sequence fields of each org's hash_chains documents
  head,      \* the hash fields of each org's hash_chains documents
  stored,    \* the audit_events collection
  faults     \* how much of MaxFaults has been used

local == <<pc, from, next, events, attempt, startSeq, prevHash>>
mongo == <<sequence, head, stored>>
vars == <<keySet, pc, from, next, events, committed, attempt, startSeq, prevHash, sequence,
          head, stored, faults>>

Init ==
  /\ keySet \in {"yes", "no"}
  /\ pc = [c \in Consumers |-> "select"]
  /\ from = [c \in Consumers |-> 1]
  /\ next = [c \in Consumers |-> 1]
  /\ events = [c \in Consumers |-> << >>]
  /\ committed = [c \in Consumers |-> 1]
  /\ attempt = [c \in Consumers |-> 0]
  /\ startSeq = [c \in Consumers |-> 0]
  /\ prevHash = [c \in Consumers |-> << >>]
  /\ sequence = [o \in Orgs |-> << >>]
  /\ head = [o \in Orgs |-> << >>]
  /\ stored = {}
  /\ faults = 0

Fault == faults < MaxFaults /\ faults' = faults + 1 /\ UNCHANGED keySet

-----------------------------------------------------------------------------
(* The batch.                                                              *)

\* The whole batch is chained under the organisation of its first event.
BatchOrg(c) == events[c][1].org

\* The hash of the batch's i-th event, when it is chained to prevHash.
Hash(c, i) ==
  IF keySet = "yes" THEN prevHash[c] \o [j \in 1..i |-> events[c][j].id] ELSE << >>

\* The document inserted for the batch's i-th event; chain is the hash_chains
\* document its sequence number was reserved from.
Doc(c, i) == [id    |-> events[c][i].id,
              org   |-> events[c][i].org,
              chain |-> BatchOrg(c),
              seq   |-> startSeq[c] + i - 1,
              hash  |-> Hash(c, i)]

Goto(c, l) == pc' = [pc EXCEPT ![c] = l]

\* flush returns: Start sets batch to nil, whatever became of it.
Forget(c) ==
  /\ Goto(c, "select")
  /\ from' = [from EXCEPT ![c] = next[c]]
  /\ events' = [events EXCEPT ![c] = << >>]
  /\ attempt' = [attempt EXCEPT ![c] = 0]
  /\ startSeq' = [startSeq EXCEPT ![c] = 0]
  /\ prevHash' = [prevHash EXCEPT ![c] = << >>]
  /\ UNCHANGED next

\* flush decodes the messages of its batch and keeps those that parse.
Decode(c, m) ==
  events' = [events EXCEPT ![c] = IF m.parses THEN Append(@, m) ELSE @]

\* Start: the flush interval is not over, and FetchMessage is called.
Await(c) ==
  /\ pc[c] = "select"
  /\ Goto(c, "fetch")
  /\ UNCHANGED <<from, next, events, attempt, startSeq, prevHash, committed, mongo, faults, keySet>>

\* Start: FetchMessage returns a message; a full batch is flushed.  Until there is a
\* message the consumer waits here, and does not look at its ticker.  (That each
\* message is decoded here already, and not in flush, is not to be seen.)
Fetch(c) ==
  /\ pc[c] = "fetch"
  /\ next[c] <= Len(Log[c])
  /\ next' = [next EXCEPT ![c] = @ + 1]
  /\ Decode(c, Log[c][next[c]])
  /\ Goto(c, IF next[c] + 1 - from[c] >= BatchSize THEN "parse" ELSE "select")
  /\ UNCHANGED <<from, attempt, startSeq, prevHash, committed, mongo, faults, keySet>>

\* FetchMessage returns an error, which is logged.
FetchFails(c) ==
  /\ pc[c] = "fetch"
  /\ Fault
  /\ Goto(c, "select")
  /\ UNCHANGED <<from, next, events, attempt, startSeq, prevHash, committed, mongo>>

\* Start: the flush interval is over and the batch is not empty.
FlushTick(c) ==
  /\ pc[c] = "select"
  /\ from[c] < next[c]
  /\ Goto(c, "parse")
  /\ UNCHANGED <<from, next, events, attempt, startSeq, prevHash, committed, mongo, faults, keySet>>

-----------------------------------------------------------------------------
(* flush.                                                                  *)

\* Some message parses, and the first event has an org_id.
Flushable(c) == events[c] # << >> /\ BatchOrg(c) # NoOrg

\* The messages are decoded.
Parse(c) ==
  /\ pc[c] = "parse"
  /\ Flushable(c)
  /\ Goto(c, "reserve")
  /\ UNCHANGED <<from, next, events, attempt, startSeq, prevHash, committed, mongo, faults, keySet>>

\* No message parses, or the first event has no org_id: flush returns.
ParseNothing(c) ==
  /\ pc[c] = "parse"
  /\ ~Flushable(c)
  /\ Forget(c)
  /\ UNCHANGED <<committed, mongo, faults, keySet>>

\* Mutant: the sequence number is read without being incremented.
IncrementNot(c, k) == UNCHANGED sequence

\* $inc of a document of the batch's org.
Increment(c, k) == sequence' = [sequence EXCEPT ![BatchOrg(c)][k] = @ + Len(events[c])]

\* The upsert inserts a document.
Begin(c) ==
  /\ sequence' = [sequence EXCEPT ![BatchOrg(c)] = Append(@, Len(events[c]))]
  /\ head' = [head EXCEPT ![BatchOrg(c)] = Append(@, << >>)]

\* ReserveSequence returns.
Reserved(c, number, hash) ==
  /\ startSeq' = [startSeq EXCEPT ![c] = number]
  /\ prevHash' = [prevHash EXCEPT ![c] = hash]
  /\ Goto(c, IF keySet = "yes" THEN "cas" ELSE "write")
  /\ UNCHANGED <<from, next, events, attempt, committed, stored, faults, keySet>>

\* ReserveSequence: $inc and read in one step, of a document of the org.
ReserveSequence(c) ==
  LET o == BatchOrg(c) IN
  /\ pc[c] = "reserve"
  /\ \E k \in DOMAIN head[o] : Increment(c, k) /\ Reserved(c, sequence[o][k], head[o][k])
  /\ UNCHANGED head

\* ReserveSequence finds no document.
ReserveMiss(c) ==
  /\ pc[c] = "reserve" /\ head[BatchOrg(c)] = << >>
  /\ Goto(c, "upsert")
  /\ UNCHANGED <<from, next, events, attempt, startSeq, prevHash, committed, mongo, faults, keySet>>

\* ... and inserts one, although another consumer may have done so since.
ReserveInsert(c) ==
  /\ pc[c] = "upsert"
  /\ Begin(c)
  /\ Reserved(c, 0, << >>)

\* Mutant: a retry keeps the sequence numbers it has and reads only the head.
RetryKeepsSequence(c) ==
  IF attempt[c] + 1 < MaxTries
  THEN /\ attempt' = [attempt EXCEPT ![c] = @ + 1]
       /\ \E k \in DOMAIN head[BatchOrg(c)] : prevHash' = [prevHash EXCEPT ![c] = head[BatchOrg(c)][k]]
       /\ Goto(c, "cas")
       /\ UNCHANGED <<from, next, events, startSeq>>
  ELSE Forget(c)

\* Mutant: no retry after a lost race.
RetryNever(c) == Forget(c)

\* The next round of the retry loop, or its end.
Retry(c) ==
  IF attempt[c] + 1 < MaxTries
  THEN /\ attempt' = [attempt EXCEPT ![c] = @ + 1]
       /\ Goto(c, "reserve")
       /\ UNCHANGED <<from, next, events, startSeq, prevHash>>
  ELSE Forget(c)

\* ReserveSequence fails, before or after it took effect.
ReserveFails(c) ==
  /\ pc[c] \in {"reserve", "upsert"}
  /\ Fault
  /\ \/ UNCHANGED <<sequence, head>>
     \/ pc[c] = "reserve" /\ (\E k \in DOMAIN head[BatchOrg(c)] : Increment(c, k)) /\ UNCHANGED head
     \/ pc[c] = "upsert" /\ Begin(c)
  /\ Retry(c)
  /\ UNCHANGED <<committed, stored>>

\* Mutant: the head is overwritten without comparing it.
MatchingAny(c) == DOMAIN head[BatchOrg(c)]

\* The documents of the org whose hash is still prevHash.
Matching(c) == {k \in DOMAIN head[BatchOrg(c)] : head[BatchOrg(c)][k] = prevHash[c]}

\* The batch's last hash becomes the head of one of them.
SwingHead(c, k) == head' = [head EXCEPT ![BatchOrg(c)][k] = Hash(c, Len(events[c]))]

\* UpdateHashChainCAS matches a document, or it does not and flush retries.
UpdateHashChainCAS(c) ==
  /\ pc[c] = "cas"
  /\ \/ /\ \E k \in Matching(c) : SwingHead(c, k)
        /\ Goto(c, "write")
        /\ UNCHANGED <<from, next, events, attempt, startSeq, prevHash>>
     \/ Matching(c) = {} /\ UNCHANGED head /\ Retry(c)
  /\ UNCHANGED <<committed, sequence, stored, faults, keySet>>

\* UpdateHashChainCAS returns an error, before or after it took effect: flush
\* returns.
CASFails(c) ==
  /\ pc[c] = "cas"
  /\ Fault
  /\ UNCHANGED head \/ \E k \in Matching(c) : SwingHead(c, k)
  /\ Forget(c)
  /\ UNCHANGED <<committed, sequence, stored>>

\* Mutant: there is no unique index.
InsertableAll(c) == Len(events[c])

\* How many events an ordered bulk insert gets in before the unique index on
\* event_id stops it.
Insertable(c) ==
  LET ids == [i \in DOMAIN events[c] |-> events[c][i].id]
      fresh(i) == /\ \A d \in stored : d.id # ids[i]
                  /\ \A j \in 1..i - 1 : ids[j] # ids[i]
  IN Cardinality({i \in DOMAIN ids : \A j \in 1..i : fresh(j)})

\* BulkWrite inserts the first n events.
Insert(c, n) == stored' = stored \cup {Doc(c, i) : i \in 1..n}

\* Mutant: the offsets are committed before the write.
BulkWriteAfterCommit(c) ==
  /\ pc[c] = "write"
  /\ Insertable(c) = Len(events[c])
  /\ committed' = [committed EXCEPT ![c] = next[c]]
  /\ \/ Insert(c, Len(events[c])) /\ Goto(c, "commit")
     \/ UNCHANGED stored /\ Goto(c, "write")
  /\ UNCHANGED <<from, next, events, attempt, startSeq, prevHash, sequence, head, faults, keySet>>

\* Every event is new.
BulkWrite(c) ==
  /\ pc[c] = "write"
  /\ Insertable(c) = Len(events[c])
  /\ Insert(c, Len(events[c]))
  /\ Goto(c, "commit")
  /\ UNCHANGED <<from, next, events, attempt, startSeq, prevHash, committed, sequence,
                 head, faults, keySet>>

\* BulkWrite meets a duplicate event_id: what comes after it is not written,
\* and flush returns.
BulkWriteDuplicate(c) ==
  /\ pc[c] = "write"
  /\ Insertable(c) < Len(events[c])
  /\ Insert(c, Insertable(c))
  /\ Forget(c)
  /\ UNCHANGED <<committed, sequence, head, faults, keySet>>

\* BulkWrite fails for another reason, after some of the inserts.
BulkWriteFails(c) ==
  /\ pc[c] = "write"
  /\ Fault
  /\ \E n \in 0..Insertable(c) : Insert(c, n)
  /\ Forget(c)
  /\ UNCHANGED <<committed, sequence, head>>

\* CommitMessages: the group's offset moves past the batch.
CommitMessages(c) ==
  /\ pc[c] = "commit"
  /\ committed' = [committed EXCEPT ![c] = next[c]]
  /\ Forget(c)
  /\ UNCHANGED <<mongo, faults, keySet>>

\* CommitMessages fails; the error is logged.
CommitFails(c) ==
  /\ pc[c] = "commit"
  /\ Fault
  /\ Forget(c)
  /\ UNCHANGED <<committed, mongo>>

\* The pod dies, or the group rebalances: the consumer starts again at the
\* committed offset.
Crash(c) ==
  /\ Fault
  /\ Goto(c, "select")
  /\ next' = [next EXCEPT ![c] = committed[c]]
  /\ from' = [from EXCEPT ![c] = committed[c]]
  /\ events' = [events EXCEPT ![c] = << >>]
  /\ attempt' = [attempt EXCEPT ![c] = 0]
  /\ startSeq' = [startSeq EXCEPT ![c] = 0]
  /\ prevHash' = [prevHash EXCEPT ![c] = << >>]
  /\ UNCHANGED <<committed, mongo>>

-----------------------------------------------------------------------------

\* What a consumer does by itself.
Step(c) ==
  \/ Await(c) \/ Fetch(c) \/ FlushTick(c) \/ Parse(c) \/ ParseNothing(c)
  \/ ReserveSequence(c) \/ ReserveMiss(c) \/ ReserveInsert(c) \/ UpdateHashChainCAS(c)
  \/ BulkWrite(c) \/ BulkWriteDuplicate(c) \/ CommitMessages(c)

Disturbance(c) ==
  \/ FetchFails(c) \/ ReserveFails(c) \/ CASFails(c) \/ BulkWriteFails(c) \/ CommitFails(c)
  \/ Crash(c)

Next == \E c \in Consumers : Step(c) \/ Disturbance(c)

Spec == Init /\ [][Next]_vars

\* A consumer's goroutine keeps running; that its ticker finds it between two
\* messages is left to chance.
FairSpec == Spec /\ \A c \in Consumers : WF_vars(Step(c))

-----------------------------------------------------------------------------
(* Properties.                                                             *)

Batches == Seq(Messages)
Hashes == Seq(EventIds)
Document == [id : EventIds, org : Orgs \cup {NoOrg}, chain : Orgs, seq : Nat, hash : Hashes]

\* What is in memory of the pod of c: its offsets, and the batch it has gathered.
BatchOK(c) ==
  /\ from[c] <= next[c] /\ committed[c] <= next[c] /\ next[c] <= Len(Log[c]) + 1
  /\ next[c] - from[c] <= BatchSize
  /\ pc[c] \in {"select", "fetch"} => next[c] - from[c] < BatchSize
  /\ pc[c] \notin {"select", "fetch", "parse"} => events[c] # << >> /\ BatchOrg(c) \in Orgs

\* The fields of the hash_chains documents.
ChainsOK ==
  /\ sequence \in [Orgs -> Seq(Nat)]
  /\ head \in [Orgs -> Seq(Hashes)]
  /\ \A o \in Orgs : Len(sequence[o]) = Len(head[o])

\* Types; a batch is never larger than BatchSize, the broker's offset never ahead
\* of what was read, and a batch that is chained has an event and an organisation.
TypeOK ==
  /\ keySet \in {"yes", "no"}
  /\ pc \in [Consumers -> {"select", "fetch", "parse", "reserve", "upsert", "cas", "write", "commit"}]
  /\ from \in [Consumers -> Nat \ {0}]
  /\ next \in [Consumers -> Nat \ {0}]
  /\ committed \in [Consumers -> Nat \ {0}]
  /\ events \in [Consumers -> Batches]
  /\ attempt \in [Consumers -> 0..MaxTries - 1]
  /\ startSeq \in [Consumers -> Nat]
  /\ prevHash \in [Consumers -> Hashes]
  /\ ChainsOK
  /\ stored \subseteq Document
  /\ faults \in 0..MaxFaults
  /\ \A c \in Consumers : BatchOK(c)

\* However the consumers of several topics interleave and fail, a history of an org
\* never forks: every stored integrity_hash lies on the history that leads to the
\* hash of one of the org's hash_chains documents (consumer.go:187-217).
ChainsNeverFork ==
  keySet = "yes" =>
    \A d \in stored : \E k \in DOMAIN head[d.chain] : IsPrefix(d.hash, head[d.chain][k])

\* The org has not got a second document.
Sole(o) == Len(head[o]) <= 1

\* Unless two consumers have both begun the chain of an org, sequence numbers and
\* hashes order its events the same way, although they are taken in two separate
\* steps (consumer.go:176-203).
SequenceFollowsChain ==
  keySet = "yes" => \A d, e \in stored : d.chain = e.chain /\ Sole(d.chain) =>
    (d.seq < e.seq <=> Len(d.hash) < Len(e.hash))

\* Unless two consumers have both begun the chain of an org, no two of its events
\* have the same sequence number, with or without a hash chain
\* (repository.go:56-75).
SequencesDisjoint ==
  \A d, e \in stored : d.chain = e.chain /\ Sole(d.chain) /\ d.seq = e.seq => d = e

Chainable(m) == m.parses /\ m.org # NoOrg

\* consumer.go:115, "To prevent data loss": an event whose offset is committed
\* is in the audit log.
NoEventLost ==
  \A c \in Consumers : \A i \in 1..committed[c] - 1 :
    Chainable(Log[c][i]) => \E d \in stored : d.id = Log[c][i].id

\* c is about to lose its last race for the chain's head, and will give its
\* batch up.
LastTryLost(c) ==
  /\ pc[c] = "cas"
  /\ attempt[c] = MaxTries - 1
  /\ Matching(c) = {}

\* Nothing fails, and nobody loses MaxTries races in a row.
Undisturbed == faults = 0 /\ \A c \in Consumers : ~LastTryLost(c)

\* If nothing fails or is given up no offset is committed before its event is
\* stored, and an event with enough messages behind it to fill its batch reaches the
\* audit log, also when consumers lose the race for the chain's head to each other
\* (consumer.go:84-108, 173-241).  An event with fewer behind it may wait for ever: on
\* a quiet topic the consumer is held in FetchMessage.
EveryEventStored ==
  []Undisturbed =>
    /\ []NoEventLost
    /\ \A c \in Consumers : \A i \in DOMAIN Log[c] :
      Chainable(Log[c][i]) /\ i + BatchSize - 1 <= Len(Log[c]) =>
        <>(\E d \in stored : d.id = Log[c][i].id)

\* What the audit service promises the readers of its collections.
Trail == INSTANCE AuditLog WITH histories <- head, entries <- stored

\* Concurrent consumers, retries, errors and redelivered messages leave an
\* append-only log: the head of a history is only extended, also when an org has
\* several; a stored document never changes and refers to a part of a history that is
\* already there, and an event is stored once (consumer.go:169-237, repository.go:43-91).
AppendOnly == Trail!Spec
=============================================================================
