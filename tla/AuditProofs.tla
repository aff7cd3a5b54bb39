---------------------------- MODULE AuditProofs ----------------------------
(***************************************************************************)
(* Proofs about AuditConsumer, for any number of consumers, topics,        *)
(* organisations and faults and any BatchSize and MaxTries.                *)
(***************************************************************************)
EXTENDS AuditConsumer, SequenceTheorems, FiniteSetTheorems, TLAPS

-----------------------------------------------------------------------------
(* Sequences.                                                              *)

\* A prefix, position by position.
LEMMA PrefixMeans ==
  ASSUME NEW S, NEW s \in Seq(S), NEW t \in Seq(S)
  PROVE  IsPrefix(s, t) <=> Len(s) <= Len(t) /\ \A k \in 1..Len(s) : s[k] = t[k]
  BY DEF IsPrefix

\* Prefixes of prefixes are prefixes.
LEMMA PrefixTransitive ==
  ASSUME NEW S, NEW s \in Seq(S), NEW t \in Seq(S), NEW u \in Seq(S),
         IsPrefix(s, t), IsPrefix(t, u)
  PROVE  IsPrefix(s, u)
  BY PrefixMeans

\* Two sequences that begin with h and go on alike as far as the shorter goes.
LEMMA PrefixExtends ==
  ASSUME NEW S, NEW h \in Seq(S), NEW s \in Seq(S), NEW t \in Seq(S),
         Len(s) <= Len(t), \A k \in 1..Len(s) : s[k] = t[k]
  PROVE  /\ h \o s \in Seq(S) /\ Len(h \o s) = Len(h) + Len(s)
         /\ IsPrefix(h, h \o s)
         /\ IsPrefix(h \o s, h \o t)
<1>1. /\ h \o s \in Seq(S) /\ Len(h \o s) = Len(h) + Len(s)
      /\ h \o t \in Seq(S) /\ Len(h \o t) = Len(h) + Len(t)
  OBVIOUS
<1>2. \A k \in 1..Len(h) : (h \o s)[k] = h[k]
  OBVIOUS
<1>3. ASSUME NEW k \in 1..Len(h \o s) PROVE (h \o s)[k] = (h \o t)[k]
  <2>1. CASE k <= Len(h)
    BY <1>1, <2>1
  <2>2. CASE k > Len(h)
    BY <1>1, <2>2
  <2> QED
    BY <1>1, <2>1, <2>2
<1> DEFINE u == h \o s
           v == h \o t
<1>4. /\ u \in Seq(S) /\ v \in Seq(S) /\ Len(h) <= Len(u) /\ Len(u) <= Len(v)
      /\ \A k \in 1..Len(h) : h[k] = u[k]
      /\ \A k \in 1..Len(u) : u[k] = v[k]
  BY <1>1, <1>2, <1>3
<1> HIDE DEF u, v
<1>5. IsPrefix(h, u) /\ IsPrefix(u, v)
  BY <1>4, PrefixMeans
<1> QED
  BY <1>1, <1>5 DEF u, v

\* The fields of a message.
LEMMA MessageFields ==
  \A m \in Messages : m.id \in EventIds /\ m.org \in Orgs \cup {NoOrg}
  BY DEF Messages

\* The ids of the first n of some messages.
LEMMA IdsOf ==
  ASSUME NEW s \in Seq(Messages), NEW n \in 0..Len(s)
  PROVE  /\ [j \in 1..n |-> s[j].id] \in Seq(EventIds)
         /\ Len([j \in 1..n |-> s[j].id]) = n
<1>1. \A j \in 1..n : s[j] \in Messages
  OBVIOUS
<1>2. \A j \in 1..n : s[j].id \in EventIds
  BY <1>1, MessageFields
<1> QED
  BY <1>2

-----------------------------------------------------------------------------
(* Types.                                                                  *)

\* The empty batch and the hash of an empty chain.
LEMMA NothingYet == << >> \in Batches /\ << >> \in Hashes
  BY DEF Batches, Hashes

\* A batch on its way to MongoDB.
LEMMA BatchFacts ==
  ASSUME TypeOK, NEW c \in Consumers
  PROVE  /\ Len(events[c]) \in Nat
         /\ pc[c] \notin {"select", "fetch", "parse"} => Len(events[c]) > 0 /\ BatchOrg(c) \in Orgs
<1>1. BatchOK(c) /\ events[c] \in Seq(Messages)
  BY DEF TypeOK, Batches
<1>2. Len(events[c]) \in Nat /\ (events[c] # << >> => Len(events[c]) > 0)
  BY <1>1
<1> QED
  BY <1>1, <1>2 DEF BatchOK

\* A fault leaves the count within its bound.
LEMMA TypeFault == TypeOK /\ Fault => faults' \in 0..MaxFaults /\ keySet' = keySet
  BY MaxFaultsAssumption DEF TypeOK, Fault

\* The hash of a batch's event: its length, and what it extends.
LEMMA HashExtends ==
  ASSUME TypeOK, keySet = "yes", NEW c \in Consumers, NEW i \in 0..Len(events[c])
  PROVE  /\ Hash(c, i) \in Hashes
         /\ Len(Hash(c, i)) = Len(prevHash[c]) + i
         /\ IsPrefix(prevHash[c], Hash(c, i))
         /\ IsPrefix(Hash(c, i), Hash(c, Len(events[c])))
<1> DEFINE n == Len(events[c])
           s == [j \in 1..i |-> events[c][j].id]
           t == [j \in 1..n |-> events[c][j].id]
<1>1. events[c] \in Seq(Messages) /\ prevHash[c] \in Seq(EventIds) /\ n \in Nat
  BY DEF TypeOK, Batches, Hashes
<1>2. s \in Seq(EventIds) /\ Len(s) = i
  BY <1>1, IdsOf
<1>3. t \in Seq(EventIds) /\ Len(t) = n
  BY <1>1, IdsOf
<1>4. \A k \in 1..i : s[k] = t[k]
  BY <1>1
<1>5. Hash(c, i) = prevHash[c] \o s /\ Hash(c, n) = prevHash[c] \o t
  BY DEF Hash
<1>6. i <= n
  BY <1>1
<1> HIDE DEF s, t, n
<1>7. /\ prevHash[c] \o s \in Seq(EventIds) /\ Len(prevHash[c] \o s) = Len(prevHash[c]) + Len(s)
      /\ IsPrefix(prevHash[c], prevHash[c] \o s)
      /\ IsPrefix(prevHash[c] \o s, prevHash[c] \o t)
  BY <1>1, <1>2, <1>3, <1>4, <1>6, PrefixExtends
<1> QED
  BY <1>2, <1>5, <1>7 DEF n, Hashes

\* The documents a batch would insert have the right types.
LEMMA DocType ==
  ASSUME TypeOK, NEW c \in Consumers, NEW i \in 1..Len(events[c]), BatchOrg(c) \in Orgs
  PROVE  Doc(c, i) \in Document
<1>1. events[c] \in Seq(Messages) /\ startSeq[c] \in Nat /\ Len(events[c]) \in Nat
  BY DEF TypeOK, Batches
<1>2. events[c][i].id \in EventIds /\ events[c][i].org \in Orgs \cup {NoOrg}
  BY <1>1, MessageFields
<1>3. Hash(c, i) \in Hashes
  <2>1. CASE keySet = "yes"
    BY <1>1, <2>1, HashExtends
  <2>2. CASE keySet # "yes"
    BY <2>2, NothingYet DEF Hash
  <2> QED
    BY <2>1, <2>2
<1>4. startSeq[c] + i - 1 \in Nat
  BY <1>1
<1> QED
  BY <1>2, <1>3, <1>4 DEF Doc, Document

\* An ordered insert gets no more events in than the batch has.
LEMMA InsertableBound ==
  ASSUME TypeOK, NEW c \in Consumers
  PROVE  Insertable(c) \in 0..Len(events[c])
<1> DEFINE ids == [i \in DOMAIN events[c] |-> events[c][i].id]
           fresh(i) == /\ \A d \in stored : d.id # ids[i]
                       /\ \A j \in 1..i - 1 : ids[j] # ids[i]
           I == {i \in DOMAIN ids : \A j \in 1..i : fresh(j)}
<1>1. events[c] \in Seq(Messages)
  BY DEF TypeOK, Batches
<1>2. Len(events[c]) \in Nat /\ DOMAIN events[c] = 1..Len(events[c])
  BY <1>1
<1>3. I \subseteq 1..Len(events[c])
  <2> HIDE DEF fresh
  <2> QED
    BY <1>2
<1>4. IsFiniteSet(1..Len(events[c])) /\ Cardinality(1..Len(events[c])) = Len(events[c])
  BY <1>2, FS_Interval
<1>5. Insertable(c) = Cardinality(I)
  BY DEF Insertable
<1> HIDE DEF I
<1>6. IsFiniteSet(I) /\ Cardinality(I) <= Len(events[c])
  BY <1>3, <1>4, FS_Subset
<1>7. Cardinality(I) \in Nat
  BY <1>6, FS_CardinalityType
<1> QED
  BY <1>2, <1>5, <1>6, <1>7

\* The $inc of a document.
LEMMA IncrementEffect ==
  ASSUME ChainsOK, NEW c \in Consumers, NEW o \in Orgs, o = BatchOrg(c),
         NEW n \in Nat, n = Len(events[c]), NEW k \in DOMAIN head[o], Increment(c, k), head' = head
  PROVE  /\ ChainsOK'
         /\ \A q \in Orgs : q # o => sequence'[q] = sequence[q]
         /\ Len(sequence'[o]) = Len(sequence[o]) /\ sequence'[o][k] = sequence[o][k] + n
<1> DEFINE s == [sequence[o] EXCEPT ![k] = sequence[o][k] + n]
<1>1. /\ sequence[o] \in Seq(Nat) /\ Len(sequence[o]) = Len(head[o]) /\ head[o] \in Seq(Hashes)
      /\ sequence \in [Orgs -> Seq(Nat)]
  BY DEF ChainsOK
<1>2. k \in 1..Len(sequence[o]) /\ DOMAIN sequence[o] = 1..Len(sequence[o])
  BY <1>1
<1>3. sequence[o][k] + n \in Nat
  BY <1>1, <1>2
<1>4. s \in Seq(Nat) /\ Len(s) = Len(sequence[o]) /\ s[k] = sequence[o][k] + n
  BY <1>1, <1>2, <1>3
<1>5. sequence' = [sequence EXCEPT ![o] = s]
  BY <1>1, <1>2 DEF Increment
<1> HIDE DEF s
<1>6. sequence'[o] = s /\ \A q \in Orgs : q # o => sequence'[q] = sequence[q]
  BY <1>1, <1>5
<1>7. sequence' \in [Orgs -> Seq(Nat)]
  BY <1>1, <1>4, <1>5
<1> QED
  BY <1>4, <1>6, <1>7 DEF ChainsOK

\* The insert of a document.
LEMMA BeginEffect ==
  ASSUME ChainsOK, NEW c \in Consumers, NEW o \in Orgs, o = BatchOrg(c),
         NEW n \in Nat, n = Len(events[c]), Begin(c)
  PROVE  /\ ChainsOK'
         /\ \A q \in Orgs : q # o => sequence'[q] = sequence[q] /\ head'[q] = head[q]
         /\ sequence'[o] = Append(sequence[o], n) /\ head'[o] = Append(head[o], << >>)
<1> DEFINE s == Append(sequence[o], n)
           h == Append(head[o], << >>)
<1>1. /\ sequence \in [Orgs -> Seq(Nat)] /\ head \in [Orgs -> Seq(Hashes)]
      /\ sequence[o] \in Seq(Nat) /\ head[o] \in Seq(Hashes) /\ Len(sequence[o]) = Len(head[o])
  BY DEF ChainsOK
<1>2. s \in Seq(Nat) /\ h \in Seq(Hashes) /\ Len(s) = Len(h)
  BY <1>1, NothingYet
<1>3. sequence' = [sequence EXCEPT ![o] = s] /\ head' = [head EXCEPT ![o] = h]
  BY <1>1 DEF Begin
<1> HIDE DEF s, h
<1>4. /\ sequence'[o] = s /\ head'[o] = h
      /\ \A q \in Orgs : q # o => sequence'[q] = sequence[q] /\ head'[q] = head[q]
      /\ sequence' \in [Orgs -> Seq(Nat)] /\ head' \in [Orgs -> Seq(Hashes)]
  BY <1>1, <1>2, <1>3
<1>5. ChainsOK'
  BY <1>2, <1>4 DEF ChainsOK
<1> QED
  BY <1>4, <1>5 DEF s, h

\* The swing of a head.
LEMMA SwingEffect ==
  ASSUME ChainsOK, NEW c \in Consumers, NEW o \in Orgs, o = BatchOrg(c),
         NEW k \in DOMAIN head[o], NEW h \in Hashes, h = Hash(c, Len(events[c])),
         SwingHead(c, k), sequence' = sequence
  PROVE  /\ ChainsOK'
         /\ \A q \in Orgs : q # o => head'[q] = head[q]
         /\ Len(head'[o]) = Len(head[o]) /\ head'[o][k] = h
         /\ \A j \in 1..Len(head[o]) : j # k => head'[o][j] = head[o][j]
<1> DEFINE s == [head[o] EXCEPT ![k] = h]
<1>1. head \in [Orgs -> Seq(Hashes)] /\ head[o] \in Seq(Hashes)
  BY DEF ChainsOK
<1>2. DOMAIN head[o] = 1..Len(head[o])
  BY <1>1
<1>3. /\ s \in Seq(Hashes) /\ Len(s) = Len(head[o]) /\ s[k] = h
      /\ \A j \in 1..Len(head[o]) : j # k => s[j] = head[o][j]
  BY <1>1, <1>2
<1>4. head' = [head EXCEPT ![o] = s]
  BY <1>1, <1>2 DEF SwingHead
<1> HIDE DEF s
<1>5. /\ head'[o] = s /\ \A q \in Orgs : q # o => head'[q] = head[q]
      /\ head' \in [Orgs -> Seq(Hashes)]
  BY <1>1, <1>3, <1>4
<1> QED
  BY <1>3, <1>5 DEF ChainsOK

\* The hash of the whole batch.
LEMMA BatchHashType ==
  ASSUME TypeOK, NEW c \in Consumers
  PROVE  Hash(c, Len(events[c])) \in Hashes
<1>1. CASE keySet = "yes"
  BY <1>1, BatchFacts, HashExtends
<1>2. CASE keySet # "yes"
  BY <1>2, NothingYet DEF Hash
<1> QED
  BY <1>1, <1>2

\* A swing leaves documents as they should be.
LEMMA SwingType ==
  ASSUME TypeOK, NEW c \in Consumers, pc[c] = "cas", NEW k \in Matching(c), SwingHead(c, k),
         sequence' = sequence
  PROVE  ChainsOK'
<1>1. BatchOrg(c) \in Orgs /\ k \in DOMAIN head[BatchOrg(c)] /\ ChainsOK
  BY BatchFacts DEF Matching, TypeOK
<1>2. Hash(c, Len(events[c])) \in Hashes
  BY BatchHashType
<1> QED
  BY <1>1, <1>2, SwingEffect

\* Documents that are left alone.
LEMMA ChainsStay == TypeOK /\ UNCHANGED <<sequence, head>> => ChainsOK'
  BY DEF TypeOK, ChainsOK

\* When flush returns.
LEMMA TypeForget ==
  ASSUME TypeOK, NEW c \in Consumers, Forget(c),
         committed' = committed \/ committed' = [committed EXCEPT ![c] = next[c]],
         ChainsOK', stored' \subseteq Document, faults' \in 0..MaxFaults, keySet' = keySet
  PROVE  TypeOK'
<1>1. ASSUME NEW d \in Consumers PROVE BatchOK(d)'
  <2>1. BatchOK(d) /\ next[d] \in Nat \ {0} /\ from[d] \in Nat \ {0} /\ committed[d] \in Nat \ {0}
    BY DEF TypeOK
  <2>2. CASE d = c
    BY <2>1, <2>2, BatchSizeAssumption DEF TypeOK, Forget, Goto, BatchOK
  <2>3. CASE d # c
    BY <2>1, <2>3 DEF TypeOK, Forget, Goto, BatchOK, BatchOrg
  <2> QED
    BY <2>2, <2>3
<1>2. /\ pc' = [pc EXCEPT ![c] = "select"] /\ from' = [from EXCEPT ![c] = next[c]] /\ next' = next
      /\ events' = [events EXCEPT ![c] = << >>] /\ attempt' = [attempt EXCEPT ![c] = 0]
      /\ startSeq' = [startSeq EXCEPT ![c] = 0] /\ prevHash' = [prevHash EXCEPT ![c] = << >>]
  BY DEF Forget, Goto
<1>3. /\ from' \in [Consumers -> Nat \ {0}] /\ next' \in [Consumers -> Nat \ {0}]
      /\ committed' \in [Consumers -> Nat \ {0}]
  BY <1>2 DEF TypeOK
<1>4. /\ events' \in [Consumers -> Batches] /\ attempt' \in [Consumers -> 0..MaxTries - 1]
      /\ startSeq' \in [Consumers -> Nat] /\ prevHash' \in [Consumers -> Hashes]
      /\ pc' \in [Consumers -> {"select", "fetch", "parse", "reserve", "upsert", "cas", "write", "commit"}]
  BY <1>2, NothingYet, MaxTriesAssumption DEF TypeOK
<1> QED
  BY <1>1, <1>3, <1>4 DEF TypeOK

\* The initial state has the right types.
LEMMA TypeInit == Init => TypeOK
<1>1. Init => ChainsOK
  BY DEF Init, ChainsOK
<1> QED
  BY <1>1, BatchSizeAssumption, MaxTriesAssumption, MaxFaultsAssumption, LogAssumption,
     NothingYet DEF Init, TypeOK, BatchOK

\* A retry keeps the types.
LEMMA TypeRetry ==
  ASSUME TypeOK, NEW c \in Consumers, pc[c] \in {"reserve", "upsert", "cas"}, Retry(c),
         committed' = committed, ChainsOK', stored' = stored, faults' \in 0..MaxFaults, keySet' = keySet
  PROVE  TypeOK'
<1>1. CASE attempt[c] + 1 < MaxTries
  <2>1. ASSUME NEW d \in Consumers PROVE BatchOK(d)'
    BY <1>1 DEF TypeOK, Retry, Goto, BatchOK, BatchOrg
  <2> QED
    BY <1>1, <2>1, MaxTriesAssumption DEF TypeOK, Retry, Goto
<1>2. CASE ~(attempt[c] + 1 < MaxTries)
  <2>1. Forget(c)
    BY <1>2 DEF Retry
  <2> QED
    BY <2>1, TypeForget DEF TypeOK
<1> QED
  BY <1>1, <1>2

\* A reservation keeps the types.
LEMMA TypeReserved ==
  ASSUME TypeOK, NEW c \in Consumers, pc[c] \in {"reserve", "upsert"}, NEW number \in Nat,
         NEW hash \in Hashes, Reserved(c, number, hash), ChainsOK'
  PROVE  TypeOK'
<1>1. ASSUME NEW d \in Consumers PROVE BatchOK(d)'
  BY DEF TypeOK, Reserved, Goto, BatchOK, BatchOrg
<1> QED
  BY <1>1, SMTT(30) DEF TypeOK, Reserved, Goto

\* Every step keeps the types.
LEMMA TypeNext == TypeOK /\ [Next]_vars => TypeOK'
<1> SUFFICES ASSUME TypeOK, [Next]_vars PROVE TypeOK'
  OBVIOUS
<1> USE BatchSizeAssumption, MaxTriesAssumption, MaxFaultsAssumption
<1>1. ASSUME NEW c \in Consumers, Fetch(c) PROVE TypeOK'
  <2> DEFINE m == Log[c][next[c]]
  <2>1. next[c] \in Nat \ {0} /\ next[c] <= Len(Log[c])
    BY <1>1 DEF TypeOK, Fetch
  <2>2. Log[c] \in Seq(Messages)
    BY LogAssumption
  <2>3. m \in Messages
    BY <2>1, <2>2
  <2> HIDE DEF m
  <2>4. Append(events[c], m) \in Batches
    BY <2>3 DEF TypeOK, Batches
  <2>5. events' \in [Consumers -> Batches]
    BY <1>1, <2>4 DEF TypeOK, Fetch, Decode, m
  <2>6. ASSUME NEW d \in Consumers PROVE BatchOK(d)'
    <3>1. BatchOK(d) /\ next[d] \in Nat \ {0} /\ from[d] \in Nat \ {0} /\ committed[d] \in Nat \ {0}
      BY DEF TypeOK
    <3>2. Len(Log[d]) \in Nat
      BY LogAssumption
    <3>3. CASE d = c
      <4>1. /\ next'[c] = next[c] + 1 /\ from'[c] = from[c] /\ committed'[c] = committed[c]
            /\ pc'[c] = IF next[c] + 1 - from[c] >= BatchSize THEN "parse" ELSE "select"
        BY <1>1 DEF TypeOK, Fetch, Goto
      <4>2. pc[c] = "fetch"
        BY <1>1 DEF Fetch
      <4> QED
        BY <2>1, <3>1, <3>2, <3>3, <4>1, <4>2, SMTT(30) DEF BatchOK, BatchOrg
    <3>4. CASE d # c
      BY <1>1, <3>1, <3>4 DEF TypeOK, Fetch, Decode, Goto, BatchOK, BatchOrg
    <3> QED
      BY <3>3, <3>4
  <2>7. /\ next' \in [Consumers -> Nat \ {0}]
        /\ pc' \in [Consumers -> {"select", "fetch", "parse", "reserve", "upsert", "cas", "write", "commit"}]
    BY <1>1 DEF TypeOK, Fetch, Goto
  <2> QED
    BY <1>1, <2>5, <2>6, <2>7, ChainsStay DEF TypeOK, Fetch, mongo
<1>2. ASSUME NEW c \in Consumers, Await(c) \/ FlushTick(c) \/ Parse(c) \/ ReserveMiss(c) PROVE TypeOK'
  <2>1. ASSUME NEW d \in Consumers PROVE BatchOK(d)'
    <3>1. Flushable(c) => events[c] # << >> /\ BatchOrg(c) \in Orgs
      <4>1. events[c] \in Seq(Messages)
        BY DEF TypeOK, Batches
      <4>2. events[c] # << >> => events[c][1] \in Messages
        BY <4>1
      <4> QED
        BY <4>2, MessageFields DEF Flushable, BatchOrg
    <3> QED
      BY <1>2, <3>1 DEF TypeOK, Await, FlushTick, Parse, ReserveMiss, Goto, BatchOK, BatchOrg
  <2> QED
    BY <1>2, <2>1, ChainsStay DEF TypeOK, Await, FlushTick, Parse, ReserveMiss, Goto, mongo
<1>3. ASSUME NEW c \in Consumers, FetchFails(c) PROVE TypeOK'
  <2>1. ASSUME NEW d \in Consumers PROVE BatchOK(d)'
    BY <1>3 DEF TypeOK, FetchFails, Goto, BatchOK, BatchOrg
  <2> QED
    BY <1>3, <2>1, ChainsStay, TypeFault DEF TypeOK, FetchFails, Goto, mongo
<1>4. ASSUME NEW c \in Consumers, ParseNothing(c) PROVE TypeOK'
  BY <1>4, TypeForget, ChainsStay DEF TypeOK, ParseNothing, mongo
<1>5. ASSUME NEW c \in Consumers, ReserveSequence(c) PROVE TypeOK'
  <2>1. BatchOrg(c) \in Orgs /\ Len(events[c]) \in Nat /\ ChainsOK
    BY <1>5, BatchFacts DEF ReserveSequence, TypeOK
  <2>2. PICK k \in DOMAIN head[BatchOrg(c)] :
          /\ Increment(c, k)
          /\ Reserved(c, sequence[BatchOrg(c)][k], head[BatchOrg(c)][k])
    BY <1>5 DEF ReserveSequence
  <2>3. sequence[BatchOrg(c)][k] \in Nat /\ head[BatchOrg(c)][k] \in Hashes
    BY <2>1, <2>2 DEF ChainsOK
  <2>4. ChainsOK'
    BY <1>5, <2>1, <2>2, IncrementEffect DEF ReserveSequence
  <2> QED
    BY <1>5, <2>2, <2>3, <2>4, TypeReserved DEF ReserveSequence
<1>6. ASSUME NEW c \in Consumers, ReserveInsert(c) PROVE TypeOK'
  <2>1. BatchOrg(c) \in Orgs /\ Len(events[c]) \in Nat /\ ChainsOK
    BY <1>6, BatchFacts DEF ReserveInsert, TypeOK
  <2>2. ChainsOK'
    BY <1>6, <2>1, BeginEffect DEF ReserveInsert
  <2> QED
    BY <1>6, <2>2, NothingYet, TypeReserved DEF ReserveInsert
<1>7. ASSUME NEW c \in Consumers, ReserveFails(c) PROVE TypeOK'
  <2>1. BatchOrg(c) \in Orgs /\ Len(events[c]) \in Nat /\ ChainsOK
    BY <1>7, BatchFacts DEF ReserveFails, TypeOK
  <2>2. \/ UNCHANGED <<sequence, head>>
        \/ Begin(c)
        \/ \E k \in DOMAIN head[BatchOrg(c)] : Increment(c, k) /\ head' = head
    BY <1>7 DEF ReserveFails
  <2>3. ChainsOK'
    BY <2>1, <2>2, BeginEffect, IncrementEffect, ChainsStay
  <2> QED
    BY <1>7, <2>3, TypeRetry, TypeFault DEF ReserveFails
<1>8. ASSUME NEW c \in Consumers, UpdateHashChainCAS(c) PROVE TypeOK'
  <2>1. ASSUME NEW k \in Matching(c), SwingHead(c, k), Goto(c, "write"),
               UNCHANGED <<from, next, events, attempt, startSeq, prevHash>>
        PROVE  TypeOK'
    <3>1. ASSUME NEW d \in Consumers PROVE BatchOK(d)'
      BY <1>8, <2>1 DEF TypeOK, UpdateHashChainCAS, Goto, BatchOK, BatchOrg
    <3>2. ChainsOK'
      BY <1>8, <2>1, SwingType DEF UpdateHashChainCAS
    <3>3. UNCHANGED <<committed, stored, faults, keySet>> /\ pc' = [pc EXCEPT ![c] = "write"]
      BY <1>8, <2>1 DEF UpdateHashChainCAS, Goto
    <3> QED
      BY <2>1, <3>1, <3>2, <3>3 DEF TypeOK
  <2>2. ASSUME UNCHANGED head, Retry(c) PROVE TypeOK'
    <3>1. pc[c] = "cas" /\ UNCHANGED <<committed, sequence, stored, faults, keySet>>
      BY <1>8 DEF UpdateHashChainCAS
    <3>2. faults \in 0..MaxFaults
      BY DEF TypeOK
    <3> QED
      BY <2>2, <3>1, <3>2, TypeRetry, ChainsStay
  <2> QED
    BY <1>8, <2>1, <2>2 DEF UpdateHashChainCAS
<1>9. ASSUME NEW c \in Consumers, CASFails(c) PROVE TypeOK'
  <2>1. ChainsOK'
    BY <1>9, SwingType, ChainsStay DEF CASFails
  <2> QED
    BY <1>9, <2>1, TypeForget, TypeFault DEF CASFails, TypeOK
<1>10. ASSUME NEW c \in Consumers, pc[c] = "write", NEW n \in 0..Len(events[c]), Insert(c, n)
      PROVE stored' \subseteq Document
  <2>1. \A i \in 1..n : Doc(c, i) \in Document
    <3>1. Len(events[c]) \in Nat /\ BatchOrg(c) \in Orgs
      BY <1>10, BatchFacts
    <3> QED
      BY <3>1, DocType
  <2> QED
    BY <1>10, <2>1 DEF Insert, TypeOK
<1>11. ASSUME NEW c \in Consumers, BulkWrite(c) PROVE TypeOK'
  <2>1. stored' \subseteq Document
    <3>1. Len(events[c]) \in Nat
      BY BatchFacts
    <3> QED
      BY <1>10, <1>11, <3>1 DEF BulkWrite
  <2>2. ASSUME NEW d \in Consumers PROVE BatchOK(d)'
    BY <1>11 DEF TypeOK, BulkWrite, Goto, BatchOK, BatchOrg
  <2> QED
    BY <1>11, <2>1, <2>2, ChainsStay DEF TypeOK, BulkWrite, Goto
<1>12. ASSUME NEW c \in Consumers, BulkWriteDuplicate(c) PROVE TypeOK'
  <2>1. stored' \subseteq Document
    BY <1>10, <1>12, InsertableBound DEF BulkWriteDuplicate
  <2> QED
    BY <1>12, <2>1, TypeForget, ChainsStay DEF BulkWriteDuplicate, TypeOK
<1>13. ASSUME NEW c \in Consumers, BulkWriteFails(c) PROVE TypeOK'
  <2>1. PICK n \in 0..Insertable(c) : Insert(c, n)
    BY <1>13 DEF BulkWriteFails
  <2>2. n \in 0..Len(events[c])
    BY <2>1, InsertableBound, SMTT(30) DEF TypeOK
  <2>3. stored' \subseteq Document
    BY <1>10, <1>13, <2>1, <2>2 DEF BulkWriteFails
  <2> QED
    BY <1>13, <2>3, TypeForget, TypeFault, ChainsStay DEF BulkWriteFails, TypeOK
<1>14. ASSUME NEW c \in Consumers, CommitMessages(c) PROVE TypeOK'
  BY <1>14, TypeForget, ChainsStay DEF CommitMessages, TypeOK, mongo
<1>15. ASSUME NEW c \in Consumers, CommitFails(c) PROVE TypeOK'
  BY <1>15, TypeForget, TypeFault, ChainsStay DEF CommitFails, TypeOK, mongo
<1>16. ASSUME NEW c \in Consumers, Crash(c) PROVE TypeOK'
  <2>1. ASSUME NEW d \in Consumers PROVE BatchOK(d)'
    <3>1. CASE d = c
      BY <1>16, <3>1 DEF TypeOK, Crash, Goto, BatchOK
    <3>2. CASE d # c
      BY <1>16, <3>2 DEF TypeOK, Crash, Goto, BatchOK, BatchOrg
    <3> QED
      BY <3>1, <3>2
  <2> QED
    BY <1>16, <2>1, NothingYet, ChainsStay DEF TypeOK, Crash, Goto, Fault, mongo
<1>17. CASE UNCHANGED vars
  BY <1>17, ChainsStay DEF vars, TypeOK, BatchOK, BatchOrg
<1> QED
  BY <1>1, <1>2, <1>3, <1>4, <1>5, <1>6, <1>7, <1>8, <1>9, <1>11, <1>12, <1>13, <1>14,
     <1>15, <1>16, <1>17 DEF Next, Step, Disturbance

\* Offsets, batches, chains and documents keep their types, a batch stays within
\* AUDIT_BATCH_SIZE, and a batch that reaches MongoDB has an organisation
\* (consumer.go:61-167).
THEOREM AuditTypeCorrect == Spec => []TypeOK
<1> QED
  BY TypeInit, TypeNext, PTL DEF Spec

-----------------------------------------------------------------------------
(* The inductive invariant.  A document is chained as soon as it can only  *)
(* fail to be inserted: the head refers to it or, without a key, it has    *)
(* its sequence number.                                                    *)

Pending(c) == {Doc(c, i) : i \in 1..Len(events[c])}

Chained == stored \cup UNION {Pending(c) : c \in {d \in Consumers : pc[d] = "write"}}

\* The documents of the organisations whose chain was begun once.
Settled == {d \in Chained : Sole(d.chain)}

\* The number and the hash that the next reservation gets from the first document.
Number(o) == IF head[o] = << >> THEN 0 ELSE sequence[o][1]
Tip(o) == IF head[o] = << >> THEN << >> ELSE head[o][1]

\* Settled documents have sequence numbers that were reserved, each its own ...
NumbersReserved == \A d \in Settled : d.seq < Number(d.chain)

NumbersDistinct ==
  \A d, e \in Settled : d.chain = e.chain /\ d.seq = e.seq => d = e

\* ... and hashes in the order of the numbers.
OrderAgrees ==
  keySet = "yes" => \A d, e \in Settled : d.chain = e.chain =>
    (d.seq < e.seq <=> Len(d.hash) < Len(e.hash))

\* The hash of a chained document is on the way to a head.
HashesOnChain ==
  keySet = "yes" =>
    \A d \in Chained : \E k \in DOMAIN head[d.chain] : IsPrefix(d.hash, head[d.chain][k])

Below(p, c) == startSeq[p] + Len(events[p]) <= startSeq[c]

\* A consumer that races for the head of a chain begun once has numbers of its own,
\* and if the head is still the one it read, then nobody has chained a document since:
\* its numbers are above all that are chained.  S: those it has numbers apart from.
Racing(c, S) ==
  /\ startSeq[c] + Len(events[c]) <= Number(BatchOrg(c))
  /\ Len(prevHash[c]) <= Len(Tip(BatchOrg(c)))
  /\ \A d \in Chained : d.chain = BatchOrg(c) =>
       /\ d.seq < startSeq[c] \/ d.seq >= startSeq[c] + Len(events[c])
       /\ prevHash[c] = Tip(BatchOrg(c)) => d.seq < startSeq[c]
  /\ \A p \in S \ {c} : pc[p] = "cas" /\ BatchOrg(p) = BatchOrg(c) =>
       Below(p, c) \/ Below(c, p)

\* A consumer that has reserved numbers has done so from a document.
Begun(c) == pc[c] \in {"cas", "write"} => head[BatchOrg(c)] # << >>

IInv ==
  /\ NumbersReserved /\ NumbersDistinct /\ HashesOnChain /\ OrderAgrees
  /\ \A c \in Consumers : Begun(c)
  /\ \A c \in Consumers : pc[c] = "cas" => keySet = "yes" /\ (Sole(BatchOrg(c)) => Racing(c, Consumers))

\* What is known of the chains of each organisation.
ChainFacts ==
  \A o \in Orgs :
    /\ head[o] \in Seq(Hashes) /\ Len(head[o]) \in Nat /\ DOMAIN head[o] = 1..Len(head[o])
    /\ \A k \in 1..Len(head[o]) : head[o][k] \in Hashes
    /\ Len(sequence[o]) = Len(head[o]) /\ (head[o] = << >> <=> Len(head[o]) = 0)
    /\ Number(o) \in Nat /\ Tip(o) \in Hashes /\ Len(Tip(o)) \in Nat

\* ... follows from the types.
LEMMA ChainsTyped == TypeOK => ChainFacts
<1> SUFFICES ASSUME TypeOK, NEW o \in Orgs
             PROVE  /\ head[o] \in Seq(Hashes) /\ Len(head[o]) \in Nat /\ DOMAIN head[o] = 1..Len(head[o])
                    /\ \A k \in 1..Len(head[o]) : head[o][k] \in Hashes
                    /\ Len(sequence[o]) = Len(head[o]) /\ (head[o] = << >> <=> Len(head[o]) = 0)
                    /\ Number(o) \in Nat /\ Tip(o) \in Hashes /\ Len(Tip(o)) \in Nat
  BY DEF ChainFacts
<1>1. head[o] \in Seq(Hashes) /\ sequence[o] \in Seq(Nat) /\ Len(sequence[o]) = Len(head[o])
  BY DEF TypeOK, ChainsOK
<1>2. /\ Len(head[o]) \in Nat /\ DOMAIN head[o] = 1..Len(head[o])
      /\ \A k \in 1..Len(head[o]) : head[o][k] \in Hashes
      /\ \A k \in 1..Len(head[o]) : sequence[o][k] \in Nat
      /\ (head[o] = << >> <=> Len(head[o]) = 0)
  BY <1>1
<1>3. Number(o) \in Nat
  BY <1>2 DEF Number
<1>4. Tip(o) \in Hashes
  BY <1>2, NothingYet DEF Tip
<1>5. Len(Tip(o)) \in Nat
  BY <1>4 DEF Hashes
<1> QED
  BY <1>1, <1>2, <1>3, <1>4, <1>5

\* The same of the next state.
LEMMA ChainsTypedNext == TypeOK' => ChainFacts'
  BY ChainsTyped, PTL

\* The types of chained documents.
LEMMA ChainedType == TypeOK => Chained \subseteq Document
<1> SUFFICES ASSUME TypeOK, NEW c \in Consumers, pc[c] = "write", NEW i \in 1..Len(events[c])
             PROVE  Doc(c, i) \in Document
  BY SMTT(30) DEF TypeOK, Chained, Pending
<1> QED
  BY BatchFacts, DocType

\* The fields of a document.
LEMMA DocumentFields ==
  \A d \in Document : d.chain \in Orgs /\ d.seq \in Nat /\ d.hash \in Hashes
  BY DEF Document

\* The fields of a pending document.
LEMMA DocFields ==
  \A c, i : /\ Doc(c, i).chain = BatchOrg(c) /\ Doc(c, i).seq = startSeq[c] + i - 1
            /\ Doc(c, i).hash = Hash(c, i)
  BY DEF Doc

\* The lengths of hashes are numbers.
LEMMA HashLen == \A h \in Hashes : Len(h) \in Nat
  BY DEF Hashes

\* c's batch, its numbers and the hash it read stay.
Keeps(c) ==
  /\ events'[c] = events[c] /\ startSeq'[c] = startSeq[c] /\ prevHash'[c] = prevHash[c]
  /\ keySet' = keySet

\* A batch that stays has the same documents.
LEMMA KeepsPending ==
  ASSUME NEW c \in Consumers, Keeps(c)
  PROVE  Pending(c)' = Pending(c) /\ BatchOrg(c)' = BatchOrg(c)
  BY DEF Keeps, Pending, Doc, Hash, BatchOrg

\* A step that lets nobody go to BulkWrite, and stores at most what was pending
\* there, chains nothing new.
LEMMA ChainsNothing ==
  ASSUME \A c \in Consumers : pc'[c] = "write" => pc[c] = "write" /\ Keeps(c),
         \/ stored' = stored
         \/ \E c \in Consumers : pc[c] = "write" /\ stored' \subseteq stored \cup Pending(c)
  PROVE  Chained' \subseteq Chained
<1> SUFFICES ASSUME NEW d \in Chained' PROVE d \in Chained
  OBVIOUS
<1>1. CASE d \in stored'
  BY <1>1 DEF Chained
<1>2. ASSUME NEW c \in Consumers, pc'[c] = "write", d \in Pending(c)' PROVE d \in Chained
  BY <1>2, KeepsPending DEF Chained
<1> QED
  BY <1>1, <1>2 DEF Chained

\* The tip of a chain that changes grows.
Grows(o) ==
  \/ Tip(o)' = Tip(o)
  \/ IsPrefix(Tip(o), Tip(o)') /\ Len(Tip(o)) < Len(Tip(o)')

\* The chains of an organisation only go on.
Forward(o) ==
  /\ Len(head[o]) <= Len(head'[o])
  /\ \A k \in 1..Len(head[o]) : IsPrefix(head[o][k], head'[o][k])
  /\ Sole(o)' => Number(o) <= Number(o)' /\ Grows(o)

\* A chain that was begun once was begun once before.
LEMMA SoleBefore ==
  ASSUME ChainFacts, ChainFacts', NEW o \in Orgs, Forward(o), Sole(o)'
  PROVE  Sole(o)
  BY DEF ChainFacts, Forward, Sole

\* A hash on the way to a head stays on the way to one.
LEMMA StaysOnChain ==
  ASSUME ChainFacts, ChainFacts', NEW o \in Orgs, Forward(o), NEW h \in Hashes,
         \E k \in DOMAIN head[o] : IsPrefix(h, head[o][k])
  PROVE  \E k \in DOMAIN head'[o] : IsPrefix(h, head'[o][k])
<1>1. PICK k \in DOMAIN head[o] : IsPrefix(h, head[o][k])
  OBVIOUS
<1>2. /\ DOMAIN head[o] = 1..Len(head[o]) /\ DOMAIN head'[o] = 1..Len(head'[o])
      /\ Len(head[o]) \in Nat /\ Len(head'[o]) \in Nat
  BY DEF ChainFacts
<1>3. k \in 1..Len(head[o]) /\ k \in 1..Len(head'[o])
  BY <1>1, <1>2 DEF Forward
<1>4. head[o][k] \in Hashes /\ head'[o][k] \in Hashes
  BY <1>3 DEF ChainFacts
<1>5. IsPrefix(head[o][k], head'[o][k])
  BY <1>3 DEF Forward
<1>6. IsPrefix(h, head'[o][k])
  BY <1>1, <1>4, <1>5, PrefixTransitive DEF Hashes
<1> QED
  BY <1>2, <1>3, <1>6

\* A prefix of itself.
LEMMA PrefixReflexive == \A h \in Hashes : IsPrefix(h, h)
  BY PrefixMeans DEF Hashes

\* Documents that are left alone go on.
LEMMA StaysForward ==
  ASSUME ChainFacts, NEW o \in Orgs, head'[o] = head[o], sequence'[o] = sequence[o]
  PROVE  Forward(o)
<1>1. Number(o)' = Number(o) /\ Tip(o)' = Tip(o)
  BY DEF Number, Tip
<1> QED
  BY <1>1, PrefixReflexive DEF ChainFacts, Forward, Grows

\* A step that chains nothing new and lets nobody in S race for the head keeps the
\* invariant for those in S, whatever numbers it reserves and even if it begins a chain
\* or moves a head.
LEMMA QuietFor ==
  ASSUME TypeOK, TypeOK', IInv, keySet' = keySet, Chained' \subseteq Chained,
         \A o \in Orgs : Forward(o),
         NEW S \in SUBSET Consumers,
         \A c \in S : pc'[c] \in {"cas", "write"} => pc'[c] = pc[c] /\ Keeps(c)
  PROVE  /\ NumbersReserved' /\ NumbersDistinct' /\ HashesOnChain' /\ OrderAgrees'
         /\ \A c \in S : Begun(c)'
         /\ \A c \in S : pc'[c] = "cas" => keySet' = "yes" /\ (Sole(BatchOrg(c))' => Racing(c, S)')
<1>1. \A d \in Chained : d.chain \in Orgs /\ d.seq \in Nat /\ d.hash \in Hashes
  BY ChainedType, DocumentFields
<1>2. ChainFacts /\ ChainFacts'
  BY ChainsTyped, ChainsTypedNext
<1>3. Settled' \subseteq Settled
  <2> SUFFICES ASSUME NEW d \in Chained', Sole(d.chain)' PROVE d \in Chained /\ Sole(d.chain)
    BY DEF Settled
  <2>1. d \in Chained /\ d.chain \in Orgs
    BY <1>1
  <2>2. PICK o \in Orgs : o = d.chain
    BY <2>1
  <2>3. Sole(o)'
    BY <2>2 DEF Sole
  <2> QED
    BY <1>2, <2>1, <2>2, <2>3, SoleBefore
<1>4. NumbersReserved'
  <2> SUFFICES ASSUME NEW d \in Settled', NEW o \in Orgs, o = d.chain PROVE d.seq < Number(o)'
    BY <1>1, <1>3 DEF NumbersReserved, Settled, Number
  <2>1. d.seq < Number(o) /\ d.seq \in Nat
    BY <1>1, <1>3 DEF IInv, NumbersReserved, Settled
  <2>2. Number(o) <= Number(o)' /\ Number(o) \in Nat /\ Number(o)' \in Nat
    BY <1>2 DEF Forward, ChainFacts, Settled, Sole
  <2> QED
    BY <2>1, <2>2
<1>5. NumbersDistinct' /\ OrderAgrees'
  BY <1>3 DEF IInv, NumbersDistinct, OrderAgrees
<1>6. HashesOnChain'
  <2> SUFFICES ASSUME keySet = "yes", NEW d \in Chained', NEW o \in Orgs, o = d.chain
               PROVE  \E k \in DOMAIN head'[o] : IsPrefix(d.hash, head'[o][k])
    BY <1>1 DEF HashesOnChain
  <2>1. d.hash \in Hashes /\ \E k \in DOMAIN head[o] : IsPrefix(d.hash, head[o][k])
    BY <1>1 DEF IInv, HashesOnChain
  <2> QED
    BY <1>2, <2>1, StaysOnChain
<1>7. ASSUME NEW c \in S PROVE Begun(c)'
  <2> SUFFICES ASSUME pc'[c] \in {"cas", "write"} PROVE head'[BatchOrg(c)'] # << >>
    BY DEF Begun
  <2>1. pc[c] \in {"cas", "write"} /\ Keeps(c)
    OBVIOUS
  <2>2. BatchOrg(c)' = BatchOrg(c) /\ BatchOrg(c) \in Orgs /\ head[BatchOrg(c)] # << >>
    BY <2>1, KeepsPending, BatchFacts DEF IInv, Begun
  <2>3. PICK o \in Orgs : o = BatchOrg(c)
    BY <2>2
  <2>4. Len(head[o]) <= Len(head'[o]) /\ head[o] # << >>
    BY <2>2, <2>3 DEF Forward
  <2>5. head'[o] # << >>
    BY <1>2, <2>4 DEF ChainFacts
  <2> QED
    BY <2>2, <2>3, <2>5
<1>8. ASSUME NEW c \in S, pc'[c] = "cas", Sole(BatchOrg(c))' PROVE Racing(c, S)'
  <2>1. Keeps(c) /\ pc[c] = "cas" /\ BatchOrg(c)' = BatchOrg(c) /\ BatchOrg(c) \in Orgs
    BY <1>8, KeepsPending, BatchFacts
  <2>2. PICK o \in Orgs : o = BatchOrg(c)
    BY <2>1
  <2>3. Sole(o)'
    BY <1>8, <2>1, <2>2 DEF Sole
  <2>4. Racing(c, Consumers)
    <3>1. Sole(o)
      BY <1>2, <2>3, SoleBefore
    <3> QED
      BY <2>1, <2>2, <3>1 DEF IInv
  <2>5. /\ startSeq[c] \in Nat /\ Len(events[c]) \in Nat /\ prevHash[c] \in Hashes
        /\ Len(prevHash[c]) \in Nat
    BY BatchFacts, HashLen DEF TypeOK
  <2>6. /\ Grows(o) /\ Number(o) <= Number(o)' /\ Number(o) \in Nat /\ Number(o)' \in Nat
        /\ Len(Tip(o)) \in Nat /\ Len(Tip(o)') \in Nat
    BY <1>2, <2>3 DEF Forward, ChainFacts
  <2>7. events'[c] = events[c] /\ startSeq'[c] = startSeq[c] /\ prevHash'[c] = prevHash[c]
    BY <2>1 DEF Keeps
  <2>8. /\ startSeq[c] + Len(events[c]) <= Number(o)'
        /\ Len(prevHash[c]) <= Len(Tip(o)')
        /\ prevHash[c] = Tip(o)' => Tip(o)' = Tip(o)
    <3>1. startSeq[c] + Len(events[c]) <= Number(o) /\ Len(prevHash[c]) <= Len(Tip(o))
      BY <2>2, <2>4 DEF Racing
    <3> QED
      BY <2>5, <2>6, <3>1 DEF Grows
  <2>9. ASSUME NEW d \in Chained', d.chain = o
        PROVE  /\ d.seq < startSeq[c] \/ d.seq >= startSeq[c] + Len(events[c])
               /\ prevHash[c] = Tip(o)' => d.seq < startSeq[c]
    BY <2>2, <2>4, <2>8, <2>9 DEF Racing
  <2>10. ASSUME NEW p \in S \ {c}, pc'[p] = "cas", BatchOrg(p)' = BatchOrg(c)'
        PROVE  Below(p, c)' \/ Below(c, p)'
    <3>1. pc[p] = "cas" /\ Keeps(p) /\ BatchOrg(p)' = BatchOrg(p)
      BY <2>10, KeepsPending
    <3>2. Below(p, c) \/ Below(c, p)
      BY <2>1, <2>4, <2>10, <3>1 DEF Racing
    <3> QED
      BY <2>1, <3>1, <3>2 DEF Below, Keeps
  <2>11. Number(BatchOrg(c))' = Number(o)' /\ Tip(BatchOrg(c))' = Tip(o)' /\ BatchOrg(c)' = o
    BY <2>1, <2>2 DEF Number, Tip
  <2> QED
    BY <2>7, <2>8, <2>9, <2>10, <2>11 DEF Racing
<1>9. ASSUME NEW c \in S, pc'[c] = "cas" PROVE keySet' = "yes"
  BY <1>9 DEF IInv
<1> QED
  BY <1>4, <1>5, <1>6, <1>7, <1>8, <1>9

\* ... and for everyone, if it lets nobody at all race for the head.
LEMMA QuietStep ==
  ASSUME TypeOK, TypeOK', IInv, keySet' = keySet, Chained' \subseteq Chained,
         \A o \in Orgs : Forward(o),
         \A c \in Consumers : pc'[c] \in {"cas", "write"} => pc'[c] = pc[c] /\ Keeps(c)
  PROVE  IInv'
<1>1. /\ NumbersReserved' /\ NumbersDistinct' /\ HashesOnChain' /\ OrderAgrees'
      /\ \A c \in Consumers : Begun(c)'
      /\ \A c \in Consumers : pc'[c] = "cas" => keySet' = "yes" /\ (Sole(BatchOrg(c))' => Racing(c, Consumers)')
  BY QuietFor
<1> QED
  BY <1>1 DEF IInv

\* The hash of a whole batch is longer than the hash it extends.
LEMMA BatchHash ==
  ASSUME TypeOK, NEW c \in Consumers, pc[c] = "cas", keySet = "yes"
  PROVE  /\ Len(Hash(c, Len(events[c]))) = Len(prevHash[c]) + Len(events[c])
         /\ Len(prevHash[c]) < Len(Hash(c, Len(events[c])))
         /\ IsPrefix(prevHash[c], Hash(c, Len(events[c])))
<1> DEFINE n == Len(events[c])
<1>1. n \in 0..n /\ n > 0 /\ n \in Nat
  BY BatchFacts
<1>2. Len(prevHash[c]) \in Nat
  BY HashLen DEF TypeOK
<1>3. Len(Hash(c, n)) = Len(prevHash[c]) + n /\ IsPrefix(prevHash[c], Hash(c, n))
  BY <1>1, HashExtends
<1> HIDE DEF n
<1>4. Len(prevHash[c]) < Len(Hash(c, n))
  BY <1>1, <1>2, <1>3
<1> QED
  BY <1>3, <1>4 DEF n

\* The hash of the batch becomes a head: a head grows.
LEMMA SwingForward ==
  ASSUME TypeOK, TypeOK', NEW c \in Consumers, pc[c] = "cas", keySet = "yes",
         NEW k \in Matching(c), SwingHead(c, k), sequence' = sequence, NEW o \in Orgs, o = BatchOrg(c)
  PROVE  /\ \A q \in Orgs : Forward(q)
         /\ k \in DOMAIN head[o] /\ k \in DOMAIN head'[o] /\ head[o][k] = prevHash[c]
         /\ head'[o][k] = Hash(c, Len(events[c])) /\ Len(head'[o]) = Len(head[o])
         /\ \A q \in Orgs : q # o => head'[q] = head[q]
         /\ \A q \in Orgs : Number(q)' = Number(q) /\ (Sole(q)' <=> Sole(q))
         /\ Sole(o) => k = 1 /\ Tip(o) = prevHash[c] /\ Tip(o)' = Hash(c, Len(events[c]))
<1>1. ChainFacts /\ ChainFacts' /\ ChainsOK
  BY ChainsTyped, ChainsTypedNext DEF TypeOK
<1>2. k \in DOMAIN head[o] /\ head[o][k] = prevHash[c]
  BY DEF Matching
<1>3. /\ \A q \in Orgs : q # o => head'[q] = head[q]
      /\ Len(head'[o]) = Len(head[o]) /\ head'[o][k] = Hash(c, Len(events[c]))
      /\ \A j \in 1..Len(head[o]) : j # k => head'[o][j] = head[o][j]
  <2>1. Hash(c, Len(events[c])) \in Hashes
    BY BatchHashType
  <2> QED
    BY <1>1, <1>2, <2>1, SwingEffect
<1>4. /\ DOMAIN head[o] = 1..Len(head[o]) /\ DOMAIN head'[o] = 1..Len(head'[o]) /\ Len(head[o]) \in Nat
      /\ head[o] # << >> /\ head'[o] # << >>
  BY <1>1, <1>2, <1>3 DEF ChainFacts
<1>5. /\ IsPrefix(prevHash[c], Hash(c, Len(events[c])))
      /\ Len(prevHash[c]) < Len(Hash(c, Len(events[c])))
  BY BatchHash
<1>6. Sole(o) => k = 1 /\ Tip(o) = prevHash[c] /\ Tip(o)' = Hash(c, Len(events[c]))
  <2> SUFFICES ASSUME Sole(o) PROVE k = 1 /\ Tip(o) = prevHash[c] /\ Tip(o)' = Hash(c, Len(events[c]))
    OBVIOUS
  <2>1. k = 1
    BY <1>2, <1>4 DEF Sole
  <2> QED
    BY <1>2, <1>3, <1>4, <2>1 DEF Tip
<1>7. ASSUME NEW q \in Orgs PROVE Number(q)' = Number(q) /\ (Sole(q)' <=> Sole(q))
  BY <1>3, <1>4 DEF Number, Sole
<1>8. Forward(o)
  <2>1. ASSUME NEW j \in 1..Len(head[o]) PROVE IsPrefix(head[o][j], head'[o][j])
    <3>1. CASE j = k
      BY <1>2, <1>3, <1>5, <3>1
    <3>2. CASE j # k
      BY <1>1, <1>3, <3>2, PrefixReflexive DEF ChainFacts
    <3> QED
      BY <3>1, <3>2
  <2>2. Sole(o)' => Grows(o)
    BY <1>5, <1>6, <1>7 DEF Grows
  <2>3. Number(o) <= Number(o)'
    BY <1>1, <1>7 DEF ChainFacts
  <2> QED
    BY <1>3, <1>4, <2>1, <2>2, <2>3 DEF Forward
<1>9. ASSUME NEW q \in Orgs, q # o PROVE Forward(q)
  BY <1>1, <1>3, <1>9, StaysForward
<1>10. k \in DOMAIN head'[o]
  BY <1>2, <1>3, <1>4
<1> QED
  BY <1>2, <1>3, <1>6, <1>7, <1>8, <1>9, <1>10

\* A consumer that wins the race chains its batch behind everything that is
\* chained, with numbers above all theirs if the chain was begun once.
LEMMA WonRace ==
  ASSUME TypeOK, TypeOK', IInv, NEW c \in Consumers, UpdateHashChainCAS(c),
         NEW k \in Matching(c), SwingHead(c, k), Goto(c, "write"),
         UNCHANGED <<events, startSeq, prevHash>>
  PROVE  IInv'
<1> DEFINE n == Len(events[c])
<1>1. /\ pc[c] = "cas" /\ keySet = "yes" /\ keySet' = keySet /\ stored' = stored /\ sequence' = sequence
      /\ BatchOrg(c) \in Orgs
  BY BatchFacts DEF IInv, UpdateHashChainCAS
<1>2. PICK o \in Orgs : o = BatchOrg(c)
  BY <1>1
<1>3. n \in Nat /\ n > 0 /\ startSeq[c] \in Nat /\ Len(prevHash[c]) \in Nat
  BY <1>1, BatchFacts, HashLen DEF TypeOK
<1>4. ChainFacts /\ ChainFacts'
  BY ChainsTyped, ChainsTypedNext
<1>5. /\ \A q \in Orgs : Forward(q)
      /\ k \in DOMAIN head'[o] /\ head'[o][k] = Hash(c, n)
      /\ \A q \in Orgs : q # o => head'[q] = head[q]
      /\ \A q \in Orgs : Number(q)' = Number(q) /\ (Sole(q)' <=> Sole(q))
      /\ Sole(o) => Tip(o) = prevHash[c] /\ Tip(o)' = Hash(c, n)
  BY <1>1, <1>2, SwingForward
<1>6. Sole(o) => Racing(c, Consumers)
  BY <1>1, <1>2 DEF IInv
<1>7. \A p \in Consumers : Keeps(p)
  BY <1>1 DEF Keeps
<1>8. pc'[c] = "write" /\ \A p \in Consumers : p # c => pc'[p] = pc[p]
  BY DEF Goto, TypeOK
<1>9. Chained' \subseteq Chained \cup Pending(c)
  <2> SUFFICES ASSUME NEW d \in Chained' PROVE d \in Chained \cup Pending(c)
    OBVIOUS
  <2>1. CASE d \in stored'
    BY <1>1, <2>1 DEF Chained
  <2>2. ASSUME NEW p \in Consumers, pc'[p] = "write", d \in Pending(p)'
        PROVE  d \in Chained \cup Pending(c)
    <3>1. p = c \/ pc[p] = "write"
      BY <1>8, <2>2
    <3>2. d \in Pending(p)
      BY <1>7, <2>2, KeepsPending
    <3> QED
      BY <3>1, <3>2 DEF Chained
  <2> QED
    BY <2>1, <2>2 DEF Chained
<1>10. ASSUME NEW d \in Chained
      PROVE  d.chain \in Orgs /\ d.seq \in Nat /\ d.hash \in Hashes /\ Len(d.hash) \in Nat
  BY ChainedType, DocumentFields, HashLen
<1>11. ASSUME Sole(o), NEW d \in Chained, d.chain = o
       PROVE  d.seq < startSeq[c] /\ Len(d.hash) <= Len(prevHash[c])
  <2>1. d.seq < startSeq[c]
    BY <1>2, <1>5, <1>6, <1>11 DEF Racing
  <2>2. PICK j \in DOMAIN head[o] : IsPrefix(d.hash, head[o][j])
    BY <1>1, <1>11 DEF IInv, HashesOnChain
  <2>3. head[o][j] = Tip(o)
    <3>1. j \in 1..Len(head[o]) /\ Len(head[o]) \in Nat /\ head[o] # << >>
      BY <1>4, <2>2 DEF ChainFacts
    <3>2. j = 1
      BY <1>11, <3>1 DEF Sole
    <3> QED
      BY <3>1, <3>2 DEF Tip
  <2> QED
    BY <1>5, <1>11, <2>1, <2>2, <2>3 DEF IsPrefix
<1>12. ASSUME NEW d \in Pending(c)
      PROVE  /\ d.chain = o /\ d.hash \in Hashes
             /\ \E i \in 1..n : /\ d = Doc(c, i) /\ d.seq = startSeq[c] + i - 1
                                /\ Len(d.hash) = Len(prevHash[c]) + i
             /\ IsPrefix(d.hash, head'[o][k])
  <2>1. PICK i \in 1..n : d = Doc(c, i)
    BY <1>12 DEF Pending
  <2>2. d.chain = o /\ d.seq = startSeq[c] + i - 1 /\ d.hash = Hash(c, i)
    BY <1>2, <2>1, DocFields
  <2>3. Len(Hash(c, i)) = Len(prevHash[c]) + i /\ IsPrefix(Hash(c, i), Hash(c, n)) /\ Hash(c, i) \in Hashes
    BY <1>1, <1>3, <2>1, HashExtends
  <2> QED
    BY <1>5, <2>1, <2>2, <2>3
<1>13. ASSUME NEW d \in Settled'
       PROVE  /\ d \in Settled \/ (d \in Pending(c) /\ Sole(o))
              /\ d.chain \in Orgs /\ Sole(d.chain)
              /\ d.chain = o => Sole(o)
  <2>1. d \in Chained \cup Pending(c) /\ Len(head'[d.chain]) <= 1
    BY <1>9, <1>13 DEF Settled, Sole
  <2>2. d.chain \in Orgs
    BY <1>10, <1>12, <2>1
  <2>3. Sole(d.chain)
    <3>1. PICK q \in Orgs : q = d.chain
      BY <2>2
    <3>2. Sole(q)'
      BY <2>1, <3>1 DEF Sole
    <3> QED
      BY <1>5, <3>1, <3>2
  <2> QED
    BY <1>12, <2>1, <2>2, <2>3 DEF Settled
<1>14. NumbersReserved'
  <2> SUFFICES ASSUME NEW d \in Settled', NEW q \in Orgs, q = d.chain PROVE d.seq < Number(q)
    BY <1>5, <1>13 DEF NumbersReserved, Number
  <2>1. CASE d \in Settled
    BY <2>1 DEF IInv, NumbersReserved
  <2>2. CASE d \in Pending(c) /\ Sole(o)
    <3>1. PICK i \in 1..n : d.seq = startSeq[c] + i - 1
      BY <1>12, <2>2
    <3>2. startSeq[c] + n <= Number(o) /\ Number(o) \in Nat /\ q = o
      BY <1>2, <1>4, <1>6, <1>12, <2>2 DEF Racing, ChainFacts
    <3> QED
      BY <1>3, <3>1, <3>2
  <2> QED
    BY <1>13, <2>1, <2>2
<1>15. NumbersDistinct' /\ OrderAgrees'
  <2> SUFFICES ASSUME NEW d \in Settled', NEW e \in Settled', d.chain = e.chain
               PROVE  /\ d.seq = e.seq => d = e
                      /\ d.seq < e.seq <=> Len(d.hash) < Len(e.hash)
    BY DEF NumbersDistinct, OrderAgrees
  <2>1. CASE d \in Settled /\ e \in Settled
    BY <1>1, <2>1 DEF IInv, NumbersDistinct, OrderAgrees
  <2>2. CASE d \in Pending(c) /\ e \in Pending(c)
    BY <1>3, <1>12, <2>2
  <2>3. CASE d \in Settled /\ e \in Pending(c)
    <3>1. d \in Chained /\ d.chain = o /\ Sole(o)
      BY <1>12, <1>13, <2>3 DEF Settled
    <3>2. d.seq < startSeq[c] /\ Len(d.hash) <= Len(prevHash[c]) /\ d.seq \in Nat /\ Len(d.hash) \in Nat
      BY <1>10, <1>11, <3>1
    <3> QED
      BY <1>3, <1>12, <2>3, <3>2
  <2>4. CASE d \in Pending(c) /\ e \in Settled
    <3>1. e \in Chained /\ e.chain = o /\ Sole(o)
      BY <1>12, <1>13, <2>4 DEF Settled
    <3>2. e.seq < startSeq[c] /\ Len(e.hash) <= Len(prevHash[c]) /\ e.seq \in Nat /\ Len(e.hash) \in Nat
      BY <1>10, <1>11, <3>1
    <3>3. PICK i \in 1..n : d.seq = startSeq[c] + i - 1 /\ Len(d.hash) = Len(prevHash[c]) + i
      BY <1>12, <2>4
    <3> QED
      BY <1>3, <3>2, <3>3
  <2> QED
    BY <1>13, <2>1, <2>2, <2>3, <2>4
<1>16. HashesOnChain'
  <2> SUFFICES ASSUME NEW d \in Chained \cup Pending(c), NEW q \in Orgs, q = d.chain
               PROVE  \E j \in DOMAIN head'[q] : IsPrefix(d.hash, head'[q][j])
    BY <1>9, <1>10, <1>12 DEF HashesOnChain
  <2>1. CASE d \in Chained
    <3>1. d.hash \in Hashes /\ \E j \in DOMAIN head[q] : IsPrefix(d.hash, head[q][j])
      BY <1>1, <1>10, <2>1 DEF IInv, HashesOnChain
    <3> QED
      BY <1>4, <1>5, <3>1, StaysOnChain
  <2>2. CASE d \in Pending(c)
    BY <1>5, <1>12, <2>2
  <2> QED
    BY <2>1, <2>2
<1>17. ASSUME NEW p \in Consumers PROVE Begun(p)'
  <2> SUFFICES ASSUME pc'[p] \in {"cas", "write"} PROVE head'[BatchOrg(p)'] # << >>
    BY DEF Begun
  <2>1. pc[p] \in {"cas", "write"}
    BY <1>1, <1>8
  <2>2. BatchOrg(p)' = BatchOrg(p) /\ BatchOrg(p) \in Orgs /\ head[BatchOrg(p)] # << >>
    BY <1>7, <2>1, KeepsPending, BatchFacts DEF IInv, Begun
  <2>3. PICK q \in Orgs : q = BatchOrg(p)
    BY <2>2
  <2>4. Len(head[q]) <= Len(head'[q]) /\ head[q] # << >>
    BY <1>5, <2>2, <2>3 DEF Forward
  <2>5. head'[q] # << >>
    BY <1>4, <2>4 DEF ChainFacts
  <2> QED
    BY <2>2, <2>3, <2>5
<1>18. ASSUME NEW p \in Consumers, pc'[p] = "cas", Sole(BatchOrg(p))' PROVE Racing(p, Consumers)'
  <2>1. p # c /\ pc[p] = "cas" /\ Keeps(p) /\ BatchOrg(p)' = BatchOrg(p) /\ BatchOrg(p) \in Orgs
    BY <1>7, <1>8, <1>18, KeepsPending, BatchFacts
  <2>2. PICK q \in Orgs : q = BatchOrg(p)
    BY <2>1
  <2>3. Sole(q) /\ Sole(q)' /\ Racing(p, Consumers)
    <3>1. Sole(q)'
      BY <1>18, <2>1, <2>2 DEF Sole
    <3>2. Sole(q)
      BY <1>5, <3>1
    <3> QED
      BY <2>1, <2>2, <3>1, <3>2 DEF IInv
  <2>4. /\ startSeq[p] \in Nat /\ Len(events[p]) \in Nat /\ Len(prevHash[p]) \in Nat
        /\ Len(Tip(q)) \in Nat /\ Len(Tip(q)') \in Nat /\ Number(q)' = Number(q) /\ Grows(q)
    BY <1>4, <1>5, <2>3, BatchFacts, HashLen DEF TypeOK, ChainFacts, Forward
  <2>5. startSeq'[p] = startSeq[p] /\ events'[p] = events[p] /\ prevHash'[p] = prevHash[p]
    BY <2>1 DEF Keeps
  <2>6. /\ startSeq[p] + Len(events[p]) <= Number(q)' /\ Len(prevHash[p]) <= Len(Tip(q)')
        /\ prevHash[p] = Tip(q)' => Tip(q)' = Tip(q)
    <3>1. startSeq[p] + Len(events[p]) <= Number(q) /\ Len(prevHash[p]) <= Len(Tip(q))
      BY <2>2, <2>3 DEF Racing
    <3> QED
      BY <2>4, <3>1 DEF Grows
  <2>7. q = o => Tip(q)' # prevHash[p]
    <3> SUFFICES ASSUME q = o PROVE Tip(o)' # prevHash[p]
      OBVIOUS
    <3>1. Len(prevHash[p]) <= Len(prevHash[c])
      BY <1>5, <2>2, <2>3 DEF Racing
    <3>2. Len(prevHash[c]) < Len(Tip(o)')
      BY <1>1, <1>5, <2>3, BatchHash
    <3> QED
      BY <1>3, <2>4, <3>1, <3>2
  <2>8. ASSUME NEW d \in Chained \cup Pending(c), d.chain = q
        PROVE  /\ d.seq < startSeq[p] \/ d.seq >= startSeq[p] + Len(events[p])
               /\ prevHash[p] = Tip(q)' => d.seq < startSeq[p]
    <3>1. CASE d \in Chained
      BY <2>2, <2>3, <2>6, <2>8, <3>1 DEF Racing
    <3>2. CASE d \in Pending(c)
      <4>1. q = o /\ \E i \in 1..n : d.seq = startSeq[c] + i - 1
        BY <1>12, <2>8, <3>2
      <4>2. Below(p, c) \/ Below(c, p)
        BY <1>1, <1>2, <2>1, <2>2, <2>3, <4>1 DEF Racing
      <4> QED
        BY <1>3, <2>4, <2>7, <4>1, <4>2 DEF Below
    <3> QED
      BY <2>8, <3>1, <3>2
  <2>9. ASSUME NEW e \in Consumers \ {p}, pc'[e] = "cas", BatchOrg(e)' = BatchOrg(p)'
        PROVE  Below(e, p)' \/ Below(p, e)'
    <3>1. pc[e] = "cas" /\ Keeps(e) /\ BatchOrg(e)' = BatchOrg(e)
      BY <1>7, <1>8, <2>9, KeepsPending
    <3>2. Below(e, p) \/ Below(p, e)
      BY <2>1, <2>3, <2>9, <3>1 DEF Racing
    <3> QED
      BY <2>1, <3>1, <3>2 DEF Below, Keeps
  <2>10. Number(BatchOrg(p))' = Number(q)' /\ Tip(BatchOrg(p))' = Tip(q)' /\ BatchOrg(p)' = q
    BY <2>1, <2>2 DEF Number, Tip
  <2> QED
    BY <1>9, <2>5, <2>6, <2>8, <2>9, <2>10 DEF Racing
<1> QED
  BY <1>1, <1>14, <1>15, <1>16, <1>17, <1>18 DEF IInv

\* A reservation is made for one consumer and leaves the others as they are.
LEMMA ReserveKeeps ==
  ASSUME TypeOK, NEW c \in Consumers, ReserveSequence(c) \/ ReserveInsert(c)
  PROVE  /\ pc'[c] = IF keySet = "yes" THEN "cas" ELSE "write"
         /\ events' = events /\ stored' = stored /\ keySet' = keySet
         /\ \A p \in Consumers : p # c => Keeps(p) /\ pc'[p] = pc[p]
<1>1. PICK number, hash : Reserved(c, number, hash)
  BY DEF ReserveSequence, ReserveInsert
<1> QED
  BY <1>1 DEF TypeOK, Reserved, Keeps, Goto

\* A document whose numbers are reserved goes on, also if nobody gets to know of it ...
LEMMA IncrementForward ==
  ASSUME ChainFacts, ChainFacts', ChainsOK, NEW c \in Consumers, NEW o \in Orgs, o = BatchOrg(c),
         NEW n \in Nat, n = Len(events[c]), NEW k \in DOMAIN head[o], Increment(c, k), head' = head
  PROVE  \A q \in Orgs : Forward(q)
<1>1. /\ \A q \in Orgs : q # o => sequence'[q] = sequence[q]
      /\ sequence'[o][k] = sequence[o][k] + n
  BY IncrementEffect
<1>2. /\ Len(head[o]) \in Nat /\ DOMAIN head[o] = 1..Len(head[o]) /\ Number(o) \in Nat
      /\ \A j \in 1..Len(head[o]) : head[o][j] \in Hashes
      /\ (head[o] = << >> <=> Len(head[o]) = 0)
  BY DEF ChainFacts
<1>3. Tip(o)' = Tip(o)
  BY DEF Tip
<1>4. Sole(o)' => Number(o) <= Number(o)'
  <2> SUFFICES ASSUME Sole(o)' PROVE Number(o) <= Number(o)'
    OBVIOUS
  <2>1. k = 1 /\ head[o] # << >>
    BY <1>2 DEF Sole
  <2>2. Number(o)' = Number(o) + n
    BY <1>1, <2>1 DEF Number
  <2> QED
    BY <1>2, <2>2
<1>5. Forward(o)
  BY <1>2, <1>3, <1>4, PrefixReflexive DEF Forward, Grows
<1> QED
  BY <1>1, <1>5, StaysForward

\* ... and so do the documents of an organisation that gets another one.
LEMMA BeginForward ==
  ASSUME ChainFacts, ChainFacts', ChainsOK, NEW c \in Consumers, NEW o \in Orgs, o = BatchOrg(c),
         NEW n \in Nat, n = Len(events[c]), Begin(c)
  PROVE  \A q \in Orgs : Forward(q)
<1>1. /\ \A q \in Orgs : q # o => sequence'[q] = sequence[q] /\ head'[q] = head[q]
      /\ head'[o] = Append(head[o], << >>)
  BY BeginEffect
<1>2. /\ Len(head'[o]) = Len(head[o]) + 1 /\ head'[o][Len(head[o]) + 1] = << >>
      /\ \A k \in 1..Len(head[o]) : head'[o][k] = head[o][k]
  BY <1>1 DEF ChainsOK
<1>3. /\ Len(head[o]) \in Nat /\ Number(o) \in Nat /\ Number(o)' \in Nat
      /\ \A k \in 1..Len(head[o]) : head[o][k] \in Hashes
      /\ (head[o] = << >> <=> Len(head[o]) = 0) /\ (head'[o] = << >> <=> Len(head'[o]) = 0)
  BY DEF ChainFacts
<1>4. Sole(o)' => Number(o) <= Number(o)' /\ Tip(o)' = Tip(o)
  <2> SUFFICES ASSUME Sole(o)' PROVE Number(o) <= Number(o)' /\ Tip(o)' = Tip(o)
    OBVIOUS
  <2>1. Len(head[o]) = 0 /\ head[o] = << >> /\ head'[o] # << >>
    BY <1>2, <1>3 DEF Sole
  <2>2. Number(o) = 0 /\ Tip(o) = << >> /\ Tip(o)' = << >>
    BY <1>2, <2>1 DEF Number, Tip
  <2> QED
    BY <1>3, <2>2
<1>5. Forward(o)
  BY <1>2, <1>3, <1>4, PrefixReflexive DEF Forward, Grows
<1> QED
  BY <1>1, <1>5, StaysForward

\* What a consumer has reserved of a chain that was begun once: the next numbers, with
\* the hash the chain has come to.
LEMMA ReserveEffect ==
  ASSUME TypeOK, TypeOK', NEW c \in Consumers, ReserveSequence(c) \/ ReserveInsert(c),
         NEW o \in Orgs, o = BatchOrg(c), NEW n \in Nat, n = Len(events[c])
  PROVE  /\ \A q \in Orgs : Forward(q)
         /\ head'[o] # << >>
         /\ Sole(o)' => /\ startSeq'[c] = Number(o) /\ prevHash'[c] = Tip(o)
                        /\ Number(o)' = Number(o) + n /\ Tip(o)' = Tip(o)
<1>1. ChainFacts /\ ChainFacts' /\ ChainsOK
  BY ChainsTyped, ChainsTypedNext DEF TypeOK
<1>2. /\ Len(head[o]) \in Nat /\ DOMAIN head[o] = 1..Len(head[o]) /\ Number(o) \in Nat
      /\ (head[o] = << >> <=> Len(head[o]) = 0) /\ (head'[o] = << >> <=> Len(head'[o]) = 0)
      /\ \A k \in 1..Len(head[o]) : head[o][k] \in Hashes
      /\ Len(sequence[o]) = Len(head[o])
  BY <1>1 DEF ChainFacts
<1>3. CASE ReserveSequence(c)
  <2>1. PICK k \in DOMAIN head[o] : Increment(c, k) /\ Reserved(c, sequence[o][k], head[o][k])
    BY <1>3 DEF ReserveSequence
  <2>2. head' = head
    BY <1>3 DEF ReserveSequence
  <2>3. sequence'[o][k] = sequence[o][k] + n
    BY <1>1, <2>1, <2>2, IncrementEffect
  <2>4. head[o] # << >>
    BY <1>2, <2>1
  <2>5. startSeq'[c] = sequence[o][k] /\ prevHash'[c] = head[o][k]
    BY <2>1 DEF Reserved, TypeOK
  <2>6. Sole(o)' => k = 1
    BY <1>2, <2>1, <2>2 DEF Sole
  <2>7. Sole(o)' => /\ startSeq'[c] = Number(o) /\ prevHash'[c] = Tip(o)
                    /\ Number(o)' = Number(o) + n /\ Tip(o)' = Tip(o)
    BY <2>2, <2>3, <2>4, <2>5, <2>6 DEF Number, Tip
  <2>8. \A q \in Orgs : Forward(q)
    BY <1>1, <2>1, <2>2, IncrementForward
  <2> QED
    BY <2>2, <2>4, <2>7, <2>8
<1>4. CASE ReserveInsert(c)
  <2>1. Begin(c) /\ Reserved(c, 0, << >>)
    BY <1>4 DEF ReserveInsert
  <2>2. sequence'[o] = Append(sequence[o], n) /\ head'[o] = Append(head[o], << >>)
    BY <1>1, <2>1, BeginEffect
  <2>3. /\ Len(head'[o]) = Len(head[o]) + 1 /\ head'[o][Len(head[o]) + 1] = << >>
        /\ sequence'[o][Len(head[o]) + 1] = n
    BY <1>1, <2>2 DEF ChainsOK
  <2>4. startSeq'[c] = 0 /\ prevHash'[c] = << >>
    BY <2>1 DEF Reserved, TypeOK
  <2>5. Sole(o)' => Len(head[o]) = 0
    BY <1>2, <2>3 DEF Sole
  <2>6. head'[o] # << >>
    BY <1>2, <2>3
  <2>7. Sole(o)' => /\ startSeq'[c] = Number(o) /\ prevHash'[c] = Tip(o)
                    /\ Number(o)' = Number(o) + n /\ Tip(o)' = Tip(o)
    BY <1>2, <2>3, <2>4, <2>5, <2>6 DEF Number, Tip
  <2>8. \A q \in Orgs : Forward(q)
    BY <1>1, <2>1, BeginForward
  <2> QED
    BY <2>6, <2>7, <2>8
<1> QED
  BY <1>3, <1>4

\* With a key: the numbers that a consumer reserves of a chain begun once are above all
\* that are chained and all that others hold, and it has read the head.
LEMMA ReserveRacing ==
  ASSUME TypeOK, TypeOK', IInv, NEW c \in Consumers, ReserveSequence(c) \/ ReserveInsert(c),
         keySet = "yes"
  PROVE  IInv'
<1> DEFINE n == Len(events[c])
           S == Consumers \ {c}
<1>1. /\ pc[c] \in {"reserve", "upsert"} /\ pc'[c] = "cas" /\ keySet' = keySet /\ stored' = stored
      /\ events' = events /\ BatchOrg(c)' = BatchOrg(c)
      /\ \A p \in S : Keeps(p) /\ pc'[p] = pc[p]
  BY ReserveKeeps DEF ReserveSequence, ReserveInsert, BatchOrg
<1>2. BatchOrg(c) \in Orgs /\ n \in Nat /\ n > 0
  BY <1>1, BatchFacts
<1>3. PICK o \in Orgs : o = BatchOrg(c)
  BY <1>2
<1>4. /\ \A q \in Orgs : Forward(q)
      /\ head'[o] # << >>
      /\ Sole(o)' => /\ startSeq'[c] = Number(o) /\ prevHash'[c] = Tip(o)
                     /\ Number(o)' = Number(o) + n /\ Tip(o)' = Tip(o)
  BY <1>2, <1>3, ReserveEffect
<1>5. ChainFacts /\ ChainFacts'
  BY ChainsTyped, ChainsTypedNext
<1>6. Chained' \subseteq Chained
  <2>1. \A p \in Consumers : pc'[p] = "write" => pc[p] = "write" /\ Keeps(p)
    BY <1>1
  <2> QED
    BY <1>1, <2>1, ChainsNothing
<1>7. /\ NumbersReserved' /\ NumbersDistinct' /\ HashesOnChain' /\ OrderAgrees'
      /\ \A p \in S : Begun(p)'
      /\ \A p \in S : pc'[p] = "cas" => keySet' = "yes" /\ (Sole(BatchOrg(p))' => Racing(p, S)')
  BY <1>1, <1>4, <1>6, QuietFor
<1>8. Begun(c)'
  BY <1>1, <1>3, <1>4 DEF Begun
<1>9. ASSUME NEW p \in S, pc'[p] = "cas", BatchOrg(p)' = o, Sole(o)' PROVE Below(p, c)'
  <2>1. pc[p] = "cas" /\ Keeps(p) /\ BatchOrg(p) = o
    BY <1>1, <1>9, KeepsPending
  <2>2. Sole(o)
    BY <1>4, <1>5, <1>9, SoleBefore
  <2>3. startSeq[p] + Len(events[p]) <= Number(o)
    BY <2>1, <2>2 DEF IInv, Racing
  <2>4. startSeq'[p] = startSeq[p] /\ events'[p] = events[p]
    BY <2>1 DEF Keeps
  <2> QED
    BY <1>4, <1>9, <2>3, <2>4 DEF Below
<1>10. ASSUME Sole(o)' PROVE Racing(c, Consumers)'
  <2>1. /\ startSeq'[c] = Number(o) /\ prevHash'[c] = Tip(o)
        /\ Number(o)' = Number(o) + n /\ Tip(o)' = Tip(o)
    BY <1>4, <1>10
  <2>2. Sole(o) /\ Len(Tip(o)) \in Nat /\ Number(o) \in Nat
    BY <1>4, <1>5, <1>10, SoleBefore DEF ChainFacts
  <2>3. ASSUME NEW d \in Chained', d.chain = o PROVE d.seq < startSeq'[c]
    <3>1. d \in Settled
      BY <1>6, <2>2, <2>3 DEF Settled
    <3> QED
      BY <2>1, <2>3, <3>1 DEF IInv, NumbersReserved
  <2>4. startSeq'[c] + Len(events'[c]) <= Number(o)' /\ Len(prevHash'[c]) <= Len(Tip(o)')
    BY <1>1, <1>2, <2>1, <2>2
  <2>5. \A p \in Consumers \ {c} : pc'[p] = "cas" /\ BatchOrg(p)' = o => Below(p, c)'
    BY <1>9, <1>10
  <2>6. Number(BatchOrg(c))' = Number(o)' /\ Tip(BatchOrg(c))' = Tip(o)' /\ BatchOrg(c)' = o
    BY <1>1, <1>3 DEF Number, Tip
  <2> QED
    BY <2>3, <2>4, <2>5, <2>6 DEF Racing
<1>11. ASSUME NEW p \in S, pc'[p] = "cas", Sole(BatchOrg(p))' PROVE Racing(p, Consumers)'
  <2>1. Racing(p, S)'
    BY <1>7, <1>11
  <2>2. BatchOrg(p)' = o => Below(p, c)'
    <3>1. BatchOrg(p)' = o => Sole(o)'
      BY <1>11 DEF Sole
    <3> QED
      BY <1>9, <1>11, <3>1
  <2>3. BatchOrg(c)' = o
    BY <1>1, <1>3
  <2> QED
    BY <2>1, <2>2, <2>3 DEF Racing
<1>12. Sole(BatchOrg(c))' => Sole(o)'
  BY <1>1, <1>3 DEF Sole
<1>13. \A p \in Consumers : Begun(p)'
  BY <1>7, <1>8
<1>14. \A p \in Consumers : pc'[p] = "cas" => keySet' = "yes" /\ (Sole(BatchOrg(p))' => Racing(p, Consumers)')
  BY <1>1, <1>10, <1>11, <1>12
<1> QED
  BY <1>7, <1>13, <1>14 DEF IInv

\* Without a key: the batch goes to BulkWrite, with numbers of its own if the chain was
\* begun once.
LEMMA ReserveWriting ==
  ASSUME TypeOK, TypeOK', IInv, NEW c \in Consumers, ReserveSequence(c) \/ ReserveInsert(c),
         keySet # "yes"
  PROVE  IInv'
<1> DEFINE n == Len(events[c])
<1>1. /\ pc[c] \in {"reserve", "upsert"} /\ pc'[c] = "write" /\ keySet' = keySet /\ stored' = stored
      /\ events' = events /\ BatchOrg(c)' = BatchOrg(c)
      /\ \A p \in Consumers : p # c => Keeps(p) /\ pc'[p] = pc[p]
  BY ReserveKeeps DEF ReserveSequence, ReserveInsert, BatchOrg
<1>2. BatchOrg(c) \in Orgs /\ n \in Nat /\ n > 0
  BY <1>1, BatchFacts
<1>3. PICK o \in Orgs : o = BatchOrg(c)
  BY <1>2
<1>4. /\ \A q \in Orgs : Forward(q)
      /\ head'[o] # << >>
      /\ Sole(o)' => startSeq'[c] = Number(o) /\ Number(o)' = Number(o) + n
  BY <1>2, <1>3, ReserveEffect
<1>5. ChainFacts /\ ChainFacts'
  BY ChainsTyped, ChainsTypedNext
<1>6. Chained' \subseteq Chained \cup Pending(c)'
  <2> SUFFICES ASSUME NEW d \in Chained' PROVE d \in Chained \cup Pending(c)'
    OBVIOUS
  <2>1. CASE d \in stored'
    BY <1>1, <2>1 DEF Chained
  <2>2. ASSUME NEW p \in Consumers, pc'[p] = "write", d \in Pending(p)', p # c
        PROVE  d \in Chained
    BY <1>1, <2>2, KeepsPending DEF Chained
  <2> QED
    BY <2>1, <2>2 DEF Chained
<1>7. ASSUME NEW d \in Settled'
      PROVE  /\ d.chain \in Orgs
             /\ \/ d \in Settled /\ d.seq \in Nat /\ d.seq < Number(d.chain)
                \/ /\ d.chain = o /\ Sole(o)'
                   /\ \E i \in 1..n : d = Doc(c, i)' /\ d.seq = Number(o) + i - 1
  <2>1. d \in Chained \cup Pending(c)' /\ Len(head'[d.chain]) <= 1
    BY <1>6, <1>7 DEF Settled, Sole
  <2>2. CASE d \in Chained
    <3>1. d.chain \in Orgs /\ d.seq \in Nat
      BY <2>2, ChainedType, DocumentFields
    <3>2. PICK q \in Orgs : q = d.chain
      BY <3>1
    <3>3. Sole(q)
      <4>1. Sole(q)'
        BY <2>1, <3>2 DEF Sole
      <4> QED
        BY <1>4, <1>5, <4>1, SoleBefore
    <3>4. d \in Settled
      BY <2>2, <3>2, <3>3 DEF Settled
    <3> QED
      BY <3>1, <3>4 DEF IInv, NumbersReserved
  <2>3. CASE d \in Pending(c)'
    <3>1. PICK i \in 1..n : d = Doc(c, i)'
      BY <1>1, <2>3 DEF Pending
    <3>2. d.chain = o /\ d.seq = startSeq'[c] + i - 1
      BY <1>1, <1>3, <3>1 DEF Doc
    <3>3. Sole(o)'
      BY <2>1, <3>2 DEF Sole
    <3> QED
      BY <1>4, <3>1, <3>2, <3>3
  <2> QED
    BY <2>1, <2>2, <2>3
<1>8. \A q \in Orgs : Number(q) \in Nat /\ Number(q)' \in Nat /\ (Sole(q)' => Number(q) <= Number(q)')
  BY <1>4, <1>5 DEF ChainFacts, Forward
<1>9. NumbersReserved'
  <2> SUFFICES ASSUME NEW d \in Settled', NEW q \in Orgs, q = d.chain PROVE d.seq < Number(q)'
    BY <1>7 DEF NumbersReserved, Number
  <2>1. Sole(q)'
    BY DEF Settled, Sole
  <2>2. CASE d \in Settled /\ d.seq \in Nat /\ d.seq < Number(d.chain)
    BY <1>8, <2>1, <2>2
  <2>3. CASE d.chain = o /\ Sole(o)' /\ \E i \in 1..n : d.seq = Number(o) + i - 1
    BY <1>2, <1>4, <1>8, <2>3
  <2> QED
    BY <1>7, <2>2, <2>3
<1>10. NumbersDistinct'
  <2> SUFFICES ASSUME NEW d \in Settled', NEW e \in Settled', d.chain = e.chain, d.seq = e.seq
               PROVE  d = e
    BY DEF NumbersDistinct
  <2>1. CASE d \in Settled /\ e \in Settled
    BY <2>1 DEF IInv, NumbersDistinct
  <2>2. ASSUME NEW i \in 1..n, d = Doc(c, i)', d.seq = Number(o) + i - 1,
               NEW j \in 1..n, e = Doc(c, j)', e.seq = Number(o) + j - 1
        PROVE  d = e
    <3>1. i = j
      BY <1>2, <1>8, <2>2
    <3> QED
      BY <2>2, <3>1
  <2>3. CASE d.seq < Number(o) /\ \E j \in 1..n : e.seq = Number(o) + j - 1
    BY <1>2, <1>8, <2>3
  <2>4. CASE e.seq < Number(o) /\ \E i \in 1..n : d.seq = Number(o) + i - 1
    BY <1>2, <1>8, <2>4
  <2> QED
    BY <1>7, <2>1, <2>2, <2>3, <2>4
<1>11. HashesOnChain' /\ OrderAgrees'
  BY <1>1 DEF HashesOnChain, OrderAgrees
<1>12. ASSUME NEW p \in Consumers PROVE pc'[p] # "cas"
  BY <1>1 DEF IInv
<1>13. ASSUME NEW p \in Consumers PROVE Begun(p)'
  <2>1. CASE p = c
    BY <1>1, <1>3, <1>4, <2>1 DEF Begun
  <2>2. CASE p # c
    <3> SUFFICES ASSUME pc'[p] \in {"cas", "write"} PROVE head'[BatchOrg(p)'] # << >>
      BY DEF Begun
    <3>1. pc[p] \in {"cas", "write"} /\ Keeps(p)
      BY <1>1, <2>2
    <3>2. BatchOrg(p)' = BatchOrg(p) /\ BatchOrg(p) \in Orgs /\ head[BatchOrg(p)] # << >>
      BY <3>1, KeepsPending, BatchFacts DEF IInv, Begun
    <3>3. PICK q \in Orgs : q = BatchOrg(p)
      BY <3>2
    <3>4. Len(head[q]) <= Len(head'[q]) /\ head[q] # << >>
      BY <1>4, <3>2, <3>3 DEF Forward
    <3>5. head'[q] # << >>
      BY <1>5, <3>4 DEF ChainFacts
    <3> QED
      BY <3>2, <3>3, <3>5
  <2> QED
    BY <2>1, <2>2
<1> QED
  BY <1>9, <1>10, <1>11, <1>12, <1>13 DEF IInv

\* flush returns, or tries again: nothing is chained, and nobody joins the race.
LEMMA Leaves ==
  ASSUME TypeOK, NEW c \in Consumers, Forget(c) \/ Retry(c), keySet' = keySet
  PROVE  \A p \in Consumers : pc'[p] \in {"cas", "write"} => pc'[p] = pc[p] /\ Keeps(p)
<1>1. pc'[c] \in {"select", "reserve"}
  BY DEF TypeOK, Forget, Retry, Goto
<1>2. ASSUME NEW p \in Consumers, p # c PROVE pc'[p] = pc[p] /\ Keeps(p)
  BY <1>2 DEF TypeOK, Forget, Retry, Goto, Keeps
<1> QED
  BY <1>1, <1>2

\* A flush that returns or tries again, after moving a head and storing part of
\* what it had chained, keeps the invariant.
LEMMA LeavingStep ==
  ASSUME TypeOK, TypeOK', IInv, NEW c \in Consumers, Forget(c) \/ Retry(c), keySet' = keySet,
         \A o \in Orgs : Forward(o),
         stored' = stored \/ (pc[c] = "write" /\ stored' \subseteq stored \cup Pending(c))
  PROVE  IInv'
<1>1. \A p \in Consumers : pc'[p] \in {"cas", "write"} => pc'[p] = pc[p] /\ Keeps(p)
  BY Leaves
<1>2. Chained' \subseteq Chained
  BY <1>1, ChainsNothing
<1> QED
  BY <1>1, <1>2, QuietStep

\* What an insert stores was pending.
LEMMA InsertsPending ==
  ASSUME TypeOK, NEW c \in Consumers, NEW n \in 0..Len(events[c]), Insert(c, n)
  PROVE  stored' \subseteq stored \cup Pending(c)
<1>1. Len(events[c]) \in Nat
  BY BatchFacts
<1>2. 1..n \subseteq 1..Len(events[c])
  BY <1>1
<1> QED
  BY <1>2 DEF Insert, Pending

\* Every step keeps the invariant.
LEMMA IInvNext == TypeOK /\ TypeOK' /\ IInv /\ [Next]_vars => IInv'
<1> SUFFICES ASSUME TypeOK, TypeOK', IInv, [Next]_vars PROVE IInv'
  OBVIOUS
<1>1. ChainFacts /\ ChainFacts' /\ ChainsOK
  BY ChainsTyped, ChainsTypedNext DEF TypeOK
<1>2. ASSUME sequence' = sequence, head' = head PROVE \A o \in Orgs : Forward(o)
  BY <1>1, <1>2, StaysForward
<1>3. ASSUME NEW c \in Consumers,
             Await(c) \/ Fetch(c) \/ FetchFails(c) \/ FlushTick(c) \/ Parse(c) \/ ReserveMiss(c) \/ Crash(c)
      PROVE  IInv'
  <2>1. keySet' = keySet /\ stored' = stored /\ sequence' = sequence /\ head' = head
    BY <1>3 DEF Await, Fetch, FetchFails, FlushTick, Parse, ReserveMiss, Crash, Fault, mongo
  <2>2. pc'[c] \notin {"cas", "write"}
    BY <1>3 DEF TypeOK, Await, Fetch, FetchFails, FlushTick, Parse, ReserveMiss, Crash, Goto
  <2>3. ASSUME NEW p \in Consumers, p # c PROVE pc'[p] = pc[p] /\ Keeps(p)
    <3>1. CASE Fetch(c)
      BY <2>1, <2>3, <3>1 DEF TypeOK, Fetch, Goto, Decode, Keeps
    <3>2. CASE Await(c) \/ FetchFails(c) \/ FlushTick(c) \/ Parse(c) \/ ReserveMiss(c)
      BY <2>1, <2>3, <3>2 DEF TypeOK, Await, FetchFails, FlushTick, Parse, ReserveMiss, Goto, Keeps
    <3>3. CASE Crash(c)
      BY <2>1, <2>3, <3>3 DEF TypeOK, Crash, Goto, Keeps
    <3> QED
      BY <1>3, <3>1, <3>2, <3>3
  <2>4. Chained' \subseteq Chained
    BY <2>1, <2>2, <2>3, ChainsNothing
  <2>5. \A p \in Consumers : pc'[p] \in {"cas", "write"} => pc'[p] = pc[p] /\ Keeps(p)
    BY <2>2, <2>3
  <2> QED
    BY <1>2, <2>1, <2>4, <2>5, QuietStep
<1>4. ASSUME NEW c \in Consumers, ParseNothing(c) \/ CommitMessages(c) \/ CommitFails(c) PROVE IInv'
  <2>1. /\ Forget(c) /\ keySet' = keySet /\ stored' = stored /\ sequence' = sequence
        /\ head' = head
    BY <1>4 DEF ParseNothing, CommitMessages, CommitFails, Fault, mongo
  <2> QED
    BY <1>2, <2>1, LeavingStep
<1>5. ASSUME NEW c \in Consumers, ReserveSequence(c) \/ ReserveInsert(c) PROVE IInv'
  BY <1>5, ReserveRacing, ReserveWriting
<1>6. ASSUME NEW c \in Consumers, ReserveFails(c) PROVE IInv'
  <2>1. Retry(c) /\ keySet' = keySet /\ stored' = stored
    BY <1>6 DEF ReserveFails, Fault
  <2>2. BatchOrg(c) \in Orgs /\ Len(events[c]) \in Nat
    BY <1>6, BatchFacts DEF ReserveFails
  <2>3. PICK o \in Orgs : o = BatchOrg(c)
    BY <2>2
  <2>4. \A q \in Orgs : Forward(q)
    <3>1. CASE UNCHANGED <<sequence, head>>
      BY <1>2, <3>1
    <3>2. ASSUME NEW k \in DOMAIN head[o], Increment(c, k), head' = head PROVE \A q \in Orgs : Forward(q)
      BY <1>1, <2>2, <2>3, <3>2, IncrementForward
    <3>3. CASE Begin(c)
      BY <1>1, <2>2, <2>3, <3>3, BeginForward
    <3> QED
      BY <1>6, <2>3, <3>1, <3>2, <3>3 DEF ReserveFails
  <2> QED
    BY <2>1, <2>4, LeavingStep
<1>7. ASSUME NEW c \in Consumers, UpdateHashChainCAS(c) PROVE IInv'
  <2>1. ASSUME NEW k \in Matching(c), SwingHead(c, k), Goto(c, "write"),
               UNCHANGED <<events, startSeq, prevHash>>
        PROVE  IInv'
    BY <1>7, <2>1, WonRace
  <2>2. ASSUME head' = head, Retry(c) PROVE IInv'
    <3>1. keySet' = keySet /\ stored' = stored /\ sequence' = sequence
      BY <1>7 DEF UpdateHashChainCAS
    <3> QED
      BY <1>2, <2>2, <3>1, LeavingStep
  <2> QED
    BY <1>7, <2>1, <2>2 DEF UpdateHashChainCAS
<1>8. ASSUME NEW c \in Consumers, CASFails(c) PROVE IInv'
  <2>1. Forget(c) /\ keySet' = keySet /\ stored' = stored /\ sequence' = sequence /\ pc[c] = "cas"
    BY <1>8 DEF CASFails, Fault
  <2>2. keySet = "yes" /\ BatchOrg(c) \in Orgs
    BY <2>1, BatchFacts DEF IInv
  <2>3. \A o \in Orgs : Forward(o)
    <3>1. ASSUME NEW k \in Matching(c), SwingHead(c, k) PROVE \A o \in Orgs : Forward(o)
      BY <2>1, <2>2, <3>1, SwingForward
    <3> QED
      BY <1>2, <1>8, <2>1, <3>1 DEF CASFails
  <2> QED
    BY <2>1, <2>3, LeavingStep
<1>9. ASSUME NEW c \in Consumers, BulkWrite(c) PROVE IInv'
  <2>1. keySet' = keySet /\ sequence' = sequence /\ head' = head /\ pc[c] = "write"
    BY <1>9 DEF BulkWrite
  <2>2. stored' \subseteq stored \cup Pending(c)
    BY <1>9, InsertsPending, BatchFacts DEF BulkWrite
  <2>3. \A p \in Consumers : Keeps(p)
    BY <1>9 DEF BulkWrite, Keeps
  <2>4. \A p \in Consumers : pc'[p] \in {"cas", "write"} => pc'[p] = pc[p]
    BY <1>9 DEF BulkWrite, Goto, TypeOK
  <2>5. Chained' \subseteq Chained
    BY <2>1, <2>2, <2>3, <2>4, ChainsNothing
  <2> QED
    BY <1>2, <2>1, <2>3, <2>4, <2>5, QuietStep
<1>10. ASSUME NEW c \in Consumers, BulkWriteDuplicate(c) PROVE IInv'
  <2>1. /\ Forget(c) /\ keySet' = keySet /\ sequence' = sequence /\ head' = head
        /\ pc[c] = "write"
    BY <1>10 DEF BulkWriteDuplicate
  <2>2. stored' \subseteq stored \cup Pending(c)
    BY <1>10, InsertsPending, InsertableBound DEF BulkWriteDuplicate
  <2> QED
    BY <1>2, <2>1, <2>2, LeavingStep
<1>11. ASSUME NEW c \in Consumers, BulkWriteFails(c) PROVE IInv'
  <2>1. /\ Forget(c) /\ keySet' = keySet /\ sequence' = sequence /\ head' = head
        /\ pc[c] = "write"
    BY <1>11 DEF BulkWriteFails, Fault
  <2>2. PICK n \in 0..Insertable(c) : Insert(c, n)
    BY <1>11 DEF BulkWriteFails
  <2>3. n \in 0..Len(events[c])
    BY <2>2, InsertableBound, BatchFacts
  <2>4. stored' \subseteq stored \cup Pending(c)
    BY <2>2, <2>3, InsertsPending
  <2> QED
    BY <1>2, <2>1, <2>4, LeavingStep
<1>12. CASE UNCHANGED vars
  <2>1. /\ keySet' = keySet /\ stored' = stored /\ sequence' = sequence /\ head' = head
        /\ pc' = pc
    BY <1>12 DEF vars
  <2>2. \A p \in Consumers : Keeps(p)
    BY <1>12 DEF vars, Keeps
  <2>3. Chained' \subseteq Chained
    BY <2>1, <2>2, ChainsNothing
  <2> QED
    BY <1>2, <2>1, <2>2, <2>3, QuietStep
<1> QED
  BY <1>3, <1>4, <1>5, <1>6, <1>7, <1>8, <1>9, <1>10, <1>11, <1>12
     DEF Next, Step, Disturbance

\* The invariant, from which the properties follow.
LEMMA AuditInvariant == Spec => []IInv
<1>1. Init => IInv
  <2> SUFFICES ASSUME Init PROVE IInv
    OBVIOUS
  <2>1. Chained = {}
    BY DEF Init, Chained
  <2> QED
    BY <2>1 DEF Init, IInv, Settled, Begun, NumbersReserved, NumbersDistinct, HashesOnChain, OrderAgrees
<1> QED
  BY <1>1, IInvNext, AuditTypeCorrect, PTL DEF Spec

\* A history of hashes never forks, however many topics' consumers write to it and
\* wherever they fail: every stored hash is on the way to the hash of one of its
\* organisation's hash_chains documents (consumer.go:187-217).
THEOREM AuditChainsNeverFork == Spec => []ChainsNeverFork
<1>1. IInv => ChainsNeverFork
  BY DEF IInv, HashesOnChain, Chained, ChainsNeverFork
<1> QED
  BY <1>1, AuditInvariant, PTL

\* Unless two consumers have both begun it, sequence numbers order the stored events
\* of a chain as the hashes do (consumer.go:176-203).
THEOREM AuditSequenceFollowsChain == Spec => []SequenceFollowsChain
<1>1. IInv => SequenceFollowsChain
  BY DEF IInv, OrderAgrees, Settled, Chained, SequenceFollowsChain
<1> QED
  BY <1>1, AuditInvariant, PTL

\* Unless two consumers have both begun it, no sequence number of a chain is used
\* twice, with or without a key (repository.go:56-75).
THEOREM AuditSequencesDisjoint == Spec => []SequencesDisjoint
<1>1. IInv => SequencesDisjoint
  BY DEF IInv, NumbersDistinct, Settled, Chained, SequencesDisjoint
<1> QED
  BY <1>1, AuditInvariant, PTL

-----------------------------------------------------------------------------
(* The refinement.  An upsert that inserts a document is Begin of          *)
(* AuditLog, UpdateHashChainCAS, if it wins or its answer is lost, is      *)
(* Continue, and BulkWrite, as far as it gets, is Record; all else leaves  *)
(* hashes and events alone.                                                *)

\* A set of numbers that goes on without a gap from 1 has its first numbers in it.
LEMMA NoGap ==
  ASSUME NEW L \in Nat, NEW F, F \subseteq 1..L, \A k \in F : 1..k \subseteq F
  PROVE  1..Cardinality(F) \subseteq F
<1> SUFFICES ASSUME NEW i \in 1..Cardinality(F), i \notin F PROVE FALSE
  OBVIOUS
<1>1. IsFiniteSet(F) /\ Cardinality(F) \in Nat
  <2>1. IsFiniteSet(1..L)
    BY FS_Interval
  <2>2. IsFiniteSet(F)
    BY <2>1, FS_Subset
  <2> QED
    BY <2>2, FS_CardinalityType
<1>2. i \in Nat \ {0}
  BY <1>1
<1>3. F \subseteq 1..i - 1
  <2> SUFFICES ASSUME NEW k \in F, k >= i PROVE FALSE
    BY <1>2
  <2>1. i \in 1..k
    BY <1>2
  <2> QED
    BY <2>1
<1>4. IsFiniteSet(1..i - 1) /\ Cardinality(1..i - 1) = i - 1
  BY <1>2, FS_Interval
<1>5. Cardinality(F) <= i - 1
  <2>1. Cardinality(F) <= Cardinality(1..i - 1)
    BY <1>3, <1>4, FS_Subset
  <2> QED
    BY <1>4, <2>1
<1> QED
  BY <1>1, <1>2, <1>5

\* The events that an ordered insert gets in are new, and different.
LEMMA InsertableNew ==
  ASSUME TypeOK, NEW c \in Consumers, NEW i \in 1..Insertable(c)
  PROVE  /\ \A d \in stored : d.id # events[c][i].id
         /\ \A j \in 1..i - 1 : events[c][j].id # events[c][i].id
<1> DEFINE ids == [k \in DOMAIN events[c] |-> events[c][k].id]
           fresh(k) == /\ \A d \in stored : d.id # ids[k]
                       /\ \A j \in 1..k - 1 : ids[j] # ids[k]
           I == {k \in DOMAIN ids : \A j \in 1..k : fresh(j)}
<1>1. events[c] \in Seq(Messages)
  BY DEF TypeOK, Batches
<1>2. Len(events[c]) \in Nat /\ DOMAIN events[c] = 1..Len(events[c])
  BY <1>1
<1>3. Insertable(c) = Cardinality(I)
  BY DEF Insertable
<1>4. I \subseteq 1..Len(events[c]) /\ \A k \in I : 1..k \subseteq I
  <2> HIDE DEF fresh
  <2> QED
    BY <1>2
<1>5. i \in I
  <2> HIDE DEF I
  <2> QED
    BY <1>2, <1>3, <1>4, NoGap
<1>6. i \in 1..Len(events[c]) /\ fresh(i)
  <2> HIDE DEF fresh
  <2> QED
    BY <1>2, <1>5
<1>7. ids[i] = events[c][i].id /\ \A j \in 1..i - 1 : ids[j] = events[c][j].id
  BY <1>2, <1>6
<1> HIDE DEF ids
<1> QED
  BY <1>6, <1>7

\* The first n documents of a batch, if they are insertable, are a Record.
LEMMA RecordStep ==
  ASSUME TypeOK, IInv, IInv', NEW c \in Consumers, pc[c] = "write",
         NEW n \in 0..Insertable(c), Insert(c, n), head' = head
  PROVE  Trail!Record
<1>1. Insertable(c) \in 0..Len(events[c]) /\ Len(events[c]) \in Nat /\ n \in Nat
  BY InsertableBound, BatchFacts
<1>2. \A i \in 1..n : i \in 1..Insertable(c) /\ i \in 1..Len(events[c])
  BY <1>1
<1>3. stored \subseteq stored' /\ \A e \in stored' \ stored : \E i \in 1..n : e = Doc(c, i)
  BY DEF Insert
<1>4. \A i : Doc(c, i).id = events[c][i].id
  BY DEF Doc
<1> SUFFICES ASSUME NEW d \in stored' \ stored
             PROVE  Trail!Single(d, stored') /\ Trail!OnRecord(d)
  BY <1>3 DEF Trail!Record
<1>5. PICK i \in 1..n : d = Doc(c, i)
  BY <1>3
<1>6. ASSUME NEW e \in stored', e # d PROVE e.id # d.id
  <2>1. CASE e \in stored
    BY <1>2, <1>4, <1>5, <2>1, InsertableNew
  <2>2. CASE e \notin stored
    <3>1. PICK j \in 1..n : e = Doc(c, j)
      BY <1>3, <2>2
    <3>2. i \in 1..j - 1 \/ j \in 1..i - 1
      BY <1>1, <1>5, <1>6, <3>1
    <3> QED
      BY <1>2, <1>4, <1>5, <3>1, <3>2, InsertableNew
  <2> QED
    BY <2>1, <2>2
<1>7. ASSUME NEW e \in stored', e # d, e.chain = d.chain, Len(head[d.chain]) = 1 PROVE e.seq # d.seq
  <2>1. d \in Chained' /\ e \in Chained'
    BY <1>7 DEF Chained
  <2>2. Len(head'[d.chain]) <= 1 /\ Len(head'[e.chain]) <= 1
    BY <1>7
  <2>3. d \in Settled' /\ e \in Settled'
    BY <2>1, <2>2 DEF Settled, Sole
  <2> QED
    BY <1>7, <2>3 DEF IInv, NumbersDistinct
<1>8. Trail!Single(d, stored')
  BY <1>6, <1>7 DEF Trail!Single
<1>9. \E k \in DOMAIN head[d.chain] : IsPrefix(d.hash, head[d.chain][k])
  <2>1. d \in Chained
    BY <1>2, <1>5 DEF Chained, Pending
  <2>2. CASE keySet = "yes"
    BY <2>1, <2>2 DEF IInv, HashesOnChain
  <2>3. CASE keySet # "yes"
    <3>1. d.hash = << >> /\ d.chain = BatchOrg(c)
      BY <1>5, <2>3, DocFields DEF Hash
    <3>2. BatchOrg(c) \in Orgs /\ head[BatchOrg(c)] # << >>
      BY BatchFacts DEF IInv, Begun
    <3>3. 1 \in DOMAIN head[d.chain] /\ head[d.chain][1] \in Hashes
      BY <3>1, <3>2, ChainsTyped DEF ChainFacts
    <3>4. IsPrefix(<< >>, head[d.chain][1])
      BY <3>3 DEF IsPrefix, Hashes
    <3> QED
      BY <3>1, <3>3, <3>4
  <2> QED
    BY <2>2, <2>3
<1>10. Trail!OnRecord(d)
  BY <1>9 DEF IsPrefix, Trail!IsPrefix, Trail!OnRecord
<1> QED
  BY <1>8, <1>10

\* A swing of a head continues one history.
LEMMA ContinueStep ==
  ASSUME TypeOK, IInv, NEW c \in Consumers, pc[c] = "cas", NEW k \in Matching(c),
         SwingHead(c, k), stored' = stored
  PROVE  Trail!Next
<1> DEFINE h == Hash(c, Len(events[c]))
<1>1. BatchOrg(c) \in Orgs /\ keySet = "yes"
  BY BatchFacts DEF IInv
<1>2. PICK o \in Orgs : o = BatchOrg(c)
  BY <1>1
<1>3. k \in DOMAIN head[o] /\ head[o][k] = prevHash[c] /\ head' = [head EXCEPT ![o][k] = h]
  BY <1>2 DEF Matching, SwingHead
<1>4. Len(prevHash[c]) \in Nat
  BY HashLen DEF TypeOK
<1>5. Len(prevHash[c]) < Len(h) /\ IsPrefix(prevHash[c], h)
  BY <1>1, BatchHash
<1> HIDE DEF h
<1>6. prevHash[c] # h
  BY <1>4, <1>5
<1>7. head'[o][k] = h
  BY <1>3 DEF TypeOK, ChainsOK
<1>8. Trail!IsStrictPrefix(head[o][k], head'[o][k])
  BY <1>3, <1>5, <1>6, <1>7 DEF Trail!IsStrictPrefix, Trail!IsPrefix, IsPrefix
<1>9. head' = [head EXCEPT ![o][k] = head'[o][k]]
  BY <1>3, <1>7
<1>10. Trail!Continue(o, k)
  BY <1>8, <1>9, Zenon DEF Trail!Continue
<1> QED
  BY <1>3, <1>10, Zenon DEF Trail!Next

\* The insert of a document begins a history.
LEMMA BeginStep ==
  ASSUME TypeOK, NEW c \in Consumers, pc[c] = "upsert", Begin(c), stored' = stored
  PROVE  Trail!Next
<1>1. BatchOrg(c) \in Orgs
  BY BatchFacts
<1>2. Trail!Begin(BatchOrg(c))
  BY DEF Begin, Trail!Begin
<1> QED
  BY <1>1, <1>2, Zenon DEF Trail!Next

\* Every step is a step of AuditLog, or leaves its variables alone.
LEMMA TrailNext ==
  TypeOK /\ IInv /\ IInv' /\ [Next]_vars => [Trail!Next]_(Trail!lvars)
<1> SUFFICES ASSUME TypeOK, IInv, IInv', [Next]_vars
             PROVE  Trail!Next \/ (head' = head /\ stored' = stored)
  BY DEF Trail!lvars
<1>1. ASSUME NEW c \in Consumers,
             \/ Await(c) \/ Fetch(c) \/ FetchFails(c) \/ FlushTick(c) \/ Parse(c) \/ ParseNothing(c)
             \/ ReserveSequence(c) \/ ReserveMiss(c) \/ CommitMessages(c) \/ CommitFails(c) \/ Crash(c)
      PROVE  head' = head /\ stored' = stored
  BY <1>1 DEF Await, Fetch, FetchFails, FlushTick, Parse, ParseNothing, ReserveSequence, Reserved,
              ReserveMiss, CommitMessages, CommitFails, Crash, mongo
<1>2. ASSUME NEW c \in Consumers, UpdateHashChainCAS(c) \/ CASFails(c)
      PROVE  Trail!Next \/ (head' = head /\ stored' = stored)
  <2>1. /\ pc[c] = "cas" /\ stored' = stored
        /\ (\E k \in Matching(c) : SwingHead(c, k)) \/ head' = head
    BY <1>2 DEF UpdateHashChainCAS, CASFails
  <2> QED
    BY <2>1, ContinueStep
<1>3. ASSUME NEW c \in Consumers, ReserveInsert(c) \/ ReserveFails(c)
      PROVE  Trail!Next \/ (head' = head /\ stored' = stored)
  <2>1. stored' = stored /\ (head' = head \/ (pc[c] = "upsert" /\ Begin(c)))
    BY <1>3 DEF ReserveInsert, ReserveFails, Reserved
  <2> QED
    BY <2>1, BeginStep
<1>4. ASSUME NEW c \in Consumers, BulkWrite(c) \/ BulkWriteDuplicate(c) \/ BulkWriteFails(c)
      PROVE  Trail!Next
  <2>1. pc[c] = "write" /\ head' = head /\ Insertable(c) \in 0..Insertable(c)
    BY <1>4, InsertableBound DEF BulkWrite, BulkWriteDuplicate, BulkWriteFails
  <2>2. \E n \in 0..Insertable(c) : Insert(c, n)
    BY <1>4, <2>1 DEF BulkWrite, BulkWriteDuplicate, BulkWriteFails
  <2> QED
    BY <2>1, <2>2, RecordStep DEF Trail!Next
<1>5. CASE UNCHANGED vars
  BY <1>5 DEF vars
<1> QED
  BY <1>1, <1>2, <1>3, <1>4, <1>5 DEF Next, Step, Disturbance

\* The consumers together implement the append-only log: a head is only extended,
\* also when an organisation has several, documents stay, and an event is stored once
\* (consumer.go:169-237, repository.go:43-91).
THEOREM AuditAppendOnly == Spec => AppendOnly
<1>1. Init => Trail!Init
  BY DEF Init, Trail!Init
<1> QED
  BY <1>1, TrailNext, AuditTypeCorrect, AuditInvariant, PTL DEF Spec, AppendOnly, Trail!Spec

-----------------------------------------------------------------------------
(* What is stored when its offset is committed.  A flush that fails, meets *)
(* a duplicate or gives up forgets its batch, and the next commit passes   *)
(* it.  The theorem is about the executions in which that does not happen: *)
(* nothing fails, nobody loses MaxTries races in a row, no event is        *)
(* published twice and each has an organisation.                           *)

\* No event is published twice, on one topic or on two.
PublishedOnce ==
  \A c, d \in Consumers : \A i \in DOMAIN Log[c], j \in DOMAIN Log[d] :
    Log[c][i].parses /\ Log[d][j].parses /\ Log[c][i].id = Log[d][j].id => c = d /\ i = j

\* Every event has an organisation.
AllOwned ==
  \A c \in Consumers : \A i \in DOMAIN Log[c] : Log[c][i].parses => Log[c][i].org # NoOrg

Known(id) == \E d \in stored : d.id = id

\* What c has behind it is stored, and its batch has the events it has read
\* since, each once.
Accounted(c) ==
  /\ committed[c] <= from[c]
  /\ \A i \in 1..from[c] - 1 : Log[c][i].parses => Known(Log[c][i].id)
  /\ \A i \in from[c]..next[c] - 1 : Log[c][i].parses =>
       \E k \in 1..Len(events[c]) : events[c][k] = Log[c][i]
  /\ \A k \in 1..Len(events[c]) :
       \E i \in from[c]..next[c] - 1 : Log[c][i].parses /\ events[c][k] = Log[c][i]
  /\ \A j, k \in 1..Len(events[c]) : events[c][j].id = events[c][k].id => j = k
  /\ pc[c] = "commit" => \A k \in 1..Len(events[c]) : Known(events[c][k].id)

\* A stored event was read by a consumer that is past it, or about to commit it.
PastIt(c, id) ==
  \E i \in 1..next[c] - 1 : /\ Log[c][i].parses /\ Log[c][i].id = id
                            /\ i < from[c] \/ pc[c] = "commit"

Origin == \A d \in stored : \E c \in Consumers : PastIt(c, d.id)

Account == Origin /\ \A c \in Consumers : Accounted(c)

\* The offsets of c are those of its log.
LEMMA OffsetFacts ==
  ASSUME TypeOK, NEW c \in Consumers
  PROVE  /\ from[c] \in Nat \ {0} /\ next[c] \in Nat \ {0} /\ committed[c] \in Nat \ {0}
         /\ from[c] <= next[c] /\ next[c] - 1 <= Len(Log[c]) /\ Len(Log[c]) \in Nat
         /\ events[c] \in Seq(Messages) /\ Log[c] \in Seq(Messages)
         /\ Len(events[c]) \in Nat
         /\ \A i \in 1..next[c] - 1 : i \in DOMAIN Log[c]
         /\ \A i \in from[c]..next[c] - 1 : i \in 1..next[c] - 1
<1>1. Log[c] \in Seq(Messages) /\ events[c] \in Seq(Messages)
  BY LogAssumption DEF TypeOK, Batches
<1>2. Len(Log[c]) \in Nat /\ DOMAIN Log[c] = 1..Len(Log[c]) /\ Len(events[c]) \in Nat
  BY <1>1
<1>3. /\ from[c] \in Nat \ {0} /\ next[c] \in Nat \ {0} /\ committed[c] \in Nat \ {0}
      /\ from[c] <= next[c] /\ next[c] <= Len(Log[c]) + 1
  BY DEF TypeOK, BatchOK
<1> QED
  BY <1>1, <1>2, <1>3

\* What a step of others does to the account of p: documents are only added.
LEMMA AccountedStays ==
  ASSUME NEW p \in Consumers, Accounted(p), stored \subseteq stored',
         committed'[p] = committed[p], from'[p] = from[p], next'[p] = next[p],
         events'[p] = events[p], pc'[p] = "commit" => pc[p] = "commit"
  PROVE  Accounted(p)'
  BY DEF Accounted, Known

\* A consumer that goes on is still past what it was past.
LEMMA PastItStays ==
  ASSUME TypeOK, NEW p \in Consumers, NEW id, PastIt(p, id),
         next'[p] \in Nat, from'[p] \in Nat, next'[p] >= next[p], from'[p] >= from[p],
         pc[p] = "commit" => pc'[p] = "commit" \/ from'[p] = next[p]
  PROVE  PastIt(p, id)'
<1>1. PICK i \in 1..next[p] - 1 : /\ Log[p][i].parses /\ Log[p][i].id = id
                                  /\ i < from[p] \/ pc[p] = "commit"
  BY DEF PastIt
<1>2. next[p] \in Nat /\ from[p] \in Nat
  BY DEF TypeOK
<1>3. i \in 1..next'[p] - 1 /\ (i < from'[p] \/ pc'[p] = "commit")
  BY <1>1, <1>2
<1> QED
  BY <1>1, <1>3 DEF PastIt

\* Without faults, c gives its batch up only if it is empty.
LEMMA AccountForget ==
  ASSUME TypeOK, Account, NEW c \in Consumers, Forget(c), stored' = stored,
         committed' = committed \/ committed' = [committed EXCEPT ![c] = next[c]],
         \A k \in 1..Len(events[c]) : Known(events[c][k].id)
  PROVE  Account'
<1>1. /\ from' = [from EXCEPT ![c] = next[c]] /\ next' = next
      /\ events' = [events EXCEPT ![c] = << >>] /\ pc' = [pc EXCEPT ![c] = "select"]
  BY DEF Forget, Goto
<1>2. ASSUME NEW p \in Consumers, p # c PROVE Accounted(p)'
  <2>1. /\ committed'[p] = committed[p] /\ from'[p] = from[p] /\ next'[p] = next[p]
        /\ events'[p] = events[p] /\ pc'[p] = pc[p]
    BY <1>1, <1>2 DEF TypeOK
  <2> QED
    BY <2>1, AccountedStays DEF Account
<1>3. /\ from'[c] = next[c] /\ next'[c] = next[c] /\ events'[c] = << >> /\ pc'[c] = "select"
      /\ committed'[c] \in {committed[c], next[c]}
  BY <1>1 DEF TypeOK
<1>4. Accounted(c)'
  <2>1. committed'[c] <= from'[c]
    <3>1. committed[c] <= from[c]
      BY DEF Account, Accounted
    <3>2. from[c] <= next[c] /\ from[c] \in Nat /\ next[c] \in Nat /\ committed[c] \in Nat
      BY OffsetFacts
    <3> QED
      BY <1>3, <3>1, <3>2
  <2>2. ASSUME NEW i \in 1..next[c] - 1, Log[c][i].parses PROVE Known(Log[c][i].id)
    <3>1. CASE i \in 1..from[c] - 1
      BY <2>2, <3>1 DEF Account, Accounted
    <3>2. CASE i \in from[c]..next[c] - 1
      <4>1. PICK k \in 1..Len(events[c]) : events[c][k] = Log[c][i]
        BY <2>2, <3>2 DEF Account, Accounted
      <4> QED
        BY <4>1
    <3> QED
      BY <3>1, <3>2, OffsetFacts
  <2>3. \A id : Known(id) => Known(id)'
    BY DEF Known
  <2>4. 1..Len(<< >>) = {} /\ next[c]..next[c] - 1 = {}
    BY OffsetFacts
  <2> QED
    BY <1>3, <2>1, <2>2, <2>3, <2>4 DEF Accounted
<1>5. Origin'
  <2> SUFFICES ASSUME NEW d \in stored PROVE \E p \in Consumers : PastIt(p, d.id)'
    BY DEF Origin
  <2>1. PICK p \in Consumers : PastIt(p, d.id)
    BY DEF Account, Origin
  <2>2. /\ next'[p] = next[p] /\ from'[p] \in Nat /\ from'[p] >= from[p] /\ next[p] \in Nat
        /\ pc[p] = "commit" => pc'[p] = "commit" \/ from'[p] = next[p]
    <3>1. CASE p = c
      BY <1>3, <3>1, OffsetFacts
    <3>2. CASE p # c
      <4>1. next'[p] = next[p] /\ from'[p] = from[p] /\ pc'[p] = pc[p]
        BY <1>1, <3>2 DEF TypeOK
      <4> QED
        BY <4>1, OffsetFacts
    <3> QED
      BY <3>1, <3>2
  <2>3. PastIt(p, d.id)'
    BY <2>1, <2>2, PastItStays
  <2> QED
    BY <2>3
<1> QED
  BY <1>2, <1>4, <1>5 DEF Account

\* A step of c that only takes it further in its flush.
LEMMA AccountFurther ==
  ASSUME TypeOK, Account, NEW c \in Consumers, NEW l, l # "commit", pc[c] # "commit", Goto(c, l),
         UNCHANGED <<from, next, events, committed, stored>>
  PROVE  Account'
<1>1. \A p \in Consumers : pc'[p] = "commit" <=> pc[p] = "commit"
  BY DEF Goto, TypeOK
<1>2. \A p \in Consumers : Accounted(p)'
  BY <1>1, AccountedStays DEF Account
<1>3. Origin'
  BY <1>1 DEF Account, Origin, PastIt
<1> QED
  BY <1>2, <1>3 DEF Account

\* A message is read: one that was never read before.
LEMMA AccountFetch ==
  ASSUME TypeOK, Account, PublishedOnce, NEW c \in Consumers, Fetch(c)
  PROVE  Account'
<1> DEFINE m == Log[c][next[c]]
           n == Len(events[c])
<1>1. /\ pc[c] = "fetch" /\ next[c] <= Len(Log[c]) /\ next' = [next EXCEPT ![c] = @ + 1]
      /\ events' = [events EXCEPT ![c] = IF m.parses THEN Append(@, m) ELSE @]
      /\ UNCHANGED <<from, committed, stored>>
  BY DEF Fetch, Decode, mongo
<1>2. pc'[c] # "commit" /\ \A p \in Consumers : p # c => pc'[p] = pc[p]
  BY DEF Fetch, Goto, TypeOK
<1>3. ASSUME NEW p \in Consumers, p # c PROVE Accounted(p)'
  <2>1. next'[p] = next[p] /\ events'[p] = events[p] /\ pc'[p] = pc[p]
    BY <1>1, <1>2, <1>3 DEF TypeOK
  <2> QED
    BY <1>1, <2>1, AccountedStays DEF Account
<1>4. /\ next'[c] = next[c] + 1
      /\ events'[c] = IF m.parses THEN Append(events[c], m) ELSE events[c]
  BY <1>1 DEF TypeOK
<1>5. m \in Messages /\ next[c] \in DOMAIN Log[c] /\ n \in Nat
  BY <1>1, OffsetFacts
<1>6. from[c]..next'[c] - 1 = (from[c]..next[c] - 1) \cup {next[c]}
  BY <1>4, OffsetFacts
<1>7. \A id : Known(id) => Known(id)'
  BY <1>1 DEF Known
<1>8. Accounted(c)'
  <2>1. CASE ~m.parses
    <3> HIDE DEF m
    <3>1. events'[c] = events[c]
      BY <1>4, <2>1
    <3>2. ~Log[c][next[c]].parses
      BY <2>1 DEF m
    <3>3. \A i \in from[c]..next'[c] - 1 : Log[c][i].parses =>
            \E k \in 1..Len(events[c]) : events[c][k] = Log[c][i]
      BY <1>6, <3>2 DEF Account, Accounted
    <3>4. \A k \in 1..Len(events[c]) :
            \E i \in from[c]..next'[c] - 1 : Log[c][i].parses /\ events[c][k] = Log[c][i]
      <4> SUFFICES ASSUME NEW k \in 1..Len(events[c])
                   PROVE  \E i \in from[c]..next'[c] - 1 : Log[c][i].parses /\ events[c][k] = Log[c][i]
        OBVIOUS
      <4>1. PICK i \in from[c]..next[c] - 1 : Log[c][i].parses /\ events[c][k] = Log[c][i]
        BY DEF Account, Accounted
      <4> QED
        BY <1>6, <4>1
    <3>5. /\ committed'[c] <= from'[c] /\ from'[c] = from[c]
          /\ \A i \in 1..from[c] - 1 : Log[c][i].parses => Known(Log[c][i].id)'
      BY <1>1, <1>7 DEF Account, Accounted
    <3>6. \A j, k \in 1..Len(events[c]) : events[c][j].id = events[c][k].id => j = k
      BY DEF Account, Accounted
    <3> QED
      BY <1>2, <3>1, <3>3, <3>4, <3>5, <3>6 DEF Accounted
  <2>2. CASE m.parses
    <3>1. /\ Len(events'[c]) = n + 1 /\ events'[c][n + 1] = m
          /\ \A k \in 1..n : events'[c][k] = events[c][k]
      BY <1>4, <1>5, <2>2, OffsetFacts
    <3>2. 1..Len(events'[c]) = 1..n \cup {n + 1}
      BY <1>5, <3>1
    <3>3. ASSUME NEW k \in 1..n PROVE events[c][k].id # m.id
      <4>1. PICK i \in from[c]..next[c] - 1 : Log[c][i].parses /\ events[c][k] = Log[c][i]
        BY <3>3 DEF Account, Accounted
      <4>2. i \in DOMAIN Log[c] /\ i # next[c]
        BY OffsetFacts
      <4> QED
        BY <1>5, <2>2, <4>1, <4>2 DEF PublishedOnce
    <3>4. \A i \in from[c]..next'[c] - 1 : Log[c][i].parses =>
            \E k \in 1..Len(events'[c]) : events'[c][k] = Log[c][i]
      BY <1>6, <3>1, <3>2 DEF Account, Accounted
    <3>5. \A k \in 1..Len(events'[c]) :
            \E i \in from[c]..next'[c] - 1 : Log[c][i].parses /\ events'[c][k] = Log[c][i]
      <4> SUFFICES ASSUME NEW k \in 1..Len(events'[c])
                   PROVE  \E i \in from[c]..next'[c] - 1 :
                            Log[c][i].parses /\ events'[c][k] = Log[c][i]
        OBVIOUS
      <4>1. CASE k = n + 1
        <5>1. next[c] \in from[c]..next'[c] - 1
          BY <1>6
        <5> QED
          BY <2>2, <3>1, <4>1, <5>1
      <4>2. CASE k # n + 1
        <5>1. k \in 1..n
          BY <3>2, <4>2
        <5>2. PICK i \in from[c]..next[c] - 1 : Log[c][i].parses /\ events[c][k] = Log[c][i]
          BY <5>1 DEF Account, Accounted
        <5>3. i \in from[c]..next'[c] - 1
          BY <1>6
        <5> QED
          BY <3>1, <5>1, <5>2, <5>3
      <4> QED
        BY <4>1, <4>2
    <3>6. ASSUME NEW j \in 1..Len(events'[c]), NEW k \in 1..Len(events'[c]),
                 events'[c][j].id = events'[c][k].id
          PROVE  j = k
      <4>1. CASE j = n + 1 /\ k # n + 1
        <5>1. k \in 1..n
          BY <3>2, <4>1
        <5> QED
          BY <3>1, <3>3, <3>6, <4>1, <5>1
      <4>2. CASE j # n + 1 /\ k = n + 1
        <5>1. j \in 1..n
          BY <3>2, <4>2
        <5> QED
          BY <3>1, <3>3, <3>6, <4>2, <5>1
      <4>3. CASE j # n + 1 /\ k # n + 1
        <5>1. j \in 1..n /\ k \in 1..n
          BY <3>2, <4>3
        <5>2. events[c][j].id = events[c][k].id
          BY <3>1, <3>6, <5>1
        <5> QED
          BY <5>1, <5>2 DEF Account, Accounted
      <4> QED
        BY <4>1, <4>2, <4>3
    <3>7. /\ committed'[c] <= from'[c] /\ from'[c] = from[c]
          /\ \A i \in 1..from[c] - 1 : Log[c][i].parses => Known(Log[c][i].id)'
      BY <1>1, <1>7 DEF Account, Accounted
    <3> QED
      BY <1>2, <3>4, <3>5, <3>6, <3>7 DEF Accounted
  <2> QED
    BY <2>1, <2>2
<1>9. Origin'
  <2> SUFFICES ASSUME NEW d \in stored PROVE \E p \in Consumers : PastIt(p, d.id)'
    BY <1>1 DEF Origin
  <2>1. PICK p \in Consumers : PastIt(p, d.id)
    BY DEF Account, Origin
  <2>2. /\ next'[p] \in Nat /\ next'[p] >= next[p] /\ from'[p] = from[p] /\ from[p] \in Nat
        /\ pc[p] = "commit" => pc'[p] = "commit"
    <3>1. CASE p = c
      BY <1>1, <1>4, <3>1, OffsetFacts
    <3>2. CASE p # c
      <4>1. next'[p] = next[p]
        BY <1>1, <3>2 DEF TypeOK
      <4> QED
        BY <1>1, <1>2, <3>2, <4>1, OffsetFacts
    <3> QED
      BY <3>1, <3>2
  <2>3. PastIt(p, d.id)'
    BY <2>1, <2>2, PastItStays
  <2> QED
    BY <2>3
<1> QED
  BY <1>3, <1>8, <1>9 DEF Account

\* The events of a batch are not stored yet: BulkWrite meets no duplicate.
LEMMA BatchInsertable ==
  ASSUME TypeOK, Account, PublishedOnce, NEW c \in Consumers, pc[c] # "commit"
  PROVE  Insertable(c) = Len(events[c])
<1> DEFINE ids == [k \in DOMAIN events[c] |-> events[c][k].id]
           fresh(k) == /\ \A d \in stored : d.id # ids[k]
                       /\ \A j \in 1..k - 1 : ids[j] # ids[k]
           I == {k \in DOMAIN ids : \A j \in 1..k : fresh(j)}
<1>1. DOMAIN events[c] = 1..Len(events[c]) /\ Len(events[c]) \in Nat
  BY OffsetFacts
<1>2. ASSUME NEW k \in 1..Len(events[c]), NEW d \in stored PROVE d.id # events[c][k].id
  <2> SUFFICES ASSUME d.id = events[c][k].id PROVE FALSE
    OBVIOUS
  <2>1. PICK i \in from[c]..next[c] - 1 : Log[c][i].parses /\ events[c][k] = Log[c][i]
    BY DEF Account, Accounted
  <2>2. PICK p \in Consumers : PastIt(p, d.id)
    BY DEF Account, Origin
  <2>3. PICK j \in 1..next[p] - 1 : /\ Log[p][j].parses /\ Log[p][j].id = d.id
                                    /\ j < from[p] \/ pc[p] = "commit"
    BY <2>2 DEF PastIt
  <2>4. i \in DOMAIN Log[c] /\ j \in DOMAIN Log[p]
    BY OffsetFacts
  <2>5. p = c /\ j = i
    BY <2>1, <2>3, <2>4 DEF PublishedOnce
  <2> QED
    BY <2>3, <2>5, OffsetFacts
<1>3. ASSUME NEW k \in 1..Len(events[c]) PROVE fresh(k)
  <2>1. ids[k] = events[c][k].id /\ \A j \in 1..k - 1 : ids[j] = events[c][j].id
    BY <1>1
  <2>2. \A j \in 1..k - 1 : j \in 1..Len(events[c]) /\ j # k
    BY <1>1
  <2>3. \A j \in 1..k - 1 : events[c][j].id # events[c][k].id
    BY <2>2 DEF Account, Accounted
  <2> HIDE DEF ids
  <2> QED
    BY <1>2, <2>1, <2>3
<1>4. I = 1..Len(events[c])
  <2> HIDE DEF fresh
  <2>1. \A k \in 1..Len(events[c]) : \A j \in 1..k : j \in 1..Len(events[c])
    BY <1>1
  <2> QED
    BY <1>1, <1>3, <2>1
<1>5. Insertable(c) = Cardinality(I)
  BY DEF Insertable
<1> HIDE DEF I
<1> QED
  BY <1>1, <1>4, <1>5, FS_Interval

\* The whole batch is stored.
LEMMA AccountWrite ==
  ASSUME TypeOK, Account, NEW c \in Consumers, BulkWrite(c)
  PROVE  Account'
<1>1. /\ pc[c] = "write" /\ Insert(c, Len(events[c])) /\ Goto(c, "commit")
      /\ UNCHANGED <<from, next, events, committed>>
  BY DEF BulkWrite
<1>2. /\ stored' = stored \cup {Doc(c, k) : k \in 1..Len(events[c])}
      /\ \A k : Doc(c, k).id = events[c][k].id
  BY <1>1 DEF Insert, Doc
<1>3. pc'[c] = "commit" /\ \A p \in Consumers : p # c => pc'[p] = pc[p]
  BY <1>1 DEF Goto, TypeOK
<1>4. ASSUME NEW k \in 1..Len(events[c]) PROVE \E d \in stored' : d.id = events'[c][k].id
  <2>1. Doc(c, k) \in stored' /\ Doc(c, k).id = events'[c][k].id
    BY <1>1, <1>2
  <2> QED
    BY <2>1
<1>5. \A id : Known(id) => Known(id)'
  BY <1>2 DEF Known
<1>6. ASSUME NEW p \in Consumers PROVE Accounted(p)'
  <2>1. CASE p # c
    BY <1>1, <1>2, <1>3, <2>1, AccountedStays DEF Account
  <2>2. CASE p = c
    <3>1. \A k \in 1..Len(events'[c]) : Known(events[c][k].id)'
      BY <1>1, <1>4 DEF Known
    <3> QED
      BY <1>1, <1>5, <2>2, <3>1 DEF Account, Accounted
  <2> QED
    BY <2>1, <2>2
<1>7. Origin'
  <2> SUFFICES ASSUME NEW d \in stored' PROVE \E p \in Consumers : PastIt(p, d.id)'
    BY DEF Origin
  <2>1. CASE d \in stored
    <3>1. PICK p \in Consumers : PastIt(p, d.id)
      BY <2>1 DEF Account, Origin
    <3>2. PastIt(p, d.id)'
      BY <1>1, <1>3, <3>1 DEF PastIt
    <3> QED
      BY <3>2
  <2>2. CASE d \notin stored
    <3>1. PICK k \in 1..Len(events[c]) : d.id = events[c][k].id
      BY <1>2, <2>2
    <3>2. PICK i \in from[c]..next[c] - 1 : Log[c][i].parses /\ events[c][k] = Log[c][i]
      BY <3>1 DEF Account, Accounted
    <3>3. i \in 1..next[c] - 1
      BY OffsetFacts
    <3>4. PastIt(c, d.id)'
      BY <1>1, <1>3, <3>1, <3>2, <3>3 DEF PastIt
    <3> QED
      BY <3>4
  <2> QED
    BY <2>1, <2>2
<1> QED
  BY <1>6, <1>7 DEF Account

\* A step of an execution that nothing disturbs keeps the account.
LEMMA AccountNext ==
  ASSUME PublishedOnce, AllOwned
  PROVE  TypeOK /\ Account /\ Undisturbed /\ Undisturbed' /\ [Next]_vars => Account'
<1> SUFFICES ASSUME TypeOK, Account, Undisturbed, Undisturbed', [Next]_vars PROVE Account'
  OBVIOUS
<1>1. ~Fault
  BY DEF Undisturbed, Fault
<1>2. ASSUME NEW c \in Consumers, Disturbance(c) PROVE FALSE
  BY <1>1, <1>2 DEF Disturbance, FetchFails, ReserveFails, CASFails, BulkWriteFails, CommitFails, Crash
<1>3. ASSUME NEW c \in Consumers, Fetch(c) PROVE Account'
  BY <1>3, AccountFetch
<1>4. ASSUME NEW c \in Consumers,
             \/ Await(c) \/ FlushTick(c) \/ Parse(c) \/ ReserveSequence(c) \/ ReserveMiss(c)
             \/ ReserveInsert(c)
      PROVE  Account'
  <2>1. /\ pc[c] # "commit" /\ UNCHANGED <<from, next, events, committed, stored>>
        /\ \E l \in {"fetch", "parse", "reserve", "upsert", "cas", "write"} : Goto(c, l)
    BY <1>4 DEF Await, FlushTick, Parse, ReserveSequence, ReserveMiss, ReserveInsert, Reserved, mongo
  <2> QED
    BY <2>1, AccountFurther
<1>5. ASSUME NEW c \in Consumers, ParseNothing(c) PROVE Account'
  <2>1. Forget(c) /\ committed' = committed /\ stored' = stored /\ ~Flushable(c)
    BY <1>5 DEF ParseNothing, mongo
  <2>2. \A k \in 1..Len(events[c]) : Known(events[c][k].id)
    <3>1. CASE events[c] = << >>
      BY <3>1
    <3>2. CASE events[c] # << >>
      <4>1. 1 \in 1..Len(events[c])
        BY <3>2, OffsetFacts
      <4>2. PICK i \in from[c]..next[c] - 1 : Log[c][i].parses /\ events[c][1] = Log[c][i]
        BY <4>1 DEF Account, Accounted
      <4>3. i \in DOMAIN Log[c]
        BY OffsetFacts
      <4> QED
        BY <2>1, <3>2, <4>2, <4>3 DEF AllOwned, Flushable, BatchOrg
    <3> QED
      BY <3>1, <3>2
  <2> QED
    BY <2>1, <2>2, AccountForget
<1>6. ASSUME NEW c \in Consumers, UpdateHashChainCAS(c) PROVE Account'
  <2>1. pc[c] = "cas" /\ committed' = committed /\ stored' = stored
    BY <1>6 DEF UpdateHashChainCAS
  <2>2. CASE Goto(c, "write") /\ UNCHANGED <<from, next, events>>
    BY <2>1, <2>2, AccountFurther
  <2>3. CASE Matching(c) = {} /\ Retry(c)
    <3>1. attempt[c] \in 0..MaxTries - 1 /\ attempt[c] # MaxTries - 1
      BY <2>1, <2>3 DEF Undisturbed, LastTryLost, TypeOK
    <3>2. attempt[c] + 1 < MaxTries
      BY <3>1, MaxTriesAssumption
    <3>3. Goto(c, "reserve") /\ UNCHANGED <<from, next, events>>
      BY <2>3, <3>2 DEF Retry
    <3> QED
      BY <2>1, <3>3, AccountFurther
  <2> QED
    BY <1>6, <2>2, <2>3 DEF UpdateHashChainCAS
<1>7. ASSUME NEW c \in Consumers, BulkWrite(c) PROVE Account'
  BY <1>7, AccountWrite
<1>8. ASSUME NEW c \in Consumers, BulkWriteDuplicate(c) PROVE FALSE
  BY <1>8, BatchInsertable, OffsetFacts DEF BulkWriteDuplicate
<1>9. ASSUME NEW c \in Consumers, CommitMessages(c) PROVE Account'
  <2>1. /\ pc[c] = "commit" /\ Forget(c) /\ stored' = stored
        /\ committed' = [committed EXCEPT ![c] = next[c]]
    BY <1>9 DEF CommitMessages, mongo
  <2>2. \A k \in 1..Len(events[c]) : Known(events[c][k].id)
    BY <2>1 DEF Account, Accounted
  <2> QED
    BY <2>1, <2>2, AccountForget
<1>10. CASE UNCHANGED vars
  <2>1. UNCHANGED <<pc, from, next, events, committed, stored>>
    BY <1>10 DEF vars
  <2>2. \A c \in Consumers : Accounted(c)'
    BY <2>1, AccountedStays DEF Account
  <2>3. Origin'
    BY <2>1 DEF Account, Origin, PastIt
  <2> QED
    BY <2>2, <2>3 DEF Account
<1> QED
  BY <1>2, <1>3, <1>4, <1>5, <1>6, <1>7, <1>8, <1>9, <1>10 DEF Next, Step

\* consumer.go:115, "To prevent data loss", holds of every execution in which
\* nothing fails, nobody loses all its races, no event is published twice and
\* every event has an organisation: what is committed is stored.
THEOREM AuditNoEventLost ==
  ASSUME PublishedOnce, AllOwned
  PROVE  Spec /\ []Undisturbed => []NoEventLost
<1>1. Init => Account
  <2> SUFFICES ASSUME Init PROVE Account
    OBVIOUS
  <2>1. \A c \in Consumers : /\ committed[c] = 1 /\ from[c] = 1 /\ next[c] = 1
                             /\ events[c] = << >> /\ pc[c] = "select" /\ stored = {}
    BY DEF Init
  <2>2. 1..Len(<< >>) = {} /\ 1..1 - 1 = {}
    OBVIOUS
  <2>3. \A c \in Consumers : Accounted(c)
    BY <2>1, <2>2 DEF Accounted
  <2>4. Origin
    BY DEF Init, Origin
  <2> QED
    BY <2>3, <2>4 DEF Account
<1>2. TypeOK /\ Account => NoEventLost
  <2> SUFFICES ASSUME TypeOK, Account, NEW c \in Consumers, NEW i \in 1..committed[c] - 1,
                      Log[c][i].parses
               PROVE  Known(Log[c][i].id)
    BY DEF NoEventLost, Chainable, Known
  <2>1. i \in 1..from[c] - 1
    BY OffsetFacts DEF Account, Accounted
  <2> QED
    BY <2>1 DEF Account, Accounted
<1>3. TypeOK /\ Account /\ Undisturbed /\ Undisturbed' /\ [Next]_vars => Account'
  BY AccountNext
<1> QED
  BY <1>1, <1>2, <1>3, AuditTypeCorrect, PTL DEF Spec
=============================================================================
