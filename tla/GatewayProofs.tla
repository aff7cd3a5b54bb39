---------------------------- MODULE GatewayProofs ----------------------------
(***************************************************************************)
(* Proofs about Gateway, for any connectors, idempotency keys, instances,  *)
(* requests at a time and limits.  The inductive invariant is, besides the *)
(* types:                                                                  *)
(*   RequestsOK  what a request has at each of its statements; the key of  *)
(*               a registration is recoverable before its answer is sent   *)
(*   Gone        a key that was revoked without a race is neither cached   *)
(*               nor about to be, and neither is one whose row is about to *)
(*               be written after the cache was cleared of it              *)
(*   Local       what an instance has spent and holds is what came in      *)
(*   Global      what Redis let through was counted, but for the requests  *)
(*               between the count and ZADD                                *)
(***************************************************************************)
EXTENDS Gateway, FiniteSetTheorems, TLAPS

-----------------------------------------------------------------------------
(* Which actions touch what.                                               *)

\* The variables in groups: the table, the cache with what it answered, the
\* records and who has which key, and the limiter.
tables == <<table, nextKey>>
caches == <<cache, revoked, raced, late>>
records == <<idem, known, unsaved>>
limits == <<window, bucket, allowed, shared>>

\* What the limiter leaves alone.
LEMMA LimiterFrame ==
  ASSUME NEW s, NEW i, NEW r
  PROVE  /\ Limit(s, i, r) => UNCHANGED <<tables, caches, records>>
         /\ LimitCount(s) => UNCHANGED <<tables, caches, records>>
         /\ LimitAdd(s) => UNCHANGED <<tables, caches, records>>
         /\ cleanup(i) => UNCHANGED <<tables, caches, records>>
BY DEF Limit, LimitCount, LimitAdd, cleanup, redisVars, history, keyVars, revocationVars, tables, caches, records

\* What a registration leaves alone.
LEMMA RegistrationFrame ==
  ASSUME NEW s
  PROVE  /\ Replay(s) => UNCHANGED <<tables, caches, limits>>
         /\ RegisterConnector(s) => UNCHANGED <<caches, limits, idem, known>>
         /\ Save(s) => UNCHANGED <<tables, caches, limits>>
         /\ Answer(s) => UNCHANGED <<tables, caches, limits>>
<1> USE DEF redisVars, revocationVars, tables, caches, limits
<1>1. Replay(s) => UNCHANGED <<tables, caches, limits>>
  BY DEF Replay
<1>2. RegisterConnector(s) => UNCHANGED <<caches, limits, idem, known>>
  BY DEF RegisterConnector
<1>3. Save(s) => UNCHANGED <<tables, caches, limits>>
  BY DEF Save
<1>4. Answer(s) => UNCHANGED <<tables, caches, limits>>
  BY DEF Answer
<1> QED BY <1>1, <1>2, <1>3, <1>4

\* What a validation leaves alone.
LEMMA ValidationFrame ==
  ASSUME NEW s
  PROVE  /\ ReadCache(s) => UNCHANGED <<tables, records, limits, cache, revoked, raced>>
         /\ FindByPrefix(s) => UNCHANGED <<tables, caches, records, limits>>
         /\ CacheConnector(s) => UNCHANGED <<tables, records, limits, revoked, late>>
<1> USE DEF redisVars, history, keyVars, revocationVars, tables, caches, records, limits
<1>1. ReadCache(s) => UNCHANGED <<tables, records, limits, cache, revoked, raced>>
  BY DEF ReadCache
<1>2. FindByPrefix(s) => UNCHANGED <<tables, caches, records, limits>>
  BY DEF FindByPrefix
<1>3. CacheConnector(s) => UNCHANGED <<tables, records, limits, revoked, late>>
  BY DEF CacheConnector
<1> QED BY <1>1, <1>2, <1>3

\* What the management of connectors leaves alone.
LEMMA ManagementFrame ==
  ASSUME NEW s, NEW op, NEW i
  PROVE  /\ Manage(s, op, i) \/ Disconnect(s) \/ GetConnectorByID(s) => UNCHANGED <<tables, caches, records, limits>>
         /\ ClearCache(s) => UNCHANGED <<tables, records, limits, revoked, raced, late>>
         /\ SuspendConnector(s) \/ DeleteConnector(s) => UNCHANGED <<records, limits, cache, late, nextKey>>
         /\ CreateConnectorIAM(i) \/ UpdateConnectorIAM(i) \/ DeleteConnectorIAM(i) =>
              UNCHANGED <<caches, records, limits, nextKey, reqs>>
         /\ Tick => UNCHANGED <<tables, limits, reqs, revoked, raced, late>>
<1> USE DEF redisVars, history, keyVars, revocationVars, tables, caches, records, limits
<1>1. Manage(s, op, i) \/ Disconnect(s) \/ GetConnectorByID(s) => UNCHANGED <<tables, caches, records, limits>>
  BY DEF Manage, Disconnect, GetConnectorByID
<1>2. ClearCache(s) => UNCHANGED <<tables, records, limits, revoked, raced, late>>
  BY DEF ClearCache
<1>3. SuspendConnector(s) \/ DeleteConnector(s) => UNCHANGED <<records, limits, cache, late, nextKey>>
  BY DEF SuspendConnector, DeleteConnector, Revoke
<1>4. CreateConnectorIAM(i) \/ UpdateConnectorIAM(i) \/ DeleteConnectorIAM(i) =>
        UNCHANGED <<caches, records, limits, nextKey, reqs>>
  BY DEF CreateConnectorIAM, UpdateConnectorIAM, DeleteConnectorIAM, ManageIAM
<1>5. Tick => UNCHANGED <<tables, limits, reqs, revoked, raced, late>>
  BY DEF Tick
<1> QED BY <1>1, <1>2, <1>3, <1>4, <1>5

\* The table.
LEMMA TableSteps ==
  [Next]_vars =>
    \/ UNCHANGED tables
    \/ \E s \in Slots : RegisterConnector(s) \/ SuspendConnector(s) \/ DeleteConnector(s)
    \/ \E i \in Ids : CreateConnectorIAM(i) \/ UpdateConnectorIAM(i) \/ DeleteConnectorIAM(i)
<1>1. CASE UNCHANGED vars
  BY <1>1 DEF vars, tables
<1>2. CASE Next
  BY <1>2, LimiterFrame, RegistrationFrame, ValidationFrame, ManagementFrame
     DEF Next, HandleRegister, HandleValidate
<1> QED BY <1>1, <1>2

\* The cache, and what it answered.
LEMMA CacheSteps ==
  [Next]_vars =>
    \/ UNCHANGED caches
    \/ \E s \in Slots : ReadCache(s) \/ CacheConnector(s) \/ ClearCache(s) \/ SuspendConnector(s) \/ DeleteConnector(s)
    \/ Tick
<1>1. CASE UNCHANGED vars
  BY <1>1 DEF vars, redisVars, history, revocationVars, caches
<1>2. CASE Next
  BY <1>2, LimiterFrame, RegistrationFrame, ValidationFrame, ManagementFrame
     DEF Next, HandleRegister, HandleValidate
<1> QED BY <1>1, <1>2

\* The idempotency records, and who has which key.
LEMMA RecordSteps ==
  [Next]_vars =>
    \/ UNCHANGED records
    \/ \E s \in Slots : Replay(s) \/ RegisterConnector(s) \/ Save(s) \/ Answer(s)
    \/ Tick
<1>1. CASE UNCHANGED vars
  BY <1>1 DEF vars, redisVars, history, keyVars, records
<1>2. CASE Next
  BY <1>2, LimiterFrame, RegistrationFrame, ValidationFrame, ManagementFrame
     DEF Next, HandleRegister, HandleValidate
<1> QED BY <1>1, <1>2

\* The limiter.
LEMMA LimiterSteps ==
  [Next]_vars =>
    \/ UNCHANGED limits
    \/ \E s \in Slots, i \in Instances, c \in Ids, h \in IdemKeys \cup {"none"} : HandleRegister(s, i, c, h)
    \/ \E s \in Slots, i \in Instances, k \in 1..nextKey - 1 : HandleValidate(s, i, k)
    \/ \E s \in Slots : LimitCount(s) \/ LimitAdd(s)
    \/ \E i \in Instances : cleanup(i)
<1>1. CASE UNCHANGED vars
  BY <1>1 DEF vars, redisVars, history, limits
<1>2. CASE Next
  BY <1>2, RegistrationFrame, ValidationFrame, ManagementFrame DEF Next
<1> QED BY <1>1, <1>2

\* Time, and the bounds.
LEMMA TimeSteps ==
  ASSUME now \in 0..MaxTime, total \in 0..MaxRequests, faults \in 0..MaxFaults, [Next]_vars
  PROVE  /\ now' = now \/ Tick
         /\ now' \in 0..MaxTime /\ total' \in 0..MaxRequests /\ faults' \in 0..MaxFaults
<1> DEFINE Quiet == now' = now /\ total' \in 0..MaxRequests /\ faults' \in 0..MaxFaults
<1> USE BoundsAssumption DEF Fault, NoFault, Failing, Working
<1>1. ASSUME NEW s \in Slots, NEW i, NEW r, Limit(s, i, r) PROVE Quiet
  BY <1>1 DEF Limit
<1>2. ASSUME NEW s \in Slots, NEW op, NEW i, Manage(s, op, i) PROVE Quiet
  BY <1>2 DEF Manage, history
<1>3. ASSUME NEW s \in Slots, Replay(s) \/ RegisterConnector(s) PROVE Quiet
  BY <1>3 DEF Replay, RegisterConnector
<1>4. ASSUME NEW s \in Slots, Save(s) \/ Answer(s) \/ Disconnect(s) PROVE Quiet
  BY <1>4 DEF Save, Answer, Disconnect
<1>5. ASSUME NEW s \in Slots, ReadCache(s) \/ FindByPrefix(s) \/ CacheConnector(s) PROVE Quiet
  <2>1. CASE ReadCache(s)
    BY <2>1 DEF ReadCache
  <2>2. CASE FindByPrefix(s)
    <3>1. UNCHANGED <<now, total>>
      BY <2>2 DEF FindByPrefix
    <3>2. NoFault \/ Fault
      BY <2>2, Zenon DEF FindByPrefix
    <3> QED BY <3>1, <3>2
  <2>3. CASE CacheConnector(s)
    BY <2>3 DEF CacheConnector
  <2> QED BY <1>5, <2>1, <2>2, <2>3
<1>6. ASSUME NEW s \in Slots, GetConnectorByID(s) \/ ClearCache(s) PROVE Quiet
  <2>1. CASE GetConnectorByID(s)
    <3>1. UNCHANGED <<now, total>>
      BY <2>1 DEF GetConnectorByID
    <3>2. NoFault \/ Fault
      BY <2>1, Zenon DEF GetConnectorByID
    <3> QED BY <3>1, <3>2
  <2>2. CASE ClearCache(s)
    BY <2>2 DEF ClearCache
  <2> QED BY <1>6, <2>1, <2>2
<1>7. ASSUME NEW s \in Slots, SuspendConnector(s) \/ DeleteConnector(s) PROVE Quiet
  <2>1. PICK new : Revoke(s, new)
    BY <1>7 DEF SuspendConnector, DeleteConnector
  <2>2. UNCHANGED <<now, total>> /\ (NoFault \/ Fault)
    BY <2>1, Zenon DEF Revoke
  <2> QED BY <2>2
<1>8. ASSUME NEW s \in Slots, LimitCount(s) \/ LimitAdd(s) PROVE Quiet
  BY <1>8 DEF LimitCount, LimitAdd
<1>9. ASSUME NEW i, CreateConnectorIAM(i) \/ UpdateConnectorIAM(i) \/ DeleteConnectorIAM(i) PROVE Quiet
  BY <1>9 DEF CreateConnectorIAM, UpdateConnectorIAM, DeleteConnectorIAM, ManageIAM
<1>10. ASSUME Tick
       PROVE now' \in 0..MaxTime /\ total' \in 0..MaxRequests /\ faults' \in 0..MaxFaults
  BY <1>10 DEF Tick
<1>11. CASE UNCHANGED vars
  BY <1>11 DEF vars
<1>12. ASSUME NEW i, cleanup(i) PROVE Quiet
  BY <1>12 DEF cleanup
<1> HIDE DEF Quiet
<1>13. CASE Next
  <2>1. Quiet \/ Tick
    BY <1>1, <1>2, <1>3, <1>4, <1>5, <1>6, <1>7, <1>8, <1>9, <1>12, <1>13
       DEF Next, HandleRegister, HandleValidate
  <2> QED BY <1>10, <2>1 DEF Quiet
<1> QED BY <1>11, <1>13

-----------------------------------------------------------------------------
(* The requests.                                                           *)

\* API keys that reached a client, or can, or whose answer is not recorded.
Recoverable == known \cup unsaved \cup {e.key : e \in idem}

\* Where a request is with the limiter.
Limiting == {"count", "add", "over"}

\* A request r, when the keys of K are recoverable: a registration has a key from
\* the INSERT on, and its answer is recorded, or known not to be, before it is sent.
RequestOK(r, K) ==
  /\ r.op = "register" => r.id \in Ids
  /\ r.op = "register" /\ r.pc \in Limiting \cup {"replay", "insert"} => r.key = 0
  /\ r.pc \in Limiting => \/ r.op = "register" /\ r.then \in {"replay", "insert"}
                          \/ r.op = "validate" /\ r.then = "cached"
  /\ r.pc \in {"save", "answer"} => r.op = "register" /\ r.key # 0
  /\ r.pc = "save" => r.header # "none"
  /\ r.pc \in {"cached", "find", "store"} => r.op = "validate"
  /\ r.pc \in {"get", "clear", "write"} => r.op \in {"suspend", "delete"}
  /\ r.pc = "get" => r.key = 0
  /\ r.pc = "store" => r.row \in Rows
  /\ r.pc = "answer" /\ r.header # "none" => r.key \in K

RequestsOK == \A s \in Slots : RequestOK(reqs[s], Recoverable)

\* What reqs and nextKey have to be for a step of a request.
ReqsTyped ==
  /\ reqs \in [Slots -> Requests] /\ table \subseteq Rows /\ nextKey \in Nat \ {0}
  /\ now \in Nat /\ \A s \in Slots : reqs[s].at <= now

\* The request of s becomes r.  A key that r does not carry on is recoverable.
Becomes(s, r) ==
  /\ r \in Requests /\ r.at <= now
  /\ reqs' = [reqs EXCEPT ![s] = r]
  /\ RequestOK(r, Recoverable')
  /\ r.pc = "store" => r.row \in table /\ r.row.status # "suspended"
  /\ r.pc = "write" /\ r.key # 0 => \A c \in cache' : c.row.key # r.key
  /\ reqs[s].op = "register" => \/ r.op = "register" /\ r.key = reqs[s].key
                                \/ reqs[s].key \in Recoverable' \cup {0}

\* The same for a step that is not of the limiter.
Proceeds(s, r) == Becomes(s, r) /\ reqs[s].pc \notin Limiting /\ r.pc \notin Limiting

\* A request as it is before the limiter.
Fresh(r) ==
  /\ r \in Requests /\ r.key \in Nat /\ r.at = 0
  /\ \/ r.op = "register" /\ r.pc \in {"replay", "insert"} /\ r.key = 0 /\ r.id \in Ids
     \/ r.op = "validate" /\ r.pc = "cached"

\* Idle is a request.
LEMMA IdleOK == Idle \in Requests /\ \A K : RequestOK(Idle, K)
BY DEF Idle, Requests, RequestOK, Limiting

\* HandleRegister and HandleValidate hand a fresh request to the limiter.
LEMMA FreshRequests ==
  ASSUME NEW s \in Slots, NEW i, nextKey \in Nat,
         \/ \E c \in Ids, h \in IdemKeys \cup {"none"} : HandleRegister(s, i, c, h)
         \/ \E k \in 1..nextKey - 1 : HandleValidate(s, i, k)
  PROVE  \E r : Fresh(r) /\ Limit(s, i, r)
<1>1. ASSUME NEW c \in Ids, NEW h \in IdemKeys \cup {"none"}, HandleRegister(s, i, c, h)
      PROVE  \E r : Fresh(r) /\ Limit(s, i, r)
  <2> DEFINE r == [Idle EXCEPT !.op = "register", !.id = c, !.header = h,
                               !.pc = IF h = "none" THEN "insert" ELSE "replay"]
  <2>1. Fresh(r)
    BY DEF Fresh, Requests, Idle
  <2>2. Limit(s, i, r)
    BY <1>1 DEF HandleRegister
  <2> QED BY <2>1, <2>2
<1>2. ASSUME NEW k \in 1..nextKey - 1, HandleValidate(s, i, k)
      PROVE  \E r : Fresh(r) /\ Limit(s, i, r)
  <2> DEFINE r == [Idle EXCEPT !.op = "validate", !.key = k, !.pc = "cached"]
  <2>0. k \in Nat
    OBVIOUS
  <2>1. Fresh(r)
    BY <2>0 DEF Fresh, Requests, Idle
  <2>2. Limit(s, i, r)
    BY <1>2 DEF HandleValidate
  <2> QED BY <2>1, <2>2
<1> QED BY <1>1, <1>2

\* The request of s ends and had no key, or one that is recoverable.
LEMMA Ends ==
  ASSUME ReqsTyped, NEW s \in Slots, End(s),
         reqs[s].op = "register" => reqs[s].key \in Recoverable' \cup {0}
  PROVE  Becomes(s, Idle)
<1>1. Idle.at = 0 /\ Idle.pc = "idle"
  BY DEF Idle
<1> QED BY <1>1, IdleOK DEF Becomes, End, ReqsTyped

\* Recoverable keys stay so.
LEMMA RecoverableGrows ==
  ASSUME [Next]_vars PROVE Recoverable \subseteq Recoverable'
<1>1. CASE UNCHANGED records
  BY <1>1 DEF Recoverable, records
<1>2. ASSUME NEW s \in Slots, Replay(s) PROVE Recoverable \subseteq Recoverable'
  BY <1>2 DEF Recoverable, Replay, redisVars
<1>3. ASSUME NEW s \in Slots, Save(s) PROVE Recoverable \subseteq Recoverable'
  BY <1>3 DEF Recoverable, Save
<1>4. ASSUME NEW s \in Slots, Answer(s) PROVE Recoverable \subseteq Recoverable'
  BY <1>4 DEF Recoverable, Answer, redisVars
<1>5. ASSUME Tick PROVE Recoverable \subseteq Recoverable'
  BY <1>5 DEF Recoverable, Tick
<1>6. ASSUME NEW s \in Slots, RegisterConnector(s) PROVE Recoverable \subseteq Recoverable'
  <2>1. UNCHANGED <<idem, known>> /\ unsaved \subseteq unsaved'
    BY <1>6 DEF RegisterConnector, redisVars
  <2> QED BY <2>1 DEF Recoverable
<1> QED BY <1>1, <1>2, <1>3, <1>4, <1>5, <1>6, RecordSteps

\* The limiter in memory: a request is on its way to Redis, or it is refused.
LEMMA LimitBecomes ==
  ASSUME ReqsTyped, NEW s \in Slots, NEW i, NEW r, Fresh(r), Limit(s, i, r)
  PROVE  \/ UNCHANGED <<reqs, allowed>>
         \/ \E q : Becomes(s, q) /\ q.pc = "count" /\ q.at = now
<1>1. reqs[s] = Idle /\ Idle.op = "none"
  BY DEF Limit, Idle
<1> DEFINE q == [r EXCEPT !.pc = "count", !.at = now, !.then = r.pc]
<1>2. CASE reqs' = [reqs EXCEPT ![s] = q]
  <2>1. q \in Requests /\ q.at = now /\ q.pc = "count" /\ q.op = r.op /\ q.key = r.key /\ q.id = r.id
        /\ q.then = r.pc
    BY ZenonT(60) DEF Fresh, Requests, ReqsTyped
  <2>2. reqs' = [reqs EXCEPT ![s] = q]
    BY <1>2
  <2> HIDE DEF q
  <2>3. RequestOK(q, Recoverable')
    BY <2>1 DEF RequestOK, Fresh, Limiting
  <2>4. q.at <= now
    BY <2>1 DEF ReqsTyped
  <2>5. Becomes(s, q)
    BY <1>1, <2>1, <2>2, <2>3, <2>4 DEF Becomes
  <2> QED BY <2>1, <2>5
<1> QED BY <1>2, Zenon DEF Limit

\* The request goes on.
LEMMA Passes ==
  ASSUME ReqsTyped, RequestsOK, NEW s \in Slots, reqs[s].pc \in Limiting, Pass(s)
  PROVE  \E q : Becomes(s, q) /\ q.pc \notin Limiting
<1>1. reqs[s] \in Requests /\ RequestOK(reqs[s], Recoverable)
  BY DEF ReqsTyped, RequestsOK
<1> DEFINE q == [reqs[s] EXCEPT !.pc = reqs[s].then, !.at = 0, !.then = "none"]
<1>2. /\ reqs[s].then \in {"replay", "insert", "cached"}
      /\ reqs[s].op = "register" => reqs[s].then # "cached" /\ reqs[s].key = 0
      /\ reqs[s].op = "validate" => reqs[s].then = "cached"
      /\ reqs[s].op \in {"register", "validate"}
      /\ reqs[s].op = "register" => reqs[s].id \in Ids
  BY <1>1 DEF RequestOK
<1>3. q \in Requests /\ q.at = 0 /\ q.pc = reqs[s].then /\ q.op = reqs[s].op
      /\ q.key = reqs[s].key /\ q.id = reqs[s].id
  BY <1>1, <1>2 DEF Requests
<1>4. reqs' = [reqs EXCEPT ![s] = q]
  BY DEF Pass, ReqsTyped
<1> HIDE DEF q
<1>5. RequestOK(q, Recoverable') /\ q.pc \notin Limiting \cup {"store", "write"}
  BY <1>2, <1>3 DEF RequestOK, Limiting
<1>6. q.at <= now
  BY <1>3 DEF ReqsTyped
<1>7. Becomes(s, q)
  BY <1>3, <1>4, <1>5, <1>6 DEF Becomes
<1> QED BY <1>5, <1>7

\* The count: the request is to be added, or memory has decided.
LEMMA LimitCountBecomes ==
  ASSUME ReqsTyped, RequestsOK, NEW s \in Slots, LimitCount(s)
  PROVE  \E q : /\ Becomes(s, q)
               /\ \/ q.pc \notin Limiting
                  \/ q.pc = "over"
                  \/ q.pc = "add" /\ Cardinality(InWindow(reqs[s].at)) <= Burst
<1>1. reqs[s] \in Requests /\ RequestOK(reqs[s], Recoverable) /\ reqs[s].pc = "count" /\ reqs[s].at <= now
  BY DEF ReqsTyped, RequestsOK, LimitCount
<1>2. CASE Pass(s)
  BY <1>1, <1>2, Passes DEF Limiting
<1>3. ASSUME NEW l \in {"add", "over"}, Goto(s, l) PROVE \E q : Becomes(s, q) /\ q.pc = l
  <2> DEFINE q == [reqs[s] EXCEPT !.pc = l]
  <2>1. q \in Requests /\ q.pc = l /\ q.at = reqs[s].at /\ q.op = reqs[s].op /\ q.key = reqs[s].key
        /\ q.id = reqs[s].id /\ q.then = reqs[s].then
    BY <1>1 DEF Requests
  <2>2. reqs' = [reqs EXCEPT ![s] = q]
    BY <1>3 DEF Goto, ReqsTyped
  <2> HIDE DEF q
  <2>3. RequestOK(q, Recoverable')
    BY <1>1, <2>1 DEF RequestOK, Limiting
  <2>4. Becomes(s, q)
    BY <1>1, <2>1, <2>2, <2>3 DEF Becomes
  <2> QED BY <2>1, <2>4
<1>4. \/ Pass(s) \/ Goto(s, "over")
      \/ Goto(s, "add") /\ Cardinality(InWindow(reqs[s].at)) <= Burst
  BY Zenon DEF LimitCount
<1> QED BY <1>2, <1>3, <1>4 DEF Limiting

\* ZADD: the request goes on, or is refused.
LEMMA LimitAddBecomes ==
  ASSUME ReqsTyped, RequestsOK, NEW s \in Slots, LimitAdd(s)
  PROVE  \E q : Becomes(s, q) /\ q.pc \notin Limiting
<1>1. reqs[s].pc \in Limiting /\ RequestOK(reqs[s], Recoverable)
  BY DEF RequestsOK, LimitAdd, Limiting
<1>2. CASE End(s)
  <2>1. Idle.pc \notin Limiting
    BY DEF Idle, Limiting
  <2> QED BY <1>1, <1>2, <2>1, Ends DEF RequestOK
<1>3. CASE Pass(s)
  BY <1>1, <1>3, Passes
<1> QED BY <1>2, <1>3, Zenon DEF LimitAdd

\* A statement that only moves the program counter.
LEMMA GoesTo ==
  ASSUME ReqsTyped, RequestsOK, NEW s \in Slots, NEW l, Goto(s, l), reqs[s].pc \notin Limiting,
         l \in {"insert", "find", "write", "answer"},
         l = "insert" => reqs[s].op = "register" /\ reqs[s].key = 0,
         l = "find" => reqs[s].op = "validate",
         l = "write" => /\ reqs[s].op \in {"suspend", "delete"}
                        /\ reqs[s].key # 0 => \A c \in cache' : c.row.key # reqs[s].key,
         l = "answer" => /\ reqs[s].op = "register" /\ reqs[s].key # 0
                         /\ reqs[s].key \in Recoverable'
  PROVE  \E r : Proceeds(s, r)
<1> DEFINE r == [reqs[s] EXCEPT !.pc = l]
<1>1. reqs[s] \in Requests /\ reqs[s].at <= now /\ (reqs[s].op = "register" => reqs[s].id \in Ids)
  BY DEF ReqsTyped, RequestsOK, RequestOK
<1>2. r \in Requests /\ r.pc = l /\ r.op = reqs[s].op /\ r.key = reqs[s].key /\ r.at = reqs[s].at
      /\ r.id = reqs[s].id
  BY <1>1 DEF Requests
<1>3. reqs' = [reqs EXCEPT ![s] = r]
  BY DEF Goto, ReqsTyped
<1> HIDE DEF r
<1>4. RequestOK(r, Recoverable')
  BY <1>1, <1>2 DEF RequestOK, Limiting
<1> QED BY <1>1, <1>2, <1>3, <1>4 DEF Becomes, Proceeds, Limiting

\* Whatever the step, a request that changes becomes another one as it should.
LEMMA RequestSteps ==
  ASSUME ReqsTyped, RequestsOK, [Next]_vars
  PROVE  \/ reqs' = reqs
         \/ \E s \in Slots : \E r : Proceeds(s, r)
         \/ \E s \in Slots, i \in Instances : \E r : Fresh(r) /\ Limit(s, i, r)
         \/ \E s \in Slots : LimitCount(s) \/ LimitAdd(s)
<1> DEFINE Good == reqs' = reqs \/ \E s \in Slots : \E r : Proceeds(s, r)
<1> USE DEF Limiting
<1>1. ASSUME NEW s \in Slots
      PROVE  /\ reqs[s] \in Requests /\ reqs[s].at <= now /\ RequestOK(reqs[s], Recoverable)
             /\ (End(s) /\ reqs[s].pc \notin Limiting
                   /\ (reqs[s].op = "register" => reqs[s].key \in Recoverable' \cup {0})) => Good
  <2>1. reqs[s] \in Requests /\ reqs[s].at <= now /\ RequestOK(reqs[s], Recoverable)
    BY DEF ReqsTyped, RequestsOK
  <2>2. Idle.pc \notin Limiting
    BY DEF Idle
  <2> QED BY <2>1, <2>2, Ends DEF Proceeds
<1> DEFINE K == Recoverable'
<1>2. ASSUME NEW s \in Slots, NEW op \in {"suspend", "delete"}, NEW i \in Ids, Manage(s, op, i)
      PROVE  Good
  <2> DEFINE r == [Idle EXCEPT !.op = op, !.id = i, !.pc = "get"]
  <2>1. r \in Requests /\ r.op = op /\ r.pc = "get" /\ r.at = 0 /\ r.key = 0
    BY DEF Requests, Idle
  <2>2. reqs' = [reqs EXCEPT ![s] = r] /\ reqs[s].op = "none" /\ reqs[s].pc \notin Limiting
    BY <1>2 DEF Manage, Idle
  <2> HIDE DEF r
  <2>3. RequestOK(r, K)
    BY <2>1 DEF RequestOK
  <2>4. 0 <= now
    BY DEF ReqsTyped
  <2>5. Proceeds(s, r)
    BY <2>1, <2>2, <2>3, <2>4 DEF Proceeds, Becomes
  <2> QED BY <2>5
<1>3. ASSUME NEW s \in Slots, Replay(s) PROVE Good
  <2>1. reqs[s].op = "register" /\ reqs[s].pc = "replay" /\ reqs[s].key = 0
    BY <1>1, <1>3 DEF Replay, RequestOK
  <2>2. CASE End(s)
    BY <1>1, <2>1, <2>2
  <2>3. CASE Goto(s, "insert")
    BY <2>1, <2>3, GoesTo
  <2> QED BY <1>3, <2>2, <2>3, Zenon DEF Replay
<1>4. ASSUME NEW s \in Slots, RegisterConnector(s) PROVE Good
  <2>1. reqs[s].op = "register" /\ reqs[s].pc = "insert" /\ reqs[s].key = 0 /\ reqs[s].id \in Ids
    BY <1>1, <1>4 DEF RegisterConnector, RequestOK
  <2>2. CASE End(s)
    BY <1>1, <2>1, <2>2
  <2> DEFINE l == IF reqs[s].header = "none" THEN "answer" ELSE "save"
             r == [reqs[s] EXCEPT !.key = nextKey, !.pc = l]
  <2>3. CASE reqs' = [reqs EXCEPT ![s].key = nextKey, ![s].pc = l]
    <3>1. r \in Requests /\ r.op = "register" /\ r.pc = l /\ r.at = reqs[s].at /\ r.key = nextKey
          /\ r.header = reqs[s].header /\ r.id = reqs[s].id
      BY <1>1, <2>1, ZenonT(60) DEF Requests, ReqsTyped
    <3>2. reqs' = [reqs EXCEPT ![s] = r]
      BY <2>3 DEF ReqsTyped
    <3>3. nextKey # 0
      BY DEF ReqsTyped
    <3> HIDE DEF r
    <3>4. RequestOK(r, K) /\ r.pc \notin Limiting \cup {"store", "write"}
      BY <2>1, <3>1, <3>3 DEF RequestOK
    <3>5. Proceeds(s, r)
      BY <1>1, <2>1, <3>1, <3>2, <3>4 DEF Proceeds, Becomes
    <3> QED BY <3>5
  <2> QED BY <1>4, <2>2, <2>3, Zenon DEF RegisterConnector
<1>5. ASSUME NEW s \in Slots, Save(s) PROVE Good
  <2>1. reqs[s].op = "register" /\ reqs[s].pc = "save" /\ reqs[s].key # 0
    BY <1>1, <1>5 DEF Save, RequestOK
  <2>2. reqs[s].key \in K
    <3>1. Recorded(s)
      BY <2>1 DEF Recorded
    <3>2. CASE unsaved' = unsaved \cup {reqs[s].key}
      BY <3>2 DEF Recoverable
    <3> DEFINE e == [header |-> reqs[s].header, key |-> reqs[s].key, until |-> now + IdempotencyTTL]
    <3>3. CASE idem' = {x \in idem : x.header # reqs[s].header} \cup {e}
      <4>1. e \in idem' /\ e.key = reqs[s].key
        BY <3>3
      <4> QED BY <4>1 DEF Recoverable
    <3> QED BY <1>5, <3>1, <3>2, <3>3, Zenon DEF Save
  <2>3. Goto(s, "answer")
    BY <1>5 DEF Save
  <2> QED BY <2>1, <2>2, <2>3, GoesTo
<1>6. ASSUME NEW s \in Slots, Answer(s) PROVE Good
  <2>1. reqs[s].op = "register" /\ reqs[s].pc = "answer"
    BY <1>6 DEF Answer
  <2>2. reqs[s].header = "none" => reqs[s].key \in K
    BY <1>6 DEF Answer, Recoverable
  <2>3. reqs[s].header # "none" => reqs[s].key \in K
    BY <1>1, <2>1, RecoverableGrows DEF RequestOK
  <2>4. End(s)
    BY <1>6 DEF Answer
  <2> QED BY <1>1, <2>1, <2>2, <2>3, <2>4
<1>7. ASSUME NEW s \in Slots, Disconnect(s) PROVE Good
  <2> DEFINE r == [reqs[s] EXCEPT !.gone = "yes"]
  <2>1. reqs[s].op = "register" /\ reqs[s].pc \notin Limiting
    BY <1>7 DEF Disconnect
  <2>2. r \in Requests /\ r.op = "register" /\ r.pc = reqs[s].pc /\ r.at = reqs[s].at
        /\ r.key = reqs[s].key /\ r.header = reqs[s].header /\ r.row = reqs[s].row /\ r.id = reqs[s].id
    BY <1>1, <2>1 DEF Requests
  <2>3. reqs' = [reqs EXCEPT ![s] = r]
    BY <1>7 DEF Disconnect, ReqsTyped
  <2> HIDE DEF r
  <2>4. RequestOK(r, K) /\ r.pc \notin {"store", "write"}
    BY <1>1, <2>1, <2>2, RecoverableGrows DEF RequestOK
  <2>5. Proceeds(s, r)
    BY <1>1, <2>1, <2>2, <2>3, <2>4 DEF Proceeds, Becomes
  <2> QED BY <2>5
<1>8. ASSUME NEW s \in Slots, ReadCache(s) PROVE Good
  <2>1. reqs[s].op = "validate" /\ reqs[s].pc = "cached"
    BY <1>8 DEF ReadCache
  <2>2. End(s) \/ Goto(s, "find")
    BY <1>8, Zenon DEF ReadCache
  <2>3. CASE End(s)
    BY <1>1, <2>1, <2>3
  <2>4. CASE Goto(s, "find")
    BY <2>1, <2>4, GoesTo
  <2> QED BY <2>2, <2>3, <2>4
<1>9. ASSUME NEW s \in Slots, FindByPrefix(s) PROVE Good
  <2>1. reqs[s].op = "validate" /\ reqs[s].pc = "find"
    BY <1>9 DEF FindByPrefix
  <2>2. CASE End(s)
    BY <1>1, <2>1, <2>2
  <2>3. ASSUME NEW c \in table, c.status # "suspended", reqs' = [reqs EXCEPT ![s].row = c, ![s].pc = "store"]
        PROVE  Good
    <3> DEFINE r == [reqs[s] EXCEPT !.row = c, !.pc = "store"]
    <3>1. c \in Rows
      BY DEF ReqsTyped
    <3>2. r \in Requests /\ r.op = "validate" /\ r.pc = "store" /\ r.at = reqs[s].at /\ r.row = c
      BY <1>1, <2>1, <3>1, ZenonT(60) DEF Requests
    <3>3. reqs' = [reqs EXCEPT ![s] = r]
      BY <2>3 DEF ReqsTyped
    <3> HIDE DEF r
    <3>4. RequestOK(r, K)
      BY <3>1, <3>2 DEF RequestOK
    <3>5. Proceeds(s, r)
      BY <1>1, <2>1, <2>3, <3>1, <3>2, <3>3, <3>4 DEF Proceeds, Becomes
    <3> QED BY <3>5
  <2>4. End(s) \/ \E c \in table : c.status # "suspended" /\ reqs' = [reqs EXCEPT ![s].row = c, ![s].pc = "store"]
    BY <1>9, Zenon DEF FindByPrefix
  <2> QED BY <2>2, <2>3, <2>4
<1>10. ASSUME NEW s \in Slots, CacheConnector(s) PROVE Good
  <2>1. reqs[s].op = "validate" /\ reqs[s].pc = "store" /\ End(s)
    BY <1>10 DEF CacheConnector
  <2> QED BY <1>1, <2>1
<1>11. ASSUME NEW s \in Slots, GetConnectorByID(s) PROVE Good
  <2>1. reqs[s].op \in {"suspend", "delete"} /\ reqs[s].pc = "get" /\ reqs[s].key = 0
    BY <1>1, <1>11 DEF GetConnectorByID, RequestOK
  <2>2. CASE Goto(s, "write")
    BY <2>1, <2>2, GoesTo
  <2>3. ASSUME NEW c \in table, reqs' = [reqs EXCEPT ![s].key = c.key, ![s].pc = "clear"]
        PROVE  Good
    <3> DEFINE r == [reqs[s] EXCEPT !.key = c.key, !.pc = "clear"]
    <3>1. c.key \in Nat
      BY DEF ReqsTyped, Rows
    <3>2. r \in Requests /\ r.op = reqs[s].op /\ r.pc = "clear" /\ r.at = reqs[s].at
      BY <1>1, <2>1, <3>1, ZenonT(60) DEF Requests
    <3>3. reqs' = [reqs EXCEPT ![s] = r]
      BY <2>3 DEF ReqsTyped
    <3> HIDE DEF r
    <3>4. RequestOK(r, K)
      BY <2>1, <3>2 DEF RequestOK
    <3>5. Proceeds(s, r)
      BY <1>1, <2>1, <3>2, <3>3, <3>4 DEF Proceeds, Becomes
    <3> QED BY <3>5
  <2>4. Goto(s, "write") \/ \E c \in table : reqs' = [reqs EXCEPT ![s].key = c.key, ![s].pc = "clear"]
    BY <1>11, Zenon DEF GetConnectorByID
  <2> QED BY <2>2, <2>3, <2>4
<1>12. ASSUME NEW s \in Slots, ClearCache(s) PROVE Good
  <2>1. reqs[s].op \in {"suspend", "delete"} /\ reqs[s].pc = "clear"
    BY <1>1, <1>12 DEF ClearCache, RequestOK
  <2>2. CASE Goto(s, "write") /\ cache' = Without(reqs[s].key)
    BY <2>1, <2>2, GoesTo DEF Without
  <2>3. CASE reqs' = [reqs EXCEPT ![s].pc = "write", ![s].key = 0]
    <3> DEFINE r == [reqs[s] EXCEPT !.pc = "write", !.key = 0]
    <3>1. r \in Requests /\ r.op = reqs[s].op /\ r.pc = "write" /\ r.at = reqs[s].at /\ r.key = 0
      BY <1>1, <2>1, ZenonT(60) DEF Requests
    <3>2. reqs' = [reqs EXCEPT ![s] = r]
      BY <2>3 DEF ReqsTyped
    <3> HIDE DEF r
    <3>3. RequestOK(r, K)
      BY <2>1, <3>1 DEF RequestOK
    <3>4. Proceeds(s, r)
      BY <1>1, <2>1, <3>1, <3>2, <3>3 DEF Proceeds, Becomes
    <3> QED BY <3>4
  <2> QED BY <1>12, <2>2, <2>3, Zenon DEF ClearCache
<1>13. ASSUME NEW s \in Slots, SuspendConnector(s) \/ DeleteConnector(s) PROVE Good
  <2>1. reqs[s].op \in {"suspend", "delete"} /\ reqs[s].pc = "write" /\ End(s)
    BY <1>13 DEF SuspendConnector, DeleteConnector, Revoke
  <2> QED BY <1>1, <2>1
<1>14. ASSUME NEW i, cleanup(i) PROVE Good
  BY <1>14 DEF cleanup
<1>15. ASSUME NEW i \in Ids, CreateConnectorIAM(i) \/ UpdateConnectorIAM(i) \/ DeleteConnectorIAM(i)
       PROVE Good
  BY <1>15 DEF CreateConnectorIAM, UpdateConnectorIAM, DeleteConnectorIAM, ManageIAM
<1>16. ASSUME Tick PROVE Good
  BY <1>16 DEF Tick
<1>17. CASE UNCHANGED vars
  BY <1>17 DEF vars
<1>18. nextKey \in Nat
  BY DEF ReqsTyped
<1> HIDE DEF Good
<1>19. CASE Next
  BY <1>2, <1>3, <1>4, <1>5, <1>6, <1>7, <1>8, <1>9, <1>10, <1>11, <1>12, <1>13, <1>14, <1>15,
     <1>16, <1>18, <1>19, FreshRequests DEF Next, Good
<1> QED BY <1>17, <1>19 DEF Good

-----------------------------------------------------------------------------
(* Types.                                                                  *)

RowsOK ==
  /\ table \subseteq Rows /\ nextKey \in Nat \ {0}
  /\ \A r \in table : r.key < nextKey
  /\ \A r, q \in table : (r.id = q.id \/ (r.key = q.key /\ r.key # 0)) => r = q

CacheOK == cache \subseteq [row : Rows, until : Nat] /\ \A c \in cache : now < c.until

RevokedOK == revoked \subseteq Nat /\ raced \subseteq Nat /\ late \subseteq revoked

IdemOK ==
  /\ idem \subseteq [header : IdemKeys, key : Nat, until : Nat] /\ \A e \in idem : now < e.until
  /\ known \subseteq Nat /\ unsaved \subseteq Nat

Admits == [at : Nat, by : Instances]

LimiterOK ==
  /\ window \subseteq 0..now /\ shared \subseteq 0..now
  /\ bucket \in [Instances -> Buckets \cup {NoBucket}]
  /\ \A i \in Instances : bucket[i].last <= bucket[i].access /\ bucket[i].access <= now
  /\ allowed \in Seq(Admits) /\ \A n \in DOMAIN allowed : allowed[n].at <= now

ReqsOK == reqs \in [Slots -> Requests] /\ \A s \in Slots : reqs[s].at <= now

CountsOK == now \in 0..MaxTime /\ total \in 0..MaxRequests /\ faults \in 0..MaxFaults

\* The parts of TypeOK; nextKey starts at 2.
Typed == RowsOK /\ CacheOK /\ RevokedOK /\ IdemOK /\ LimiterOK /\ ReqsOK /\ CountsOK

\* TypeOK in parts.
LEMMA TypedMeans == Typed => TypeOK /\ ReqsTyped
<1> SUFFICES ASSUME Typed PROVE TypeOK /\ ReqsTyped
  OBVIOUS
<1>1. table \subseteq Rows /\ nextKey \in Nat \ {0}
  BY DEF Typed, RowsOK
<1>2. now \in Nat
  BY DEF Typed, CountsOK
<1>3. ReqsTyped
  BY <1>1, <1>2 DEF ReqsTyped, Typed, ReqsOK
<1>4. TypeOK
  BY DEF Typed, TypeOK, RowsOK, CacheOK, RevokedOK, IdemOK, LimiterOK, Admits, ReqsOK, CountsOK
<1> QED BY <1>3, <1>4

\* A step leaves the requests alone or one of them becomes another.
LEMMA RequestChanges ==
  ASSUME Typed, RequestsOK, [Next]_vars
  PROVE  reqs' = reqs \/ \E s \in Slots : \E r : Becomes(s, r)
<1>1. ReqsTyped
  BY TypedMeans
<1> QED BY <1>1, RequestSteps, LimitBecomes, LimitCountBecomes, LimitAddBecomes DEF Proceeds

\* The requests stay requests, each with what it has to have.
LEMMA RequestsStep ==
  ASSUME Typed, RequestsOK, [Next]_vars PROVE ReqsOK' /\ RequestsOK'
<1>1. ReqsTyped /\ now' >= now /\ now \in Nat /\ now' \in Nat
  BY TypedMeans, TimeSteps, BoundsAssumption DEF Typed, CountsOK, Tick
<1>2. ASSUME NEW s \in Slots, NEW r, Becomes(s, r) PROVE ReqsOK' /\ RequestsOK'
  <2>1. reqs' \in [Slots -> Requests]
    BY <1>1, <1>2 DEF Becomes, ReqsTyped
  <2>2. ASSUME NEW t \in Slots PROVE reqs'[t].at <= now' /\ RequestOK(reqs'[t], Recoverable')
    <3>1. CASE t = s
      <4>1. reqs'[t] = r
        BY <1>1, <1>2, <3>1 DEF Becomes, ReqsTyped
      <4>2. r.at \in Nat /\ r.at <= now
        BY <1>2 DEF Becomes, Requests
      <4> QED BY <1>1, <1>2, <4>1, <4>2 DEF Becomes
    <3>2. CASE t # s
      <4>1. reqs'[t] = reqs[t]
        BY <1>1, <1>2, <3>2 DEF Becomes, ReqsTyped
      <4>2. reqs[t].at \in Nat /\ reqs[t].at <= now
        BY <1>1 DEF ReqsTyped, Requests
      <4>3. RequestOK(reqs[t], Recoverable')
        BY RecoverableGrows DEF RequestsOK, RequestOK
      <4> QED BY <1>1, <4>1, <4>2, <4>3
    <3> QED BY <3>1, <3>2
  <2> QED BY <2>1, <2>2 DEF ReqsOK, RequestsOK
<1>3. CASE reqs' = reqs
  <2>1. ReqsOK'
    <3>1. \A s \in Slots : reqs[s].at \in Nat /\ reqs[s].at <= now
      BY <1>1 DEF ReqsTyped, Requests
    <3> QED BY <1>1, <1>3, <3>1 DEF ReqsOK, ReqsTyped
  <2>2. RequestsOK'
    BY <1>3, RecoverableGrows DEF RequestsOK, RequestOK
  <2> QED BY <2>1, <2>2
<1> QED BY <1>2, <1>3, RequestChanges

\* The rows of i are rewritten as g says.
Rewritten(i, g) ==
  /\ nextKey' = nextKey
  /\ \A r \in table : g[r] \in Rows /\ g[r].id = r.id /\ g[r].key = r.key
  /\ \A q \in table' : \E r \in table : q = IF r.id = i THEN g[r] ELSE r

\* The table.
LEMMA RowsStep ==
  ASSUME Typed, RequestsOK, [Next]_vars PROVE RowsOK'
<1>0. RowsOK /\ ReqsTyped
  BY TypedMeans DEF Typed
<1>1. CASE UNCHANGED <<table, nextKey>>
  BY <1>0, <1>1 DEF RowsOK
<1>2. ASSUME table' \subseteq table, nextKey' = nextKey PROVE RowsOK'
  BY <1>0, <1>2 DEF RowsOK
<1>3. ASSUME NEW i \in Ids, NEW k \in {0, nextKey}, ~Taken(i),
             table' = table \cup {[id |-> i, key |-> k, status |-> "active", version |-> 0]},
             nextKey' \in {nextKey, nextKey + 1}, k # 0 => nextKey' = nextKey + 1
      PROVE  RowsOK'
  <2> DEFINE c == [id |-> i, key |-> k, status |-> "active", version |-> 0]
  <2>1. c \in Rows /\ c.id = i /\ c.key = k
    BY <1>0 DEF Rows, RowsOK
  <2>2. \A r \in table : r.id # i /\ r.key < nextKey /\ r.key \in Nat
    BY <1>0, <1>3 DEF Taken, RowsOK, Rows
  <2>3. table' = table \cup {c}
    BY <1>3
  <2> HIDE DEF c
  <2>4. table' \subseteq Rows /\ nextKey' \in Nat \ {0}
    BY <1>0, <1>3, <2>1, <2>3 DEF RowsOK
  <2>5. \A r \in table' : r.key < nextKey'
    BY <1>0, <1>3, <2>1, <2>2, <2>3 DEF RowsOK
  <2>6. ASSUME NEW r \in table', NEW q \in table', r.id = q.id \/ (r.key = q.key /\ r.key # 0)
        PROVE  r = q
    <3>1. r \in table /\ q \in table => r = q
      BY <1>0, <2>6 DEF RowsOK
    <3>2. CASE r = c
      BY <1>0, <1>3, <2>1, <2>2, <2>3, <2>6, <3>2 DEF RowsOK
    <3>3. CASE q = c
      BY <1>0, <1>3, <2>1, <2>2, <2>3, <2>6, <3>3 DEF RowsOK
    <3> QED BY <2>3, <3>1, <3>2, <3>3
  <2> QED BY <2>4, <2>5, <2>6 DEF RowsOK
<1>4. ASSUME NEW i, NEW g, Rewritten(i, g) PROVE RowsOK'
  <2>1. \A r \in table' : \E q \in table : r.id = q.id /\ r.key = q.key /\ r = IF q.id = i THEN g[q] ELSE q
    BY <1>4 DEF Rewritten
  <2>2. table' \subseteq Rows
    BY <1>0, <1>4 DEF RowsOK, Rewritten
  <2>3. \A r \in table' : r.key < nextKey'
    BY <1>0, <1>4, <2>1 DEF RowsOK, Rewritten
  <2>4. ASSUME NEW r \in table', NEW q \in table', r.id = q.id \/ (r.key = q.key /\ r.key # 0)
        PROVE  r = q
    <3>1. PICK a \in table : r.id = a.id /\ r.key = a.key /\ r = IF a.id = i THEN g[a] ELSE a
      BY <2>1
    <3>2. PICK b \in table : q.id = b.id /\ q.key = b.key /\ q = IF b.id = i THEN g[b] ELSE b
      BY <2>1
    <3>3. a = b
      BY <1>0, <2>4, <3>1, <3>2 DEF RowsOK
    <3> QED BY <3>1, <3>2, <3>3
  <2> QED BY <1>0, <1>4, <2>2, <2>3, <2>4 DEF RowsOK, Rewritten
<1>5. ASSUME NEW s \in Slots, RegisterConnector(s) PROVE RowsOK'
  <2>1. reqs[s].op = "register" /\ nextKey' = nextKey + 1
    BY <1>5 DEF RegisterConnector
  <2>2. CASE table' = table
    BY <1>0, <2>1, <2>2 DEF RowsOK, Rows
  <2> DEFINE c == [id |-> reqs[s].id, key |-> nextKey, status |-> "active", version |-> 0]
  <2>3. CASE ~Taken(reqs[s].id) /\ table' = table \cup {c}
    <3>1. reqs[s].id \in Ids
      BY <1>0, <2>1 DEF ReqsTyped, RequestsOK, RequestOK
    <3> QED BY <1>3, <2>1, <2>3, <3>1
  <2> QED BY <1>5, <2>2, <2>3, Zenon DEF RegisterConnector
<1>6. ASSUME NEW s \in Slots, SuspendConnector(s) PROVE RowsOK'
  <2>1. CASE UNCHANGED <<table, nextKey>>
    BY <1>1, <2>1
  <2>2. CASE nextKey' = nextKey /\ table' = {IF r.id = reqs[s].id THEN Suspended(r) ELSE r : r \in table}
    <3>1. \A r \in table : Suspended(r) \in Rows /\ Suspended(r).id = r.id /\ Suspended(r).key = r.key
      <4> SUFFICES ASSUME NEW r \in Rows
                   PROVE  Suspended(r) \in Rows /\ Suspended(r).id = r.id /\ Suspended(r).key = r.key
        BY <1>0 DEF RowsOK
      <4>1. PICK q : q = [r EXCEPT !.status = "suspended"]
        OBVIOUS
      <4>2. q \in Rows /\ q.id = r.id /\ q.key = r.key /\ q.version = r.version
        BY <4>1 DEF Rows
      <4>3. Suspended(r) = [q EXCEPT !.version = q.version + 1]
        BY <4>1, <4>2 DEF Suspended, Rows
      <4>4. [q EXCEPT !.version = q.version + 1] \in Rows
        BY <4>2 DEF Rows
      <4> QED BY <4>2, <4>3, <4>4 DEF Rows
    <3>0. PICK g : g = [r \in table |-> Suspended(r)]
      OBVIOUS
    <3>2. \A r \in table : g[r] \in Rows /\ g[r].id = r.id /\ g[r].key = r.key
      BY <3>0, <3>1
    <3>3. \A q \in table' : \E r \in table : q = IF r.id = reqs[s].id THEN g[r] ELSE r
      BY <2>2, <3>0
    <3>4. Rewritten(reqs[s].id, g)
      BY <2>2, <3>2, <3>3 DEF Rewritten
    <3> QED BY <3>4, <1>4
  <2> QED BY <1>6, <2>1, <2>2 DEF SuspendConnector, Revoke
<1>7. ASSUME NEW s \in Slots, DeleteConnector(s) PROVE RowsOK'
  BY <1>2, <1>7 DEF DeleteConnector, Revoke
<1>8. ASSUME NEW i \in Ids, CreateConnectorIAM(i) PROVE RowsOK'
  BY <1>3, <1>8 DEF CreateConnectorIAM, ManageIAM
<1>9. ASSUME NEW i \in Ids, UpdateConnectorIAM(i) PROVE RowsOK'
  <2>0. PICK g : g = [r \in table |-> [r EXCEPT !.version = @ + 1]]
    OBVIOUS
  <2>1. \A r \in table : g[r] \in Rows /\ g[r].id = r.id /\ g[r].key = r.key
    BY <1>0, <2>0 DEF RowsOK, Rows
  <2>2. nextKey' = nextKey
    BY <1>9 DEF UpdateConnectorIAM, ManageIAM
  <2>3. \A q \in table' : \E r \in table : q = IF r.id = i THEN g[r] ELSE r
    BY <1>9, <2>0 DEF UpdateConnectorIAM, ManageIAM
  <2>4. Rewritten(i, g)
    BY <2>1, <2>2, <2>3 DEF Rewritten
  <2> QED BY <2>4, <1>4
<1>10. ASSUME NEW i \in Ids, DeleteConnectorIAM(i) PROVE RowsOK'
  BY <1>2, <1>10 DEF DeleteConnectorIAM, ManageIAM
<1> QED BY <1>1, <1>5, <1>6, <1>7, <1>8, <1>9, <1>10, TableSteps DEF tables

-----------------------------------------------------------------------------
(* Revocation.                                                             *)

\* No entry of the cache is of the key k.
NotCached(k) == \A c \in cache : c.row.key # k

\* A key k that was revoked stays away: nothing brings it back to the cache.
StaysAway(k) ==
  /\ k # 0 /\ k < nextKey
  /\ NotCached(k)
  /\ \A s \in Slots : reqs[s].pc = "store" => reqs[s].row.key # k
  /\ \A r \in table : r.key = k => r.status = "suspended"

\* Unless a validation raced it, a key is not in the cache between the clearing of
\* the cache and the writing of the row, and stays away from it afterwards.
Gone ==
  /\ \A s \in Slots : reqs[s].pc = "write" /\ reqs[s].key # 0 /\ reqs[s].key \notin raced => NotCached(reqs[s].key)
  /\ \A k \in revoked \ raced : StaysAway(k)
  /\ late \subseteq raced

\* No step brings a suspended row back: what is in the table afterwards has the
\* key of a row that was there, no better off, or a new key, or none.
LEMMA NoRevival ==
  ASSUME Typed, RequestsOK, [Next]_vars
  PROVE  /\ nextKey' \in Nat /\ nextKey' >= nextKey
         /\ \A r \in table' : \/ r.key \in {0, nextKey}
                              \/ \E q \in table : /\ q.key = r.key
                                                  /\ q.status = "suspended" => r.status = "suspended"
<1> DEFINE Kept(r) == \/ r.key \in {0, nextKey}
                      \/ \E q \in table : /\ q.key = r.key
                                          /\ q.status = "suspended" => r.status = "suspended"
<1>0. table \subseteq Rows /\ nextKey \in Nat /\ nextKey' \in Nat
  BY RowsStep DEF Typed, RowsOK
<1>1. CASE UNCHANGED tables
  BY <1>0, <1>1 DEF tables
<1>2. ASSUME NEW s \in Slots, RegisterConnector(s)
      PROVE  nextKey' >= nextKey /\ \A r \in table' : Kept(r)
  <2>1. nextKey' = nextKey + 1
    BY <1>2 DEF RegisterConnector
  <2> DEFINE c == [id |-> reqs[s].id, key |-> nextKey, status |-> "active", version |-> 0]
  <2>2. table' = table \/ table' = table \cup {c}
    BY <1>2, Zenon DEF RegisterConnector
  <2>3. c.key = nextKey
    OBVIOUS
  <2> HIDE DEF c
  <2> QED BY <1>0, <2>1, <2>2, <2>3
<1>3. ASSUME NEW s \in Slots, SuspendConnector(s)
      PROVE  nextKey' >= nextKey /\ \A r \in table' : Kept(r)
  <2>1. nextKey' = nextKey
    BY <1>3 DEF SuspendConnector, Revoke
  <2>2. CASE table' = table
    BY <1>0, <2>1, <2>2
  <2>3. CASE table' = {IF r.id = reqs[s].id THEN Suspended(r) ELSE r : r \in table}
    <3>1. \A r \in table : Suspended(r).key = r.key /\ Suspended(r).status = "suspended"
      BY <1>0 DEF Suspended, Rows
    <3> QED BY <1>0, <2>1, <2>3, <3>1
  <2> QED BY <1>3, <2>2, <2>3 DEF SuspendConnector, Revoke
<1>4. ASSUME NEW s \in Slots, DeleteConnector(s)
      PROVE  nextKey' >= nextKey /\ \A r \in table' : Kept(r)
  <2>1. nextKey' = nextKey /\ table' \subseteq table
    BY <1>4 DEF DeleteConnector, Revoke
  <2> QED BY <1>0, <2>1
<1>5. ASSUME NEW i \in Ids, CreateConnectorIAM(i) \/ UpdateConnectorIAM(i) \/ DeleteConnectorIAM(i)
      PROVE  nextKey' >= nextKey /\ \A r \in table' : Kept(r)
  <2>1. nextKey' = nextKey
    BY <1>5, ManagementFrame
  <2>2. CASE CreateConnectorIAM(i)
    BY <1>0, <2>1, <2>2 DEF CreateConnectorIAM, ManageIAM
  <2>3. CASE UpdateConnectorIAM(i)
    <3>1. \A r \in table : /\ [r EXCEPT !.version = @ + 1].key = r.key
                           /\ [r EXCEPT !.version = @ + 1].status = r.status
      BY <1>0 DEF Rows
    <3>2. table' = {IF r.id = i THEN [r EXCEPT !.version = @ + 1] ELSE r : r \in table}
      BY <2>3 DEF UpdateConnectorIAM, ManageIAM
    <3>3. \A r \in table' : \E q \in table : q.key = r.key /\ q.status = r.status
      BY <3>1, <3>2
    <3> QED BY <1>0, <2>1, <3>3
  <2>4. CASE DeleteConnectorIAM(i)
    BY <1>0, <2>1, <2>4 DEF DeleteConnectorIAM, ManageIAM
  <2> QED BY <1>5, <2>2, <2>3, <2>4
<1> QED BY <1>0, <1>1, <1>2, <1>3, <1>4, <1>5, TableSteps

\* What a step that is not of a validation or a revocation has to keep.
LEMMA GoneQuiet ==
  ASSUME Typed, RequestsOK, Gone, [Next]_vars, cache' \subseteq cache, UNCHANGED <<revoked, raced>>,
         late' \subseteq raced
  PROVE  Gone'
<1>1. nextKey \in Nat /\ ReqsTyped /\ revoked \subseteq Nat
  BY TypedMeans DEF Typed, RowsOK, RevokedOK
<1>2. ASSUME NEW k \in revoked \ raced PROVE StaysAway(k)'
  <2>1. StaysAway(k) /\ k \in Nat
    BY <1>1 DEF Gone
  <2>2. k < nextKey'
    BY <1>1, <2>1, NoRevival DEF StaysAway
  <2>3. \A c \in cache' : c.row.key # k
    BY <2>1 DEF StaysAway, NotCached
  <2>4. \A r \in table' : r.key = k => r.status = "suspended"
    BY <1>1, <2>1, NoRevival DEF StaysAway
  <2>5. ASSUME NEW s \in Slots, reqs'[s].pc = "store" PROVE reqs'[s].row.key # k
    <3>1. CASE reqs' = reqs
      BY <2>1, <2>5, <3>1 DEF StaysAway
    <3>2. ASSUME NEW t \in Slots, NEW r, Becomes(t, r) PROVE reqs'[s].row.key # k
      <4>1. CASE s = t
        <5>1. reqs'[s] = r
          BY <1>1, <3>2, <4>1 DEF Becomes, ReqsTyped
        <5>2. r.row \in table /\ r.row.status # "suspended"
          BY <2>5, <3>2, <5>1 DEF Becomes
        <5> QED BY <2>1, <5>1, <5>2 DEF StaysAway
      <4>2. CASE s # t
        <5>1. reqs'[s] = reqs[s]
          BY <1>1, <3>2, <4>2 DEF Becomes, ReqsTyped
        <5> QED BY <2>1, <2>5, <5>1 DEF StaysAway
      <4> QED BY <4>1, <4>2
    <3> QED BY <3>1, <3>2, RequestChanges
  <2> QED BY <2>1, <2>2, <2>3, <2>4, <2>5 DEF StaysAway, NotCached
<1>3. ASSUME NEW s \in Slots, reqs'[s].pc = "write", reqs'[s].key # 0, reqs'[s].key \notin raced
      PROVE  \A c \in cache' : c.row.key # reqs'[s].key
  <2>1. CASE reqs'[s] = reqs[s]
    BY <1>3, <2>1 DEF Gone, NotCached
  <2>2. ASSUME NEW r, Becomes(s, r) PROVE \A c \in cache' : c.row.key # reqs'[s].key
    <3>1. reqs'[s] = r
      BY <1>1, <2>2 DEF Becomes, ReqsTyped
    <3> QED BY <1>3, <2>2, <3>1 DEF Becomes
  <2>3. ASSUME NEW t \in Slots, NEW r, Becomes(t, r), t # s PROVE reqs'[s] = reqs[s]
    BY <1>1, <2>3 DEF Becomes, ReqsTyped
  <2> QED BY <2>1, <2>2, <2>3, RequestChanges
<1> QED BY <1>2, <1>3 DEF Gone, NotCached

\* A validation that stores a row does not bring back a key that was revoked
\* before it read it, and is noted when the key is being revoked.
LEMMA GoneCached ==
  ASSUME Typed, RequestsOK, Gone, [Next]_vars, NEW s \in Slots, CacheConnector(s)
  PROVE  Gone'
<1>1. ReqsTyped /\ tables' = tables /\ revoked' = revoked /\ late' = late /\ revoked \subseteq Nat
  BY TypedMeans, ValidationFrame DEF Typed, RevokedOK
<1>2. /\ reqs[s].pc = "store" /\ reqs' = [reqs EXCEPT ![s] = Idle]
      /\ raced \subseteq raced'
      /\ Revoking(reqs[s].row.key) => reqs[s].row.key \in raced'
  BY DEF CacheConnector, End
<1>3. \A c \in cache' : c \in cache \/ c.row.key = reqs[s].row.key
  BY DEF CacheConnector
<1>4. /\ reqs'[s].pc = "idle"
      /\ \A t \in Slots : t # s => reqs'[t] = reqs[t]
  BY <1>1, <1>2 DEF ReqsTyped, Idle
<1>5. ASSUME NEW k \in revoked' \ raced' PROVE StaysAway(k)'
  <2>1. StaysAway(k)
    BY <1>1, <1>2, <1>5 DEF Gone
  <2>2. \A c \in cache' : c.row.key # k
    BY <1>2, <1>3, <2>1 DEF StaysAway, NotCached
  <2>3. \A t \in Slots : reqs'[t].pc = "store" => reqs'[t].row.key # k
    BY <1>4, <2>1 DEF StaysAway
  <2> QED BY <1>1, <2>1, <2>2, <2>3 DEF StaysAway, NotCached, tables
<1>6. ASSUME NEW t \in Slots, reqs'[t].pc = "write", reqs'[t].key # 0, reqs'[t].key \notin raced'
      PROVE  \A c \in cache' : c.row.key # reqs'[t].key
  <2>1. reqs'[t] = reqs[t] /\ reqs[t].key \notin raced
    BY <1>2, <1>4, <1>6
  <2>2. NotCached(reqs[t].key)
    BY <1>6, <2>1 DEF Gone
  <2>3. reqs[s].row.key # reqs[t].key
    BY <1>2, <1>6, <2>1 DEF Revoking
  <2> QED BY <1>3, <2>1, <2>2, <2>3 DEF NotCached
<1>7. late' \subseteq raced'
  BY <1>1, <1>2 DEF Gone
<1> QED BY <1>5, <1>6, <1>7 DEF Gone, NotCached

\* A key that is revoked stays away, unless a validation has its row in hand.
LEMMA GoneRevoked ==
  ASSUME Typed, RequestsOK, Gone, [Next]_vars, NEW s \in Slots, SuspendConnector(s) \/ DeleteConnector(s)
  PROVE  Gone'
<1> DEFINE k == reqs[s].key
           keys == {j \in {k} : j # 0 /\ \E r \in table : r.id = reqs[s].id /\ r.key = j}
           held == {reqs[t].row.key : t \in {t \in Slots : reqs[t].pc = "store"}}
<1>1. /\ ReqsTyped /\ RowsOK /\ nextKey \in Nat
      /\ nextKey' = nextKey /\ cache' = cache /\ late' = late
      /\ reqs[s].pc = "write" /\ reqs' = [reqs EXCEPT ![s] = Idle]
  BY TypedMeans, ManagementFrame DEF Typed, RowsOK, SuspendConnector, DeleteConnector, Revoke, End
<1>2. CASE UNCHANGED <<revoked, raced>>
  <2>1. late' \subseteq raced
    BY <1>1 DEF Gone
  <2> QED BY <1>1, <1>2, <2>1, GoneQuiet
<1>3. CASE /\ revoked' = revoked \cup keys /\ raced' = raced \cup (keys \cap held)
           /\ \/ table' = {IF r.id = reqs[s].id THEN Suspended(r) ELSE r : r \in table}
              \/ table' = {r \in table : r.id # reqs[s].id}
  <2>0. raced \subseteq raced' /\ (k \in keys /\ k \in held => k \in raced')
    BY <1>3
  <2>1. /\ reqs'[s].pc = "idle"
        /\ \A t \in Slots : t # s => reqs'[t] = reqs[t]
    BY <1>1 DEF ReqsTyped, Idle
  <2>2. ASSUME NEW t \in Slots, reqs'[t].pc = "write", reqs'[t].key # 0, reqs'[t].key \notin raced'
        PROVE  \A c \in cache' : c.row.key # reqs'[t].key
    BY <1>1, <2>0, <2>1, <2>2 DEF Gone, NotCached
  <2>3. late' \subseteq raced'
    BY <1>1, <2>0 DEF Gone
  <2>4. ASSUME NEW j \in revoked \ raced, NEW t \in Slots, reqs'[t].pc = "store"
        PROVE  reqs'[t].row.key # j
    BY <2>1, <2>4 DEF Gone, StaysAway
  <2>5. ASSUME NEW j \in revoked \ raced PROVE StaysAway(j)'
    <3>1. StaysAway(j) /\ j \in Nat
      BY DEF Gone, Typed, RevokedOK
    <3>2. \A r \in table' : r.key = j => r.status = "suspended"
      BY <1>1, <3>1, NoRevival DEF StaysAway
    <3> QED BY <1>1, <2>4, <3>1, <3>2 DEF StaysAway, NotCached
  <2>6. ASSUME NEW j \in keys \ raced' PROVE StaysAway(j)'
    <3>0. j = k /\ j \in keys /\ j \notin raced'
      BY <2>6
    <3>1. PICK r \in table : r.id = reqs[s].id /\ r.key = j
      BY <3>0
    <3>2. j # 0 /\ j < nextKey
      BY <1>1, <2>6, <3>1 DEF RowsOK
    <3>3. \A c \in cache' : c.row.key # j
      BY <1>1, <2>0, <3>0, <3>2 DEF Gone, NotCached
    <3>4. ASSUME NEW t \in Slots, reqs'[t].pc = "store" PROVE reqs'[t].row.key # j
      BY <2>0, <2>1, <3>0, <3>4
    <3>5. ASSUME NEW q \in table, q.key = j PROVE q = r
      BY <1>1, <3>1, <3>2, <3>5 DEF RowsOK
    <3>6. \A q \in table : Suspended(q).status = "suspended" /\ Suspended(q).key = q.key
      BY <1>1 DEF Suspended, RowsOK, Rows
    <3>7. \A q \in table' : q.key = j => q.status = "suspended"
      <4>1. CASE table' = {IF q.id = reqs[s].id THEN Suspended(q) ELSE q : q \in table}
        BY <3>1, <3>5, <3>6, <4>1
      <4>2. CASE table' = {q \in table : q.id # reqs[s].id}
        BY <3>1, <3>5, <4>2
      <4> QED BY <1>3, <4>1, <4>2
    <3> QED BY <1>1, <3>2, <3>3, <3>4, <3>7 DEF StaysAway, NotCached
  <2>7. \A j \in revoked' : j \in revoked \/ j \in keys
    BY <1>3
  <2>8. ASSUME NEW j \in revoked' \ raced' PROVE StaysAway(j)'
    BY <2>0, <2>5, <2>6, <2>7, <2>8
  <2> QED BY <2>2, <2>3, <2>8 DEF Gone, NotCached
<1> QED BY <1>2, <1>3 DEF SuspendConnector, DeleteConnector, Revoke

\* The cache does not answer for a key that stays away.
LEMMA GoneStep ==
  ASSUME Typed, RequestsOK, Gone, [Next]_vars PROVE Gone'
<1>1. CASE UNCHANGED caches
  BY <1>1, GoneQuiet DEF caches, Gone
<1>2. ASSUME NEW s \in Slots, ReadCache(s) PROVE Gone'
  <2>1. UNCHANGED <<cache, revoked, raced>>
    BY <1>2, ValidationFrame
  <2>2. CASE late' = late
    BY <2>1, <2>2, GoneQuiet DEF Gone
  <2>3. ASSUME NEW c \in cache, late' = late \cup ({c.row.key} \cap revoked) PROVE Gone'
    <3>1. c.row.key \in revoked => c.row.key \in raced
      BY DEF Gone, StaysAway, NotCached
    <3>2. late' \subseteq raced
      BY <2>3, <3>1 DEF Gone
    <3> QED BY <2>1, <3>2, GoneQuiet
  <2>4. late' = late \/ \E c \in cache : late' = late \cup ({c.row.key} \cap revoked)
    BY <1>2, Zenon DEF ReadCache
  <2> QED BY <2>2, <2>3, <2>4
<1>3. ASSUME NEW s \in Slots, ClearCache(s) PROVE Gone'
  <2>1. UNCHANGED <<revoked, raced, late>> /\ cache' \subseteq cache
    <3>1. UNCHANGED <<revoked, raced, late>>
      BY <1>3, ManagementFrame
    <3>2. cache' \subseteq cache
      BY <1>3 DEF ClearCache, Without
    <3> QED BY <3>1, <3>2
  <2> QED BY <2>1, GoneQuiet DEF Gone
<1>4. ASSUME Tick PROVE Gone'
  <2>1. UNCHANGED <<revoked, raced, late>> /\ cache' \subseteq cache
    BY <1>4, ManagementFrame DEF Tick
  <2> QED BY <2>1, GoneQuiet DEF Gone
<1> QED BY <1>1, <1>2, <1>3, <1>4, GoneCached, GoneRevoked, CacheSteps

\* The cache, and the keys it answered for.
LEMMA CacheStep ==
  ASSUME Typed, RequestsOK, [Next]_vars PROVE CacheOK' /\ RevokedOK'
<1>1. /\ now' = now \/ Tick
      /\ now \in Nat /\ CacheTTL \in Nat \ {0} /\ CacheOK /\ RevokedOK /\ ReqsTyped
  BY TypedMeans, TimeSteps, BoundsAssumption, LimitsAssumption DEF Typed, CountsOK
<1>2. CASE UNCHANGED caches /\ now' = now
  BY <1>1, <1>2 DEF caches, CacheOK, RevokedOK
<1>3. ASSUME NEW s \in Slots, ReadCache(s) PROVE CacheOK' /\ RevokedOK'
  <2>1. UNCHANGED <<cache, revoked, raced, now>>
    BY <1>3, ValidationFrame DEF ReadCache
  <2>2. late' \subseteq revoked
    <3>1. late' = late \/ \E c \in cache : late' = late \cup ({c.row.key} \cap revoked)
      BY <1>3, Zenon DEF ReadCache
    <3> QED BY <1>1, <3>1 DEF RevokedOK
  <2> QED BY <1>1, <2>1, <2>2 DEF CacheOK, RevokedOK
<1>4. ASSUME NEW s \in Slots, CacheConnector(s) PROVE CacheOK' /\ RevokedOK'
  <2>1. reqs[s].pc = "store" /\ UNCHANGED <<revoked, late, now>>
    BY <1>4 DEF CacheConnector
  <2>2. reqs[s].row \in Rows /\ reqs[s].row.key \in Nat
    BY <2>1 DEF RequestsOK, RequestOK, Rows
  <2>3. PICK e : e = [row |-> reqs[s].row, until |-> now + CacheTTL]
    OBVIOUS
  <2>4. e \in [row : Rows, until : Nat] /\ now < e.until
    BY <1>1, <2>2, <2>3
  <2>5. cache' \subseteq cache \cup {e} /\ raced' \subseteq raced \cup {reqs[s].row.key}
    BY <1>4, <2>3 DEF CacheConnector
  <2> QED BY <1>1, <2>1, <2>2, <2>4, <2>5 DEF CacheOK, RevokedOK
<1>5. ASSUME NEW s \in Slots, ClearCache(s) PROVE CacheOK' /\ RevokedOK'
  <2>1. UNCHANGED <<revoked, raced, late, now>> /\ cache' \subseteq cache
    BY <1>5 DEF ClearCache, Without, history, revocationVars
  <2> QED BY <1>1, <2>1 DEF CacheOK, RevokedOK
<1>6. ASSUME NEW s \in Slots, SuspendConnector(s) \/ DeleteConnector(s) PROVE CacheOK' /\ RevokedOK'
  <2>1. UNCHANGED <<cache, late, now>>
    BY <1>6 DEF SuspendConnector, DeleteConnector, Revoke, redisVars
  <2>2. reqs[s].key \in Nat
    BY <1>1 DEF ReqsTyped, Requests
  <2>3. revoked \subseteq revoked' /\ revoked' \subseteq revoked \cup {reqs[s].key}
        /\ raced' \subseteq raced \cup {reqs[s].key}
    BY <1>6 DEF SuspendConnector, DeleteConnector, Revoke
  <2> QED BY <1>1, <2>1, <2>2, <2>3 DEF CacheOK, RevokedOK
<1>7. ASSUME Tick PROVE CacheOK' /\ RevokedOK'
  <2>1. UNCHANGED <<revoked, raced, late>> /\ cache' = {c \in cache : now' < c.until}
    BY <1>7 DEF Tick, revocationVars
  <2> QED BY <1>1, <2>1 DEF CacheOK, RevokedOK
<1> QED BY <1>1, <1>2, <1>3, <1>4, <1>5, <1>6, <1>7, CacheSteps

-----------------------------------------------------------------------------
(* Idempotency records and keys.                                           *)

\* The records, and the keys of the history.
LEMMA IdemStep ==
  ASSUME Typed, RequestsOK, [Next]_vars PROVE IdemOK'
<1>1. IdemOK /\ ReqsTyped /\ now \in Nat /\ IdempotencyTTL \in Nat \ {0}
  BY TypedMeans, LimitsAssumption DEF Typed, CountsOK
<1>2. CASE Tick
  BY <1>1, <1>2 DEF Tick, IdemOK
<1>3. CASE ~Tick
  <2>1. now' = now
    BY <1>3, TimeSteps DEF Typed, CountsOK
  <2>2. CASE UNCHANGED records
    BY <1>1, <2>1, <2>2 DEF IdemOK, records
  <2>3. ASSUME NEW s \in Slots, Replay(s) PROVE IdemOK'
    <3>1. idem' = idem /\ unsaved' = unsaved
      BY <2>3 DEF Replay, redisVars
    <3>2. known' \subseteq known \cup {e.key : e \in idem}
      BY <2>3 DEF Replay
    <3>3. {e.key : e \in idem} \subseteq Nat
      BY <1>1 DEF IdemOK
    <3> QED BY <1>1, <2>1, <3>1, <3>2, <3>3 DEF IdemOK
  <2>4. ASSUME NEW s \in Slots, Save(s) PROVE IdemOK'
    <3>1. reqs[s].header \in IdemKeys /\ reqs[s].key \in Nat
      BY <1>1, <2>4 DEF Save, ReqsTyped, RequestsOK, RequestOK, Requests
    <3> DEFINE e == [header |-> reqs[s].header, key |-> reqs[s].key, until |-> now + IdempotencyTTL]
    <3>2. e \in [header : IdemKeys, key : Nat, until : Nat] /\ now < e.until
      BY <1>1, <3>1
    <3>3. idem' \subseteq idem \cup {e}
      BY <2>4 DEF Save
    <3>4. known' = known /\ unsaved' \subseteq unsaved \cup {x.key : x \in idem} \cup {reqs[s].key}
      BY <2>4 DEF Save
    <3>5. {x.key : x \in idem} \subseteq Nat
      BY <1>1 DEF IdemOK
    <3> HIDE DEF e
    <3> QED BY <1>1, <2>1, <3>1, <3>2, <3>3, <3>4, <3>5 DEF IdemOK
  <2>5. ASSUME NEW s \in Slots, Answer(s) PROVE IdemOK'
    <3>1. reqs[s].key \in Nat
      BY <1>1 DEF ReqsTyped, Requests
    <3>2. /\ idem' = idem /\ known' \subseteq known \cup {reqs[s].key}
          /\ unsaved' \subseteq unsaved \cup {reqs[s].key}
      BY <2>5 DEF Answer, redisVars
    <3> QED BY <1>1, <2>1, <3>1, <3>2 DEF IdemOK
  <2>6. ASSUME NEW s \in Slots, RegisterConnector(s) PROVE IdemOK'
    <3>1. UNCHANGED <<idem, known>> /\ unsaved' \subseteq unsaved \cup {nextKey}
      BY <2>6 DEF RegisterConnector, redisVars
    <3>2. nextKey \in Nat
      BY <1>1 DEF ReqsTyped
    <3> QED BY <1>1, <2>1, <3>1, <3>2 DEF IdemOK
  <2> QED BY <1>3, <2>2, <2>3, <2>4, <2>5, <2>6, RecordSteps
<1> QED BY <1>2, <1>3

\* Where the key of a row comes from.
LEMMA RowKeys ==
  ASSUME Typed, [Next]_vars
  PROVE  \A r \in table' : \/ \E q \in table : q.key = r.key
                           \/ r.key = 0
                           \/ r.key \in Recoverable'
                           \/ \E s \in Slots : reqs'[s].op = "register" /\ reqs'[s].key = r.key
<1>0. ReqsTyped
  BY TypedMeans
<1>1. CASE UNCHANGED tables
  BY <1>1 DEF tables
<1>2. ASSUME NEW s \in Slots, RegisterConnector(s)
      PROVE  \A r \in table' : \/ r \in table \/ r.key \in Recoverable'
                               \/ reqs'[s].op = "register" /\ reqs'[s].key = r.key
  <2>1. CASE table' = table
    BY <2>1
  <2> DEFINE l == IF reqs[s].header = "none" THEN "answer" ELSE "save"
  <2>2. CASE /\ table' = table \cup {[id |-> reqs[s].id, key |-> nextKey, status |-> "active", version |-> 0]}
             /\ reqs' = [reqs EXCEPT ![s].key = nextKey, ![s].pc = l]
    <3>1. reqs[s] \in Requests /\ reqs[s].op = "register"
      BY <1>0, <1>2 DEF ReqsTyped, RegisterConnector
    <3> DEFINE q == [reqs[s] EXCEPT !.key = nextKey, !.pc = l]
    <3>2. q.key = nextKey /\ q.op = "register"
      BY <3>1 DEF Requests
    <3>3. reqs'[s] = q
      BY <1>0, <2>2 DEF ReqsTyped
    <3>4. reqs'[s].key = nextKey /\ reqs'[s].op = "register"
      BY <3>2, <3>3
    <3> HIDE DEF q, l
    <3>5. PICK c : c.key = nextKey /\ table' = table \cup {c}
      BY <2>2
    <3> QED BY <3>4, <3>5
  <2>3. CASE /\ table' = table \cup {[id |-> reqs[s].id, key |-> nextKey, status |-> "active", version |-> 0]}
             /\ unsaved' = unsaved \cup {nextKey}
    <3>1. nextKey \in Recoverable'
      BY <2>3 DEF Recoverable
    <3>2. PICK c : c.key = nextKey /\ table' = table \cup {c}
      BY <2>3
    <3> QED BY <3>1, <3>2
  <2> QED BY <1>2, <2>1, <2>2, <2>3, Zenon DEF RegisterConnector
<1>3. ASSUME NEW s \in Slots, SuspendConnector(s) PROVE \A r \in table' : \E q \in table : q.key = r.key
  <2>1. \A r \in table : Suspended(r).key = r.key
    BY <1>0 DEF Suspended, ReqsTyped, Rows
  <2> QED BY <1>3, <2>1 DEF SuspendConnector, Revoke
<1>4. ASSUME NEW s \in Slots, DeleteConnector(s) PROVE table' \subseteq table
  BY <1>4 DEF DeleteConnector, Revoke
<1>5. ASSUME NEW i \in Ids, CreateConnectorIAM(i) PROVE \A r \in table' : r \in table \/ r.key = 0
  BY <1>5 DEF CreateConnectorIAM, ManageIAM
<1>6. ASSUME NEW i \in Ids, UpdateConnectorIAM(i) PROVE \A r \in table' : \E q \in table : q.key = r.key
  BY <1>0, <1>6 DEF UpdateConnectorIAM, ManageIAM, ReqsTyped, Rows
<1>7. ASSUME NEW i \in Ids, DeleteConnectorIAM(i) PROVE table' \subseteq table
  BY <1>7 DEF DeleteConnectorIAM, ManageIAM
<1> QED BY <1>1, <1>2, <1>3, <1>4, <1>5, <1>6, <1>7, TableSteps

\* A key that nobody knows yet stays in the hands of its request, or becomes
\* recoverable.
LEMMA KeyStep ==
  ASSUME Typed, RequestsOK, KeyNotLost, [Next]_vars PROVE KeyNotLost'
<1>1. ReqsTyped
  BY TypedMeans
<1>2. reqs' = reqs \/ \E s \in Slots : \E r : Becomes(s, r)
  BY RequestChanges
<1>3. ASSUME NEW t \in Slots, reqs[t].op = "register"
      PROVE  \/ reqs'[t].op = "register" /\ reqs'[t].key = reqs[t].key
             \/ reqs[t].key \in Recoverable' \cup {0}
  <2>1. ASSUME NEW s \in Slots, NEW r, Becomes(s, r)
        PROVE  \/ reqs'[t].op = "register" /\ reqs'[t].key = reqs[t].key
               \/ reqs[t].key \in Recoverable' \cup {0}
    <3>1. CASE t = s
      BY <1>1, <1>3, <2>1, <3>1 DEF Becomes, ReqsTyped
    <3>2. CASE t # s
      BY <1>1, <1>3, <2>1, <3>2 DEF Becomes, ReqsTyped
    <3> QED BY <3>1, <3>2
  <2> QED BY <1>2, <1>3, <2>1
<1>4. ASSUME NEW q \in table
      PROVE  \/ q.key \in Recoverable' \cup {0}
             \/ \E s \in Slots : reqs'[s].op = "register" /\ reqs'[s].key = q.key
  <2>1. \/ q.key \in Recoverable \cup {0}
        \/ \E s \in Slots : reqs[s].op = "register" /\ reqs[s].key = q.key
    BY DEF KeyNotLost, Recoverable
  <2> QED BY <1>3, <2>1, RecoverableGrows
<1>5. ASSUME NEW r \in table'
      PROVE  \/ r.key \in Recoverable' \cup {0}
             \/ \E s \in Slots : reqs'[s].op = "register" /\ reqs'[s].key = r.key
  BY <1>4, <1>5, RowKeys
<1> QED BY <1>5 DEF KeyNotLost, Recoverable

-----------------------------------------------------------------------------
(* The rate limiter.                                                       *)

\* A step of a request that is not of the limiter leaves alone the requests that
\* wait for ZADD.
Waiting ==
  \A s \in Slots : /\ reqs'[s].pc = "add" <=> reqs[s].pc = "add"
                   /\ reqs[s].pc = "add" => reqs'[s] = reqs[s]

\* What a step may do to the limiter.
LEMMA AdmissionSteps ==
  ASSUME Typed, RequestsOK, [Next]_vars
  PROVE  \/ UNCHANGED <<limits, now>> /\ Waiting
         \/ \E s \in Slots, i \in Instances : \E r : Fresh(r) /\ Limit(s, i, r)
         \/ \E s \in Slots : LimitCount(s) \/ LimitAdd(s)
         \/ \E i \in Instances : cleanup(i)
         \/ Tick
<1>1. ReqsTyped /\ nextKey \in Nat
  BY TypedMeans DEF ReqsTyped
<1>2. now' = now \/ Tick
  BY TimeSteps DEF Typed, CountsOK
<1>3. \/ UNCHANGED limits
      \/ \E s \in Slots, i \in Instances : \E r : Fresh(r) /\ Limit(s, i, r)
      \/ \E s \in Slots : LimitCount(s) \/ LimitAdd(s)
      \/ \E i \in Instances : cleanup(i)
  BY <1>1, LimiterSteps, FreshRequests
<1>4. ASSUME NEW s \in Slots, NEW r, Proceeds(s, r) PROVE Waiting
  <2>1. reqs' = [reqs EXCEPT ![s] = r] /\ reqs[s].pc # "add" /\ r.pc # "add"
    BY <1>4 DEF Proceeds, Becomes, Limiting
  <2> QED BY <1>1, <2>1 DEF Waiting, ReqsTyped
<1>5. CASE reqs' = reqs
  BY <1>2, <1>3, <1>5 DEF Waiting
<1> QED BY <1>1, <1>2, <1>3, <1>4, <1>5, RequestSteps

\* What the bucket of i holds now.
Avail(i) == IF bucket[i] = NoBucket THEN Burst * Cost ELSE refilled(bucket[i])

\* A bucket is never fuller than Burst tokens.
LEMMA Capacity == Burst * Cost \in Nat
BY LimitsAssumption

\* Buckets and what they hold.
LEMMA BucketTyped ==
  ASSUME LimiterOK, CountsOK, NEW i \in Instances
  PROVE  /\ Avail(i) \in 0..Burst * Cost /\ now \in Nat
         /\ bucket[i] # NoBucket =>
              /\ bucket[i] \in Buckets /\ bucket[i].tokens \in 0..Burst * Cost
              /\ bucket[i].last \in Nat /\ bucket[i].access \in Nat
              /\ bucket[i].last <= bucket[i].access /\ bucket[i].access <= now
<1> DEFINE C == Burst * Cost
<1>1. C \in Nat /\ now \in Nat
  BY Capacity DEF CountsOK
<1> HIDE DEF C
<1>2. CASE bucket[i] = NoBucket
  BY <1>1, <1>2 DEF Avail, C
<1>3. CASE bucket[i] # NoBucket
  <2>1. bucket[i] \in Buckets /\ bucket[i].last <= bucket[i].access /\ bucket[i].access <= now
    BY <1>3 DEF LimiterOK
  <2>2. bucket[i].tokens \in 0..C /\ bucket[i].last \in Nat /\ bucket[i].access \in Nat
    BY <2>1 DEF Buckets, C
  <2>3. refilled(bucket[i]) \in 0..C
    BY <1>1, <2>1, <2>2 DEF refilled, C
  <2> QED BY <1>1, <1>3, <2>1, <2>2, <2>3 DEF Avail, C
<1> QED BY <1>2, <1>3

\* A bucket with a tokens in it now.
Holds(b, a) ==
  b \in Buckets /\ b # NoBucket /\ refilled(b) = a /\ b.last <= b.access /\ b.access <= now

\* getLimiter finds what the bucket holds.
LEMMA GetLimiter ==
  ASSUME LimiterOK, CountsOK, NEW i \in Instances
  PROVE  Holds(getLimiter(i), Avail(i))
<1> DEFINE C == Burst * Cost
<1>1. C \in Nat /\ now \in Nat
  BY Capacity DEF CountsOK
<1>2. \A b \in Buckets : b # NoBucket
  BY Capacity DEF Buckets, NoBucket
<1>3. CASE bucket[i] = NoBucket
  <2>1. PICK b : b = [tokens |-> C, last |-> now, access |-> now]
    OBVIOUS
  <2>2. getLimiter(i) = b
    BY <1>3, <2>1 DEF getLimiter
  <2>3. b \in Buckets /\ b.tokens = C /\ b.last = now /\ b.access = now
    BY <1>1, <2>1 DEF Buckets
  <2>4. refilled(b) = C
    BY <1>1, <2>3 DEF refilled
  <2> QED BY <1>1, <1>2, <1>3, <2>2, <2>3, <2>4 DEF Avail, Holds
<1>4. CASE bucket[i] # NoBucket
  <2>1. PICK b : b = [bucket[i] EXCEPT !.access = now]
    OBVIOUS
  <2>2. getLimiter(i) = b
    BY <1>4, <2>1 DEF getLimiter
  <2>3. /\ bucket[i] \in Buckets /\ bucket[i].last \in Nat /\ bucket[i].access \in Nat
        /\ bucket[i].last <= bucket[i].access /\ bucket[i].access <= now
    BY <1>4, BucketTyped
  <2>4. b \in Buckets /\ b.tokens = bucket[i].tokens /\ b.last = bucket[i].last /\ b.access = now
    BY <1>1, <2>1, <2>3 DEF Buckets
  <2>5. refilled(b) = refilled(bucket[i])
    BY <2>4 DEF refilled
  <2> QED BY <1>1, <1>2, <1>4, <2>2, <2>3, <2>4, <2>5 DEF Avail, Holds
<1> QED BY <1>3, <1>4

\* The two ways through Limit: refused, or on to Redis.
Refused(i, b) == bucket' = [bucket EXCEPT ![i] = b] /\ UNCHANGED <<reqs, allowed>>
Taking(s, i, b) ==
  /\ bucket' = [bucket EXCEPT ![i] = b]
  /\ allowed' = Append(allowed, [at |-> now, by |-> i])
  /\ \E q : reqs' = [reqs EXCEPT ![s] = q] /\ q.pc = "count"

\* Limit is one of them; a request that is not refused pays a token.
LEMMA LimitCases ==
  ASSUME Typed, NEW s \in Slots, NEW i \in Instances, NEW r, Fresh(r), Limit(s, i, r)
  PROVE  /\ UNCHANGED <<now, window, shared>> /\ reqs[s].pc \notin Limiting
         /\ \/ \E b : Holds(b, Avail(i)) /\ Refused(i, b)
            \/ Avail(i) >= Cost /\ \E b : Holds(b, Avail(i) - Cost) /\ Taking(s, i, b)
<1> DEFINE C == Burst * Cost
<1>1. UNCHANGED <<now, window, shared>> /\ reqs[s].pc \notin Limiting
  BY DEF Limit, Idle, Limiting, redisVars
<1>2. LimiterOK /\ CountsOK /\ C \in Nat /\ Cost \in Nat /\ now \in Nat /\ Avail(i) \in 0..C
  BY Capacity, LimitsAssumption, BucketTyped DEF Typed, CountsOK
<1>3. PICK b : b = getLimiter(i)
  OBVIOUS
<1>4. Holds(b, Avail(i))
  BY <1>2, <1>3, GetLimiter
<1>5. refilled(b) = Avail(i)
  BY <1>4 DEF Holds
<1>6. CASE bucket' = [bucket EXCEPT ![i] = b] /\ UNCHANGED <<reqs, allowed>>
  BY <1>1, <1>4, <1>6 DEF Refused
<1>7. CASE /\ refilled(b) >= Cost
           /\ bucket' = [bucket EXCEPT ![i] = [b EXCEPT !.tokens = refilled(b) - Cost, !.last = now]]
           /\ allowed' = Append(allowed, [at |-> now, by |-> i])
           /\ reqs' = [reqs EXCEPT ![s] = [r EXCEPT !.pc = "count", !.at = now, !.then = r.pc]]
  <2>1. PICK c : c = [b EXCEPT !.tokens = refilled(b) - Cost, !.last = now]
    OBVIOUS
  <2>2. bucket' = [bucket EXCEPT ![i] = c]
    BY <1>7, <2>1
  <2>3. b \in Buckets /\ b.access \in Nat
    BY <1>4 DEF Holds, Buckets
  <2>4. Avail(i) - Cost \in 0..C
    BY <1>2, <1>5, <1>7
  <2>5. c \in Buckets /\ c.tokens = Avail(i) - Cost /\ c.last = now /\ c.access = b.access
    BY <1>2, <1>5, <2>1, <2>3, <2>4 DEF Buckets
  <2>6. b.access = now
    BY <1>2, <1>3 DEF getLimiter, LimiterOK, Buckets, NoBucket
  <2>7. refilled(c) = Avail(i) - Cost
    BY <1>2, <2>4, <2>5 DEF refilled
  <2>8. c # NoBucket
    BY <2>4, <2>5 DEF NoBucket
  <2>9. Holds(c, Avail(i) - Cost)
    BY <1>2, <2>5, <2>6, <2>7, <2>8 DEF Holds
  <2>10. PICK q : q = [r EXCEPT !.pc = "count", !.at = now, !.then = r.pc]
    OBVIOUS
  <2>11. q.pc = "count"
    BY <2>10 DEF Fresh, Requests
  <2>12. Taking(s, i, c)
    BY <1>7, <2>2, <2>10, <2>11 DEF Taking
  <2> QED BY <1>1, <1>5, <1>7, <2>9, <2>12
<1> QED BY <1>3, <1>6, <1>7, Zenon DEF Limit

\* The limiter's variables keep their types.
LEMMA LimiterStep ==
  ASSUME Typed, RequestsOK, [Next]_vars PROVE LimiterOK'
<1>1. LimiterOK /\ CountsOK /\ ReqsTyped /\ now \in Nat
  BY TypedMeans DEF Typed, ReqsTyped
<1>2. \A i \in Instances : bucket[i].last \in Nat /\ bucket[i].access \in Nat
  BY <1>1 DEF LimiterOK, Buckets, NoBucket
<1>3. \A n \in DOMAIN allowed : allowed[n] \in Admits /\ allowed[n].at \in Nat /\ allowed[n].at <= now
  <2>1. \A n \in DOMAIN allowed : allowed[n] \in Admits
    BY <1>1 DEF LimiterOK
  <2>2. \A a \in Admits : a.at \in Nat
    BY DEF Admits
  <2> QED BY <1>1, <2>1, <2>2 DEF LimiterOK
<1>4. ASSUME NEW i \in Instances, NEW b, b \in Buckets \cup {NoBucket}, b.last <= b.access, b.access <= now,
             bucket' = [bucket EXCEPT ![i] = b], now' = now
      PROVE  /\ bucket' \in [Instances -> Buckets \cup {NoBucket}]
             /\ \A j \in Instances : bucket'[j].last <= bucket'[j].access /\ bucket'[j].access <= now'
  BY <1>1, <1>4 DEF LimiterOK
<1>5. ASSUME NEW a, a \in Admits, a.at <= now, allowed' = Append(allowed, a), now' = now
      PROVE  allowed' \in Seq(Admits) /\ \A n \in DOMAIN allowed' : allowed'[n].at <= now'
  <2>1. allowed \in Seq(Admits)
    BY <1>1 DEF LimiterOK
  <2>2. /\ allowed' \in Seq(Admits) /\ DOMAIN allowed = 1..Len(allowed) /\ Len(allowed) \in Nat
        /\ DOMAIN allowed' = 1..Len(allowed) + 1
        /\ \A n \in DOMAIN allowed : allowed'[n] = allowed[n]
        /\ allowed'[Len(allowed) + 1] = a
    BY <1>5, <2>1
  <2>3. ASSUME NEW n \in DOMAIN allowed' PROVE allowed'[n].at <= now'
    <3>1. n \in DOMAIN allowed \/ n = Len(allowed) + 1
      BY <2>2
    <3> QED BY <1>3, <1>5, <2>2, <3>1
  <2> QED BY <2>2, <2>3
<1>6. ASSUME NEW s \in Slots, NEW i \in Instances, NEW r, Fresh(r), Limit(s, i, r) PROVE LimiterOK'
  <2>1. UNCHANGED <<now, window, shared>>
    BY <1>6, LimitCases
  <2>2. PICK b : /\ b \in Buckets /\ b.last <= b.access /\ b.access <= now
                 /\ bucket' = [bucket EXCEPT ![i] = b]
                 /\ allowed' \in {allowed, Append(allowed, [at |-> now, by |-> i])}
    BY <1>6, LimitCases DEF Holds, Refused, Taking
  <2>3. PICK a : a = [at |-> now, by |-> i]
    OBVIOUS
  <2>4. a \in Admits /\ a.at <= now
    BY <1>1, <2>3 DEF Admits
  <2>5. allowed' \in Seq(Admits) /\ \A n \in DOMAIN allowed' : allowed'[n].at <= now'
    <3>1. CASE allowed' = allowed
      BY <1>1, <1>3, <2>1, <3>1 DEF LimiterOK
    <3>2. CASE allowed' = Append(allowed, a)
      BY <1>5, <2>1, <2>4, <3>2
    <3> QED BY <2>2, <2>3, <3>1, <3>2
  <2>6. b \in Buckets \cup {NoBucket}
    BY <2>2
  <2>7. /\ bucket' \in [Instances -> Buckets \cup {NoBucket}]
        /\ \A j \in Instances : bucket'[j].last <= bucket'[j].access /\ bucket'[j].access <= now'
    BY <1>4, <2>1, <2>2, <2>6
  <2> QED BY <1>1, <2>1, <2>5, <2>7 DEF LimiterOK
<1>7. ASSUME NEW s \in Slots, LimitCount(s) \/ LimitAdd(s) PROVE LimiterOK'
  <2>1. UNCHANGED <<now, bucket, allowed>>
    BY <1>7 DEF LimitCount, LimitAdd, history
  <2>2. reqs[s].at \in 0..now
    BY <1>1 DEF ReqsTyped, Requests
  <2>3. window' \subseteq window \cup {reqs[s].at} /\ shared' \subseteq shared \cup {reqs[s].at}
    BY <1>7 DEF LimitCount, LimitAdd, InWindow, history
  <2> QED BY <1>1, <2>1, <2>2, <2>3 DEF LimiterOK
<1>8. ASSUME NEW i \in Instances, cleanup(i) PROVE LimiterOK'
  <2>1. bucket' = [bucket EXCEPT ![i] = NoBucket] /\ UNCHANGED <<window, allowed, shared, now>>
    BY <1>8 DEF cleanup, redisVars, history
  <2>2. NoBucket \in Buckets \cup {NoBucket} /\ NoBucket.last <= NoBucket.access /\ NoBucket.access <= now
    BY <1>1 DEF NoBucket
  <2>3. /\ bucket' \in [Instances -> Buckets \cup {NoBucket}]
        /\ \A j \in Instances : bucket'[j].last <= bucket'[j].access /\ bucket'[j].access <= now'
    BY <1>1, <1>4, <2>1, <2>2
  <2> QED BY <1>1, <2>1, <2>3 DEF LimiterOK
<1>9. CASE Tick
  <2>1. now' = now + 1 /\ UNCHANGED <<window, bucket, allowed, shared>>
    BY <1>9 DEF Tick
  <2>2. window' \subseteq 0..now' /\ shared' \subseteq 0..now'
    BY <1>1, <2>1 DEF LimiterOK
  <2>3. \A i \in Instances : bucket'[i].last <= bucket'[i].access /\ bucket'[i].access <= now'
    BY <1>1, <1>2, <2>1 DEF LimiterOK
  <2>4. \A n \in DOMAIN allowed' : allowed'[n].at <= now'
    BY <1>1, <1>3, <2>1
  <2> QED BY <1>1, <2>1, <2>2, <2>3, <2>4 DEF LimiterOK
<1>10. CASE UNCHANGED <<limits, now>>
  BY <1>1, <1>10 DEF LimiterOK, limits
<1> QED BY <1>6, <1>7, <1>8, <1>9, <1>10, AdmissionSteps

\* The requests that i let through since t, each for a token.
Since(i, t) == {n \in DOMAIN allowed : allowed[n].by = i /\ allowed[n].at >= t}
Spent(i, t) == Cardinality(Since(i, t))

\* What i has spent since t and still has is what a bucket holds and what has
\* come in since t.
Local ==
  \A i \in Instances, t \in 0..now : Cost * Spent(i, t) + Avail(i) <= Burst * Cost + (now - t)

\* What is spent is a number.
LEMMA SpentTyped ==
  ASSUME LimiterOK, NEW i, NEW t
  PROVE  /\ IsFiniteSet(Since(i, t)) /\ Spent(i, t) \in Nat
         /\ DOMAIN allowed = 1..Len(allowed) /\ Len(allowed) \in Nat
<1>1. allowed \in Seq(Admits)
  BY DEF LimiterOK
<1>2. DOMAIN allowed = 1..Len(allowed) /\ Len(allowed) \in Nat
  BY <1>1
<1>3. IsFiniteSet(1..Len(allowed))
  BY <1>2, FS_Interval
<1>4. Since(i, t) \subseteq 1..Len(allowed)
  BY <1>2 DEF Since
<1>5. IsFiniteSet(Since(i, t)) /\ Cardinality(Since(i, t)) \in Nat
  BY <1>3, <1>4, FS_Subset, FS_CardinalityType
<1> QED BY <1>2, <1>5 DEF Spent

\* One token more costs Cost more.
LEMMA OneMore ==
  ASSUME NEW n \in Nat, NEW k \in Nat, k <= n
  PROVE  Cost * (n + 1) = Cost * n + Cost /\ Cost * k <= Cost * n /\ Cost * n \in Nat /\ Cost * k \in Nat
BY LimitsAssumption

\* A token that is taken is one more of its instance, and none of another.
LEMMA Admission ==
  ASSUME LimiterOK, NEW a, allowed' = Append(allowed, a), NEW o \in Instances, NEW t
  PROVE  /\ (a.by # o \/ ~(a.at >= t)) => Since(o, t)' = Since(o, t)
         /\ Cardinality(Since(o, t)') <= Cardinality(Since(o, t)) + 1
         /\ IsFiniteSet(Since(o, t)')
<1>1. allowed \in Seq(Admits)
  BY DEF LimiterOK
<1>2. DOMAIN allowed = 1..Len(allowed) /\ Len(allowed) \in Nat /\ IsFiniteSet(Since(o, t))
  BY SpentTyped
<1> DEFINE n == Len(allowed) + 1
<1>3. /\ DOMAIN allowed' = 1..n /\ n \notin DOMAIN allowed
      /\ \A i \in DOMAIN allowed : allowed'[i] = allowed[i]
      /\ allowed'[n] = a
  BY <1>1, <1>2
<1>4. DOMAIN allowed' = DOMAIN allowed \cup {n}
  BY <1>2, <1>3
<1> HIDE DEF n
<1>5. ASSUME a.by # o \/ ~(a.at >= t) PROVE Since(o, t)' = Since(o, t)
  BY <1>3, <1>4, <1>5 DEF Since
<1>6. CASE a.by = o /\ a.at >= t
  <2>1. Since(o, t)' = Since(o, t) \cup {n}
    BY <1>3, <1>4, <1>6 DEF Since
  <2>2. n \notin Since(o, t)
    BY <1>3 DEF Since
  <2>3. Cardinality(Since(o, t) \cup {n}) = Cardinality(Since(o, t)) + 1 /\ IsFiniteSet(Since(o, t) \cup {n})
    BY <1>2, <2>2, FS_AddElement
  <2>4. Cardinality(Since(o, t)) \in Nat
    BY <1>2, FS_CardinalityType
  <2> QED BY <1>6, <2>1, <2>3, <2>4
<1>7. Cardinality(Since(o, t)) \in Nat
  BY <1>2, FS_CardinalityType
<1> QED BY <1>2, <1>5, <1>6, <1>7

\* Who spends no more than what comes in, or pays for one token more, stays
\* within his means.
LEMMA Budget ==
  ASSUME NEW n \in Nat, NEW a \in Int, NEW m \in Nat, NEW b \in Int, NEW e \in Int, NEW d \in Nat,
         Cost * n + a <= e,
         \/ m <= n /\ b <= a + d
         \/ m <= n + 1 /\ b <= a - Cost
  PROVE  Cost * m + b <= e + d
<1>1. Cost \in Nat
  BY LimitsAssumption
<1>2. CASE m <= n /\ b <= a + d
  <2>1. Cost * m <= Cost * n /\ Cost * n \in Nat /\ Cost * m \in Nat
    BY <1>2, OneMore
  <2> QED BY <1>2, <2>1
<1>3. CASE m <= n + 1 /\ b <= a - Cost
  <2>1. n + 1 \in Nat
    OBVIOUS
  <2>2. Cost * m <= Cost * (n + 1) /\ Cost * m \in Nat
    BY <1>3, <2>1, OneMore
  <2>3. Cost * (n + 1) = Cost * n + Cost /\ Cost * n \in Nat
    BY OneMore
  <2> QED BY <1>1, <1>3, <2>2, <2>3
<1> QED BY <1>2, <1>3

\* A step lets o spend no more than it pays for.
Pays(o, t) ==
  /\ Spent(o, t)' \in Nat /\ Avail(o)' \in Int
  /\ \/ Spent(o, t)' <= Spent(o, t) /\ Avail(o)' <= Avail(o) + (now' - now)
     \/ Spent(o, t)' <= Spent(o, t) + 1 /\ Avail(o)' <= Avail(o) - Cost

\* What i holds after its bucket has become b.
LEMMA AvailBecomes ==
  ASSUME Typed, NEW i \in Instances, NEW b, NEW a, Holds(b, a), bucket' = [bucket EXCEPT ![i] = b], now' = now
  PROVE  /\ Avail(i)' = a
         /\ \A o \in Instances : o # i => Avail(o)' = Avail(o)
<1>1. bucket'[i] = b /\ \A o \in Instances : o # i => bucket'[o] = bucket[o]
  BY DEF Typed, LimiterOK
<1>2. b # NoBucket /\ refilled(b) = a
  BY DEF Holds
<1>3. Avail(i)' = a
  BY <1>1, <1>2 DEF Avail, refilled
<1>4. ASSUME NEW o \in Instances, o # i PROVE Avail(o)' = Avail(o)
  BY <1>1, <1>4 DEF Avail, refilled
<1> QED BY <1>3, <1>4

\* Every step is paid for.
LEMMA StepPays ==
  ASSUME Typed, RequestsOK, [Next]_vars, NEW o \in Instances, NEW t \in 0..now
  PROVE  Pays(o, t)
<1> DEFINE C == Burst * Cost
<1>1. /\ LimiterOK /\ CountsOK /\ ReqsTyped /\ now \in Nat /\ C \in Nat /\ Cost \in Nat
      /\ Avail(o) \in 0..C /\ Spent(o, t) \in Nat
  BY TypedMeans, Capacity, LimitsAssumption, BucketTyped, SpentTyped DEF Typed, ReqsTyped
<1>2. ASSUME allowed' = allowed PROVE Spent(o, t)' = Spent(o, t)
  BY <1>2 DEF Spent, Since
<1>3. ASSUME UNCHANGED <<bucket, allowed, now>> PROVE Pays(o, t)
  <2>1. Spent(o, t)' = Spent(o, t) /\ Avail(o)' = Avail(o)
    BY <1>2, <1>3 DEF Avail, refilled
  <2> QED BY <1>1, <1>3, <2>1 DEF Pays
<1>4. ASSUME NEW s \in Slots, NEW i \in Instances, NEW r, Fresh(r), Limit(s, i, r) PROVE Pays(o, t)
  <2>1. now' = now
    BY <1>4, LimitCases
  <2>2. ASSUME NEW b, Holds(b, Avail(i)), Refused(i, b) PROVE Pays(o, t)
    <3>1. Avail(o)' = Avail(o)
      BY <1>1, <2>1, <2>2, AvailBecomes DEF Refused
    <3>2. Spent(o, t)' = Spent(o, t)
      BY <1>2, <2>2 DEF Refused
    <3> QED BY <1>1, <2>1, <3>1, <3>2 DEF Pays
  <2>3. ASSUME NEW b, Holds(b, Avail(i) - Cost), Taking(s, i, b) PROVE Pays(o, t)
    <3>1. Avail(i)' = Avail(i) - Cost /\ (o # i => Avail(o)' = Avail(o))
      BY <2>1, <2>3, AvailBecomes DEF Taking
    <3>2. PICK a : a = [at |-> now, by |-> i]
      OBVIOUS
    <3>3. allowed' = Append(allowed, a) /\ a.by = i
      BY <2>3, <3>2 DEF Taking
    <3>4. /\ a.by # o => Since(o, t)' = Since(o, t)
          /\ Cardinality(Since(o, t)') <= Cardinality(Since(o, t)) + 1
          /\ Cardinality(Since(o, t)') \in Nat
      BY <1>1, <3>3, Admission, FS_CardinalityType
    <3>5. CASE o # i
      <4>1. Spent(o, t)' = Spent(o, t)
        BY <3>3, <3>4, <3>5 DEF Spent
      <4> QED BY <1>1, <2>1, <3>1, <3>5, <4>1 DEF Pays
    <3>6. CASE o = i
      <4>1. Spent(o, t)' \in Nat /\ Spent(o, t)' <= Spent(o, t) + 1
        BY <3>4 DEF Spent
      <4> QED BY <1>1, <3>1, <3>6, <4>1 DEF Pays
    <3> QED BY <3>5, <3>6
  <2> QED BY <1>4, <2>2, <2>3, LimitCases
<1>5. ASSUME NEW s \in Slots, LimitCount(s) \/ LimitAdd(s) PROVE Pays(o, t)
  BY <1>3, <1>5 DEF LimitCount, LimitAdd, history
<1>6. ASSUME NEW i \in Instances, cleanup(i) PROVE Pays(o, t)
  <2>1. /\ bucket' = [bucket EXCEPT ![i] = NoBucket] /\ UNCHANGED <<allowed, now>>
        /\ bucket[i] # NoBucket /\ bucket[i].access < now - IdleTime
    BY <1>6 DEF cleanup, redisVars, history
  <2>2. Spent(o, t)' = Spent(o, t)
    BY <1>2, <2>1
  <2>3. CASE o # i
    <3>1. bucket'[o] = bucket[o]
      BY <1>1, <2>1, <2>3 DEF LimiterOK
    <3>2. Avail(o)' = Avail(o)
      BY <2>1, <3>1 DEF Avail, refilled
    <3> QED BY <1>1, <2>1, <2>2, <3>2 DEF Pays
  <2>4. CASE o = i
    <3>1. Avail(o)' = C
      BY <1>1, <2>1, <2>4 DEF Avail, LimiterOK
    <3>2. /\ bucket[i].tokens \in 0..C /\ bucket[i].last \in Nat /\ bucket[i].access \in Nat
          /\ bucket[i].last <= bucket[i].access
      BY <1>1, <2>1, BucketTyped
    <3>3. C <= IdleTime + 1 /\ IdleTime \in Nat
      BY IdleAssumption, LimitsAssumption
    <3> HIDE DEF C
    <3>4. bucket[i].tokens + (now - bucket[i].last) >= C
      BY <1>1, <2>1, <3>2, <3>3
    <3>5. bucket[i].tokens + (now - bucket[i].last) \in Int
      BY <1>1, <3>2
    <3>6. Avail(o) = C
      BY <1>1, <2>1, <2>4, <3>4, <3>5 DEF Avail, refilled, C
    <3> QED BY <1>1, <2>1, <2>2, <3>1, <3>6 DEF Pays
  <2> QED BY <2>3, <2>4
<1>7. CASE Tick
  <2>1. now' = now + 1 /\ UNCHANGED <<allowed, bucket>>
    BY <1>7 DEF Tick
  <2>2. Spent(o, t)' = Spent(o, t)
    BY <1>2, <2>1
  <2>3. Avail(o)' \in Int /\ Avail(o)' <= Avail(o) + 1
    <3>1. CASE bucket[o] = NoBucket
      BY <1>1, <2>1, <3>1 DEF Avail
    <3>2. CASE bucket[o] # NoBucket
      <4>1. bucket[o].tokens \in 0..C /\ bucket[o].last \in Nat
        BY <1>1, <3>2, BucketTyped
      <4> HIDE DEF C
      <4> QED BY <1>1, <2>1, <3>2, <4>1 DEF Avail, refilled, C
    <3> QED BY <3>1, <3>2
  <2> QED BY <1>1, <2>1, <2>2, <2>3 DEF Pays
<1>8. CASE UNCHANGED <<limits, now>>
  BY <1>3, <1>8 DEF limits
<1> QED BY <1>4, <1>5, <1>6, <1>7, <1>8, AdmissionSteps

\* An instance never spends more than its bucket held and what came in.
LEMMA LocalStep ==
  ASSUME Typed, RequestsOK, Local, [Next]_vars PROVE Local'
<1> DEFINE C == Burst * Cost
<1>1. /\ LimiterOK /\ CountsOK /\ ReqsTyped /\ now \in Nat /\ C \in Nat /\ Cost \in Nat
  BY TypedMeans, Capacity, LimitsAssumption DEF Typed, ReqsTyped
<1>2. now' = now \/ (Tick /\ now' = now + 1)
  BY <1>1, TimeSteps DEF CountsOK, Tick
<1>3. ASSUME NEW o \in Instances, NEW t \in 0..now
      PROVE  Cost * Spent(o, t)' + Avail(o)' <= C + (now' - t)
  <2>1. Pays(o, t)
    BY StepPays
  <2>2. Cost * Spent(o, t) + Avail(o) <= C + (now - t)
    BY DEF Local
  <2>3. Spent(o, t) \in Nat /\ Avail(o) \in Int
    BY <1>1, SpentTyped, BucketTyped
  <2>4. PICK d \in Nat : d = now' - now
    BY <1>1, <1>2
  <2>5. PICK e \in Int : e = C + (now - t)
    BY <1>1
  <2>6. Cost * Spent(o, t)' + Avail(o)' <= e + d
    <3>1. PICK n \in Nat, a \in Int : n = Spent(o, t) /\ a = Avail(o)
      BY <2>3
    <3>2. PICK m \in Nat, b \in Int : m = Spent(o, t)' /\ b = Avail(o)'
      BY <2>1 DEF Pays
    <3>3. \/ m <= n /\ b <= a + d
          \/ m <= n + 1 /\ b <= a - Cost
      BY <2>1, <2>4, <3>1, <3>2 DEF Pays
    <3>4. Cost * n + a <= e
      BY <2>2, <2>5, <3>1
    <3>5. Cost * m + b <= e + d
      BY <3>3, <3>4, Budget
    <3> QED BY <3>2, <3>5
  <2>7. e + d = C + (now' - t)
    BY <1>1, <1>2, <2>4, <2>5
  <2> QED BY <2>6, <2>7
<1>4. ASSUME NEW o \in Instances, NEW t, t = now + 1, Tick, now' = now + 1
      PROVE  Cost * Spent(o, t)' + Avail(o)' <= C
  <2>1. UNCHANGED <<allowed, bucket>>
    BY <1>4 DEF Tick
  <2>2. Since(o, t)' = {}
    <3>1. \A i \in DOMAIN allowed : allowed[i].at \in Nat /\ allowed[i].at <= now
      <4>1. \A a \in Admits : a.at \in Nat
        BY DEF Admits
      <4>2. allowed \in Seq(Admits)
        BY <1>1 DEF LimiterOK
      <4> QED BY <1>1, <4>1, <4>2 DEF LimiterOK
    <3>2. \A i \in DOMAIN allowed : ~(allowed[i].at >= t)
      BY <1>1, <1>4, <3>1
    <3> QED BY <2>1, <3>2 DEF Since
  <2>4. Spent(o, t)' = 0
    BY <2>2, FS_EmptySet DEF Spent
  <2>5. Avail(o)' \in Int /\ Avail(o)' <= C
    <3>1. CASE bucket[o] = NoBucket
      BY <1>1, <2>1, <3>1 DEF Avail
    <3>2. CASE bucket[o] # NoBucket
      <4>1. bucket[o].tokens \in 0..C /\ bucket[o].last \in Nat
        BY <1>1, <3>2, BucketTyped
      <4> HIDE DEF C
      <4> QED BY <1>1, <1>4, <2>1, <3>2, <4>1 DEF Avail, refilled, C
    <3> QED BY <3>1, <3>2
  <2>6. Cost * 0 = 0
    BY <1>1
  <2> HIDE DEF C
  <2> QED BY <1>1, <2>4, <2>5, <2>6
<1>5. ASSUME NEW o \in Instances, NEW t \in 0..now'
      PROVE  Cost * Spent(o, t)' + Avail(o)' <= C + (now' - t)
  <2>1. CASE t \in 0..now
    BY <1>3, <2>1
  <2>2. CASE t \notin 0..now
    <3>1. t = now + 1 /\ now' = now + 1 /\ Tick
      BY <1>1, <1>2, <2>2
    <3>2. Cost * Spent(o, t)' + Avail(o)' <= C
      BY <1>4, <3>1
    <3>3. C + (now' - t) = C
      BY <1>1, <3>1
    <3> QED BY <3>2, <3>3
  <2> QED BY <2>1, <2>2
<1> QED BY <1>5 DEF Local

-----------------------------------------------------------------------------
(* The window that the instances share.                                    *)

\* Times in the window of the requests that Redis let through.
SharedAts == {t \in shared : t > now - Window}

\* Times of the requests that Redis has let through and that are not added yet.
Adders == {s \in Slots : reqs[s].pc = "add"}
Adding == {reqs[s].at : s \in Adders}

\* What was let through is in the window; and at the last count there were at
\* most Burst, to which each request that is handled adds at most one.
Global ==
  /\ SharedAts \subseteq window
  /\ Cardinality(SharedAts \cup Adding) <= Burst + Cardinality(Slots)

\* The times in question are of the past, so that there are finitely many.
LEMMA TimesFinite ==
  ASSUME Typed
  PROVE  /\ SharedAts \subseteq 0..now /\ Adding \subseteq 0..now /\ IsFiniteSet(0..now)
         /\ IsFiniteSet(SharedAts \cup Adding)
<1>1. now \in Nat /\ LimiterOK /\ ReqsOK
  BY DEF Typed, CountsOK
<1>2. SharedAts \subseteq 0..now
  BY <1>1 DEF SharedAts, LimiterOK
<1>3. Adding \subseteq 0..now
  BY <1>1 DEF Adding, Adders, ReqsOK, Requests
<1>4. IsFiniteSet(0..now)
  BY <1>1, FS_Interval
<1> QED BY <1>2, <1>3, <1>4, FS_Subset

\* A request adds itself only.
LEMMA FewAdding ==
  ASSUME NEW A, NEW f, A \subseteq Slots
  PROVE  IsFiniteSet({f[s].at : s \in A}) /\ Cardinality({f[s].at : s \in A}) <= Cardinality(Slots)
<1> DEFINE T == {f[s].at : s \in A}
           g == [s \in A |-> f[s].at]
<1>1. IsFiniteSet(A) /\ Cardinality(A) <= Cardinality(Slots)
  BY SlotsAssumption, FS_Subset
<1>2. g \in Surjection(A, T)
  BY DEF Surjection
<1>3. IsFiniteSet(T) /\ Cardinality(T) <= Cardinality(A)
  BY <1>1, <1>2, FS_Surjection
<1>4. Cardinality(T) \in Nat /\ Cardinality(A) \in Nat /\ Cardinality(Slots) \in Nat
  BY <1>1, <1>3, SlotsAssumption, FS_CardinalityType
<1> QED BY <1>1, <1>3, <1>4

\* Few times stay few when there are no others, and at a count.
LEMMA FewTimes ==
  ASSUME NEW S, NEW T, NEW U, IsFiniteSet(S), IsFiniteSet(T), IsFiniteSet(U),
         \/ S \cup T \subseteq U /\ Cardinality(U) <= Burst + Cardinality(Slots)
         \/ Cardinality(S) <= Burst /\ Cardinality(T) <= Cardinality(Slots)
  PROVE  Cardinality(S \cup T) <= Burst + Cardinality(Slots)
<1>1. /\ Cardinality(S) \in Nat /\ Cardinality(T) \in Nat /\ Cardinality(U) \in Nat
      /\ Cardinality(Slots) \in Nat /\ Burst \in Nat
  BY SlotsAssumption, LimitsAssumption, FS_CardinalityType
<1>2. CASE S \cup T \subseteq U /\ Cardinality(U) <= Burst + Cardinality(Slots)
  <2>1. IsFiniteSet(S \cup T) /\ Cardinality(S \cup T) <= Cardinality(U)
    BY <1>2, FS_Subset
  <2>2. Cardinality(S \cup T) \in Nat
    BY <2>1, FS_CardinalityType
  <2> QED BY <1>1, <1>2, <2>1, <2>2
<1>3. CASE Cardinality(S) <= Burst /\ Cardinality(T) <= Cardinality(Slots)
  <2>1. Cardinality(S \cup T) = Cardinality(S) + Cardinality(T) - Cardinality(S \cap T)
    BY FS_Union
  <2>2. IsFiniteSet(S \cap T)
    BY FS_Subset
  <2>3. Cardinality(S \cap T) \in Nat
    BY <2>2, FS_CardinalityType
  <2> QED BY <1>1, <1>3, <2>1, <2>3
<1> QED BY <1>2, <1>3

\* The shared window lets through no more than its bound.
LEMMA GlobalStep ==
  ASSUME Typed, RequestsOK, Global, [Next]_vars PROVE Global'
<1> DEFINE Bound == Burst + Cardinality(Slots)
<1>1. /\ LimiterOK /\ ReqsTyped /\ now \in Nat /\ Window \in Nat /\ Burst \in Nat
      /\ IsFiniteSet(SharedAts) /\ IsFiniteSet(SharedAts \cup Adding)
      /\ SharedAts \subseteq 0..now
  BY TypedMeans, LimitsAssumption, TimesFinite, FS_Subset DEF Typed, ReqsTyped
<1>2. SharedAts \subseteq window /\ Cardinality(SharedAts \cup Adding) <= Bound
  BY DEF Global
<1>3. IsFiniteSet(Adding') /\ Cardinality(Adding') <= Cardinality(Slots)
  <2>1. Adders' \subseteq Slots
    BY DEF Adders
  <2>2. PICK A, f : A = Adders' /\ f = reqs'
    OBVIOUS
  <2>3. Adding' = {f[s].at : s \in A}
    BY <2>2 DEF Adding
  <2> QED BY <2>1, <2>2, <2>3, FewAdding
<1>4. ASSUME SharedAts' \subseteq window', SharedAts' \cup Adding' \subseteq SharedAts \cup Adding
      PROVE  Global'
  <2>1. IsFiniteSet(SharedAts')
    BY <1>1, <1>4, FS_Subset
  <2>2. Cardinality(SharedAts' \cup Adding') <= Bound
    BY <1>1, <1>2, <1>3, <1>4, <2>1, FewTimes
  <2> QED BY <1>4, <2>2 DEF Global
<1>5. ASSUME NEW s \in Slots, NEW q, reqs' = [reqs EXCEPT ![s] = q], q.pc # "add"
      PROVE  Adding' \subseteq Adding
  <2>1. Adders' = Adders \ {s} /\ \A o \in Slots : o # s => reqs'[o] = reqs[o]
    BY <1>1, <1>5 DEF Adders, ReqsTyped
  <2> QED BY <2>1 DEF Adding, Adders
<1>6. ASSUME UNCHANGED <<shared, now>> PROVE SharedAts' = SharedAts
  BY <1>6 DEF SharedAts
<1>7. CASE UNCHANGED <<limits, now>> /\ Waiting
  <2>1. Adders' = Adders /\ \A s \in Adders : reqs'[s] = reqs[s]
    BY <1>7 DEF Waiting, Adders
  <2>2. Adding' = Adding
    BY <2>1 DEF Adding
  <2> QED BY <1>2, <1>4, <1>6, <1>7, <2>2 DEF limits
<1>8. ASSUME NEW s \in Slots, NEW i \in Instances, NEW r, Fresh(r), Limit(s, i, r) PROVE Global'
  <2>1. UNCHANGED <<now, window, shared>>
    BY <1>8, LimitCases
  <2>2. reqs' = reqs \/ \E q : reqs' = [reqs EXCEPT ![s] = q] /\ q.pc # "add"
    BY <1>8, LimitCases DEF Refused, Taking
  <2>3. Adding' \subseteq Adding
    <3>1. CASE reqs' = reqs
      BY <3>1 DEF Adding, Adders
    <3> QED BY <1>5, <2>2, <3>1
  <2> QED BY <1>2, <1>4, <1>6, <2>1, <2>3
<1>9. ASSUME NEW s \in Slots, LimitCount(s) PROVE Global'
  <2>1. UNCHANGED <<now, shared>> /\ window' \in {window, InWindow(reqs[s].at)}
    BY <1>9 DEF LimitCount, history
  <2>2. SharedAts' = SharedAts
    BY <1>6, <2>1
  <2>3. SharedAts \subseteq InWindow(reqs[s].at)
    <3>1. reqs[s].at \in Nat /\ reqs[s].at <= now
      BY <1>1 DEF ReqsTyped, Requests
    <3>2. ASSUME NEW x \in SharedAts PROVE x > reqs[s].at - Window
      BY <1>1, <3>1, <3>2 DEF SharedAts
    <3> QED BY <1>2, <3>2 DEF InWindow
  <2>4. SharedAts' \subseteq window'
    BY <1>2, <2>1, <2>2, <2>3
  <2>5. PICK q : /\ reqs' = [reqs EXCEPT ![s] = q]
                 /\ q.pc # "add" \/ Cardinality(InWindow(reqs[s].at)) <= Burst
    <3>1. PICK q : /\ Becomes(s, q)
                   /\ \/ q.pc \notin Limiting
                      \/ q.pc = "over"
                      \/ q.pc = "add" /\ Cardinality(InWindow(reqs[s].at)) <= Burst
      BY <1>1, <1>9, LimitCountBecomes
    <3> QED BY <3>1 DEF Becomes, Limiting
  <2>6. CASE q.pc # "add"
    BY <1>4, <1>5, <2>2, <2>4, <2>5, <2>6
  <2>7. CASE Cardinality(InWindow(reqs[s].at)) <= Burst
    <3> DEFINE W == InWindow(reqs[s].at)
    <3>1. IsFiniteSet(W)
      <4>1. W \subseteq 0..now /\ IsFiniteSet(0..now)
        BY <1>1, TimesFinite DEF InWindow, LimiterOK
      <4> QED BY <4>1, FS_Subset
    <3>2. Cardinality(SharedAts) <= Cardinality(W)
      BY <2>3, <3>1, FS_Subset
    <3>3. Cardinality(SharedAts) \in Nat /\ Cardinality(W) \in Nat
      BY <1>1, <3>1, FS_CardinalityType
    <3>4. Cardinality(SharedAts) <= Burst
      BY <1>1, <2>7, <3>2, <3>3
    <3>5. Cardinality(SharedAts \cup Adding') <= Bound
      BY <1>1, <1>3, <3>4, FewTimes
    <3> QED BY <2>2, <2>4, <3>5 DEF Global
  <2> QED BY <2>5, <2>6, <2>7
<1>10. ASSUME NEW s \in Slots, LimitAdd(s) PROVE Global'
  <2>1. now' = now /\ window' = window \cup {reqs[s].at}
    BY <1>10 DEF LimitAdd
  <2>2. PICK q : reqs' = [reqs EXCEPT ![s] = q] /\ q.pc # "add"
    BY <1>1, <1>10, LimitAddBecomes DEF Becomes, Limiting
  <2>3. Adding' \subseteq Adding
    BY <1>5, <2>2
  <2>4. CASE shared' = shared
    BY <1>2, <1>4, <1>6, <2>1, <2>3, <2>4
  <2>5. CASE reqs[s].pc = "add" /\ shared' = shared \cup {reqs[s].at}
    <3>1. SharedAts' \subseteq SharedAts \cup {reqs[s].at}
      BY <2>1, <2>5 DEF SharedAts
    <3>2. reqs[s].at \in Adding
      BY <2>5 DEF Adding, Adders
    <3> QED BY <1>2, <1>4, <2>1, <2>3, <3>1, <3>2
  <2> QED BY <1>10, <2>4, <2>5 DEF LimitAdd
<1>11. ASSUME NEW i \in Instances, cleanup(i) PROVE Global'
  <2>1. UNCHANGED <<window, reqs, shared, now>>
    BY <1>11 DEF cleanup, redisVars, history
  <2>2. Adding' = Adding /\ SharedAts' = SharedAts
    BY <1>6, <2>1 DEF Adding, Adders
  <2> QED BY <1>2, <1>4, <2>1, <2>2
<1>12. CASE Tick
  <2>1. UNCHANGED <<window, reqs, shared>> /\ now' = now + 1
    BY <1>12 DEF Tick
  <2>2. SharedAts' \subseteq SharedAts
    <3>1. ASSUME NEW x \in SharedAts' PROVE x \in SharedAts
      <4>1. x \in shared /\ x > now + 1 - Window /\ x \in Nat
        BY <1>1, <2>1, <3>1 DEF SharedAts, LimiterOK
      <4>2. x > now - Window
        BY <1>1, <4>1
      <4> QED BY <4>1, <4>2 DEF SharedAts
    <3> QED BY <3>1
  <2>3. Adding' = Adding
    BY <2>1 DEF Adding, Adders
  <2> QED BY <1>2, <1>4, <2>1, <2>2, <2>3
<1> QED BY <1>7, <1>8, <1>9, <1>10, <1>11, <1>12, AdmissionSteps

\* Both together bound what is let through.
LEMMA Bounded == ASSUME Typed, Local, Global PROVE RateBound
<1>1. ASSUME NEW i \in Instances, NEW t \in 0..now
      PROVE  Cost * Cardinality(Since(i, t)) <= Burst * Cost + (now - t)
  <2> DEFINE C == Burst * Cost
  <2>1. Cost * Spent(i, t) + Avail(i) <= C + (now - t)
    BY DEF Local
  <2>2. Avail(i) \in Nat /\ now \in Nat /\ C \in Nat
    BY BucketTyped, Capacity DEF Typed
  <2>3. Spent(i, t) \in Nat
    BY SpentTyped DEF Typed
  <2>4. Cost * Spent(i, t) \in Nat
    BY <2>3, OneMore
  <2> HIDE DEF C
  <2>5. Cost * Spent(i, t) <= C + (now - t)
    BY <2>1, <2>2, <2>4
  <2> QED BY <2>5 DEF C, Spent
<1>2. Cardinality(SharedAts) <= Burst + Cardinality(Slots)
  <2>1. IsFiniteSet(SharedAts \cup Adding) /\ SharedAts \cup {} \subseteq SharedAts \cup Adding
    BY TimesFinite
  <2>2. IsFiniteSet(SharedAts) /\ IsFiniteSet({}) /\ SharedAts \cup {} = SharedAts
    BY <2>1, FS_Subset, FS_EmptySet
  <2>3. Cardinality(SharedAts \cup Adding) <= Burst + Cardinality(Slots)
    BY DEF Global
  <2> QED BY <2>1, <2>2, <2>3, FewTimes
<1> QED BY <1>1, <1>2 DEF RateBound, Since, SharedAts

-----------------------------------------------------------------------------
(* The inductive invariant.                                                *)

GatewayInv == Typed /\ RequestsOK /\ Gone /\ KeyNotLost /\ Local /\ Global

\* It holds at the start, whether or not a connector is registered from before.
LEMMA GatewayInit == Init => GatewayInv
<1> SUFFICES ASSUME Init PROVE GatewayInv
  OBVIOUS
<1>1. /\ idem = {} /\ window = {0} /\ bucket = [i \in Instances |-> NoBucket] /\ reqs = [s \in Slots |-> Idle]
      /\ nextKey = 2 /\ allowed = << >> /\ shared = {0}
      /\ known = {1} /\ unsaved = {} /\ revoked = {} /\ raced = {} /\ late = {}
      /\ now = 0 /\ total = 0 /\ faults = 0
      /\ cache \subseteq {[row |-> r, until |-> CacheTTL] : r \in table}
  BY DEF Init
<1>2. /\ table \subseteq Rows /\ \A r, q \in table : r = q /\ r.key = 1
  <2>1. CASE table = {}
    BY <2>1
  <2>2. ASSUME NEW i \in Ids, table = {[id |-> i, key |-> 1, status |-> "active", version |-> 0]}
        PROVE  table \subseteq Rows /\ \A r, q \in table : r = q /\ r.key = 1
    BY <2>2 DEF Rows
  <2> QED BY <2>1, <2>2 DEF Init
<1>3. /\ \A s \in Slots : reqs[s] = Idle
      /\ \A i \in Instances : bucket[i] = NoBucket
  BY <1>1
<1>4. /\ Idle.op = "none" /\ Idle.pc = "idle" /\ Idle.at = 0
      /\ NoBucket.last = 0 /\ NoBucket.access = 0
  BY DEF Idle, NoBucket
<1>5. CacheTTL \in Nat \ {0} /\ Burst \in Nat \ {0} /\ Cardinality(Slots) \in Nat
  BY LimitsAssumption, SlotsAssumption, FS_CardinalityType
<1>6. RowsOK
  BY <1>1, <1>2 DEF RowsOK
<1>7. CacheOK
  BY <1>1, <1>2, <1>5 DEF CacheOK
<1>8. RevokedOK /\ IdemOK
  BY <1>1 DEF RevokedOK, IdemOK
<1>9. ReqsOK
  <2>1. reqs \in [Slots -> Requests]
    BY <1>1, IdleOK
  <2> QED BY <1>1, <1>3, <1>4, <2>1 DEF ReqsOK
<1>10. CountsOK
  BY <1>1, BoundsAssumption DEF CountsOK
<1>11. LimiterOK
  <2>1. bucket \in [Instances -> Buckets \cup {NoBucket}]
    BY <1>1
  <2>2. \A i \in Instances : bucket[i].last <= bucket[i].access /\ bucket[i].access <= now
    BY <1>1, <1>3, <1>4
  <2>3. window \subseteq 0..now /\ shared \subseteq 0..now
    BY <1>1
  <2>4. allowed \in Seq(Admits) /\ DOMAIN allowed = {}
    BY <1>1
  <2> QED BY <2>1, <2>2, <2>3, <2>4 DEF LimiterOK
<1>12. RequestsOK
  BY <1>3, IdleOK DEF RequestsOK
<1>13. Gone
  BY <1>1, <1>3, <1>4 DEF Gone
<1>14. KeyNotLost
  BY <1>1, <1>2 DEF KeyNotLost
<1>15. Local
  <2>1. ASSUME NEW i \in Instances, NEW t \in 0..now
        PROVE  Cost * Spent(i, t) + Avail(i) <= Burst * Cost + (now - t)
    <3>1. Since(i, t) = {}
      BY <1>1 DEF Since
    <3>2. Spent(i, t) = 0
      BY <3>1, FS_EmptySet DEF Spent
    <3>3. Avail(i) = Burst * Cost /\ Burst * Cost \in Nat
      BY <1>3, Capacity DEF Avail
    <3>4. Cost * 0 = 0 /\ now - t = 0
      <4>1. now = 0
        BY <1>1
      <4>2. t = 0
        BY <4>1
      <4>3. Cost \in Nat
        BY LimitsAssumption
      <4> QED BY <4>1, <4>2, <4>3
    <3> DEFINE C == Burst * Cost
    <3>5. Avail(i) = C /\ C \in Nat
      BY <3>3
    <3> HIDE DEF C
    <3>6. Cost * Spent(i, t) + Avail(i) <= C + (now - t)
      BY <3>2, <3>4, <3>5
    <3> QED BY <3>6 DEF C
  <2> QED BY <2>1 DEF Local
<1>16. Global
  <2>1. SharedAts \subseteq {0}
    BY <1>1 DEF SharedAts
  <2>2. Adding = {}
    BY <1>3, <1>4 DEF Adding, Adders
  <2>3. IsFiniteSet({0}) /\ Cardinality({0}) = 1
    BY FS_Singleton
  <2>4. IsFiniteSet(SharedAts \cup Adding) /\ Cardinality(SharedAts \cup Adding) <= 1
    BY <2>1, <2>2, <2>3, FS_Subset
  <2>5. Cardinality(SharedAts \cup Adding) \in Nat
    BY <2>4, FS_CardinalityType
  <2> QED BY <1>1, <1>5, <2>1, <2>4, <2>5 DEF Global
<1> QED BY <1>6, <1>7, <1>8, <1>9, <1>10, <1>11, <1>12, <1>13, <1>14, <1>15, <1>16
           DEF GatewayInv, Typed

\* Every step keeps it.
LEMMA GatewayStep == GatewayInv /\ [Next]_vars => GatewayInv'
<1> SUFFICES ASSUME GatewayInv, [Next]_vars PROVE GatewayInv'
  OBVIOUS
<1>1. Typed /\ RequestsOK /\ Gone /\ KeyNotLost /\ Local /\ Global
  BY DEF GatewayInv
<1>2. ReqsOK' /\ RequestsOK'
  BY <1>1, RequestsStep
<1>3. RowsOK'
  BY <1>1, RowsStep
<1>4. CacheOK' /\ RevokedOK' /\ Gone'
  BY <1>1, CacheStep, GoneStep
<1>5. IdemOK'
  BY <1>1, IdemStep
<1>6. LimiterOK'
  BY <1>1, LimiterStep
<1>7. CountsOK'
  BY <1>1, TimeSteps DEF Typed, CountsOK
<1>8. KeyNotLost'
  BY <1>1, KeyStep
<1>9. Local' /\ Global'
  BY <1>1, LocalStep, GlobalStep
<1> QED BY <1>2, <1>3, <1>4, <1>5, <1>6, <1>7, <1>8, <1>9 DEF GatewayInv, Typed

\* GatewayInv is an invariant.
LEMMA GatewayInvariance == Spec => []GatewayInv
BY GatewayInit, GatewayStep, PTL DEF Spec

\* The variables have their types; ids and API keys identify rows, nothing in
\* Redis has expired, and nothing is of a later time.
THEOREM GatewayTypeCorrect == Spec => []TypeOK
<1>1. GatewayInv => TypeOK
  BY TypedMeans DEF GatewayInv
<1> QED BY <1>1, GatewayInvariance, PTL

\* After a connector was suspended or deleted the cache answers for its API key
\* only if a validation raced the revocation: it read the row before the write and
\* stored it after the cache was cleared (connector-registry service.go:62-158).
THEOREM GatewayRevocation == Spec => []RevokedIsRefused
<1>1. GatewayInv => RevokedIsRefused
  BY DEF GatewayInv, Gone, RevokedIsRefused
<1> QED BY <1>1, GatewayInvariance, PTL

\* The API key of every connector reached its client, or is on its way, or can be
\* replayed, or its answer could not be recorded, that of the INSERT included
\* (idempotency.go:37-58, connector-registry repository.go:45-53).
THEOREM GatewayKeyNotLost == Spec => []KeyNotLost
<1>1. GatewayInv => KeyNotLost
  BY DEF GatewayInv
<1> QED BY <1>1, GatewayInvariance, PTL

\* Whatever number of requests is handled at a time: an instance lets through at
\* most what its bucket held and what came in; the window that the instances share
\* lets through at most Burst times and one more for each of these requests
\* (ratelimit.go:54-131).
THEOREM GatewayRateBound == Spec => []RateBound
<1>1. GatewayInv => RateBound
  BY Bounded DEF GatewayInv
<1> QED BY <1>1, GatewayInvariance, PTL
=============================================================================
