------------------------------- MODULE Gateway -------------------------------
(***************************************************************************)
(* The connector registry behind its middleware: the rate limiter          *)
(* (shared/middleware/ratelimit.go), the idempotency records               *)
(* (shared/middleware/idempotency.go), and the registration and validation *)
(* of API keys with their cache (services/connector-registry).  IAM        *)
(* manages connectors in the same table.                                   *)
(*                                                                         *)
(* Requests run concurrently, any number of them in an instance of the     *)
(* service, one statement at a time; every statement can fail, before or   *)
(* after it took effect, and a client can go away.  Requests come from one *)
(* address, for which each instance has a limiter of its own.  An API key  *)
(* is a number: its prefix and its hash identify it.  A row has a version  *)
(* in place of its name and its redirect URIs.                             *)
(***************************************************************************)
EXTENDS Integers, Sequences, FiniteSets

CONSTANTS
  Ids,          \* of connectors
  IdemKeys,     \* values of the header Idempotency-Key
  Instances,    \* of the service
  Slots,        \* the requests that are handled at a time
  Burst, Cost,  \* of the rate limiter: one token per Cost units of time
  Window,       \* a minute
  IdleTime,     \* 15 minutes
  CacheTTL,     \* 5 minutes
  IdempotencyTTL,
  MaxRequests,  \* bound: requests
  MaxTime,      \* bound: the clock
  MaxFaults     \* bound: statements that fail, clients that go away

ASSUME BoundsAssumption == {MaxRequests, MaxTime, MaxFaults} \subseteq Nat
ASSUME LimitsAssumption ==
  {Burst, Cost, Window, IdleTime, CacheTTL, IdempotencyTTL} \subseteq Nat \ {0}
ASSUME SlotsAssumption == IsFiniteSet(Slots)
\* A limiter that is forgotten would be full: 2000 tokens come in within two seconds.
ASSUME IdleAssumption == Burst * Cost <= IdleTime + 1

VARIABLES
  table,     \* PostgreSQL connectors: [id, key, status, version]
  cache,     \* Redis apikey:hash and apikey:data: [row, until]
  idem,      \* Redis idem: [header, key, until]
  window,    \* Redis ratelimit: the members of the sorted set
  bucket,    \* per instance, the in-memory limiter, or NoBucket; a token is Cost of its tokens
  reqs,      \* per slot, the request
  nextKey,   \* generateAPIKey
  allowed,   \* history: [at, by]: when which instance's limiter let a request through
  shared,    \* history: the times of the requests that Redis then let through
  known,     \* history: API keys that reached a client
  unsaved,   \* history: API keys whose answer is not, or no longer, recorded
  revoked,   \* history: API keys suspended or deleted after the cache was cleared of them
  raced,     \* history: API keys that a validation stored in between, or was about to store
  late,      \* history: API keys that the cache answered for after they were revoked
  now, total, faults

redisVars == <<cache, idem, window>>
keyVars == <<known, unsaved>>
revocationVars == <<revoked, raced, late>>
history == <<allowed, shared, keyVars, revocationVars>>
vars == <<table, redisVars, bucket, reqs, nextKey, history, now, total, faults>>

NoBucket == [tokens |-> -1, last |-> 0, access |-> 0]
NoRow == [id |-> "none", key |-> 0, status |-> "none", version |-> 0]
Idle == [op |-> "none", pc |-> "idle", id |-> "none", header |-> "none", key |-> 0, row |-> NoRow, gone |-> "no",
         at |-> 0, then |-> "none"]

\* A connector may be registered from before, and in the cache.  An instance that
\* has stopped since let a request through.
Init ==
  /\ table \in {{}} \cup {{[id |-> i, key |-> 1, status |-> "active", version |-> 0]} : i \in Ids}
  /\ cache \in SUBSET {[row |-> r, until |-> CacheTTL] : r \in table}
  /\ idem = {} /\ window = {0}
  /\ bucket = [i \in Instances |-> NoBucket]
  /\ reqs = [s \in Slots |-> Idle]
  /\ nextKey = 2
  /\ allowed = << >> /\ shared = {0}
  /\ known = {1} /\ unsaved = {}
  /\ revoked = {} /\ raced = {} /\ late = {}
  /\ now = 0 /\ total = 0 /\ faults = 0

Fault == faults < MaxFaults /\ faults' = faults + 1
NoFault == faults' = faults
End(s) == reqs' = [reqs EXCEPT ![s] = Idle]
Goto(s, pc) == reqs' = [reqs EXCEPT ![s].pc = pc]

-----------------------------------------------------------------------------
(* The rate limiter.                                                       *)

\* golang.org/x/time/rate: tokens that came in since the last request.
refilled(b) ==
  LET t == b.tokens + (now - b.last) IN IF t > Burst * Cost THEN Burst * Cost ELSE t

getLimiter(i) ==
  IF bucket[i] = NoBucket THEN [tokens |-> Burst * Cost, last |-> now, access |-> now]
  ELSE [bucket[i] EXCEPT !.access = now]

\* isAllowed in instance i, in memory: a token is taken if there is one.
Limit(s, i, r) ==
  LET b == getLimiter(i) IN
  /\ reqs[s] = Idle /\ total < MaxRequests /\ total' = total + 1
  /\ \/ /\ refilled(b) < Cost
        /\ bucket' = [bucket EXCEPT ![i] = b]
        /\ UNCHANGED <<reqs, allowed>>
     \/ /\ refilled(b) >= Cost
        /\ bucket' = [bucket EXCEPT ![i] = [b EXCEPT !.tokens = refilled(b) - Cost, !.last = now]]
        /\ allowed' = Append(allowed, [at |-> now, by |-> i])
        /\ reqs' = [reqs EXCEPT ![s] = [r EXCEPT !.pc = "count", !.at = now, !.then = r.pc]]
  /\ UNCHANGED <<table, redisVars, nextKey, shared, keyVars, revocationVars, now, faults>>

\* Memory has decided, or Redis has: the request goes on.
Pass(s) == reqs' = [reqs EXCEPT ![s].pc = reqs[s].then, ![s].at = 0, ![s].then = "none"]

\* Mutant: the window is a single unit of time.
InWindowShort(t) == {x \in window : x > t - 1}

\* ZREMRANGEBYSCORE.
InWindow(t) == {x \in window : x > t - Window}

\* isAllowed in Redis: what is older than a minute is removed, the rest counted.
\* When Redis fails, memory has decided.
LimitCount(s) ==
  /\ reqs[s].pc = "count"
  /\ \/ /\ window' = InWindow(reqs[s].at) /\ NoFault
        /\ Goto(s, IF Cardinality(InWindow(reqs[s].at)) <= Burst THEN "add" ELSE "over")
     \/ Fault /\ window' = window /\ Pass(s)
  /\ UNCHANGED <<table, cache, idem, bucket, nextKey, history, now, total>>

\* isAllowed: ZADD.  The pipeline is not a transaction, so that other requests may
\* count before it.  Requests of one millisecond are one member of the set,
\* and a request that is refused counts too.
LimitAdd(s) ==
  LET r == reqs[s] IN
  /\ r.pc \in {"add", "over"}
  /\ window' = window \cup {r.at}
  /\ \/ r.pc = "over" /\ NoFault /\ End(s) /\ shared' = shared
     \/ r.pc = "add" /\ NoFault /\ Pass(s) /\ shared' = shared \cup {r.at}
     \/ Fault /\ Pass(s) /\ shared' = shared
  /\ UNCHANGED <<table, cache, idem, bucket, nextKey, allowed, keyVars, revocationVars, now, total>>

\* Mutant: limiters are dropped as soon as they are idle.
cleanupEager(i) ==
  /\ bucket[i] # NoBucket /\ bucket[i].access < now
  /\ bucket' = [bucket EXCEPT ![i] = NoBucket]
  /\ UNCHANGED <<table, redisVars, reqs, nextKey, history, now, total, faults>>

\* Every five minutes.
cleanup(i) ==
  /\ bucket[i] # NoBucket /\ bucket[i].access < now - IdleTime
  /\ bucket' = [bucket EXCEPT ![i] = NoBucket]
  /\ UNCHANGED <<table, redisVars, reqs, nextKey, history, now, total, faults>>

-----------------------------------------------------------------------------
(* POST /v1/connectors with its idempotency record.                        *)

HandleRegister(s, i, id, header) ==
  Limit(s, i, [Idle EXCEPT !.op = "register", !.id = id, !.header = header,
                           !.pc = IF header = "none" THEN "insert" ELSE "replay"])

\* Whether this statement of a request whose context may be cancelled fails.
Failing(s) == IF reqs[s].gone = "yes" THEN NoFault ELSE Fault
Working(s) == reqs[s].gone = "no" /\ NoFault

\* The recorded answer, if there is one and Redis answers.
Replay(s) ==
  LET hits == {e \in idem : e.header = reqs[s].header} IN
  /\ reqs[s].op = "register" /\ reqs[s].pc = "replay"
  /\ \/ /\ hits # {} /\ Working(s)
        /\ known' = known \cup {e.key : e \in hits} /\ End(s)
     \/ /\ (hits = {} /\ Working(s)) \/ Failing(s)
        /\ Goto(s, "insert") /\ UNCHANGED known
  /\ UNCHANGED <<table, redisVars, bucket, nextKey, allowed, shared, unsaved, revocationVars, now, total>>

\* CreateConnector: the INSERT fails when the id, the primary key, is taken.
Taken(id) == \E c \in table : c.id = id

\* The INSERT fails, or it succeeds and its answer is lost.  An answer other
\* than 2xx is not recorded.
RegisterConnector(s) ==
  LET r == reqs[s]
      row == [id |-> r.id, key |-> nextKey, status |-> "active", version |-> 0] IN
  /\ r.op = "register" /\ r.pc = "insert"
  /\ nextKey' = nextKey + 1
  /\ \/ /\ ~Taken(r.id) /\ Working(s)
        /\ table' = table \cup {row} /\ unsaved' = unsaved
        /\ reqs' = [reqs EXCEPT ![s].key = nextKey, ![s].pc = IF r.header = "none" THEN "answer" ELSE "save"]
     \/ /\ ~Taken(r.id) /\ r.gone = "no" /\ Fault
        /\ table' = table \cup {row} /\ unsaved' = unsaved \cup {nextKey}
        /\ End(s)
     \/ /\ (Taken(r.id) /\ NoFault) \/ Failing(s)
        /\ End(s) /\ UNCHANGED <<table, unsaved>>
  /\ UNCHANGED <<redisVars, bucket, allowed, shared, known, revocationVars, now, total>>

\* Mutant: only an answer 200 is recorded.
RecordedOK(s) == FALSE

\* The answer is 201 Created.
Recorded(s) == reqs[s].key # 0

\* The answer is recorded after the handler has returned.
Save(s) ==
  LET r == reqs[s] IN
  /\ r.op = "register" /\ r.pc = "save"
  /\ \/ /\ Recorded(s) /\ Working(s)
        /\ idem' = {e \in idem : e.header # r.header}
                   \cup {[header |-> r.header, key |-> r.key, until |-> now + IdempotencyTTL]}
        /\ unsaved' = unsaved \cup {e.key : e \in {e \in idem : e.header = r.header}}
     \/ Failing(s) /\ idem' = idem /\ unsaved' = unsaved \cup {r.key}
     \/ ~Recorded(s) /\ NoFault /\ UNCHANGED <<idem, unsaved>>
  /\ Goto(s, "answer")
  /\ UNCHANGED <<table, cache, window, bucket, nextKey, allowed, shared, known, revocationVars, now, total>>

\* The answer is sent; it may never arrive.
Answer(s) ==
  LET r == reqs[s] IN
  /\ r.op = "register" /\ r.pc = "answer"
  /\ \/ Working(s) /\ known' = known \cup {r.key}
     \/ Failing(s) /\ known' = known
  /\ unsaved' = IF r.header = "none" THEN unsaved \cup {r.key} ELSE unsaved
  /\ End(s)
  /\ UNCHANGED <<table, redisVars, bucket, nextKey, allowed, shared, revocationVars, now, total>>

\* The client goes away: the context of its request is cancelled.
Disconnect(s) ==
  /\ reqs[s].op = "register" /\ reqs[s].gone = "no" /\ reqs[s].pc \notin {"count", "add", "over"}
  /\ Fault
  /\ reqs' = [reqs EXCEPT ![s].gone = "yes"]
  /\ UNCHANGED <<table, redisVars, bucket, nextKey, history, now, total>>

-----------------------------------------------------------------------------
(* POST /v1/connectors/validate.                                           *)

HandleValidate(s, i, key) ==
  Limit(s, i, [Idle EXCEPT !.op = "validate", !.key = key, !.pc = "cached"])

\* A hit is answered from the entry.  Only rows that are not suspended are stored;
\* the test of the status is there again.
ReadCache(s) ==
  LET hits == {c \in cache : c.row.key = reqs[s].key} IN
  /\ reqs[s].op = "validate" /\ reqs[s].pc = "cached"
  /\ \/ \E c \in hits :
          /\ NoFault
          /\ late' = IF c.row.status = "suspended" THEN late ELSE late \cup ({c.row.key} \cap revoked)
          /\ End(s)
     \/ /\ (hits = {} /\ NoFault) \/ Fault
        /\ Goto(s, "find") /\ UNCHANGED late
  /\ UNCHANGED <<table, redisVars, bucket, nextKey, allowed, shared, keyVars, revoked, raced, now, total>>

FindByPrefix(s) ==
  /\ reqs[s].op = "validate" /\ reqs[s].pc = "find"
  /\ \/ \E r \in table :
          /\ r.key = reqs[s].key /\ r.status # "suspended"
          /\ reqs' = [reqs EXCEPT ![s].row = r, ![s].pc = "store"] /\ NoFault
     \/ /\ ((\A r \in table : r.key # reqs[s].key \/ r.status = "suspended") /\ NoFault) \/ Fault
        /\ End(s)
  /\ UNCHANGED <<table, redisVars, bucket, nextKey, history, now, total>>

\* Another request has cleared the cache of the key and has still to write the row.
Revoking(key) == \E t \in Slots : reqs[t].pc = "write" /\ reqs[t].key = key

\* An error is ignored.
CacheConnector(s) ==
  LET r == reqs[s].row IN
  /\ reqs[s].op = "validate" /\ reqs[s].pc = "store"
  /\ \/ /\ NoFault \/ Fault
        /\ cache' = {c \in cache : c.row.key # r.key} \cup {[row |-> r, until |-> now + CacheTTL]}
     \/ Fault /\ cache' = cache
  /\ raced' = IF Revoking(r.key) THEN raced \cup {r.key} ELSE raced
  /\ End(s)
  /\ UNCHANGED <<table, idem, window, bucket, nextKey, allowed, shared, keyVars, revoked, late, now, total>>

-----------------------------------------------------------------------------
(* Suspending and deleting a connector: the cache first, then the row.     *)

Manage(s, op, id) ==
  /\ reqs[s] = Idle /\ total < MaxRequests /\ total' = total + 1
  /\ reqs' = [reqs EXCEPT ![s] = [Idle EXCEPT !.op = op, !.id = id, !.pc = "get"]]
  /\ UNCHANGED <<table, redisVars, bucket, nextKey, history, now, faults>>

\* Without the row, the cache is left alone.
GetConnectorByID(s) ==
  /\ reqs[s].pc = "get"
  /\ \/ \E r \in table : /\ r.id = reqs[s].id /\ NoFault
                         /\ reqs' = [reqs EXCEPT ![s].key = r.key, ![s].pc = "clear"]
     \/ /\ ((\A r \in table : r.id # reqs[s].id) /\ NoFault) \/ Fault
        /\ Goto(s, "write")
  /\ UNCHANGED <<table, redisVars, bucket, nextKey, history, now, total>>

\* Mutant: the cache is not cleared.
WithoutKept(key) == cache

\* DEL of apikey:hash and apikey:data.
Without(key) == {c \in cache : c.row.key # key}

\* An error is ignored.  The key is not used any more; that of a failed DEL is
\* forgotten here.
ClearCache(s) ==
  /\ reqs[s].pc = "clear"
  /\ \/ NoFault /\ cache' = Without(reqs[s].key) /\ Goto(s, "write")
     \/ /\ Fault /\ cache' \in {cache, Without(reqs[s].key)}
        /\ reqs' = [reqs EXCEPT ![s].pc = "write", ![s].key = 0]
  /\ UNCHANGED <<table, idem, window, bucket, nextKey, history, now, total>>

\* The row is written and the request answered.
Revoke(s, new) ==
  LET keys == {k \in {reqs[s].key} : k # 0 /\ \E r \in table : r.id = reqs[s].id /\ r.key = k} IN
  /\ \/ /\ NoFault \/ Fault
        /\ table' = new
        /\ revoked' = revoked \cup keys
        /\ raced' = raced \cup (keys \cap {reqs[t].row.key : t \in {t \in Slots : reqs[t].pc = "store"}})
     \/ Fault /\ UNCHANGED <<table, revoked, raced>>
  /\ End(s)
  /\ UNCHANGED <<redisVars, bucket, nextKey, allowed, shared, keyVars, late, now, total>>

Suspended(r) == [r EXCEPT !.status = "suspended", !.version = @ + 1]

SuspendConnector(s) ==
  /\ reqs[s].op = "suspend" /\ reqs[s].pc = "write"
  /\ Revoke(s, {IF r.id = reqs[s].id THEN Suspended(r) ELSE r : r \in table})

DeleteConnector(s) ==
  /\ reqs[s].op = "delete" /\ reqs[s].pc = "write"
  /\ Revoke(s, {r \in table : r.id # reqs[s].id})

-----------------------------------------------------------------------------
(* IAM's connectors: no API key, and the cache is not theirs.              *)

ManageIAM(rows) ==
  /\ total < MaxRequests /\ total' = total + 1
  /\ table' = rows
  /\ UNCHANGED <<redisVars, bucket, reqs, nextKey, history, now, faults>>

\* The organization and the connector in one transaction.
CreateConnectorIAM(id) ==
  /\ ~Taken(id)
  /\ ManageIAM(table \cup {[id |-> id, key |-> 0, status |-> "active", version |-> 0]})

UpdateConnectorIAM(id) ==
  ManageIAM({IF r.id = id THEN [r EXCEPT !.version = @ + 1] ELSE r : r \in table})

DeleteConnectorIAM(id) == ManageIAM({r \in table : r.id # id})

-----------------------------------------------------------------------------
\* Time passes and entries expire.
Tick ==
  /\ now < MaxTime /\ now' = now + 1
  /\ cache' = {c \in cache : now' < c.until}
  /\ idem' = {e \in idem : now' < e.until}
  /\ unsaved' = unsaved \cup {e.key : e \in idem \ idem'}
  /\ UNCHANGED <<table, window, bucket, reqs, nextKey, allowed, shared, known, revocationVars, total, faults>>

Next ==
  \/ \E s \in Slots :
       \/ \E i \in Instances, c \in Ids, h \in IdemKeys \cup {"none"} : HandleRegister(s, i, c, h)
       \/ \E i \in Instances, k \in 1..nextKey - 1 : HandleValidate(s, i, k)
       \/ \E c \in Ids, op \in {"suspend", "delete"} : Manage(s, op, c)
       \/ Replay(s) \/ RegisterConnector(s) \/ Save(s) \/ Answer(s) \/ Disconnect(s)
       \/ ReadCache(s) \/ FindByPrefix(s) \/ CacheConnector(s)
       \/ GetConnectorByID(s) \/ ClearCache(s) \/ SuspendConnector(s) \/ DeleteConnector(s)
       \/ LimitCount(s) \/ LimitAdd(s)
  \/ \E i \in Instances : cleanup(i)
  \/ \E c \in Ids : CreateConnectorIAM(c) \/ UpdateConnectorIAM(c) \/ DeleteConnectorIAM(c)
  \/ Tick

Spec == Init /\ [][Next]_vars

-----------------------------------------------------------------------------
(* Properties.                                                             *)

Rows == [id : Ids, key : Nat, status : {"active", "suspended"}, version : Nat]
Buckets == [tokens : 0..Burst * Cost, last : Nat, access : Nat]
Requests ==
  [op : {"none", "register", "validate", "suspend", "delete"},
   pc : {"idle", "count", "add", "over", "replay", "insert", "save", "answer", "cached", "find", "store", "get", "clear", "write"},
   id : Ids \cup {"none"}, header : IdemKeys \cup {"none"}, key : Nat, row : Rows \cup {NoRow},
   gone : {"yes", "no"}, at : Nat, then : {"none", "replay", "insert", "cached"}]

\* Types; ids and API keys identify rows, an entry of Redis has not expired, and
\* nothing is of a later time.
TypeOK ==
  /\ table \subseteq Rows
  /\ \A r, q \in table : (r.id = q.id \/ (r.key = q.key /\ r.key # 0)) => r = q
  /\ \A r \in table : r.key < nextKey
  /\ cache \subseteq [row : Rows, until : Nat] /\ \A c \in cache : now < c.until
  /\ idem \subseteq [header : IdemKeys, key : Nat, until : Nat] /\ \A e \in idem : now < e.until
  /\ window \subseteq 0..now
  /\ bucket \in [Instances -> Buckets \cup {NoBucket}]
  /\ \A i \in Instances : bucket[i].last <= bucket[i].access /\ bucket[i].access <= now
  /\ reqs \in [Slots -> Requests]
  /\ \A s \in Slots : reqs[s].at <= now
  /\ nextKey \in Nat /\ known \subseteq Nat /\ unsaved \subseteq Nat
  /\ allowed \in Seq([at : Nat, by : Instances]) /\ \A n \in DOMAIN allowed : allowed[n].at <= now
  /\ shared \subseteq 0..now
  /\ revoked \subseteq Nat /\ raced \subseteq Nat /\ late \subseteq revoked
  /\ now \in 0..MaxTime /\ total \in 0..MaxRequests /\ faults \in 0..MaxFaults

\* The cache is cleared before the row is written, so a validation in between can
\* bring a connector back that is being suspended or deleted.  Nothing else
\* does: once its row is written, the cache answers for an API key only if a
\* validation read the row before the write and stored it after the cache was
\* cleared, however requests interleave and IAM changes the table
\* (service.go:62-158).
RevokedIsRefused == late \subseteq raced

\* A connector whose API key no client has received is still being answered, or
\* its answer can be replayed, or it could not be recorded, be it that the answer
\* of the INSERT was lost: an answer that is lost on the way to the client does not
\* lose the key (idempotency.go:37-58).
KeyNotLost ==
  \A r \in table :
    \/ r.key \in known \cup unsaved \cup {0}
    \/ \E s \in Slots : reqs[s].op = "register" /\ reqs[s].key = r.key
    \/ \E e \in idem : e.key = r.key

\* An instance lets through what its bucket held and what has come in since, also
\* when it forgets an idle address; and the requests that Redis lets through in a
\* window, over all instances, are of at most Burst milliseconds and one more for
\* each request that is handled at the time, since each may count before any
\* other adds (ratelimit.go:54-131).
RateBound ==
  /\ \A i \in Instances, t \in 0..now :
       Cost * Cardinality({n \in DOMAIN allowed : allowed[n].by = i /\ allowed[n].at >= t})
         <= Burst * Cost + (now - t)
  /\ Cardinality({t \in shared : t > now - Window}) <= Burst + Cardinality(Slots)
==============================================================================
