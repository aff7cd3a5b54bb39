------------------------------- MODULE Policy -------------------------------
(***************************************************************************)
(* The policy service (services/policy) for one organisation: policies and *)
(* their assignments in PostgreSQL, decisions cached in Redis with         *)
(* stale-while-revalidate, concurrent evaluations coalesced by             *)
(* singleflight, background refreshes, and the invalidation that follows a *)
(* change of an assignment.                                                *)
(*                                                                         *)
(* Time is counted in ticks of the request timeout (five seconds).  An     *)
(* action, a resource and a subject are sequences of tokens.  The          *)
(* evaluation log and the read-only endpoints are left out.                *)
(***************************************************************************)
EXTENDS Naturals, Sequences, FiniteSets, SequencesExt, FiniteSetsExt

CONSTANTS
  Policies,      \* ids of policies
  Logics,        \* the JSON sent as logic: [type, ...], see Applies
  Subjects,      \* users and groups: the subjects that are UUIDs
  Rows,          \* ids of assignments
  Grants,        \* [policy, subject, type]: the assignments asked for
  Questions,     \* [subject, groups, action, resource]
  Evaluators,    \* the requests that are served at a time
  Refreshers,    \* the places of refreshSem
  InitialDB,     \* what earlier requests have left in the database
  MaxAsks,       \* bound: questions asked
  MaxChanges,    \* bound: changes of policies and assignments
  MaxTime,       \* bound: ticks
  MaxFaults,     \* bound: errors of PostgreSQL and Redis, callers that leave
  CacheTTL, StaleWindow, Timeout \* cacheTTL, staleWindow, middleware.Timeout

ASSUME BoundsAssumption ==
  MaxAsks \in Nat /\ MaxChanges \in Nat /\ MaxTime \in Nat /\ MaxFaults \in Nat
ASSUME TimesAssumption ==
  /\ Timeout \in Nat \ {0} /\ StaleWindow \in Nat /\ CacheTTL \in Nat
  /\ StaleWindow < CacheTTL
ASSUME ProcessAssumption == Evaluators \cap Refreshers = {}
ASSUME InitialDBAssumption ==
  /\ DOMAIN InitialDB = {"policies", "assigned"} /\ DOMAIN InitialDB.policies \subseteq Policies
  /\ \A a \in InitialDB.assigned : a.policy \in DOMAIN InitialDB.policies

VARIABLES
  history,  \* the committed states of the database, the current one last, each
            \* with the time and the outbox event of the change that made it
  cache,    \* Redis: the decision of each key, with the database it rests on
  index,    \* Redis: policy:index:<org>, the keys an invalidation deletes
  work,     \* each running evaluateFromDB
  pc,       \* where each request is
  ask,      \* the question it asks
  answer,   \* the answer it got
  inval,    \* the goroutine InvalidateOrgCache each change has started
  cleared,  \* history: the newest state an invalidation has completed for
  now,
  asked,
  faults

vars == <<history, cache, index, work, pc, ask, answer, inval, cleared, now, asked, faults>>
redis == <<cache, index>>
requests == <<pc, ask, answer, asked>>

Workers == Evaluators \cup Refreshers
Versions == 1..MaxChanges + 1
DB == Last(history).db

None == [stage |-> "none"]
NoDecision == [effect |-> "deny", ids |-> {}, version |-> 0]
Fault == faults < MaxFaults /\ faults' = faults + 1

-----------------------------------------------------------------------------
(* The decision.                                                           *)

HasSuffix(p, s) == Len(p) >= Len(s) /\ SubSeq(p, Len(p) - Len(s) + 1, Len(p)) = s

TrimSuffix(p, s) == SubSeq(p, 1, Len(p) - Len(s))

matchesGlob(patterns, value) ==
  \E p \in patterns :
    \/ p = <<"*">> \/ p = value
    \/ /\ HasSuffix(p, <<":", "*">>)
       /\ LET prefix == TrimSuffix(p, <<":", "*">>) IN
            IsPrefix(prefix \o <<":">>, value) \/ value = prefix
    \/ HasSuffix(p, <<"*">>) /\ IsPrefix(TrimSuffix(p, <<"*">>), value)

\* Does a policy with this logic match the question?  An expression is known
\* by the questions on which it is true; an unknown type matches nothing.
Applies(l, q) ==
  CASE l.type \in {"deny_all", "allow_all"} -> TRUE
    [] l.type = "rbac" -> /\ matchesGlob(l.subjects, q.subject)
                          /\ matchesGlob(l.actions, q.action)
                          /\ matchesGlob(l.resources, q.resource)
    [] l.type = "cel" -> q \in l.holds
    [] OTHER -> FALSE

\* The LEFT JOIN: policies without assignment are everyone's, the others'
\* are those of the user and of the groups; a subject that is no UUID has
\* only the former.
GetMatchingPolicies(q, db) ==
  {p \in DOMAIN db.policies :
     LET of == {a \in db.assigned : a.policy = p} IN
     \/ of = {}
     \/ /\ q.subject \in Subjects
        /\ \E a \in of : \/ a.subject = q.subject /\ a.type = "user"
                         \/ a.subject \in q.groups \cap Subjects /\ a.type = "group"}

\* Mutant: the last match wins, and an allow hides a deny.
evaluateAnyAllow(q, db, read) ==
  LET matched == {p \in read : Applies(db.policies[p].logic, q)} IN
  [effect |-> IF \E p \in matched : db.policies[p].logic.type # "deny_all"
              THEN "allow" ELSE "deny",
   ids |-> matched,
   version |-> Max({0} \cup {db.policies[p].version : p \in matched}),
   read |-> read, cut |-> FALSE]

\* Default deny; an explicit deny overrides every allow.  read: the policies
\* the query has returned; read and cut are kept for the properties only.
evaluate(q, db, read) ==
  LET matched == {p \in read : Applies(db.policies[p].logic, q)} IN
  [effect |-> IF matched = {} \/ \E p \in matched : db.policies[p].logic.type = "deny_all"
              THEN "deny" ELSE "allow",
   ids |-> matched,
   version |-> Max({0} \cup {db.policies[p].version : p \in matched}),
   read |-> read, cut |-> FALSE]

\* Mutant: the key forgets the groups.
cacheKeyNoGroups(q) == [q EXCEPT !.groups = {}]

cacheKey(q) == q

-----------------------------------------------------------------------------
(* Evaluate.                                                               *)

Init ==
  /\ history = <<[db |-> InitialDB, from |-> 0, event |-> "none"]>>
  /\ cache = [q \in Questions |-> None]
  /\ index = {}
  /\ work = [w \in Workers |-> None]
  /\ pc = [e \in Evaluators |-> "idle"]
  /\ ask = [e \in Evaluators |-> None]
  /\ answer = [e \in Evaluators |-> None]
  /\ inval = [v \in Versions |-> None]
  /\ cleared = 1
  /\ now = 0
  /\ asked = 0
  /\ faults = 0

\* The handler accepts a question; subject, action and resource are required.
HandleEvaluate(e, q) ==
  /\ pc[e] = "idle"
  /\ asked < MaxAsks /\ asked' = asked + 1
  /\ q.subject # <<>> /\ q.action # <<>> /\ q.resource # <<>>
  /\ ask' = [ask EXCEPT ![e] = q]

Answer(d, v) == [stage |-> "answered", decision |-> d, basis |-> v, at |-> now]

Work(q) == [stage |-> "read", q |-> q, since |-> now, live |-> TRUE]

\* A refresh has a context of its own, with a timeout as long as a request's.
backgroundRefresh(q) == Work(q)

\* A decision past its ExpiresAt.
IsStale(c) == now >= c.at + CacheTTL - StaleWindow

\* The first tier: a stale decision is served too, and refreshed when
\* refreshSem has a place.
CacheHit(e, q) ==
  LET c == cache[cacheKey(q)]
      free == {w \in Refreshers : work[w] = None} IN
  /\ HandleEvaluate(e, q)
  /\ c # None
  /\ answer' = [answer EXCEPT ![e] = Answer(c.decision, c.basis)]
  /\ pc' = [pc EXCEPT ![e] = "answered"]
  /\ IF IsStale(c) /\ free # {}
     THEN \E w \in free : work' = [work EXCEPT ![w] = backgroundRefresh(q)]
     ELSE work' = work
  /\ UNCHANGED <<history, redis, inval, cleared, now, faults>>

CacheMiss(e, q) ==
  /\ HandleEvaluate(e, q)
  /\ \/ cache[cacheKey(q)] = None /\ faults' = faults
     \/ Fault \* an error of Redis is a miss
  /\ pc' = [pc EXCEPT ![e] = "join"]
  /\ UNCHANGED <<history, redis, work, answer, inval, cleared, now>>

\* The request that runs the query for the key of q, if one does.
Flight(q) ==
  {e \in Evaluators : work[e] # None /\ cacheKey(work[e].q) = cacheKey(q)}

\* singleflight: wait for a running query, or run it.
DoChan(e) ==
  /\ pc[e] = "join"
  /\ pc' = [pc EXCEPT ![e] = "wait"]
  /\ work' = IF Flight(ask[e]) = {} THEN [work EXCEPT ![e] = Work(ask[e])] ELSE work
  /\ UNCHANGED <<history, redis, ask, answer, inval, cleared, now, faults, asked>>

\* What the query returned goes to every request that waits for it.  A
\* refresh has nobody waiting.
Deliver(w, d, v) ==
  LET q == work[w].q
      waiting == {e \in Evaluators :
                    w \in Evaluators /\ pc[e] = "wait" /\ cacheKey(ask[e]) = cacheKey(q)} IN
  /\ work' = [work EXCEPT ![w] = None]
  /\ answer' = [e \in Evaluators |-> IF e \in waiting THEN Answer(d, v) ELSE answer[e]]
  /\ pc' = [e \in Evaluators |-> IF e \in waiting THEN "answered"
                                 ELSE IF e = w THEN "idle" ELSE pc[e]]
  /\ ask' = [e \in Evaluators |-> IF e = w /\ pc[e] = "gone" THEN None ELSE ask[e]]

\* The decision d was made from the newest state.
Decided(w, d) ==
  work' = [work EXCEPT ![w] =
             [stage |-> "write", q |-> @.q, since |-> @.since, live |-> @.live,
              decision |-> d, basis |-> Len(history)]]

\* evaluateFromDB reads the policies and decides.
ReadPolicies(w) ==
  /\ work[w].stage = "read"
  /\ work[w].live
  /\ Decided(w, evaluate(work[w].q, DB, GetMatchingPolicies(work[w].q, DB)))
  /\ UNCHANGED <<history, redis, requests, inval, cleared, now, faults>>

\* created_at of p is before that of x: a state had p and not yet x.
CreatedBefore(p, x) ==
  \E h \in ToSet(history) : p \in DOMAIN h.db.policies /\ x \notin DOMAIN h.db.policies

\* The first rows of the query, in the order of created_at.
FirstRows(q) ==
  LET rows == GetMatchingPolicies(q, DB) IN
  {read \in SUBSET rows : \A x \in read, p \in rows : CreatedBefore(p, x) => p \in read}

\* The connection or the context ends while the rows are read.  scanPolicies
\* does not look at rows.Err(): the rows so far are all there is.
ReadCutOff(w) ==
  /\ work[w].stage = "read"
  /\ IF work[w].live THEN Fault ELSE faults' = faults
  /\ \E read \in FirstRows(work[w].q) :
       Decided(w, [evaluate(work[w].q, DB, read) EXCEPT !.cut = TRUE])
  /\ UNCHANGED <<history, redis, requests, inval, cleared, now>>

\* No connection, a query that cannot be sent, a breaker that refuses, or a
\* context cancelled before: deny, and store nothing.
ReadFails(w) ==
  /\ work[w].stage = "read"
  /\ IF work[w].live THEN Fault ELSE faults' = faults
  /\ Deliver(w, NoDecision, 0)
  /\ UNCHANGED <<history, redis, inval, cleared, now, asked>>

\* An invalidation has listed the index and not yet deleted it, or the
\* decision rests on a state that an invalidation has already dealt with.
Races(w) ==
  \/ \E v \in Versions : inval[v].stage = "listed"
  \/ work[w].basis < cleared

\* exposed: history, an invalidation may miss the key.
Entry(w, exposed) ==
  [stage |-> "stored", decision |-> work[w].decision, basis |-> work[w].basis,
   at |-> now, exposed |-> exposed]

\* Mutant: the key is not added to the index.
StoreDecisionUnindexed(w) ==
  /\ work[w].stage = "write"
  /\ work[w].live
  /\ cache' = [cache EXCEPT ![cacheKey(work[w].q)] = Entry(w, Races(w))]
  /\ Deliver(w, work[w].decision, work[w].basis)
  /\ UNCHANGED <<history, index, inval, cleared, now, faults, asked>>

\* SET and SADD in a pipeline.  The index lives longer than any key in it.
StoreDecision(w) ==
  LET k == cacheKey(work[w].q) IN
  /\ work[w].stage = "write"
  /\ work[w].live
  /\ cache' = [cache EXCEPT ![k] = Entry(w, Races(w))]
  /\ index' = index \cup {k}
  /\ Deliver(w, work[w].decision, work[w].basis)
  /\ UNCHANGED <<history, inval, cleared, now, faults, asked>>

\* Redis fails, before the SET or between the SET and the SADD, or the context
\* is cancelled: the answer is given all the same.
StoreFails(w) ==
  LET k == cacheKey(work[w].q) IN
  /\ work[w].stage = "write"
  /\ IF work[w].live THEN Fault ELSE faults' = faults
  /\ \/ cache' = cache
     \/ work[w].live /\ cache' = [cache EXCEPT ![k] = Entry(w, TRUE)]
  /\ Deliver(w, work[w].decision, work[w].basis)
  /\ UNCHANGED <<history, index, inval, cleared, now, asked>>

\* The caller leaves.  The query it started goes on with its context, which
\* is cancelled, also for those who wait for it.
CallerLeaves(e) ==
  /\ pc[e] = "wait"
  /\ Fault
  /\ pc' = [pc EXCEPT ![e] = IF work[e] = None THEN "idle" ELSE "gone"]
  /\ ask' = [ask EXCEPT ![e] = IF work[e] = None THEN None ELSE @]
  /\ work' = IF work[e] = None THEN work ELSE [work EXCEPT ![e].live = FALSE]
  /\ UNCHANGED <<history, redis, answer, inval, cleared, now, asked>>

\* The response is written, with an ETag made of the highest version.
Reply(e) ==
  /\ pc[e] = "answered"
  /\ pc' = [pc EXCEPT ![e] = "idle"]
  /\ answer' = [answer EXCEPT ![e] = None]
  /\ ask' = [ask EXCEPT ![e] = None]
  /\ UNCHANGED <<history, redis, work, inval, cleared, now, faults, asked>>

-----------------------------------------------------------------------------
(* Policies and assignments.                                               *)

\* The transaction commits db and, with it, the row of the outbox.
CommitChange(db, event) ==
  /\ Len(history) <= MaxChanges
  /\ history' = Append(history, [db |-> db, from |-> now, event |-> event])

\* JSON that does not fit is refused, and so is an expression that does not
\* compile.  Any other type is stored.
validatePolicyLogic(l) ==
  /\ l.type \notin {"absent", "malformed"}
  /\ l.type = "cel" => l.compiles

Unused(p) == \A h \in ToSet(history) : p \notin DOMAIN h.db.policies \* uuid.New

CreatePolicyTx(p, l) ==
  [DB EXCEPT !.policies = [x \in DOMAIN @ \cup {p} |->
                             IF x = p THEN [logic |-> l, version |-> 1] ELSE @[x]]]

CreatePolicy(p, l) ==
  /\ validatePolicyLogic(l)
  /\ CommitChange(CreatePolicyTx(p, l), "policy.created")

HandleCreatePolicy(p, l) ==
  /\ l.type \notin {"absent", "malformed"}
  /\ Unused(p)
  /\ CreatePolicy(p, l)
  /\ UNCHANGED <<redis, work, requests, inval, cleared, now, faults>>

UpdatePolicyTx(p, l) ==
  [DB EXCEPT !.policies[p] = [logic |-> l, version |-> @.version + 1]]

UpdatePolicy(p, l) ==
  /\ validatePolicyLogic(l)
  /\ CommitChange(UpdatePolicyTx(p, l), "policy.updated")

HandleUpdatePolicy(p, l) ==
  /\ p \in DOMAIN DB.policies
  /\ UpdatePolicy(p, l)
  /\ UNCHANGED <<redis, work, requests, inval, cleared, now, faults>>

\* The assignments go with the policy (ON DELETE CASCADE).
DeletePolicyTx(p) ==
  [policies |-> [x \in DOMAIN DB.policies \ {p} |-> DB.policies[x]],
   assigned |-> {a \in DB.assigned : a.policy # p}]

DeletePolicy(p) == CommitChange(DeletePolicyTx(p), "policy.deleted")

HandleDeletePolicy(p) ==
  /\ p \in DOMAIN DB.policies
  /\ DeletePolicy(p)
  /\ UNCHANGED <<redis, work, requests, inval, cleared, now, faults>>

\* go InvalidateOrgCache, for the state the change has made.
Invalidate == inval' = [inval EXCEPT ![Len(history) + 1] = [stage |-> "start"]]

\* The row refers to a policy that exists; the same assignment may be made twice.
InsertAssignment(r, g) ==
  LET row == [id |-> r, policy |-> g.policy, subject |-> g.subject, type |-> g.type] IN
  /\ \A h \in ToSet(history) : \A a \in h.db.assigned : a.id # r
  /\ g.policy \in DOMAIN DB.policies
  /\ CommitChange([DB EXCEPT !.assigned = @ \cup {row}], "none")

CreateAssignment(r, g) == InsertAssignment(r, g) /\ Invalidate

HandleCreateAssignment(r, g) ==
  /\ g.subject # <<>>
  /\ CreateAssignment(r, g)
  /\ UNCHANGED <<redis, work, requests, cleared, now, faults>>

RemoveAssignment(r) ==
  /\ \E a \in DB.assigned : a.id = r
  /\ CommitChange([DB EXCEPT !.assigned = {a \in @ : a.id # r}], "none")

DeleteAssignment(r) == RemoveAssignment(r) /\ Invalidate

HandleDeleteAssignment(r) ==
  /\ DeleteAssignment(r)
  /\ UNCHANGED <<redis, work, requests, cleared, now, faults>>

\* SMEMBERS.  With nothing in the index the invalidation is over.
InvalidateList(v) ==
  /\ inval[v].stage = "start"
  /\ inval' = [inval EXCEPT ![v] = IF index = {} THEN None
                                   ELSE [stage |-> "listed", keys |-> index]]
  /\ cleared' = IF index = {} THEN Max({cleared, v}) ELSE cleared
  /\ UNCHANGED <<history, redis, work, requests, now, faults>>

\* DEL of the listed keys, and of the index, whatever was added to it since.
InvalidateDelete(v) ==
  /\ inval[v].stage = "listed"
  /\ cache' = [k \in Questions |-> IF k \in inval[v].keys THEN None ELSE cache[k]]
  /\ index' = {}
  /\ inval' = [inval EXCEPT ![v] = None]
  /\ cleared' = Max({cleared, v})
  /\ UNCHANGED <<history, work, requests, now, faults>>

\* Redis fails, or the process ends before its goroutine: nobody tries again.
InvalidateFails(v) ==
  /\ inval[v] # None
  /\ Fault
  /\ inval' = [inval EXCEPT ![v] = None]
  /\ UNCHANGED <<history, redis, work, requests, cleared, now>>

-----------------------------------------------------------------------------

\* Mutant: the keys have no lifetime.
ExpireNever == cache' = cache

\* Redis drops the keys whose lifetime is over.
Expire ==
  cache' = [k \in Questions |->
              IF cache[k] # None /\ cache[k].at + CacheTTL <= now' THEN None ELSE cache[k]]

\* Time passes; no query outlives the timeout of its context.
Tick ==
  /\ now < MaxTime
  /\ \A w \in Workers : work[w] # None => now < work[w].since + Timeout
  /\ now' = now + 1
  /\ Expire
  /\ UNCHANGED <<history, index, work, requests, inval, cleared, faults>>

WorkerStep(w) ==
  \/ ReadPolicies(w) \/ ReadCutOff(w) \/ ReadFails(w)
  \/ StoreDecision(w) \/ StoreFails(w)

Change ==
  \/ \E p \in Policies, l \in Logics : HandleCreatePolicy(p, l) \/ HandleUpdatePolicy(p, l)
  \/ \E p \in Policies : HandleDeletePolicy(p)
  \/ \E r \in Rows, g \in Grants : HandleCreateAssignment(r, g)
  \/ \E r \in Rows : HandleDeleteAssignment(r)

Next ==
  \/ \E e \in Evaluators, q \in Questions : CacheHit(e, q) \/ CacheMiss(e, q)
  \/ \E e \in Evaluators : DoChan(e) \/ Reply(e) \/ CallerLeaves(e)
  \/ \E w \in Workers : WorkerStep(w)
  \/ Change
  \/ \E v \in Versions : InvalidateList(v) \/ InvalidateDelete(v) \/ InvalidateFails(v)
  \/ Tick

Spec == Init /\ [][Next]_vars

-----------------------------------------------------------------------------
(* Properties.                                                             *)

\* The foreign key of an assignment holds.
Consistent(db) ==
  /\ DOMAIN db = {"policies", "assigned"} /\ DOMAIN db.policies \subseteq Policies
  /\ \A a \in db.assigned : a.policy \in DOMAIN db.policies

\* Types; a request that waits has one query running for it, and no query outlives
\* its timeout.
TypeOK ==
  /\ Len(history) \in Versions
  /\ \A i \in 1..Len(history) : Consistent(history[i].db) /\ history[i].from \in 0..now
  /\ DOMAIN cache = Questions /\ index \subseteq Questions
  /\ \A k \in Questions : cache[k] # None =>
       /\ cache[k].decision.effect \in {"allow", "deny"} /\ cache[k].decision.ids \subseteq Policies
       /\ cache[k].basis \in 1..Len(history) /\ cache[k].at \in 0..now
  /\ DOMAIN work = Workers /\ DOMAIN ask = Evaluators /\ DOMAIN answer = Evaluators
  /\ \A w \in Workers : work[w] # None =>
       /\ work[w].stage \in {"read", "write"} /\ work[w].q \in Questions
       /\ work[w].since \in 0..now /\ now <= work[w].since + Timeout
  /\ pc \in [Evaluators -> {"idle", "join", "wait", "gone", "answered"}]
  /\ \A e \in Evaluators :
       /\ pc[e] = "wait" => Cardinality(Flight(ask[e])) = 1
       /\ pc[e] = "gone" => work[e] # None
  /\ inval \in [Versions -> {None, [stage |-> "start"]} \cup [stage : {"listed"}, keys : SUBSET Questions]]
  /\ cleared \in 1..Len(history)
  /\ now \in 0..MaxTime /\ asked \in 0..MaxAsks /\ faults \in 0..MaxFaults

\* The documented decision, service.go:289-291, with these policies: denied
\* unless one allows it, and one that denies overrides.
Permitted(q, db, policies) ==
  LET applying == {p \in policies : Applies(db.policies[p].logic, q)} IN
  /\ \E p \in applying : db.policies[p].logic.type \in {"allow_all", "rbac", "cel"}
  /\ ~\E p \in applying : db.policies[p].logic.type = "deny_all"

\* The decision d is right for q in db, for all the policies that concern q
\* or, if the query was cut off, for some of them.
Right(d, q, db) ==
  /\ (d.effect = "allow") = Permitted(q, db, d.read)
  /\ d.read \subseteq GetMatchingPolicies(q, db)
  /\ ~d.cut => d.read = GetMatchingPolicies(q, db)

\* However requests share queries and cached decisions, each gets an answer to
\* its own question that was right for a committed state of the database, or
\* a deny because nothing could be read; and Redis holds only such answers, no
\* other question's and no deny of the latter kind.  The exception is a read
\* that was cut off: what it decides is right for the policies it has got,
\* and is answered and cached like any other (service.go:147-284,
\* repository.go:331-343).
AnswersWereTrue ==
  /\ \A k \in Questions : cache[k] # None =>
       Right(cache[k].decision, k, history[cache[k].basis].db)
  /\ \A e \in Evaluators : pc[e] = "answered" =>
       LET a == answer[e] IN
       IF a.basis = 0 THEN a.decision.effect = "deny"
       ELSE Right(a.decision, ask[e], history[a.basis].db)

\* No answer is older than the lifetime of a cached decision and the timeout
\* of the query that made it, although policy changes invalidate nothing and
\* stale decisions are served while they are refreshed (service.go:170-284).
BoundedStaleness ==
  \A e \in Evaluators : pc[e] = "answered" =>
    LET a == answer[e] IN
    a.basis \in 1..Len(history) - 1 =>
      a.at < history[a.basis + 1].from + CacheTTL + Timeout

\* After the invalidation for a change of an assignment has completed, a
\* decision that is older than the change is in the cache only if it was
\* stored while an invalidation was under way, by a query that had begun
\* before, or by a pipeline that broke (service.go:268-284, 551-574).
InvalidationMisses ==
  \A k \in Questions :
    cache[k] # None /\ ~cache[k].exposed => cache[k].basis >= cleared
=============================================================================
