---------------------------- MODULE PolicyProofs ----------------------------
(***************************************************************************)
(* Proofs about Policy, for any policies, assignments and questions, any   *)
(* number of requests, refreshers, changes and faults, and any lifetimes.  *)
(*                                                                         *)
(* A decision is followed from the query to the cache and to the answers:  *)
(* at each stage it is right for the policies that were read of a          *)
(* committed state, which are all of them unless the read was cut off, and *)
(* the time that has passed since the next state was committed is bounded. *)
(***************************************************************************)
EXTENDS Policy, FiniteSetTheorems, SequenceTheorems, TLAPS

\* The database has been a sequence of states.
HistoryOK ==
  /\ \E S : history \in Seq(S)
  /\ Len(history) \in Versions
  /\ \A i \in 1..Len(history) : Consistent(history[i].db) /\ history[i].from \in 0..now

\* The decision d for q rests on state v.
Holds(d, v, q) ==
  /\ v \in 1..Len(history)
  /\ d.effect \in {"allow", "deny"} /\ d.ids \subseteq Policies
  /\ Right(d, q, history[v].db)

\* What is cached for k is true and not too old, and an invalidation will find it.
CacheOK(k) ==
  cache[k] # None =>
    /\ Holds(cache[k].decision, cache[k].basis, k)
    /\ cache[k].at \in 0..now /\ now < cache[k].at + CacheTTL
    /\ cache[k].basis < Len(history) => cache[k].at <= history[cache[k].basis + 1].from + Timeout
    /\ ~cache[k].exposed =>
         /\ cache[k].basis >= cleared /\ k \in index
         /\ \A v \in Versions : inval[v].stage = "listed" => k \in inval[v].keys

\* A query has not run out of time, and what it has read was current when it began
\* or later.
WorkOK(w) ==
  work[w] # None =>
    /\ {"stage", "q", "since", "live"} \subseteq DOMAIN work[w]
    /\ work[w].stage \in {"read", "write"} /\ work[w].q \in Questions
    /\ work[w].since \in 0..now /\ now <= work[w].since + Timeout
    /\ work[w].stage = "write" =>
         /\ {"decision", "basis"} \subseteq DOMAIN work[w]
         /\ Holds(work[w].decision, work[w].basis, work[w].q)
         /\ work[w].basis < Len(history) => work[w].since <= history[work[w].basis + 1].from

\* An answer is a deny for want of a decision, or a true decision that is not too old.
AnswerOK(e) ==
  pc[e] = "answered" =>
    /\ answer[e].at \in 0..now
    /\ answer[e].basis = 0 => answer[e].decision.effect = "deny"
    /\ answer[e].basis # 0 => Holds(answer[e].decision, answer[e].basis, ask[e])
    /\ answer[e].basis # 0 /\ answer[e].basis < Len(history) =>
         answer[e].at < history[answer[e].basis + 1].from + CacheTTL + Timeout

\* singleflight: a query belongs to the request that began it, there is one for a key,
\* and one for every request that waits.
FlightOK ==
  /\ \A e \in Evaluators : work[e] # None => pc[e] \in {"wait", "gone"} /\ ask[e] = work[e].q
  /\ \A d, e \in Evaluators : work[d] # None /\ work[e] # None /\ work[d].q = work[e].q => d = e
  /\ \A e \in Evaluators :
       /\ pc[e] \in {"join", "wait"} => ask[e] \in Questions
       /\ pc[e] = "wait" => \E d \in Evaluators : work[d] # None /\ work[d].q = ask[e]
       /\ pc[e] = "gone" => work[e] # None

\* The functions, the invalidations and the counters.
FrameOK ==
  /\ DOMAIN cache = Questions /\ index \subseteq Questions
  /\ DOMAIN work = Workers /\ DOMAIN ask = Evaluators /\ DOMAIN answer = Evaluators
  /\ pc \in [Evaluators -> {"idle", "join", "wait", "gone", "answered"}]
  /\ inval \in [Versions -> {None, [stage |-> "start"]} \cup [stage : {"listed"}, keys : SUBSET Questions]]
  /\ \A v \in Versions : inval[v] # None => v <= Len(history)
  /\ cleared \in 1..Len(history)
  /\ now \in 0..MaxTime /\ asked \in 0..MaxAsks /\ faults \in 0..MaxFaults

PolicyInv ==
  /\ HistoryOK /\ FrameOK /\ FlightOK
  /\ \A k \in Questions : CacheOK(k)
  /\ \A w \in Workers : WorkOK(w)
  /\ \A e \in Evaluators : AnswerOK(e)

-----------------------------------------------------------------------------
(* Operators.                                                              *)

\* The numbers.
LEMMA Numbers ==
  /\ MaxAsks \in Nat /\ MaxChanges \in Nat /\ MaxTime \in Nat /\ MaxFaults \in Nat
  /\ Timeout \in Nat \ {0} /\ CacheTTL \in Nat \ {0}
  BY BoundsAssumption, TimesAssumption

\* How old a decision gets: a query takes its timeout, an entry stays for its lifetime.
LEMMA Ages ==
  ASSUME NEW n \in Nat, NEW t \in Nat, NEW f \in Nat
  PROVE  /\ n < t + CacheTTL /\ t <= f + Timeout => n < f + CacheTTL + Timeout
         /\ n <= t + Timeout /\ t <= f => n <= f + Timeout /\ n < f + CacheTTL + Timeout
  BY Numbers

\* evaluate gives the documented decision for the policies it is given: deny by
\* default, and deny overrides.
LEMMA EvaluateRight ==
  ASSUME NEW q, NEW db, Consistent(db), NEW read \in SUBSET GetMatchingPolicies(q, db), NEW d,
         \/ d = evaluate(q, db, read) /\ read = GetMatchingPolicies(q, db)
         \/ d = [evaluate(q, db, read) EXCEPT !.cut = TRUE]
  PROVE  d.effect \in {"allow", "deny"} /\ d.ids \subseteq Policies /\ Right(d, q, db)
<1> DEFINE M == {p \in read : Applies(db.policies[p].logic, q)}
           denied == M = {} \/ \E p \in M : db.policies[p].logic.type = "deny_all"
<1>1. /\ d.effect = (IF denied THEN "deny" ELSE "allow") /\ d.ids = M /\ d.read = read
      /\ d.cut \/ read = GetMatchingPolicies(q, db)
  <2>1. CASE d = evaluate(q, db, read) /\ read = GetMatchingPolicies(q, db)
    BY <2>1 DEF evaluate
  <2>2. CASE d = [evaluate(q, db, read) EXCEPT !.cut = TRUE]
    BY <2>2 DEF evaluate
  <2> QED
    BY <2>1, <2>2
<1>2. M \subseteq Policies
  BY DEF GetMatchingPolicies, Consistent
<1>3. \A p \in M : db.policies[p].logic.type \in {"deny_all", "allow_all", "rbac", "cel"}
  BY DEF Applies
<1>4. Permitted(q, db, read) <=>
        /\ \E p \in M : db.policies[p].logic.type \in {"allow_all", "rbac", "cel"}
        /\ ~\E p \in M : db.policies[p].logic.type = "deny_all"
  BY DEF Permitted
<1> HIDE DEF M
<1>5. ~denied <=> Permitted(q, db, read)
  BY <1>3, <1>4
<1>6. Permitted(q, db, read) \in BOOLEAN
  BY DEF Permitted
<1>7. (d.effect = "allow") = Permitted(q, db, d.read)
  BY <1>1, <1>5, <1>6
<1> QED
  BY <1>1, <1>2, <1>7 DEF Right

\* The larger of two numbers.
LEMMA MaxOfTwo ==
  ASSUME NEW a \in Int, NEW b \in Int
  PROVE  Max({a, b}) \in {a, b} /\ Max({a, b}) >= a /\ Max({a, b}) >= b
<1>1. \E x \in {a, b} : \A y \in {a, b} : x >= y
  <2>1. CASE a >= b
    BY <2>1
  <2>2. CASE b >= a
    BY <2>2
  <2> QED
    BY <2>1, <2>2
<1> QED
  BY <1>1 DEF Max

\* None is not a query, an entry or an invalidation that has begun.
LEMMA NoneStage == None.stage = "none"
  BY DEF None

-----------------------------------------------------------------------------
(* The database and the clock.                                             *)

\* States are added, with the time of their commit, and time goes on.
Later ==
  /\ Len(history) \in Nat /\ Len(history') \in Nat /\ Len(history) <= Len(history')
  /\ \A i \in 1..Len(history) : history'[i] = history[i]
  /\ \A i \in Len(history) + 1..Len(history') : history'[i].from = now
  /\ now \in Nat /\ now' \in {now, now + 1}

\* A decision that holds goes on to hold for its state.
LEMMA HoldsStays ==
  ASSUME Later, NEW d, NEW v, NEW q, Holds(d, v, q)
  PROVE  Holds(d, v, q)'
  BY DEF Later, Holds

\* A bound on the next state of a committed one stays, or begins with the state.
LEMMA NextState ==
  ASSUME Later, HistoryOK, NEW v \in 1..Len(history), NEW t \in Nat, NEW n \in Nat, t <= now + n,
         v < Len(history) => t <= history[v + 1].from + n
  PROVE  v < Len(history') => t <= history'[v + 1].from + n
<1> SUFFICES ASSUME v < Len(history') PROVE t <= history'[v + 1].from + n
  OBVIOUS
<1>1. CASE v < Len(history)
  BY <1>1 DEF Later
<1>2. CASE v = Len(history)
  <2>1. history'[v + 1].from = now
    BY <1>2 DEF Later
  <2> QED
    BY <2>1 DEF Later
<1> QED
  BY <1>1, <1>2 DEF Later

\* A query that goes on, also when its caller has left.
LEMMA WorkStays ==
  ASSUME Later, HistoryOK, NEW w, WorkOK(w),
         work'[w] = work[w] \/ (work[w] # None /\ work'[w] = [work[w] EXCEPT !.live = FALSE]),
         work[w] # None => now' <= work[w].since + Timeout
  PROVE  WorkOK(w)'
<1> SUFFICES ASSUME work[w] # None PROVE WorkOK(w)'
  BY DEF WorkOK
<1> DEFINE x == work[w]
           y == work'[w]
<1>1. /\ {"stage", "q", "since", "live"} \subseteq DOMAIN x
      /\ x.stage \in {"read", "write"} /\ x.q \in Questions /\ x.since \in 0..now
      /\ x.stage = "write" => /\ {"decision", "basis"} \subseteq DOMAIN x
                              /\ Holds(x.decision, x.basis, x.q)
                              /\ x.basis < Len(history) => x.since <= history[x.basis + 1].from
  BY DEF WorkOK
<1>2. x.since \in 0..now'
  BY <1>1 DEF Later
<1>3. /\ DOMAIN y = DOMAIN x /\ y.stage = x.stage /\ y.q = x.q /\ y.since = x.since
      /\ x.stage = "write" => y.decision = x.decision /\ y.basis = x.basis
  BY <1>1
<1>4. ASSUME x.stage = "write"
      PROVE  Holds(work[w].decision, work[w].basis, work[w].q)' /\ (x.basis < Len(history') => x.since <= history'[x.basis + 1].from)
  <2>1. PICK d, v, q : d = x.decision /\ v = x.basis /\ q = x.q
    OBVIOUS
  <2>2. Holds(d, v, q) /\ v \in 1..Len(history)
    BY <1>1, <1>4, <2>1 DEF Holds
  <2>3. Holds(d, v, q)'
    BY <2>2, HoldsStays
  <2>4. x.since \in Nat /\ x.since <= now + 0
    BY <1>1 DEF Later
  <2>5. v < Len(history) => x.since <= history[v + 1].from + 0
    <3> SUFFICES ASSUME v < Len(history) PROVE x.since <= history[v + 1].from + 0
      OBVIOUS
    <3>1. history[v + 1].from \in Nat
      BY <2>2 DEF Later, HistoryOK
    <3> QED
      BY <1>1, <1>4, <2>1, <3>1
  <2>6. v < Len(history') => x.since <= history'[v + 1].from + 0
    BY <2>2, <2>4, <2>5, NextState
  <2>7. v < Len(history') => history'[v + 1].from \in Nat
    BY <2>2 DEF Later, HistoryOK
  <2>8. y.decision = d /\ y.basis = v /\ y.q = q
    BY <1>3, <1>4, <2>1
  <2> QED
    BY <2>1, <2>3, <2>4, <2>6, <2>7, <2>8 DEF Holds
<1>5. y # None
  BY <1>1, <1>3, NoneStage
<1>6. now' <= y.since + Timeout
  BY <1>3
<1> QED
  BY <1>1, <1>2, <1>3, <1>4, <1>5, <1>6 DEF WorkOK

\* An answer that waits to be written.
LEMMA AnswerStays ==
  ASSUME Later, HistoryOK, NEW e, pc'[e] = "answered" => AnswerOK(e) /\ pc[e] = "answered",
         pc'[e] = "answered" => answer'[e] = answer[e] /\ ask'[e] = ask[e]
  PROVE  AnswerOK(e)'
<1> SUFFICES ASSUME pc'[e] = "answered" PROVE AnswerOK(e)'
  BY DEF AnswerOK
<1> DEFINE a == answer[e]
<1>1. /\ answer'[e] = a /\ ask'[e] = ask[e] /\ a.at \in 0..now
      /\ a.basis = 0 => a.decision.effect = "deny"
      /\ a.basis # 0 => Holds(a.decision, a.basis, ask[e])
      /\ a.basis # 0 /\ a.basis < Len(history) => a.at < history[a.basis + 1].from + CacheTTL + Timeout
  BY DEF AnswerOK
<1>2. a.at \in 0..now'
  BY <1>1 DEF Later
<1>3. ASSUME a.basis # 0
      PROVE  /\ Holds(answer[e].decision, answer[e].basis, ask[e])'
             /\ a.basis < Len(history') => a.at < history'[a.basis + 1].from + CacheTTL + Timeout
  <2>1. PICK d, v, q : d = a.decision /\ v = a.basis /\ q = ask[e]
    OBVIOUS
  <2>2. Holds(d, v, q) /\ v \in 1..Len(history)
    BY <1>1, <1>3, <2>1 DEF Holds
  <2>3. Holds(d, v, q)'
    BY <2>2, HoldsStays
  <2>4. CASE v < Len(history)
    BY <1>1, <1>3, <2>1, <2>2, <2>3, <2>4 DEF Holds, Later
  <2>5. CASE v = Len(history)
    <3>1. v < Len(history') => history'[v + 1].from = now
      BY <2>5 DEF Later
    <3>2. a.at \in Nat /\ now \in Nat /\ a.at <= now + Timeout
      BY <1>1, Numbers DEF Later
    <3>3. a.at < now + CacheTTL + Timeout
      BY <3>2, Ages
    <3> QED
      BY <1>1, <2>1, <2>3, <3>1, <3>2, <3>3 DEF Holds
  <2> QED
    BY <2>2, <2>4, <2>5 DEF Later
<1> QED
  BY <1>1, <1>2, <1>3 DEF AnswerOK

\* An entry that stays in the cache.
LEMMA EntryStays ==
  ASSUME Later, HistoryOK, NEW k, CacheOK(k), cache'[k] = cache[k],
         cache[k] # None => now' < cache[k].at + CacheTTL,
         cache[k] # None /\ ~cache[k].exposed =>
           /\ cache[k].basis >= cleared' /\ k \in index'
           /\ \A v \in Versions : inval'[v].stage = "listed" => k \in inval'[v].keys
  PROVE  CacheOK(k)'
<1> SUFFICES ASSUME cache[k] # None PROVE CacheOK(k)'
  BY DEF CacheOK
<1> DEFINE c == cache[k]
<1>1. /\ Holds(c.decision, c.basis, k) /\ c.at \in 0..now
      /\ c.basis < Len(history) => c.at <= history[c.basis + 1].from + Timeout
  BY DEF CacheOK
<1>2. PICK d, v : d = c.decision /\ v = c.basis
  OBVIOUS
<1>3. Holds(d, v, k) /\ v \in 1..Len(history)
  BY <1>1, <1>2 DEF Holds
<1>4. Holds(d, v, k)'
  BY <1>3, HoldsStays
<1>5. c.at \in Nat /\ c.at <= now + Timeout /\ c.at \in 0..now'
  BY <1>1, Numbers DEF Later
<1>6. v < Len(history') => c.at <= history'[v + 1].from + Timeout
  BY <1>1, <1>2, <1>3, <1>5, Numbers, NextState
<1>7. Holds(cache[k].decision, cache[k].basis, k)'
  BY <1>2, <1>4 DEF Holds
<1> QED
  BY <1>2, <1>5, <1>6, <1>7 DEF CacheOK

-----------------------------------------------------------------------------
(* Requests.                                                               *)

\* A step that leaves the database and the clock alone.
LEMMA SameDB ==
  ASSUME PolicyInv, UNCHANGED <<history, now>>
  PROVE  Later /\ HistoryOK /\ HistoryOK'
<1>1. HistoryOK /\ now \in Nat
  BY Numbers DEF PolicyInv, FrameOK
<1>2. Len(history) \in Nat
  BY <1>1, Numbers DEF HistoryOK, Versions
<1>3. HistoryOK'
  BY <1>1 DEF HistoryOK
<1>4. Len(history') = Len(history)
  OBVIOUS
<1>5. \A i \in Len(history) + 1..Len(history') : FALSE
  BY <1>2, <1>4
<1> QED
  BY <1>1, <1>2, <1>3, <1>4, <1>5 DEF Later

\* One that leaves Redis and the invalidations alone, too.
LEMMA SameCache ==
  ASSUME PolicyInv, UNCHANGED <<history, now, redis, inval, cleared>>
  PROVE  \A k \in Questions : CacheOK(k)'
<1>1. Later /\ HistoryOK
  BY SameDB
<1>2. UNCHANGED <<cache, index>>
  BY DEF redis
<1> SUFFICES ASSUME NEW k \in Questions PROVE CacheOK(k)'
  OBVIOUS
<1>3. CacheOK(k)
  BY DEF PolicyInv
<1> QED
  BY <1>1, <1>2, <1>3, EntryStays DEF CacheOK

\* A query that goes on, while the clock stands.
LEMMA SameWork ==
  ASSUME PolicyInv, Later, now' = now, NEW w \in Workers, work'[w] = work[w]
  PROVE  WorkOK(w)'
<1>1. WorkOK(w) /\ HistoryOK
  BY DEF PolicyInv
<1> QED
  BY <1>1, WorkStays DEF WorkOK

\* A new query.
LEMMA NewWork ==
  ASSUME PolicyInv, now' = now, NEW q \in Questions, NEW w, work'[w] = Work(q)
  PROVE  WorkOK(w)' /\ Work(q) # None /\ Work(q).q = q
<1>1. /\ Work(q).stage = "read" /\ Work(q).q = q /\ Work(q).since = now
      /\ {"stage", "q", "since", "live"} \subseteq DOMAIN Work(q)
  BY DEF Work
<1>2. now \in Nat /\ Timeout \in Nat
  BY Numbers DEF PolicyInv, FrameOK
<1> HIDE DEF Work
<1> QED
  BY <1>1, <1>2, NoneStage DEF WorkOK

\* The request that is idle, or about to join, has no query.
LEMMA IdleHasNone ==
  ASSUME PolicyInv, NEW e \in Evaluators, pc[e] \notin {"wait", "gone"}
  PROVE  work[e] = None
  BY DEF PolicyInv, FlightOK

\* CacheHit: the cached decision is an answer, and maybe a refresh begins.
LEMMA HitKeeps ==
  ASSUME PolicyInv, NEW e \in Evaluators, NEW q \in Questions, CacheHit(e, q)
  PROVE  PolicyInv'
<1> DEFINE c == cache[q]
<1>1. UNCHANGED <<history, redis, inval, cleared, now, faults>> /\ UNCHANGED <<cache, index>>
  BY DEF CacheHit, redis
<1>2. Later /\ HistoryOK /\ HistoryOK'
  BY <1>1, SameDB
<1>3. /\ pc[e] = "idle" /\ asked < MaxAsks /\ asked' = asked + 1 /\ c # None
      /\ ask' = [ask EXCEPT ![e] = q] /\ pc' = [pc EXCEPT ![e] = "answered"]
      /\ answer' = [answer EXCEPT ![e] = Answer(c.decision, c.basis)]
  BY DEF CacheHit, HandleEvaluate, cacheKey
<1>4. FrameOK
  BY DEF PolicyInv
<1>5. \/ work' = work
      \/ \E w \in Refreshers : work' = [work EXCEPT ![w] = Work(q)]
  BY DEF CacheHit, backgroundRefresh
<1>6. DOMAIN work' = Workers /\ \A d \in Evaluators : work'[d] = work[d]
  BY <1>4, <1>5, ProcessAssumption DEF FrameOK, Workers
<1>7. FrameOK'
  <2>1. asked' \in 0..MaxAsks
    BY <1>3, <1>4, Numbers DEF FrameOK
  <2> QED
    BY <1>1, <1>3, <1>4, <1>6, <2>1 DEF FrameOK
<1>8. work[e] = None
  BY <1>3, IdleHasNone
<1>9. FlightOK'
  BY <1>3, <1>4, <1>6, <1>8 DEF PolicyInv, FlightOK, FrameOK
<1>10. \A k \in Questions : CacheOK(k)'
  BY <1>1, SameCache
<1>11. ASSUME NEW w \in Workers PROVE WorkOK(w)'
  <2>1. work'[w] = work[w] \/ work'[w] = Work(q)
    BY <1>4, <1>5 DEF FrameOK, Workers
  <2> QED
    BY <1>1, <1>2, <2>1, SameWork, NewWork
<1>12. ASSUME NEW d \in Evaluators PROVE AnswerOK(d)'
  <2>1. CASE d = e
    <3>1. CacheOK(q)
      BY DEF PolicyInv
    <3>2. /\ Holds(c.decision, c.basis, q) /\ c.at \in 0..now /\ now < c.at + CacheTTL
          /\ c.basis < Len(history) => c.at <= history[c.basis + 1].from + Timeout
      BY <1>3, <3>1 DEF CacheOK
    <3>3. PICK x, v : x = c.decision /\ v = c.basis
      OBVIOUS
    <3>4. v \in 1..Len(history) /\ Holds(x, v, q)'
      BY <1>2, <3>2, <3>3, HoldsStays DEF Holds
    <3>5. answer'[e].decision = x /\ answer'[e].basis = v /\ answer'[e].at = now /\ ask'[e] = q
      BY <1>3, <1>4, <3>3 DEF FrameOK, Answer
    <3>6. v < Len(history) => now < history[v + 1].from + CacheTTL + Timeout
      <4> SUFFICES ASSUME v < Len(history) PROVE now < history[v + 1].from + CacheTTL + Timeout
        OBVIOUS
      <4>1. history[v + 1].from \in Nat
        BY <1>2, <3>4 DEF HistoryOK, Later
      <4>2. c.at \in Nat /\ now \in Nat /\ now < c.at + CacheTTL /\ c.at <= history[v + 1].from + Timeout
        BY <1>2, <3>2, <3>3 DEF Later
      <4> QED
        BY <4>1, <4>2, Ages
    <3>7. now \in 0..now' /\ v # 0
      BY <1>1, <1>2, <3>4 DEF Later
    <3>8. Holds(answer[e].decision, answer[e].basis, ask[e])'
      BY <3>4, <3>5 DEF Holds
    <3> QED
      BY <1>1, <2>1, <3>5, <3>6, <3>7, <3>8 DEF AnswerOK
  <2>2. CASE d # e
    <3>1. AnswerOK(d) /\ pc'[d] = pc[d] /\ ask'[d] = ask[d] /\ answer'[d] = answer[d]
      BY <1>3, <1>4, <2>2 DEF PolicyInv, FrameOK
    <3> QED
      BY <1>2, <3>1, AnswerStays
  <2> QED
    BY <2>1, <2>2
<1> QED
  BY <1>2, <1>7, <1>9, <1>10, <1>11, <1>12 DEF PolicyInv

\* CacheMiss: the request goes on to ask the database.
LEMMA MissKeeps ==
  ASSUME PolicyInv, NEW e \in Evaluators, NEW q \in Questions, CacheMiss(e, q)
  PROVE  PolicyInv'
<1>1. UNCHANGED <<history, redis, work, answer, inval, cleared, now>> /\ UNCHANGED <<cache, index>>
  BY DEF CacheMiss, redis
<1>2. Later /\ HistoryOK /\ HistoryOK'
  BY <1>1, SameDB
<1>3. /\ pc[e] = "idle" /\ asked < MaxAsks /\ asked' = asked + 1
      /\ ask' = [ask EXCEPT ![e] = q] /\ pc' = [pc EXCEPT ![e] = "join"]
  BY DEF CacheMiss, HandleEvaluate
<1>4. FrameOK
  BY DEF PolicyInv
<1>5. FrameOK'
  <2>1. asked' \in 0..MaxAsks /\ faults' \in 0..MaxFaults
    <3>1. faults' = faults \/ Fault
      BY DEF CacheMiss
    <3> QED
      BY <1>3, <1>4, <3>1, Numbers DEF FrameOK, Fault
  <2> QED
    BY <1>1, <1>3, <1>4, <2>1 DEF FrameOK
<1>6. work[e] = None
  BY <1>3, IdleHasNone
<1>7. FlightOK'
  BY <1>1, <1>3, <1>4, <1>6 DEF PolicyInv, FlightOK, FrameOK
<1>8. \A k \in Questions : CacheOK(k)'
  BY <1>1, SameCache
<1>9. \A w \in Workers : WorkOK(w)'
  BY <1>1, <1>2, SameWork
<1>10. ASSUME NEW d \in Evaluators PROVE AnswerOK(d)'
  <2>1. pc'[d] = "answered" => AnswerOK(d) /\ pc[d] = "answered" /\ answer'[d] = answer[d] /\ ask'[d] = ask[d]
    BY <1>1, <1>3, <1>4 DEF PolicyInv, FrameOK
  <2> QED
    BY <1>2, <2>1, AnswerStays
<1> QED
  BY <1>2, <1>5, <1>7, <1>8, <1>9, <1>10 DEF PolicyInv

\* DoChan: a query for a key begins when none is running.
LEMMA DoChanKeeps ==
  ASSUME PolicyInv, NEW e \in Evaluators, DoChan(e)
  PROVE  PolicyInv'
<1> DEFINE q == ask[e]
<1>1. UNCHANGED <<history, redis, ask, answer, inval, cleared, now, faults, asked>> /\ UNCHANGED <<cache, index>>
  BY DEF DoChan, redis
<1>2. Later /\ HistoryOK /\ HistoryOK'
  BY <1>1, SameDB
<1>3. pc[e] = "join" /\ pc' = [pc EXCEPT ![e] = "wait"]
  BY DEF DoChan
<1>4. FrameOK
  BY DEF PolicyInv
<1>5. q \in Questions /\ work[e] = None
  BY <1>3, IdleHasNone DEF PolicyInv, FlightOK
<1>6. \/ work' = work /\ \E d \in Evaluators : work[d] # None /\ work[d].q = q
      \/ work' = [work EXCEPT ![e] = Work(q)] /\ \A d \in Evaluators : work[d] # None => work[d].q # q
  BY DEF DoChan, Flight, cacheKey
<1>7. DOMAIN work' = Workers
  BY <1>4, <1>6 DEF FrameOK
<1>8. FrameOK'
  BY <1>1, <1>3, <1>4, <1>7 DEF FrameOK
<1>9. e \in Workers
  BY DEF Workers
<1>10. FlightOK'
  <2>1. FlightOK
    BY DEF PolicyInv
  <2>2. CASE work' = work /\ \E d \in Evaluators : work[d] # None /\ work[d].q = q
    BY <1>1, <1>3, <1>4, <1>5, <2>1, <2>2 DEF FlightOK, FrameOK
  <2>3. CASE work' = [work EXCEPT ![e] = Work(q)] /\ \A d \in Evaluators : work[d] # None => work[d].q # q
    <3>1. work'[e] = Work(q) /\ \A d \in Evaluators \ {e} : work'[d] = work[d]
      BY <1>4, <1>9, <2>3 DEF FrameOK, Workers
    <3>2. Work(q) # None /\ Work(q).q = q
      BY <1>1, <1>5, <3>1, NewWork
    <3> QED
      BY <1>1, <1>3, <1>4, <1>5, <2>1, <2>3, <3>1, <3>2 DEF FlightOK, FrameOK
  <2> QED
    BY <1>6, <2>2, <2>3
<1>11. \A k \in Questions : CacheOK(k)'
  BY <1>1, SameCache
<1>12. ASSUME NEW w \in Workers PROVE WorkOK(w)'
  <2>1. work'[w] = work[w] \/ work'[w] = Work(q)
    BY <1>4, <1>6 DEF FrameOK
  <2> HIDE DEF q
  <2> QED
    BY <1>1, <1>2, <1>5, <2>1, SameWork, NewWork
<1>13. ASSUME NEW d \in Evaluators PROVE AnswerOK(d)'
  <2>1. pc'[d] = "answered" => AnswerOK(d) /\ pc[d] = "answered" /\ answer'[d] = answer[d] /\ ask'[d] = ask[d]
    BY <1>1, <1>3, <1>4 DEF PolicyInv, FrameOK
  <2> QED
    BY <1>2, <2>1, AnswerStays
<1> QED
  BY <1>2, <1>8, <1>10, <1>11, <1>12, <1>13 DEF PolicyInv

\* Reply: the answer is written, and the request is over.
LEMMA ReplyKeeps ==
  ASSUME PolicyInv, NEW e \in Evaluators, Reply(e)
  PROVE  PolicyInv'
<1>1. UNCHANGED <<history, redis, work, inval, cleared, now, faults, asked>> /\ UNCHANGED <<cache, index>>
  BY DEF Reply, redis
<1>2. Later /\ HistoryOK /\ HistoryOK'
  BY <1>1, SameDB
<1>3. /\ pc[e] = "answered" /\ pc' = [pc EXCEPT ![e] = "idle"]
      /\ answer' = [answer EXCEPT ![e] = None] /\ ask' = [ask EXCEPT ![e] = None]
  BY DEF Reply
<1>4. FrameOK
  BY DEF PolicyInv
<1>5. FrameOK'
  BY <1>1, <1>3, <1>4 DEF FrameOK
<1>6. work[e] = None
  BY <1>3, IdleHasNone
<1>7. FlightOK'
  BY <1>1, <1>3, <1>4, <1>6 DEF PolicyInv, FlightOK, FrameOK
<1>8. \A k \in Questions : CacheOK(k)'
  BY <1>1, SameCache
<1>9. \A w \in Workers : WorkOK(w)'
  BY <1>1, <1>2, SameWork
<1>10. ASSUME NEW d \in Evaluators PROVE AnswerOK(d)'
  <2>1. pc'[d] = "answered" => AnswerOK(d) /\ pc[d] = "answered" /\ answer'[d] = answer[d] /\ ask'[d] = ask[d]
    BY <1>1, <1>3, <1>4 DEF PolicyInv, FrameOK
  <2> QED
    BY <1>2, <2>1, AnswerStays
<1> QED
  BY <1>2, <1>5, <1>7, <1>8, <1>9, <1>10 DEF PolicyInv

\* CallerLeaves: the query of a caller that has left goes on, with a cancelled context.
LEMMA LeaveKeeps ==
  ASSUME PolicyInv, NEW e \in Evaluators, CallerLeaves(e)
  PROVE  PolicyInv'
<1>1. UNCHANGED <<history, redis, answer, inval, cleared, now, asked>> /\ UNCHANGED <<cache, index>>
  BY DEF CallerLeaves, redis
<1>2. Later /\ HistoryOK /\ HistoryOK'
  BY <1>1, SameDB
<1>3. /\ pc[e] = "wait" /\ Fault
      /\ pc' = [pc EXCEPT ![e] = IF work[e] = None THEN "idle" ELSE "gone"]
      /\ ask' = [ask EXCEPT ![e] = IF work[e] = None THEN None ELSE ask[e]]
      /\ work' = IF work[e] = None THEN work ELSE [work EXCEPT ![e] = [work[e] EXCEPT !.live = FALSE]]
  BY DEF CallerLeaves
<1>4. FrameOK /\ FlightOK /\ e \in Workers
  BY DEF PolicyInv, Workers
<1>5. FrameOK'
  <2>1. faults' \in 0..MaxFaults
    BY <1>3, <1>4, Numbers DEF FrameOK, Fault
  <2> QED
    BY <1>1, <1>3, <1>4, <2>1 DEF FrameOK
<1>6. \A w \in Workers : work'[w] = work[w] \/ (work[w] # None /\ work'[w] = [work[w] EXCEPT !.live = FALSE])
  BY <1>3, <1>4 DEF FrameOK
<1>7. ASSUME NEW w \in Workers PROVE WorkOK(w)'
  <2>1. WorkOK(w)
    BY DEF PolicyInv
  <2> QED
    BY <1>1, <1>2, <1>6, <2>1, WorkStays DEF WorkOK
<1>8. ASSUME NEW w \in Workers
      PROVE  (work'[w] = None <=> work[w] = None) /\ (work[w] # None => work'[w].q = work[w].q)
  <2>1. WorkOK(w)
    BY DEF PolicyInv
  <2>2. work[w] # None => {"stage", "q"} \subseteq DOMAIN work[w] /\ work[w].stage # "none"
    BY <2>1 DEF WorkOK
  <2> QED
    BY <1>6, <2>2, NoneStage
<1>9. FlightOK'
  <2>1. Evaluators \subseteq Workers
    BY DEF Workers
  <2>2. \A d \in Evaluators : (pc'[d] = pc[d] /\ ask'[d] = ask[d]) \/ d = e
    BY <1>3, <1>4 DEF FrameOK
  <2>3. work[e] = None => pc'[e] = "idle"
    BY <1>3, <1>4 DEF FrameOK
  <2>4. work[e] # None => pc'[e] = "gone" /\ ask'[e] = ask[e]
    BY <1>3, <1>4 DEF FrameOK
  <2> QED
    BY <1>4, <1>8, <2>1, <2>2, <2>3, <2>4 DEF FlightOK
<1>10. \A k \in Questions : CacheOK(k)'
  BY <1>1, SameCache
<1>11. ASSUME NEW d \in Evaluators PROVE AnswerOK(d)'
  <2>1. pc'[d] = "answered" => AnswerOK(d) /\ pc[d] = "answered" /\ answer'[d] = answer[d] /\ ask'[d] = ask[d]
    BY <1>1, <1>3, <1>4 DEF PolicyInv, FrameOK
  <2> QED
    BY <1>2, <2>1, AnswerStays
<1> QED
  BY <1>2, <1>5, <1>7, <1>9, <1>10, <1>11 DEF PolicyInv

\* ReadPolicies and ReadCutOff: the decision of a query rests on the newest state.
LEMMA ReadKeeps ==
  ASSUME PolicyInv, NEW w \in Workers, work[w] # None, ReadPolicies(w) \/ ReadCutOff(w)
  PROVE  PolicyInv'
<1> DEFINE x == work[w]
<1>1. UNCHANGED <<history, redis, pc, ask, answer, asked, inval, cleared, now>> /\ UNCHANGED <<cache, index>>
  BY DEF ReadPolicies, ReadCutOff, redis, requests
<1>2. Later /\ HistoryOK /\ HistoryOK'
  BY <1>1, SameDB
<1>3. FrameOK /\ FlightOK /\ WorkOK(w)
  BY DEF PolicyInv
<1>0. faults' \in 0..MaxFaults
  <2>1. faults' = faults \/ Fault
    BY DEF ReadPolicies, ReadCutOff
  <2> QED
    BY <1>3, <2>1, Numbers DEF FrameOK, Fault
<1>4. PICK d, read :
        /\ read \in SUBSET GetMatchingPolicies(x.q, DB)
        /\ Decided(w, d)
        /\ \/ d = evaluate(x.q, DB, read) /\ read = GetMatchingPolicies(x.q, DB)
           \/ d = [evaluate(x.q, DB, read) EXCEPT !.cut = TRUE]
  <2>1. CASE ReadPolicies(w)
    BY <2>1 DEF ReadPolicies
  <2>2. CASE ReadCutOff(w)
    BY <2>2 DEF ReadCutOff, FirstRows
  <2> QED
    BY <2>1, <2>2
<1>5. PICK y : y = [stage |-> "write", q |-> x.q, since |-> x.since, live |-> x.live,
                    decision |-> d, basis |-> Len(history)]
  OBVIOUS
<1>6. work' = [work EXCEPT ![w] = y]
  BY <1>4, <1>5 DEF Decided
<1>7. work'[w] = y /\ DOMAIN work' = Workers /\ \A u \in Workers \ {w} : work'[u] = work[u]
  BY <1>3, <1>6 DEF FrameOK
<1>8. /\ y.stage = "write" /\ y.q = x.q /\ y.since = x.since /\ y.decision = d /\ y.basis = Len(history)
      /\ {"stage", "q", "since", "live", "decision", "basis"} \subseteq DOMAIN y
  BY <1>5
<1>9. y # None
  BY <1>8, NoneStage
<1>10. FrameOK'
  BY <1>0, <1>1, <1>3, <1>7 DEF FrameOK
<1>11. FlightOK'
  BY <1>1, <1>3, <1>7, <1>8, <1>9 DEF FlightOK, Workers
<1>12. Len(history) \in 1..Len(history) /\ DB = history[Len(history)].db
  BY <1>2, Numbers DEF HistoryOK, Versions, DB, Last
<1>13. Consistent(DB)
  BY <1>2, <1>12 DEF HistoryOK
<1>14. Holds(d, Len(history), x.q)
  <2>1. d.effect \in {"allow", "deny"} /\ d.ids \subseteq Policies /\ Right(d, x.q, DB)
    BY <1>4, <1>13, EvaluateRight
  <2> QED
    BY <1>12, <2>1 DEF Holds
<1>15. WorkOK(w)'
  <2>1. PICK q, v : q = x.q /\ v = Len(history)
    OBVIOUS
  <2>2. Holds(d, v, q)'
    BY <1>2, <1>14, <2>1, HoldsStays
  <2>3. Holds(work[w].decision, work[w].basis, work[w].q)'
    BY <1>7, <1>8, <2>1, <2>2 DEF Holds
  <2>4. ~(y.basis < Len(history'))
    BY <1>1, <1>2, <1>8 DEF Later
  <2>5. x.q \in Questions /\ x.since \in 0..now' /\ now' <= x.since + Timeout
    BY <1>1, <1>3 DEF WorkOK
  <2> QED
    BY <1>7, <1>8, <2>3, <2>4, <2>5 DEF WorkOK
<1>16. \A u \in Workers : WorkOK(u)'
  BY <1>1, <1>2, <1>7, <1>15, SameWork
<1>17. \A k \in Questions : CacheOK(k)'
  BY <1>1, SameCache
<1>18. ASSUME NEW e \in Evaluators PROVE AnswerOK(e)'
  <2>1. AnswerOK(e)
    BY DEF PolicyInv
  <2> QED
    BY <1>1, <1>2, <2>1, AnswerStays
<1> QED
  BY <1>2, <1>10, <1>11, <1>16, <1>17, <1>18 DEF PolicyInv

\* Deliver: the requests that wait for the query get its decision, or a deny.
LEMMA DeliverKeeps ==
  ASSUME PolicyInv, NEW w \in Workers, work[w] # None, NEW d, NEW v, Deliver(w, d, v),
         \/ v = 0 /\ d.effect = "deny"
         \/ work[w].stage = "write" /\ d = work[w].decision /\ v = work[w].basis,
         UNCHANGED <<history, now, inval, cleared, asked>>, faults' \in 0..MaxFaults,
         DOMAIN cache' = Questions, index' \subseteq Questions
  PROVE  /\ HistoryOK' /\ FrameOK' /\ FlightOK'
         /\ \A u \in Workers : WorkOK(u)'
         /\ \A e \in Evaluators : AnswerOK(e)'
<1> DEFINE q == work[w].q
           waiting == {e \in Evaluators : w \in Evaluators /\ pc[e] = "wait" /\ ask[e] = q}
<1>1. Later /\ HistoryOK /\ HistoryOK'
  BY SameDB
<1>2. FrameOK /\ FlightOK /\ WorkOK(w)
  BY DEF PolicyInv
<1>3. /\ work' = [work EXCEPT ![w] = None]
      /\ answer' = [e \in Evaluators |-> IF e \in waiting THEN Answer(d, v) ELSE answer[e]]
      /\ pc' = [e \in Evaluators |-> IF e \in waiting THEN "answered"
                                     ELSE IF e = w THEN "idle" ELSE pc[e]]
      /\ ask' = [e \in Evaluators |-> IF e = w /\ pc[e] = "gone" THEN None ELSE ask[e]]
  BY DEF Deliver, cacheKey
<1>4. work'[w] = None /\ DOMAIN work' = Workers /\ \A u \in Workers \ {w} : work'[u] = work[u]
  BY <1>2, <1>3 DEF FrameOK
<1>5. /\ DOMAIN answer' = Evaluators /\ DOMAIN ask' = Evaluators
      /\ pc' \in [Evaluators -> {"idle", "join", "wait", "gone", "answered"}]
  BY <1>2, <1>3 DEF FrameOK
<1>6. FrameOK'
  BY <1>2, <1>4, <1>5 DEF FrameOK
<1>7. ASSUME NEW e \in waiting
      PROVE  e \in Evaluators /\ pc[e] = "wait" /\ ask[e] = q /\ pc'[e] = "answered" /\ ask'[e] = q /\ answer'[e] = Answer(d, v)
  BY <1>3
<1>8. ASSUME NEW e \in Evaluators \ waiting, e # w
      PROVE  pc'[e] = pc[e] /\ ask'[e] = ask[e] /\ answer'[e] = answer[e]
  BY <1>3, <1>8
<1>9. ASSUME w \in Evaluators, w \notin waiting PROVE pc'[w] = "idle"
  BY <1>3, <1>9
<1>10. FlightOK'
  <2>1. Evaluators \subseteq Workers
    BY DEF Workers
  <2>2. ASSUME NEW e \in Evaluators, work'[e] # None
        PROVE  e # w /\ e \notin waiting /\ work'[e] = work[e] /\ pc'[e] = pc[e] /\ ask'[e] = ask[e]
    <3>1. e # w /\ work'[e] = work[e]
      BY <1>4, <2>1, <2>2
    <3>2. e \notin waiting
      BY <1>2, <2>2, <3>1 DEF FlightOK
    <3> QED
      BY <1>8, <3>1, <3>2
  <2>3. ASSUME NEW e \in Evaluators, pc'[e] \in {"join", "wait", "gone"}
        PROVE  e # w /\ e \notin waiting /\ pc'[e] = pc[e] /\ ask'[e] = ask[e]
    <3>1. e \notin waiting
      BY <1>7, <2>3
    <3>2. e # w
      BY <1>9, <2>3, <3>1
    <3> QED
      BY <1>8, <3>1, <3>2
  <2>4. ASSUME NEW e \in Evaluators, pc'[e] = "wait"
        PROVE  \E u \in Evaluators : work'[u] # None /\ work'[u].q = ask'[e]
    <3>1. pc[e] = "wait" /\ e \notin waiting /\ ask'[e] = ask[e]
      BY <2>3, <2>4
    <3>2. PICK u \in Evaluators : work[u] # None /\ work[u].q = ask[e]
      BY <1>2, <3>1 DEF FlightOK
    <3>3. u # w
      BY <3>1, <3>2
    <3> QED
      BY <1>4, <2>1, <3>1, <3>2, <3>3
  <2>5. ASSUME NEW e \in Evaluators, pc'[e] = "gone" PROVE work'[e] # None
    <3>1. e # w /\ pc[e] = "gone"
      BY <2>3, <2>5
    <3> QED
      BY <1>2, <1>4, <2>1, <3>1 DEF FlightOK
  <2> HIDE DEF waiting
  <2> QED
    BY <1>2, <2>2, <2>3, <2>4, <2>5 DEF FlightOK
<1>11. ASSUME NEW u \in Workers PROVE WorkOK(u)'
  <2>1. CASE u = w
    BY <1>4, <2>1 DEF WorkOK
  <2>2. CASE u # w
    BY <1>1, <1>4, <2>2, SameWork
  <2> QED
    BY <2>1, <2>2
<1>12. ASSUME NEW e \in waiting PROVE AnswerOK(e)'
  <2>1. answer'[e].decision = d /\ answer'[e].basis = v /\ answer'[e].at = now /\ ask'[e] = q
    BY <1>7 DEF Answer
  <2>2. now \in 0..now'
    BY <1>1 DEF Later
  <2>3. CASE v = 0 /\ d.effect = "deny"
    BY <2>1, <2>2, <2>3 DEF AnswerOK
  <2>4. CASE work[w].stage = "write" /\ d = work[w].decision /\ v = work[w].basis
    <3>1. /\ Holds(d, v, q) /\ now <= work[w].since + Timeout /\ work[w].since \in 0..now
          /\ v < Len(history) => work[w].since <= history[v + 1].from
      BY <1>2, <2>4 DEF WorkOK
    <3>2. PICK z : z = q
      OBVIOUS
    <3>3. v \in 1..Len(history) /\ Holds(d, v, z)'
      BY <1>1, <3>1, <3>2, HoldsStays DEF Holds
    <3>4. Holds(answer[e].decision, answer[e].basis, ask[e])'
      BY <2>1, <3>2, <3>3 DEF Holds
    <3>5. v < Len(history) => now < history[v + 1].from + CacheTTL + Timeout
      <4> SUFFICES ASSUME v < Len(history) PROVE now < history[v + 1].from + CacheTTL + Timeout
        OBVIOUS
      <4>1. history[v + 1].from \in Nat
        BY <1>1, <3>3 DEF HistoryOK, Later
      <4>2. work[w].since \in Nat /\ now \in Nat
        BY <1>1, <3>1 DEF Later
      <4> QED
        BY <3>1, <4>1, <4>2, Ages
    <3>6. v # 0
      BY <3>3
    <3> QED
      BY <2>1, <2>2, <3>4, <3>5, <3>6 DEF AnswerOK
  <2> QED
    BY <2>3, <2>4
<1>13. ASSUME NEW e \in Evaluators PROVE AnswerOK(e)'
  <2>1. CASE e \in waiting
    BY <1>12, <2>1
  <2>2. CASE e \notin waiting /\ e # w
    <3>1. AnswerOK(e)
      BY DEF PolicyInv
    <3> QED
      BY <1>1, <1>8, <2>2, <3>1, AnswerStays
  <2>3. CASE e \notin waiting /\ e = w
    BY <1>9, <2>3 DEF AnswerOK
  <2> QED
    BY <2>1, <2>2, <2>3
<1> QED
  BY <1>1, <1>6, <1>10, <1>11, <1>13

\* ReadFails: nothing is stored.
LEMMA ReadFailsKeeps ==
  ASSUME PolicyInv, NEW w \in Workers, work[w] # None, ReadFails(w)
  PROVE  PolicyInv'
<1>1. UNCHANGED <<history, redis, inval, cleared, now, asked>> /\ UNCHANGED <<cache, index>>
  BY DEF ReadFails, redis
<1>2. FrameOK /\ Deliver(w, NoDecision, 0)
  BY DEF PolicyInv, ReadFails
<1>3. faults' \in 0..MaxFaults
  <2>1. faults' = faults \/ Fault
    BY DEF ReadFails
  <2> QED
    BY <1>2, <2>1, Numbers DEF FrameOK, Fault
<1>4. NoDecision.effect = "deny"
  BY DEF NoDecision
<1>5. DOMAIN cache' = Questions /\ index' \subseteq Questions
  BY <1>1, <1>2 DEF FrameOK
<1>6. /\ HistoryOK' /\ FrameOK' /\ FlightOK'
      /\ \A u \in Workers : WorkOK(u)'
      /\ \A e \in Evaluators : AnswerOK(e)'
  BY <1>1, <1>2, <1>3, <1>4, <1>5, DeliverKeeps
<1>7. \A k \in Questions : CacheOK(k)'
  BY <1>1, SameCache
<1> QED
  BY <1>6, <1>7 DEF PolicyInv

\* What is stored: an invalidation will find it, or it is known to be exposed.
LEMMA NewEntry ==
  ASSUME PolicyInv, NEW w \in Workers, work[w] # None, work[w].stage = "write",
         NEW k, k = work[w].q, NEW b, cache'[k] = Entry(w, b), ~b => ~Races(w) /\ k \in index',
         UNCHANGED <<history, now, inval, cleared>>
  PROVE  CacheOK(k)'
<1> DEFINE x == work[w]
<1>1. Later /\ HistoryOK
  BY SameDB
<1>2. FrameOK /\ WorkOK(w)
  BY DEF PolicyInv
<1>3. PICK d, v : d = x.decision /\ v = x.basis
  OBVIOUS
<1>4. /\ Holds(d, v, k) /\ x.since \in 0..now /\ now <= x.since + Timeout
      /\ v < Len(history) => x.since <= history[v + 1].from
  BY <1>2, <1>3 DEF WorkOK
<1>5. v \in 1..Len(history) /\ Holds(d, v, k)'
  BY <1>1, <1>4, HoldsStays DEF Holds
<1>6. PICK c : c = cache'[k]
  OBVIOUS
<1>7. c.stage = "stored" /\ c.decision = d /\ c.basis = v /\ c.at = now /\ c.exposed = b
  BY <1>3, <1>6 DEF Entry
<1>8. now \in 0..now' /\ now' < now + CacheTTL
  BY <1>1, Numbers DEF Later
<1>9. v < Len(history) => now <= history[v + 1].from + Timeout
  <2> SUFFICES ASSUME v < Len(history) PROVE now <= history[v + 1].from + Timeout
    OBVIOUS
  <2>1. history[v + 1].from \in Nat
    BY <1>1, <1>5 DEF HistoryOK, Later
  <2>2. x.since \in Nat /\ now \in Nat
    BY <1>1, <1>4 DEF Later
  <2> QED
    BY <1>4, <2>1, <2>2, Ages
<1>10. ASSUME ~b PROVE v >= cleared' /\ k \in index' /\ \A i \in Versions : inval'[i].stage = "listed" => k \in inval'[i].keys
  <2>1. ~(v < cleared) /\ \A i \in Versions : inval[i].stage # "listed"
    BY <1>3, <1>10 DEF Races
  <2>2. cleared \in Int /\ v \in Int
    BY <1>2, <1>5 DEF FrameOK
  <2> QED
    BY <1>10, <2>1, <2>2
<1>11. Holds(cache[k].decision, cache[k].basis, k)'
  BY <1>5, <1>6, <1>7 DEF Holds
<1> QED
  BY <1>6, <1>7, <1>8, <1>9, <1>10, <1>11 DEF CacheOK

\* StoreDecision and StoreFails, whatever comes of the pipeline.
LEMMA StoreKeeps ==
  ASSUME PolicyInv, NEW w \in Workers, work[w] # None, StoreDecision(w) \/ StoreFails(w)
  PROVE  PolicyInv'
<1> DEFINE x == work[w]
<1>1. UNCHANGED <<history, inval, cleared, now, asked>> /\ Deliver(w, x.decision, x.basis) /\ x.stage = "write"
  BY DEF StoreDecision, StoreFails
<1>2. FrameOK /\ WorkOK(w)
  BY DEF PolicyInv
<1>3. x.q \in Questions
  BY <1>2 DEF WorkOK
<1>4. PICK k : k = x.q
  OBVIOUS
<1>5. /\ index' = index \/ index' = index \cup {k}
      /\ \/ cache' = cache
         \/ \E b : cache' = [cache EXCEPT ![k] = Entry(w, b)] /\ (~b => ~Races(w) /\ k \in index')
  <2>1. CASE StoreDecision(w)
    BY <1>4, <2>1 DEF StoreDecision, cacheKey
  <2>2. CASE StoreFails(w)
    BY <1>4, <2>2 DEF StoreFails, cacheKey
  <2> QED
    BY <2>1, <2>2
<1>6. faults' \in 0..MaxFaults
  <2>1. faults' = faults \/ Fault
    BY DEF StoreDecision, StoreFails
  <2> QED
    BY <1>2, <2>1, Numbers DEF FrameOK, Fault
<1>7. DOMAIN cache' = Questions /\ index' \subseteq Questions
  BY <1>2, <1>3, <1>4, <1>5 DEF FrameOK
<1>8. /\ HistoryOK' /\ FrameOK' /\ FlightOK'
      /\ \A u \in Workers : WorkOK(u)'
      /\ \A e \in Evaluators : AnswerOK(e)'
  BY <1>1, <1>6, <1>7, DeliverKeeps
<1>9. Later /\ HistoryOK
  BY <1>1, SameDB
<1>10. ASSUME NEW j \in Questions PROVE CacheOK(j)'
  <2>1. CASE cache'[j] = cache[j]
    <3>1. CacheOK(j)
      BY DEF PolicyInv
    <3>2. index \subseteq index'
      BY <1>5
    <3> QED
      BY <1>1, <1>9, <2>1, <3>1, <3>2, EntryStays DEF CacheOK
  <2>2. CASE j = k /\ \E b : cache'[k] = Entry(w, b) /\ (~b => ~Races(w) /\ k \in index')
    BY <1>1, <1>4, <2>2, NewEntry
  <2> QED
    BY <1>2, <1>5, <2>1, <2>2 DEF FrameOK
<1> QED
  BY <1>8, <1>10 DEF PolicyInv

-----------------------------------------------------------------------------
(* Changes, invalidations and time.                                        *)

\* A change is committed, and may start an invalidation.
LEMMA CommitKeeps ==
  ASSUME PolicyInv, NEW db, Consistent(db), NEW event, CommitChange(db, event),
         inval' = inval \/ Invalidate, UNCHANGED <<redis, work, requests, cleared, now, faults>>
  PROVE  PolicyInv'
<1> DEFINE n == Len(history)
           h == [db |-> db, from |-> now, event |-> event]
<1>1. UNCHANGED <<cache, index, work, pc, ask, answer, asked, cleared, now, faults>>
  BY DEF redis, requests
<1>2. HistoryOK /\ FrameOK /\ FlightOK /\ now \in Nat
  BY Numbers DEF PolicyInv, FrameOK
<1>3. n <= MaxChanges /\ history' = Append(history, h)
  BY DEF CommitChange
<1>4. n \in Nat \ {0} /\ n + 1 \in Versions
  BY <1>2, <1>3, Numbers DEF HistoryOK, Versions
<1>5. PICK S : history \in Seq(S)
  BY <1>2 DEF HistoryOK
<1>6. PICK T : T = S \cup {h}
  OBVIOUS
<1>7. history \in Seq(T) /\ h \in T
  <2>1. history \in [1..n -> S]
    BY <1>5
  <2>2. history \in [1..n -> T]
    BY <1>6, <2>1
  <2> QED
    BY <1>4, <1>6, <2>2, SeqDef
<1>8. /\ history' \in Seq(T) /\ Len(history') = n + 1
      /\ \A i \in 1..n : history'[i] = history[i]
      /\ history'[n + 1] = h
  BY <1>3, <1>7, AppendProperties
<1>9. Later
  BY <1>1, <1>2, <1>4, <1>8 DEF Later
<1>10. HistoryOK'
  <2>1. ASSUME NEW i \in 1..n + 1 PROVE Consistent(history'[i].db) /\ history'[i].from \in 0..now'
    <3>1. CASE i \in 1..n
      BY <1>1, <1>2, <1>8, <3>1 DEF HistoryOK
    <3>2. CASE i = n + 1
      BY <1>1, <1>2, <1>8, <3>2
    <3> QED
      BY <1>4, <3>1, <3>2
  <2>2. \A i \in 1..Len(history') : Consistent(history'[i].db) /\ history'[i].from \in 0..now'
    BY <1>8, <2>1
  <2>3. \A i \in 1..Len(history') : Consistent(history[i].db)' /\ history'[i].from \in 0..now'
    BY <2>2 DEF Consistent
  <2> QED
    BY <1>4, <1>8, <2>3 DEF HistoryOK, Versions
<1>11. /\ inval' \in [Versions -> {None, [stage |-> "start"]} \cup [stage : {"listed"}, keys : SUBSET Questions]]
       /\ \A v \in Versions : inval'[v] # None => v <= n + 1
       /\ \A v \in Versions : inval'[v].stage = "listed" => inval'[v] = inval[v]
  <2>1. /\ inval \in [Versions -> {None, [stage |-> "start"]} \cup [stage : {"listed"}, keys : SUBSET Questions]]
        /\ \A v \in Versions : inval[v] # None => v <= n
    BY <1>2 DEF FrameOK
  <2>2. CASE inval' = inval
    BY <1>4, <2>1, <2>2 DEF Versions
  <2>3. CASE inval' = [inval EXCEPT ![n + 1] = [stage |-> "start"]]
    <3>1. inval'[n + 1] = [stage |-> "start"] /\ \A v \in Versions \ {n + 1} : inval'[v] = inval[v]
      BY <1>4, <2>1, <2>3
    <3>2. \A v \in Versions : inval'[v] # None => v <= n + 1
      BY <1>4, <2>1, <3>1 DEF Versions
    <3> QED
      BY <1>4, <2>1, <2>3, <3>1, <3>2
  <2> QED
    BY <2>2, <2>3 DEF Invalidate
<1>12. FrameOK'
  <2>1. cleared' \in 1..Len(history')
    BY <1>1, <1>2, <1>4, <1>8 DEF FrameOK
  <2> QED
    BY <1>1, <1>2, <1>8, <1>11, <2>1 DEF FrameOK
<1>13. FlightOK'
  BY <1>1, <1>2 DEF FlightOK
<1>14. ASSUME NEW k \in Questions PROVE CacheOK(k)'
  <2>1. CacheOK(k)
    BY DEF PolicyInv
  <2> QED
    BY <1>1, <1>2, <1>9, <1>11, <2>1, EntryStays DEF CacheOK
<1>15. \A w \in Workers : WorkOK(w)'
  BY <1>1, <1>9, SameWork
<1>16. ASSUME NEW e \in Evaluators PROVE AnswerOK(e)'
  <2>1. AnswerOK(e)
    BY DEF PolicyInv
  <2> QED
    BY <1>1, <1>2, <1>9, <2>1, AnswerStays
<1> QED
  BY <1>10, <1>12, <1>13, <1>14, <1>15, <1>16 DEF PolicyInv

\* Every change of policies and assignments keeps the foreign key.
LEMMA ChangeKeeps ==
  ASSUME PolicyInv, Change
  PROVE  PolicyInv'
<1>1. Consistent(DB)
  <2>1. HistoryOK
    BY DEF PolicyInv
  <2>2. Len(history) \in 1..Len(history) /\ DB = history[Len(history)].db
    BY <2>1, Numbers DEF HistoryOK, Versions, DB, Last
  <2> QED
    BY <2>1, <2>2 DEF HistoryOK
<1>2. PICK db : db = DB
  OBVIOUS
<1>3. /\ DOMAIN db = {"policies", "assigned"} /\ DOMAIN db.policies \subseteq Policies
      /\ \A a \in db.assigned : a.policy \in DOMAIN db.policies
  BY <1>1, <1>2 DEF Consistent
<1>4. ASSUME NEW p \in Policies, NEW l \in Logics, HandleCreatePolicy(p, l) PROVE PolicyInv'
  <2>1. Consistent(CreatePolicyTx(p, l))
    BY <1>2, <1>3 DEF Consistent, CreatePolicyTx
  <2> QED
    BY <1>4, <2>1, CommitKeeps DEF HandleCreatePolicy, CreatePolicy
<1>5. ASSUME NEW p \in Policies, NEW l \in Logics, HandleUpdatePolicy(p, l) PROVE PolicyInv'
  <2>1. Consistent(UpdatePolicyTx(p, l))
    BY <1>2, <1>3 DEF Consistent, UpdatePolicyTx
  <2> QED
    BY <1>5, <2>1, CommitKeeps DEF HandleUpdatePolicy, UpdatePolicy
<1>6. ASSUME NEW p \in Policies, HandleDeletePolicy(p) PROVE PolicyInv'
  <2>1. Consistent(DeletePolicyTx(p))
    BY <1>2, <1>3 DEF Consistent, DeletePolicyTx
  <2> QED
    BY <1>6, <2>1, CommitKeeps DEF HandleDeletePolicy, DeletePolicy
<1>7. ASSUME NEW r \in Rows, NEW g \in Grants, HandleCreateAssignment(r, g) PROVE PolicyInv'
  <2>1. PICK row : row = [id |-> r, policy |-> g.policy, subject |-> g.subject, type |-> g.type]
    OBVIOUS
  <2>2. PICK new : new = [db EXCEPT !.assigned = @ \cup {row}]
    OBVIOUS
  <2>3. CommitChange(new, "none") /\ g.policy \in DOMAIN db.policies
    BY <1>2, <1>7, <2>1, <2>2 DEF HandleCreateAssignment, CreateAssignment, InsertAssignment
  <2>4. Consistent(new)
    <3>1. row.policy = g.policy
      BY <2>1
    <3> QED
      BY <1>3, <2>2, <2>3, <3>1 DEF Consistent
  <2> QED
    BY <1>7, <2>3, <2>4, CommitKeeps DEF HandleCreateAssignment, CreateAssignment
<1>8. ASSUME NEW r \in Rows, HandleDeleteAssignment(r) PROVE PolicyInv'
  <2>1. PICK new : new = [db EXCEPT !.assigned = {a \in @ : a.id # r}]
    OBVIOUS
  <2>2. CommitChange(new, "none")
    BY <1>2, <1>8, <2>1 DEF HandleDeleteAssignment, DeleteAssignment, RemoveAssignment
  <2>3. Consistent(new)
    BY <1>3, <2>1 DEF Consistent
  <2> QED
    BY <1>8, <2>2, <2>3, CommitKeeps DEF HandleDeleteAssignment, DeleteAssignment
<1> QED
  BY <1>4, <1>5, <1>6, <1>7, <1>8 DEF Change

\* An invalidation goes on or ends: the cached decisions it may not miss are listed,
\* or gone.
LEMMA InvalidationKeeps ==
  ASSUME PolicyInv, NEW v \in Versions,
         InvalidateList(v) \/ InvalidateDelete(v) \/ InvalidateFails(v)
  PROVE  PolicyInv'
<1> DEFINE listed == [stage |-> "listed", keys |-> index]
<1>1. UNCHANGED <<history, work, pc, ask, answer, asked, now>>
  BY DEF InvalidateList, InvalidateDelete, InvalidateFails, requests
<1>2. Later /\ HistoryOK /\ HistoryOK'
  BY <1>1, SameDB
<1>3. FrameOK /\ FlightOK
  BY DEF PolicyInv
<1>4. inval[v] # None
  BY NoneStage DEF InvalidateList, InvalidateDelete, InvalidateFails
<1>5. v \in 1..Len(history) /\ cleared \in 1..Len(history) /\ v \in Int /\ cleared \in Int
  BY <1>2, <1>3, <1>4, Numbers DEF FrameOK, Versions, HistoryOK
<1>6. /\ faults' \in 0..MaxFaults
      /\ inval' = [inval EXCEPT ![v] = None] \/ inval' = [inval EXCEPT ![v] = listed]
      /\ cleared' \in {cleared, Max({cleared, v})}
      /\ index' = index \/ index' = {}
      /\ cache' = cache \/ cache' = [k \in Questions |-> IF k \in inval[v].keys THEN None ELSE cache[k]]
  <2>1. CASE InvalidateList(v)
    BY <1>3, <2>1 DEF InvalidateList, FrameOK, redis
  <2>2. CASE InvalidateDelete(v)
    BY <1>3, <2>2 DEF InvalidateDelete, FrameOK
  <2>3. CASE InvalidateFails(v)
    <3>1. Fault /\ UNCHANGED <<cache, index, cleared>> /\ inval' = [inval EXCEPT ![v] = None]
      BY <2>3 DEF InvalidateFails, redis
    <3> QED
      BY <1>3, <3>1, Numbers DEF FrameOK, Fault
  <2> QED
    BY <2>1, <2>2, <2>3
<1>7. FrameOK'
  <2>1. cleared' \in 1..Len(history')
    BY <1>1, <1>5, <1>6, MaxOfTwo
  <2>2. /\ inval' \in [Versions -> {None, [stage |-> "start"]} \cup [stage : {"listed"}, keys : SUBSET Questions]]
        /\ \A i \in Versions : inval'[i] # None => i <= Len(history')
    <3>1. listed \in [stage : {"listed"}, keys : SUBSET Questions]
      BY <1>3 DEF FrameOK
    <3> HIDE DEF listed
    <3> QED
      BY <1>1, <1>3, <1>5, <1>6, <3>1 DEF FrameOK
  <2>3. DOMAIN cache' = Questions /\ index' \subseteq Questions
    BY <1>3, <1>6 DEF FrameOK
  <2> QED
    BY <1>1, <1>3, <1>6, <2>1, <2>2, <2>3 DEF FrameOK
<1>8. FlightOK'
  BY <1>1, <1>3 DEF FlightOK
<1>9. \A w \in Workers : WorkOK(w)'
  BY <1>1, <1>2, SameWork
<1>10. ASSUME NEW e \in Evaluators PROVE AnswerOK(e)'
  <2>1. AnswerOK(e)
    BY DEF PolicyInv
  <2> QED
    BY <1>1, <1>2, <2>1, AnswerStays
<1>11. ASSUME NEW k \in Questions PROVE CacheOK(k)'
  <2>1. CacheOK(k)
    BY DEF PolicyInv
  <2>2. CASE cache'[k] = None
    BY <2>2 DEF CacheOK
  <2>3. CASE cache'[k] # None
    <3>1. cache'[k] = cache[k] /\ cache[k] # None
      BY <1>6, <2>3
    <3>2. now' < cache[k].at + CacheTTL
      BY <1>1, <2>1, <3>1 DEF CacheOK
    <3>3. ASSUME ~cache[k].exposed
          PROVE  /\ cache[k].basis >= cleared' /\ k \in index'
                 /\ \A i \in Versions : inval'[i].stage = "listed" => k \in inval'[i].keys
      <4>1. /\ cache[k].basis >= cleared /\ k \in index
            /\ \A i \in Versions : inval[i].stage = "listed" => k \in inval[i].keys
        BY <2>1, <3>1, <3>3 DEF CacheOK
      <4>2. CASE InvalidateList(v)
        <5>1. cleared' = cleared /\ index' = index /\ inval' = [inval EXCEPT ![v] = listed]
          BY <4>1, <4>2 DEF InvalidateList, redis
        <5> QED
          BY <1>3, <4>1, <5>1 DEF FrameOK
      <4>3. CASE InvalidateDelete(v)
        BY <2>3, <4>1, <4>3 DEF InvalidateDelete
      <4>4. CASE InvalidateFails(v)
        <5>1. cleared' = cleared /\ index' = index /\ inval' = [inval EXCEPT ![v] = None]
          BY <4>4 DEF InvalidateFails, redis
        <5> QED
          BY <1>3, <4>1, <5>1, NoneStage DEF FrameOK
      <4> QED
        BY <4>2, <4>3, <4>4
    <3> QED
      BY <1>2, <2>1, <3>1, <3>2, <3>3, EntryStays
  <2> QED
    BY <2>2, <2>3
<1> QED
  BY <1>2, <1>7, <1>8, <1>9, <1>10, <1>11 DEF PolicyInv

\* Tick: no query outlives its timeout, and no cached decision its lifetime.
LEMMA TickKeeps ==
  ASSUME PolicyInv, Tick
  PROVE  PolicyInv'
<1>1. UNCHANGED <<history, index, work, pc, ask, answer, asked, inval, cleared, faults>>
  BY DEF Tick, requests
<1>2. HistoryOK /\ FrameOK /\ FlightOK /\ now \in Nat /\ now' = now + 1 /\ now < MaxTime
  BY Numbers DEF PolicyInv, FrameOK, Tick
<1>3. Len(history) \in Nat /\ Len(history') = Len(history)
  BY <1>1, <1>2, Numbers DEF HistoryOK, Versions
<1>4. Later
  <2>1. \A i \in Len(history) + 1..Len(history') : FALSE
    BY <1>3
  <2> QED
    BY <1>1, <1>2, <1>3, <2>1 DEF Later
<1>5. HistoryOK'
  <2>1. \A i \in 1..Len(history) : history[i].from \in 0..now'
    BY <1>2 DEF HistoryOK
  <2> QED
    BY <1>1, <1>2, <2>1 DEF HistoryOK
<1>6. cache' = [k \in Questions |->
                  IF cache[k] # None /\ cache[k].at + CacheTTL <= now' THEN None ELSE cache[k]]
  BY DEF Tick, Expire
<1>7. FrameOK'
  <2>1. now' \in 0..MaxTime
    BY <1>2, Numbers
  <2> QED
    BY <1>1, <1>2, <1>6, <2>1 DEF FrameOK
<1>8. FlightOK'
  BY <1>1, <1>2 DEF FlightOK
<1>9. ASSUME NEW k \in Questions PROVE CacheOK(k)'
  <2>1. CacheOK(k)
    BY DEF PolicyInv
  <2>2. CASE cache'[k] = None
    BY <2>2 DEF CacheOK
  <2>3. CASE cache'[k] # None
    <3>1. cache'[k] = cache[k] /\ cache[k] # None /\ ~(cache[k].at + CacheTTL <= now')
      BY <1>6, <2>3
    <3>2. cache[k].at \in Nat
      BY <2>1, <3>1 DEF CacheOK
    <3>3. now' < cache[k].at + CacheTTL
      BY <1>2, <3>1, <3>2, Numbers
    <3> QED
      BY <1>1, <1>2, <1>4, <2>1, <3>1, <3>3, EntryStays DEF CacheOK
  <2> QED
    BY <2>2, <2>3
<1>10. ASSUME NEW w \in Workers PROVE WorkOK(w)'
  <2>1. WorkOK(w)
    BY DEF PolicyInv
  <2>2. work[w] # None => now' <= work[w].since + Timeout
    <3> SUFFICES ASSUME work[w] # None PROVE now' <= work[w].since + Timeout
      OBVIOUS
    <3>1. now < work[w].since + Timeout /\ work[w].since \in Nat
      BY <2>1 DEF Tick, WorkOK
    <3> QED
      BY <1>2, <3>1, Numbers
  <2> QED
    BY <1>1, <1>2, <1>4, <2>1, <2>2, WorkStays
<1>11. ASSUME NEW e \in Evaluators PROVE AnswerOK(e)'
  <2>1. AnswerOK(e)
    BY DEF PolicyInv
  <2> QED
    BY <1>1, <1>2, <1>4, <2>1, AnswerStays
<1> QED
  BY <1>5, <1>7, <1>8, <1>9, <1>10, <1>11 DEF PolicyInv

-----------------------------------------------------------------------------
(* The theorems.                                                           *)

\* The service starts with what is in the database, and with an empty cache.
LEMMA PolicyInit == Init => PolicyInv
<1> SUFFICES ASSUME Init PROVE PolicyInv
  OBVIOUS
<1> DEFINE h == [db |-> InitialDB, from |-> 0, event |-> "none"]
<1>1. /\ history = <<h>> /\ cache = [q \in Questions |-> None] /\ index = {}
      /\ work = [w \in Workers |-> None] /\ pc = [e \in Evaluators |-> "idle"]
      /\ ask = [e \in Evaluators |-> None] /\ answer = [e \in Evaluators |-> None]
      /\ inval = [v \in Versions |-> None]
      /\ cleared = 1 /\ now = 0 /\ asked = 0 /\ faults = 0
  BY DEF Init
<1>2. Len(history) = 1 /\ history \in Seq({h}) /\ history[1] = h
  BY <1>1
<1>3. HistoryOK
  <2>1. Consistent(InitialDB)
    BY InitialDBAssumption DEF Consistent
  <2>2. \A i \in 1..Len(history) : history[i].db = InitialDB /\ history[i].from = 0
    BY <1>2
  <2>3. Len(history) \in Versions
    BY <1>2, Numbers DEF Versions
  <2>4. \A i \in 1..Len(history) : Consistent(history[i].db) /\ history[i].from \in 0..now
    BY <1>1, <2>1, <2>2
  <2> QED
    BY <1>2, <2>3, <2>4 DEF HistoryOK
<1>4. FrameOK
  BY <1>1, <1>2, Numbers DEF FrameOK
<1>5. FlightOK
  BY <1>1 DEF FlightOK, Workers
<1> QED
  BY <1>1, <1>3, <1>4, <1>5 DEF PolicyInv, CacheOK, WorkOK, AnswerOK

\* Every step of the service keeps the invariant.
LEMMA PolicyStep ==
  ASSUME PolicyInv, [Next]_vars
  PROVE  PolicyInv'
<1>1. ASSUME NEW w \in Workers, WorkerStep(w) PROVE PolicyInv'
  <2>1. work[w] # None
    BY <1>1, NoneStage DEF WorkerStep, ReadPolicies, ReadCutOff, ReadFails, StoreDecision, StoreFails
  <2> QED
    BY <1>1, <2>1, ReadKeeps, ReadFailsKeeps, StoreKeeps DEF WorkerStep
<1>2. CASE UNCHANGED vars
  <2>1. /\ UNCHANGED <<history, redis, inval, cleared, now>>
        /\ UNCHANGED <<cache, index, work, pc, ask, answer, asked, faults>>
    BY <1>2 DEF vars, redis
  <2>2. Later /\ HistoryOK /\ HistoryOK'
    BY <2>1, SameDB
  <2>3. FrameOK' /\ FlightOK'
    BY <2>1 DEF PolicyInv, FrameOK, FlightOK
  <2>4. \A k \in Questions : CacheOK(k)'
    BY <2>1, SameCache
  <2>5. \A w \in Workers : WorkOK(w)'
    BY <2>1, <2>2, SameWork
  <2>6. ASSUME NEW e \in Evaluators PROVE AnswerOK(e)'
    <3>1. AnswerOK(e)
      BY DEF PolicyInv
    <3> QED
      BY <2>1, <2>2, <3>1, AnswerStays
  <2> QED
    BY <2>2, <2>3, <2>4, <2>5, <2>6 DEF PolicyInv
<1> QED
  BY <1>1, <1>2, HitKeeps, MissKeeps, DoChanKeeps, ReplyKeeps, LeaveKeeps, ChangeKeeps,
     InvalidationKeeps, TickKeeps DEF Next

\* The invariant of the service.
LEMMA PolicyInvariant == Spec => []PolicyInv
  BY PolicyInit, PolicyStep, PTL DEF Spec

\* singleflight in TypeOK: the requests that run the query for q are one.
LEMMA OneFlight ==
  ASSUME PolicyInv, NEW e \in Evaluators, pc[e] = "wait"
  PROVE  Cardinality(Flight(ask[e])) = 1
<1>1. FlightOK
  BY DEF PolicyInv
<1>2. PICK d \in Evaluators : work[d] # None /\ work[d].q = ask[e]
  BY <1>1 DEF FlightOK
<1>3. Flight(ask[e]) = {d}
  BY <1>1, <1>2 DEF FlightOK, Flight, cacheKey
<1> QED
  BY <1>3, FS_Singleton

\* Type correctness of the policy service: the foreign keys hold, a request that
\* waits has exactly one query running for it, and no query outlives its timeout.
THEOREM PolicyTypeCorrect == Spec => []TypeOK
<1>1. ASSUME PolicyInv PROVE TypeOK
  <2>1. HistoryOK /\ FrameOK /\ FlightOK
    BY <1>1 DEF PolicyInv
  <2>2. ASSUME NEW k \in Questions, cache[k] # None
        PROVE  /\ cache[k].decision.effect \in {"allow", "deny"} /\ cache[k].decision.ids \subseteq Policies
               /\ cache[k].basis \in 1..Len(history) /\ cache[k].at \in 0..now
    <3>1. CacheOK(k)
      BY <1>1 DEF PolicyInv
    <3> QED
      BY <2>2, <3>1 DEF CacheOK, Holds
  <2>3. ASSUME NEW w \in Workers, work[w] # None
        PROVE  /\ work[w].stage \in {"read", "write"} /\ work[w].q \in Questions
               /\ work[w].since \in 0..now /\ now <= work[w].since + Timeout
    <3>1. WorkOK(w)
      BY <1>1 DEF PolicyInv
    <3> QED
      BY <2>3, <3>1 DEF WorkOK
  <2>4. ASSUME NEW e \in Evaluators
        PROVE  /\ pc[e] = "wait" => Cardinality(Flight(ask[e])) = 1
               /\ pc[e] = "gone" => work[e] # None
    BY <1>1, <2>1, OneFlight DEF FlightOK
  <2> QED
    BY <2>1, <2>2, <2>3, <2>4 DEF TypeOK, HistoryOK, FrameOK
<1> QED
  BY <1>1, PolicyInvariant, PTL

\* However requests share queries and cached decisions (Evaluate, singleflight, the
\* background refresh), every answer and every cached decision was right for its own
\* question and a committed state of the database: for all the policies that concern
\* the question, or for those a read that was cut off had got (scanPolicies).
THEOREM PolicyAnswersWereTrue == Spec => []AnswersWereTrue
<1>1. ASSUME PolicyInv PROVE AnswersWereTrue
  <2>1. ASSUME NEW k \in Questions, cache[k] # None
        PROVE  Right(cache[k].decision, k, history[cache[k].basis].db)
    <3>1. CacheOK(k)
      BY <1>1 DEF PolicyInv
    <3>2. Holds(cache[k].decision, cache[k].basis, k)
      BY <2>1, <3>1 DEF CacheOK
    <3> QED
      BY <3>2 DEF Holds
  <2>2. ASSUME NEW e \in Evaluators, pc[e] = "answered"
        PROVE  IF answer[e].basis = 0 THEN answer[e].decision.effect = "deny"
               ELSE Right(answer[e].decision, ask[e], history[answer[e].basis].db)
    <3>1. AnswerOK(e)
      BY <1>1 DEF PolicyInv
    <3>2. CASE answer[e].basis = 0
      BY <2>2, <3>1, <3>2 DEF AnswerOK
    <3>3. CASE answer[e].basis # 0
      <4>1. Holds(answer[e].decision, answer[e].basis, ask[e])
        BY <2>2, <3>1, <3>3 DEF AnswerOK
      <4> QED
        BY <3>3, <4>1 DEF Holds
    <3> QED
      BY <3>2, <3>3
  <2> QED
    BY <2>1, <2>2 DEF AnswersWereTrue
<1> QED
  BY <1>1, PolicyInvariant, PTL

\* No answer is older than the lifetime of a cached decision and the timeout of the
\* query that made it (Evaluate and evaluateFromDB).
THEOREM PolicyBoundedStaleness == Spec => []BoundedStaleness
<1>1. ASSUME PolicyInv PROVE BoundedStaleness
  <2> SUFFICES ASSUME NEW e \in Evaluators, pc[e] = "answered", answer[e].basis \in 1..Len(history) - 1
               PROVE  answer[e].at < history[answer[e].basis + 1].from + CacheTTL + Timeout
    BY DEF BoundedStaleness
  <2>1. AnswerOK(e) /\ Len(history) \in Nat
    BY <1>1, Numbers DEF PolicyInv, HistoryOK, Versions
  <2>2. answer[e].basis # 0 /\ answer[e].basis < Len(history)
    BY <2>1
  <2> QED
    BY <2>1, <2>2 DEF AnswerOK
<1> QED
  BY <1>1, PolicyInvariant, PTL

\* A decision that is older than a change whose invalidation has completed is cached
\* only if it was stored in a race with an invalidation or by a pipeline that broke
\* (evaluateFromDB and InvalidateOrgCache).
THEOREM PolicyInvalidationMisses == Spec => []InvalidationMisses
<1>1. ASSUME PolicyInv PROVE InvalidationMisses
  BY <1>1 DEF PolicyInv, CacheOK, InvalidationMisses
<1> QED
  BY <1>1, PolicyInvariant, PTL
=============================================================================
