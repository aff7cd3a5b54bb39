# OpenGuard: TLA+ models, checks and proofs

OpenGuard is a set of Go services around PostgreSQL, Redis, MongoDB, ClickHouse and Kafka. Its correctness lives in
what happens *between* those stores: a row committed here and published there, an offset committed before or after a
write, a key claimed in Redis by one of several replicas. This directory models those protocols in TLA+, checks them
with TLC on small instances, and proves the most important properties with TLAPS for every instance. `PROJECT.json`
holds the run list, the definition-to-source map, the mutants, the hazards and the findings.

## 1. Inventory

| Component | State | Operations | Interacts with | What is hard | What makes it correct |
|---|---|---|---|---|---|
| Transactional outbox (`shared/kafka/outbox`) | outbox table, row locks, the notification channel, Kafka | WriteTx, listenLoop, Run, drain, updateRecord | every service that writes events | competing replicas, failure between broker ack and commit, lost notifications | published means delivered; dead means refused; every row settles; at-least-once contract |
| Audit consumer (`services/audit/pkg/consumer`) | batch, `hash_chains`, `audit_events`, offsets | Start, flush, ReserveSequence, UpdateHashChainCAS, BulkWrite | outbox topics, MongoDB | seven consumers on one chain, two first upserts that give an organisation two chain documents, redelivery, partial inserts, a ticker behind a blocking FetchMessage | histories do not fork, sequence and chain agree as long as an organisation has one document, events that fill a batch are stored |
| Webhook delivery (`services/webhook-delivery`) | `webhook_deliveries`, offset, DLQ, 50 goroutines | Start, processMessage, Deliver | alerting, targets | out-of-order commits, late answers, panics, restarts | rows tell the truth, every message settles, duplicates only after faults |
| IAM user lifecycle (`services/iam`, users and saga) | `users.status`, `saga:deadlines`, `saga.orchestration` | RegisterUser, ReprovisionUser, DeleteUser, PatchUser, OffboardOrg, watcher, consumer | outbox, external SCIM service | timeout racing a late answer, several watchers, offset committed before handling | one compensation per registration, nobody in `initializing` is forgotten |
| IAM sessions (`services/iam`, tokens) | sessions, refresh tokens | IssueTokens, RefreshToken | Redis, PostgreSQL | concurrent refreshes, revocation between claim and issue | one live token per family, ended families stay ended, nobody is logged out for another session |
| IAM login (`services/iam`, auth, MFA, WebAuthn, OAuth, SAML) | lockout counter, MFA secrets and codes, one-time keys in Redis, blocklist | Login, VerifyTOTP, VerifyBackupCode, Token, Begin/FinishWebAuthn…, SAMLAssertionConsumerService, Logout | Sessions, identity provider | state read before bcrypt and used after it, keys that expire between steps | what is meant for one use opens one session; a logout holds |
| Policy service (`services/policy`) | policies, assignments, Redis decisions and index, singleflight | Evaluate, evaluateFromDB, backgroundRefresh, Create/Update/DeletePolicy, assignments, InvalidateOrgCache | SDK, outbox | writing a stale decision after the invalidation, shared queries | bounded staleness; deny overrides; fail closed |
| Threat detectors (`services/threat`) | Redis windows and keys, alerts in MongoDB, offsets | Run of six detectors, publishThreatEvent | event topics, alerting | competing consumers, the de-duplication key is set before the alert is published | one alert per window, no event passed over but those whose processing failed |
| Alerting saga (`services/alerting`) | alerts, offsets, bounded goroutines | processMessage and its steps | threat, webhook delivery, audit | redelivery after a partial saga, commits in any order | announced once, nothing disappears without a trace |
| Connector registry and gateway middleware (`services/connector-registry`, `shared/middleware`) | connectors, API key cache, idempotency records, rate windows and buckets | RegisterConnector, ValidateAPIKey, SuspendConnector, DeleteConnector, isAllowed, IdempotencyMiddleware | IAM, every service | the cache is cleared before the database changes, check-then-act over Redis | only a racing validation keeps a revoked key, keys are not lost, limits hold |
| Compliance (`services/compliance`) | batches, offsets, ClickHouse, report rows, S3, the bulkhead | ClickHouseWriter.Start and flush, CreateReport, generateReport, StartWorker | audit, ClickHouse, S3 | failed batches passed by later commits, ignored errors, restarts | commits cover what was dealt with; ready reports can be downloaded and stay ready |
| SDK, DLP, migration lock, breaker (`sdk`, `services/dlp`, `shared`) | decision cache, findings, a Redis lock | Allow, processEvent, RunWithLock, Call | policy service, Kafka | see section 7 | |

All but the last row are modelled. Not modelled, with reasons in section 7 and `PROJECT.json`: the last row's parts
(the bulkhead is modelled with Compliance), the control-plane proxy, row-level-security context, cryptography,
secrets, telemetry, audit ingest and stream, the TypeScript packages and the web console.

## 2. Plan

Modelled and checked, in this order: `Outbox` with `OutboxContract`, `AuditConsumer` with `AuditLog`,
`WebhookDelivery`, `ProvisioningSaga`, `Sessions`, `Policy`, `Login`, `Threat` and `AlertSaga` (composed), `Gateway`,
`Compliance`. Proved: `OutboxProofs`, `AuditProofs`, `WebhookProofs`, `IamProofs` (for `ProvisioningSaga`, `Sessions`
and `Login`), `PolicyProofs`, `AlertProofs` (for `Threat` and `AlertSaga`), `GatewayProofs` and `ComplianceProofs`:
every modelled component has its type invariant and every safety invariant of its runs proved.

What is left: the components of section 7 that have no module, and liveness, which stays with TLC.

Modules are parameterised by constants with named assumptions; no module uses RECURSIVE, so each can be proved about.

## 3. The modules

### Outbox
Variables: the committed columns `status` and `attempts`, the Kafka `topic`, and per relay the loop position `pc`, its
notification channel and LISTEN connection, and its transaction (`held` locks, `todo` records, `seen` attempts, `buf`
uncommitted updates, `txstate`). `errs` is history: the errors the broker returned.

| Action | Code |
|---|---|
| WriteTx | a business transaction with `Writer.WriteTx` commits; the trigger notifies |
| Listen, ListenLost | `listenLoop` |
| TickerWake, NotifyWake | the `select` of `Run` |
| FetchBatch, FetchNothing | Begin and the SELECT … FOR UPDATE SKIP LOCKED of `drain` |
| PublishOk, PublishError | one round of the loop, with `updateRecord` |
| Commit, CommitFails | the end of `drain` |
| ConnectionLost, Crash | the environment |

Updates are invisible until Commit. A failed statement aborts the transaction while the loop goes on publishing, as in
PostgreSQL. `OutboxContract` is the promise to the other services: committed events are delivered before they count as
published, and die only after enough refusals; nothing about duplicates. The mapping sends pending and failed to
queued.

### AuditConsumer
One consumer per topic; `from`/`next`/`committed` are offsets, `events` the batch without the messages that do not
parse (decoded as they are fetched, which nobody can tell from decoding them in `flush`), `sequence` and `head` the
fields of the `hash_chains` documents, `stored` the `audit_events` collection. `Start` is a `select` that looks at the
ticker (FlushTick) or else calls FetchMessage (Await), where the consumer is held until there is a message (Fetch) or
an error (FetchFails): on a quiet topic a partial batch is not flushed. Parse, ReserveSequence, UpdateHashChainCAS,
BulkWrite and CommitMessages are the steps of `flush`, each with its failure. `flush` always forgets its batch. The
HMAC is modelled as the history it commits to. The bulk insert is ordered and stops at the first duplicate `event_id`.
The pods run with or without `AUDIT_SECRET_KEY` (`keySet`).

Init has no `hash_chains` document. An organisation's first one comes from the upsert of ReserveSequence, and the
collection has no unique index on `org_id` (`repository.go:27-30` indexes `audit_events.event_id` only): two consumers
that both find none (ReserveMiss) both insert one (ReserveInsert). `sequence[o]` and `head[o]` are therefore
sequences, with an element for each document; the `$inc` and the compare-and-swap take any document that matches their
filter. `Sole(o)` says that o has not got a second one. With two, sequence numbers repeat, so SequencesDisjoint and
SequenceFollowsChain are stated for `Sole` organisations; that no history forks and that each is only ever continued
holds for all.

`AuditLog` is the promise to the readers of the two collections: a history of an organisation is begun (Begin) and
from then on only continued (Continue), a document stays, is recorded once (Record), and has a hash that a history has
come to. It promises neither that an organisation has one history nor that all events are there.

### WebhookDelivery
Each message has a goroutine (`pc`, `tries`, `rowOf`); `Fetch` is the read loop with the semaphore; Create, DeliverOk,
DeliverError, DeliverTimeout, MarkDelivered, MarkFailed, MarkDlq, PublishDlq, CommitMessages are `processMessage` and
the end of the goroutine; Panic is the recovered panic; Restart begins at the committed offset. A commit sets the
offset to its message's, also past unfinished messages.

### Iam
What `ProvisioningSaga`, `Sessions` and `Login` share: the users and the faults. The three keep their names apart
(`SagaSpec`, `SessionsSpec`, `Spec`), so that one module can extend them all; each is a specification of its own.

### ProvisioningSaga
`status` is `users.status`; RegisterUser is CreateUser, UpdateUserSCIM or NotSCIM, CommitCreated, ZAdd, and may stop
between any two (CreateUser does not run in the transaction that holds the outbox row). ClaimExpired is the watcher's
Lua script, PublishTimeout its publish; ReadMessage, HandleEvent and OffboardOrg are the consumer. The external SCIM
service answers when it likes, or never. ReportFailure is a `user.provisioning.failed` from any other producer: the
consumer takes one with a `user_id`, which the watcher's events do not have, too (`consumer.go:70-73`,
`saga_test.go:85-92`). DeleteUser publishes nothing, because its outbox row has no org_id and is refused by the
column. DeleteUser and OffboardOrg also delete the rows of `sessions`, on which nothing depends (see `Sessions`).

### Sessions
`opened` are the families drawn so far, `tokenRow` and `fam` the rows of `refresh_tokens`; `pc`, `token` and `family`
are the concurrent requests (`Exchanges`). `presented` and `spoiled` are history: the tokens presented so far, and the
families one of whose tokens was presented twice or has expired.

| Action | Code |
|---|---|
| Login | a login of any kind draws a family id and enters `IssueTokens` |
| CreateSession, CreateRefreshToken | the two statements of `IssueTokens` |
| PresentToken | `Handler.Refresh`, or the refresh grant of `oauth.go`, enters `RefreshToken` |
| ClaimRefreshToken, ClaimRefused, ClaimFails | the claiming UPDATE: it gets the row, finds none, or fails with or without effect |
| RevokeRefreshTokenFamilyByHash | a claim that returned any error |
| AssessRisk | `GetSessionByUserID`, and the score that is not computed |
| ExchangeFails | a statement fails, or the replica is lost |
| TokenExpires | time |

The rows of `sessions` are left out. `GetSessionByUserID` scans `ip_address`, an INET column
(`003_create_sessions.up.sql:7`), into a Go string (`repository_session.go:81-87`), which pgx refuses for the binary
format it asks for; `RefreshToken` skips the risk score on any error of that read (`auth.go:127`). AssessRisk
therefore always goes on, and the revocation behind the score is not reached.

### Policy
`history` holds the committed states of the database, so that an answer can be compared with the state it rests on
(`basis`). CacheHit, CacheMiss, DoChan, Reply and CallerLeaves are `Evaluate` with its singleflight; the steps of a
worker are `evaluateFromDB` and `backgroundRefresh`; ReadCutOff is a query that ends in the middle of its rows, which
the code takes for the whole result, because `scanPolicies` does not ask for `rows.Err()` (`repository.go:331-343`);
ReadFails is one that never gives a row, and denies. A decision carries the policies it rests on (`read`) and whether
they were cut off (`cut`). Change is any committed Create, Update or Delete of a policy or an assignment with its
outbox row; the Invalidate actions are the goroutine `InvalidateOrgCache`, which only changes of assignments start.
`evaluate` is an operator over tokens, compared with the documented deny-overrides rule (`Permitted`) in
`AnswersWereTrue`, for all the policies that concern the question or, after a cut-off, for those read (`Right`). The
SET and the SADD of the pipeline that stores a decision are one step. Time is in ticks of the request's timeout. Every
state of the database keeps the foreign key from assignments to policies (`Consistent`).

### Login
Every request is a small program over `row`, `config`, `creds` and the Redis keys in `store`, one statement per step,
and every statement can fail (RequestFails, `Fault`). A token carries the proofs it was issued for; two tokens that
share one would be a one-time secret used twice. `lockoutDuration` keeps the int64 arithmetic of the code. The mark of
a used TOTP code is of the user and the code as the request writes it, as in `totp:used:<user>:<code>` (`mfa.go:279`),
while the validation trims white space: a code is a period with a spelling, and what OneTimeOnce says of TOTP is that
each spelling of a code is accepted once. `over` counts the wrong passwords of an account since it was *last* locked:
counted from the first lock on, `ParallelGuesses` would be false, since a request that has read a lock can wait for
its end while another one prolongs it (TLC shows this with locks of two periods), and each prolonged lock lets those
under way pass once more.

### Threat and AlertSaga
`Threat` has one reader per detector. Four detectors read `auth.events` in the same consumer group, so they compete
for the partition (`owner`, Rebalance); `docs/workflow/threat-detection.md:359` calls this a bug, and the model has it
as it is. The contents of the topics are chosen in Init from the constant `Logs`. `done` and `failed` are history:
what a detector has processed to its end, and what it gave up with an error. An alert has id 0 until CreateAlert has
stored it. `AlertSaga` extends `Threat` and consumes the topic it fills: a bounded number of goroutines, each with the
steps persist, notify and audit, their retries and records, and commits in any order.

### Gateway
A request passes the limiter (Limit is its part in memory, LimitCount and LimitAdd are what the commands of the
pipeline do in Redis; a pipeline is not a transaction), the idempotency middleware (Replay, Save, Answer; Disconnect
cancels its context) and the registry's handler. `Slots` are the requests handled at a time, any number of them by an
instance, and each instance has its own in-memory bucket. The INSERT of RegisterConnector can fail with its row
stored, when only its answer is lost; its API key is then `unsaved`. The IAM actions change the same table without
touching the cache. `revoked`, `raced` and `late` are history: the keys suspended or deleted, those a validation
stored (or was about to store) between the clearing of the cache and the write, and those the cache answered for after
the write.

### Compliance
FlushTick, Select, FetchMessage, IngestEvents and CommitBatch are the writer. CreateReportJob, Execute and Launch are
the request for a report, MarkGenerating to MarkFailed the goroutine, StartWorker the worker, which takes its list
`queue` in the order of creation. GetPendingReports cannot scan the NULL columns of a pending row (`Scan`), so the
worker's list is always empty; `ReadyStays` holds for that reason only, as its mutant shows.

## 4. Runs

| Run | Instance | Shows |
|---|---|---|
| outbox_safety | 2 rows, 2 relays, 2 attempts, 1 fault | the table never claims what did not happen, claims are exclusive, terminal rows stay, the contract is implemented |
| outbox_liveness | 2 rows, 1 relay, LIMIT 1, 2 faults | every row settles; a row refused fewer than maxAttempts times is published |
| audit_chain | 2 consumers, 5 messages, batches of 2, 2 tries, 1 fault | no history forks, sequence and chain agree and numbers are disjoint for an organisation with one chain document, `AuditLog` is implemented, every event that nothing disturbs and that fills a batch is stored |
| webhook_delivery | 3 messages (one malformed), 2 goroutines at a time, 2 attempts, 1 fault | the rows tell the truth, duplicates need faults, every message settles |
| provisioning_saga | 2 users, 2 watchers, 1 administrator call or foreign failure event, 1 fault | one compensation, nobody initializing is forgotten, registrations end |
| provisioning_timeout | 1 user, 1 watcher | *violation*: an active user times out |
| sessions_refresh | 1 user, 2 logins, 4 tokens, 3 requests at a time, 1 fault | no session is cloned, an ended family stays ended, a session lasts unless there is cause |
| policy_cache | 2 policies, 2 questions, 2 evaluators, 1 refresher, 1 change, 1 fault | answers were right for a committed state, or for the part of it that a cut-off read has got; staleness is bounded; what an invalidation can miss |
| login_factors | 2 users, 3 requests, 2 at a time, 1 fault, locks of 2 periods | one-time secrets, as they are spelled, work once; only attempts under way pass a lock; a logout holds |
| threat_pipeline | one event of any type or two accesses, 6 detectors one event away from an alert, a window of 1 and a clock to 1, 2 goroutines, 2 tries, 2 errors, restarts or rebalances | a commit covers only what was processed or failed, one alert per window, a suspect device is alerted before it is known, announced once, missing alerts explained |
| gateway_registry | 3 requests, 2 at a time, 2 instances, 1 connector, 1 idempotency key, 1 fault | only a racing validation keeps a revoked key, keys are not lost, local and shared rate bounds |
| compliance_service | 3 messages (one undecodable), 2 reports, 1 slot, 2 faults, 1 restart | what a commit covers, when rows are written twice, ready reports are there and stay, left reports are explained, started ones finish |

The type invariant of `Sessions` is checked by its run. For all components it is a theorem, which needs no run.

**Why the bounds are enough.** Two replicas, consumers, watchers or goroutines are the least that interfere, and all
their interleavings are explored. Two rows make batches partial. MaxAttempts = 2 and MaxTries = 2 have a first, a
middle and a last attempt; with 2 tries and three batches on one chain a consumer can lose every race, which
`Undisturbed` excludes from `EveryEventStored`, which would then be false. One fault may strike at any step; the
proofs drop this bound, and every other, wherever there are any. Where time matters (policy, login, threat, gateway)
lifetimes are a few ticks, and the clock reaches the end of caches, windows and most one-time keys; longer lifetimes
(the mark of a TOTP code, of a SAML assertion) are left to the proofs, which have any clock. Four tokens give a family a token, its
successor and one more, beside a second family. Requests, evaluators and instances are interchangeable, hence the
symmetry of the safety runs. In threat_pipeline every detector begins one event before its threshold, so a single
event already makes it decide; the two accesses are the case in which a commit covers an event that failed, and the
clock reaches the end of a window. With one slot and two reports in compliance_service the bulkhead is full when both
requests are inside `Execute`. Counters (`MaxFaults`, `MaxPublishErrors`, `MaxAdmin`) only bound the environment.
Deadlock is unchecked where a model ends when its messages or users are used up.

**Fairness.** Each goroutine keeps taking its own steps and tickers keep firing (weak fairness): Go's scheduler and
`time.Ticker` give that, and no code path stops these loops. A deadline eventually passes and some watcher sees it. In
Compliance a goroutine that was started runs to its end. An audit consumer keeps running, but that its ticker finds it
between two messages is left to chance: EveryEventStored asks for enough messages behind an event to fill its batch.
Nothing is assumed of inserts, callers, the LISTEN connection, targets' answers or the SCIM service. Liveness that
needs a fault-free run says so in the property.

## 5. Proofs

All proofs hold for any sets of rows, replicas, users, messages and questions, for any limits and lifetimes and any
number of faults. They use only the named assumptions on constants: naturals, positive limits, and what a constant is:
logs of messages (`LogAssumption`, `LogsAssumption`), disjoint processes (`ProcessAssumption`), keys with a lifetime
(`InitialKeysAssumption`), a database whose foreign keys hold (`InitialDBAssumption`), what earlier requests have left
for a login (`InitialRowsAssumption`, `InitialStoreAssumption`, `InitialTokensAssumption`: their keys and codes have
no number of a request to come), assertions with unique ids (`AssertionsAssumption`), finitely many requests at a time
(`SlotsAssumption`) and an idle time after which a bucket is full again (`IdleAssumption`, which the code's constants
satisfy). In each module the types are proved first, or with the invariant, and the properties follow from an
inductive invariant, because none of them is inductive alone.

**OutboxProofs.** `IInv` is the inductive invariant. PublishedIsDelivered alone is not inductive: a commit copies
`buf`, so what `buf` says must be true already (`UpdatesTrue`), for rows the transaction still holds
(`WorksOnLocked`), read as they are (`LockedUnchanged`), which only holds because locks are disjoint (`LocksDisjoint`)
and nothing is open between drains (`DrainShape`). `AttemptsReal` ties the attempts column to real refusals, for
DeadIsExhausted; `FetchedExist` lets a relay that lost its connection go on publishing without breaking the contract.
From IInv follow OutboxTypeCorrect, OutboxPublishedIsDelivered, OutboxDeadIsExhausted, OutboxClaimsAreExclusive, the
action property OutboxTerminalRowsStay and the refinement OutboxImplementsContract, where a Commit is the contract's
Settle of the rows it publishes and buries.

**IamProofs** extends `ProvisioningSaga`, `Sessions` and `Login`; no theorem is about two of them together.

*The saga.* CompensatedOnce needs `Registration` (a user who does not exist, or whose registration is still under way,
has no deadline, claim or timeout), because otherwise a second ZAdd could follow a timeout; InitializingIsWatched
needs the same of a new user, and `Asked` (without faults, a registration that is through has made its SCIM request,
so a user reprovisioned later has been asked twice): then the deadline goes from Redis to a watcher, from there to the
topic and to the consumer's hand without a gap. Theorems: SagaTypeCorrect, SagaCompensatesOnce,
SagaInitializingIsWatched.

*The sessions.* SessionsTypeOK is inductive as stated, because it says that the family of every stored token and of
every request that holds one was opened. `Exclusive` is SessionsAreNotCloned in terms of tokens and requests; with the
types it is inductive: most steps only take tokens and holders away (`ExclusiveShrinks`), a login takes a family
nobody has, a claim turns the one live token into the one holder and CreateRefreshToken turns it back. FamiliesEnd
follows from the types: only a login starts a family that has neither a token nor a holder, and that family was never
opened before. SessionsLast needs `Kept`: as long as nothing fails, a token of an unspoiled family that nobody has
presented is live, a request that has presented one is the only one and can claim it, and whoever is about to revoke a
family has a spoiled one. Theorems: SessionsTypeCorrect, SessionsNotCloned, SessionFamiliesEnd,
SessionsLastWithoutCause.

*The login.* OneTimeOnce speaks of tokens, but what is meant for one use has a life before it: it is drawn by a
request under its number, lies in Redis or in the row, is held by the request that took it, and is spent for a token.
`Unused` is what may still be had, in five ways (`InRedis`, `ToDraw`, `Listed`, `Valid`, `Unseen`), `Held` what a
request holds. `Apart` says that what is held or spent is held or spent once and not Unused. Every step is first shown
to be one of nine simple ones (`Moves`), and each of these to be `Advances`: it takes a set S of unused proofs, which
are not unused any more, and makes nothing unused (`NothingComesBack`). That needs that a key has one place and is not
drawn again (`KeysOnce`, `BackupsOnce`), and, when time passes, that a mark outlives what it marks (`MarksLast`): the
90 seconds of a nonce cover the last period in which the code is accepted, since the code was of the next period at
the latest. ParallelGuesses needs `Guesses`: the wrong passwords counted and the requests that may still count one
while the lock lasts (`Guessing`: they read an earlier lock, or have compared) are fewer than Slots, because the
request that locked the account is one of those under way. LogoutHolds needs that the key's lifetime is the token's
(`Blocked`). Theorems: LoginInvariant, LoginTypeCorrect, LoginOneTimeOnce, LoginParallelGuesses, LoginLogoutHolds.

**AuditProofs.** The properties speak of stored documents, but a document is settled before it is stored: from the
moment a head refers to it, or, without a key, from the moment it has its number. `IInv` therefore speaks of
`Chained`, the stored documents and those of the consumers about to insert, and for numbers of `Settled`, those of
them whose organisation has one chain document (`Sole`). The hash of every Chained document lies on the way to a head
(`HashesOnChain`); Settled ones have numbers that were reserved (`NumbersReserved`, below `Number(o)`) and are
distinct (`NumbersDistinct`), in the order of the hashes (`OrderAgrees`). What makes a successful compare-and-swap
keep this is `Racing(c, Consumers)`: a consumer whose prevHash still is the head (`Tip`) has numbers above all that
are chained, for whoever reserved later and was faster has moved the head, and consumers in the race have ranges
apart. Every step is first shown to be `Forward`: no document of an organisation disappears, each head is only
extended, and an organisation with one document afterwards had at most one before, whose number only grew. Theorems:
AuditTypeCorrect, AuditChainsNeverFork, AuditSequenceFollowsChain, AuditSequencesDisjoint, and the refinement
AuditAppendOnly: an upsert that inserts is Begin of `AuditLog`, a swing of a head, also one whose answer is lost, is
Continue, and a bulk insert, however far it gets, is Record, because the events in front of the first duplicate are
new (`InsertableNew`). AuditNoEventLost is the safety half of EveryEventStored: if nothing fails and nobody loses
`MaxTries` races in a row (`Undisturbed`, as in the run), no event is published twice (`PublishedOnce`) and each has
an organisation (`AllOwned`), then what is committed is stored. The two conditions on the log are needed: `flush`
drops a batch that begins with an event without organisation, and what follows a duplicate. `Account` is inductive
there: what a consumer has behind it is stored, its batch has what it has read since, and what is stored was read by a
consumer that is past it.

**WebhookProofs.** RowsTellTheTruth needs `LoopOK`: the loop's counter counts refusals that took place and is at the
limit when the loop is over, so that what MarkFailed and MarkDlq write is true. DuplicatesNeedFaults needs `FaultsOK`:
a message that this process may still deliver (`CanDeliver`) has been accepted at most as often as there were faults,
one less than the property allows. Theorems: WebhookTypeCorrect (with the semaphore's bound), WebhookRowsTellTheTruth,
WebhookDuplicatesNeedFaults, and the action property WebhookOutcomesAreFinal: a row that says delivered or dlq is
never written again. It needs `OpenRow`: the row a goroutine may still write has no outcome, and no two goroutines
share one.

**ComplianceProofs.** For the writer, `BatchOK` (what was read is in the batch or dealt with, and the batch ends with
the last message read) and `OnceOK` (what is in ClickHouse and still to be written was redelivered). For the reports,
`OneEach` and `GenOK`: a report has at most one goroutine, its request's, and is not finished while that runs; this
rests on `WorkerIdle`, that is on the worker's list being empty, as said in section 3. Theorems: ComplianceTypeCorrect
(with the bulkhead's bound), ComplianceIngestedOrRefused, ComplianceStatusExplained and the action property
ComplianceReadyStays.

**AlertProofs.** One invariant for each half. `ThreatInv`: what a reader has passed was done or failed, and what it
has committed at was done (`PassedOK`); the alert it has in hand is one of the event it is at (`InHandOK`); a brute
force alert, published or in hand, left a key in Redis that lives to the end of its window, and two of one key are a
window apart (`AlertsOK`); a suspect device that is known was reported (`TakeoverOK`). `SagaInv`: a goroutine past the
persist stored the document itself, and what it is going to publish is not out, or only by an attempt that seemed to
fail (`OnceOK`); nothing is out about an alert that is not stored (`StoredFirst`), so a second delivery stops at the
duplicate key; a goroutine that has finished leaves a trace (`TraceOK`). Theorems: AlertTypeCorrect,
AlertCommittedAfterSuccess, AlertOnePerWindow, AlertTakeoverAlerted, AlertAnnouncedOnce, AlertMissingExplained.

**PolicyProofs.** `PolicyInv` follows a decision from the query (`WorkOK`) to the cache (`CacheOK`) and to the answer
(`AnswerOK`): at every stage it holds for a committed state (`Holds`; after a cut-off, for the policies of that state
which were read), and its age is bounded by what the stage adds. A query read what was current when it began or later;
an entry is at most a timeout older than the change that overtook it; an answer at most a lifetime older than that.
`EvaluateRight` shows that `evaluate` is the documented rule for every set of policies. An unexposed entry is in the
index and in the list of every invalidation under way, so the DEL takes it before `cleared` passes it. `FlightOK` is
singleflight: one query for a key, and one for whoever waits, which makes a shared answer an answer to the waiter's
own question. Theorems: PolicyTypeCorrect, PolicyAnswersWereTrue, PolicyBoundedStaleness, PolicyInvalidationMisses.

**GatewayProofs.** `GatewayInv` has a part for each property. `Gone`: a revoked key that no validation raced stays
away (`StaysAway`: it is not in the cache, nobody is about to store it, and its row is suspended or deleted), and
between the clearing and the write it is not in the cache either (`NotCached`); IAM brings no key back (`NoRevival`).
`RequestsOK`: a registration that is about to answer has a key that can be recovered or was recorded as lost, which
makes KeyNotLost inductive when the answer is lost. `Local`: what an instance has spent since a time, with what it has
decided and not yet entered, and what its bucket holds is at most a burst and what came in since; a bucket that is
dropped was full. `Global`: what Redis let through in the window, with the requests between the count and the ZADD, is
at most Burst and one for each request handled at the time. The types are stronger than a list of sets: nothing is of
a later time and nothing expired is there, without which neither bound is inductive. Theorems: GatewayTypeCorrect,
GatewayRevocation, GatewayKeyNotLost, GatewayRateBound.

**Only model-checked.** Liveness under fairness, for which TLAPS has no backend: `EverySettles`, `EveryPublished`,
`EveryEventStored`, `EveryMessageSettles`, `EveryRegistrationEnds` and `LaunchedFinishes`. No module declares a
RECURSIVE operator.

## 6. Findings

Shown by a run: a successful provisioning leaves its deadline behind; when it passes, the active user becomes
`provisioning_failed` (provisioning_timeout).

Met while modelling; the models have the behaviour, and the properties are stated so that they allow it:

- Audit: `BulkWrite` is ordered, so a redelivered event hides the new ones behind it, although `consumer.go:119` and
  the design expect duplicates to be skipped; `flush` chains a mixed batch under the first event's organisation.
- Audit: `hash_chains` has no unique index, although `docs/workflow/data.md:194` says "One document per org." and
  `docs/scaling/read.md:310` lists a primary index on `org_id`: two first upserts at the same time give an
  organisation two chains that hand out the same sequence numbers (without `Sole`, SequencesDisjoint and
  SequenceFollowsChain are violated). The error of creating the index on `event_id` is dropped (`repository.go:27`).
- Audit: the flush interval of one second (`docs/workflow/audit-event-pipeline.md:307`) is not kept on a quiet topic,
  where the consumer is held in FetchMessage: the last events wait in memory until another message comes.
- The risk score of a refresh is never computed, since the newest session cannot be read (section 3), although
  `docs/workflow/authentication-iam.md:247-253` describes it and `service_test.go:434` tests it with a mocked
  repository.
- A read of the policies that is cut off by its timeout is evaluated and cached for a minute, although the comment at
  `service.go:251` says "Fail-Closed": with a deny policy among the rows that are missing, the answer is allow.
- A TOTP code is accepted once for each way of writing it with spaces: the mark is of the raw string (`mfa.go:279`).
- The saga's consumer lets any producer's failure event overwrite an active user, as
  `docs/workflow/saga-orchestration.md:194` ("or manual") has it.
- Webhook delivery commits after a failed dead letter, contrary to `docs/workflow/webhooks-notifications.md:257`, and
  a later commit covers an unfinished message.
- A refresh that has claimed its token stores the next one after a revocation of the family, which is then live again,
  although `docs/workflow/authentication-iam.md:261` says that all its tokens are revoked.
- `lockoutDuration` shifts an int64 of nanoseconds before it is capped: from the 250th failure on the lock it computes
  ends when it begins (`auth.go:239`: "cap at 24h").
- Policy changes, unlike changes of assignments, invalidate nothing: audit and threat read `policy.changes`, but
  nobody who would clear the cache.
- Threat: the three-day check of off hours cannot trigger; when `CreateAlert` fails the alert is published with a zero
  id, and the alerting service drops the second such alert as a duplicate; when only its answer is lost the alert is
  stored and never announced. Only two detectors fill in the organisation.
- Threat: an event whose processing failed is not committed ("processEvent failed, not committing offset"), but the
  commit of the next event covers it, so that it is not processed again, although
  `docs/workflow/threat-detection.md:425` speaks of at-least-once.
- Alerting: a redelivered alert stops at the duplicate key, so the steps a restart interrupted are never made up for.
- Registry: migration 008 has no `status` column, which the registry's queries select (the model assumes it exists);
  suspension and deletion have no route; the idempotency record is written with the request's context and is lost with
  the client; `APIKeyAuthComplex` has no caller.
- Registry: `docs/workflow/connector-registry.md:205`, `:302` and the comment at `service.go:142-143` say that the
  next request after a suspension misses the cache and gets a 401. The cache is cleared before the row is written, so
  a validation in between stores the active row again for up to five minutes (`late = {}` is violated;
  RevokedIsRefused says that this race is the only way). IAM deletes a connector without clearing the cache at all.
- Registry: when the answer of the INSERT is lost the key is lost with it, nothing is recorded for the idempotency
  key, and the retry meets the primary key. The shared rate limit grows with the number of requests handled at the
  time.
- Compliance: the worker never takes up a pending report (`GetPendingReports` scans NULL into strings; the same error
  makes `GetReport` and `ListReports` fail), although `docs/workflow/compliance-reporting.md:81` describes it; a
  failed batch is forgotten, although `clickhouse_writer.go:112` says that it will be delivered again on a restart,
  which a later commit prevents; the ticker is not looked at while `FetchMessage` blocks, so "OR 2s elapsed"
  (`docs/workflow/compliance-reporting.md:23`) does not hold on a quiet topic.
- Compliance: when the upload of the signature fails the report stays `ready`, although
  `docs/workflow/compliance-reporting.md:428` says that any error makes it failed.
- SDK: `Allow` decodes `allowed`, the policy service answers `effect`.
- The comment at `relay.go:29` speaks of exactly-once delivery, `publisher.go:11` of at-least-once. The latter is what
  the contract states and what is proved; a failed commit publishes a row again.

## 7. What is abstracted or left out

Payloads, topics' names, tracing, metrics, signatures and backoff times. Outbox, audit, webhooks and the saga have no
clock: their timers may fire at any moment. Row-level security is taken to let the services see their rows. Webhook
delivery, alerting and compliance are one process, and a topic has one partition. The unique index on `event_id` is
taken to exist. Audit events without an `event_id` are not modelled, and the audit run has no event without `org_id`:
at the head of a batch such an event makes `flush` drop the batch with the events behind it. An organisation has one
`org.offboard` event. External parts (broker, databases, targets, the SCIM service, the identity provider, S3) do what
the code in `src/` relies on and may fail wherever the code checks, or ignores, an error.

Not modelled:

- the Go SDK: everything in its cache is a denial (see above), so there is nothing to tell apart; the rest is a
  stateless client;
- the DLP service: text processing and one insert per finding; its consumer commits like the detectors of `Threat`;
- the migration lock: one SETNX at start-up; what a half-migrated schema does is outside every model here;
- the circuit breaker: its states live in a library, and callers see an error or an answer;
- in `Threat` and `AlertSaga` the distance formula, the scorer, the SIEM step (its URL is empty) and an operator's
  acknowledgement and resolution, which no other step reads;
- audit ingest and stream, the proxy, row-level security context, cryptography, secrets and telemetry: stateless, or
  bytes only;
- the TypeScript packages and the console: a separate single-process product that shares no state with the services.
