-------------------------- MODULE ProvisioningSaga --------------------------
(***************************************************************************)
(* The life of a user in IAM (services/iam/pkg/service/users.go) and the   *)
(* saga that provisions them (services/iam/pkg/saga).  RegisterUser        *)
(* inserts the user, writes user.created to the outbox and puts the user   *)
(* into the Redis set saga:deadlines; watchers in every replica claim the  *)
(* deadlines that have passed and publish user.provisioning.failed; the    *)
(* consumer of saga.orchestration turns events into statuses.              *)
(*                                                                         *)
(* UpdateUserStatus and its kin run on connections of their own and take   *)
(* effect at once; the transaction these operations open holds the outbox  *)
(* row only.  ReadMessage commits an event's offset before the event is    *)
(* handled.  A user's events have the user's id as key, those of the       *)
(* producers outside too, and are read in order.  Time is left out: a      *)
(* deadline may pass at any moment.                                        *)
(***************************************************************************)
EXTENDS Iam, Sequences, FiniteSets

CONSTANTS
  Watchers,   \* the replicas' deadline watchers
  MaxAdmin    \* bound: PatchUser, ReprovisionUser and DeleteUser calls, and
              \* failures reported by hand

ASSUME MaxAdminAssumption == MaxAdmin \in Nat

Statuses == {"none", "initializing", "active", "suspended",
             "provisioning_failed", "deprovisioned"}

VARIABLES
  status,     \* users.status, "none" for a user that is not there
  request,    \* how far the RegisterUser of a user is
  again,      \* ReprovisionUser calls whose event is not yet committed
  asked,      \* user.created and user.reprovision events in Kafka
  answered,   \* ... and how many of them were answered
  deadlines,  \* the members of saga:deadlines
  claimed,    \* what each watcher has claimed and not yet published
  timeouts,   \* user.provisioning.failed events published for each user
  topic,      \* the unread events of saga.orchestration, by user
  hand,       \* the event the consumer has read, by user
  offboard,   \* the event org.offboard
  admin       \* how much of MaxAdmin has been used

saga == <<deadlines, claimed, timeouts>>
kafka == <<topic, hand, offboard>>
provisioner == <<again, asked, answered>>
sagaVars == <<status, request, again, asked, answered, deadlines, claimed, timeouts, topic,
          hand, offboard, admin, faults>>

SagaInit ==
  /\ status = [u \in Users |-> "none"]
  /\ request = [u \in Users |-> "none"]
  /\ again = [u \in Users |-> 0]
  /\ asked = [u \in Users |-> 0]
  /\ answered = [u \in Users |-> 0]
  /\ deadlines = {}
  /\ claimed = [w \in Watchers |-> {}]
  /\ timeouts = [u \in Users |-> 0]
  /\ topic = [u \in Users |-> << >>]
  /\ hand = [u \in Users |-> "none"]
  /\ offboard = "none"
  /\ admin = 0
  /\ faults = 0

AdminCall == admin < MaxAdmin /\ admin' = admin + 1

UpdateUserStatus(u, s) == status' = [status EXCEPT ![u] = s]

\* UPDATE users matches no row for a user that is not there.
Exists(u) == status[u] # "none"

-----------------------------------------------------------------------------
(* RegisterUser.  A second call for the same user finds them, by external  *)
(* id or by the unique index, and changes nothing.                         *)

\* CreateUser.
CreateUser(u) ==
  /\ ~Exists(u)
  /\ UpdateUserStatus(u, "initializing")
  /\ request' = [request EXCEPT ![u] = "scim"]
  /\ UNCHANGED <<provisioner, saga, kafka, admin, faults>>

\* UpdateUserSCIM writes the status once more.
UpdateUserSCIM(u) ==
  /\ request[u] = "scim"
  /\ UpdateUserStatus(u, "initializing")
  /\ request' = [request EXCEPT ![u] = "create"]
  /\ UNCHANGED <<provisioner, saga, kafka, admin, faults>>

\* A user without external id.
NotSCIM(u) ==
  /\ request[u] = "scim"
  /\ request' = [request EXCEPT ![u] = "create"]
  /\ UNCHANGED <<status, provisioner, saga, kafka, admin, faults>>

\* The outbox transaction commits, and user.created is on its way.
CommitCreated(u) ==
  /\ request[u] = "create"
  /\ asked' = [asked EXCEPT ![u] = @ + 1]
  /\ request' = [request EXCEPT ![u] = "zadd"]
  /\ UNCHANGED <<status, again, answered, saga, kafka, admin, faults>>

\* ZADD saga:deadlines.
ZAdd(u) ==
  /\ request[u] = "zadd"
  /\ deadlines' = deadlines \cup {u}
  /\ request' = [request EXCEPT ![u] = "none"]
  /\ UNCHANGED <<status, provisioner, claimed, timeouts, kafka, admin, faults>>

\* A step of the request fails, or its replica dies: what was done stays.
RegisterFails(u) ==
  /\ request[u] # "none"
  /\ Fault
  /\ request' = [request EXCEPT ![u] = "none"]
  /\ UNCHANGED <<status, provisioner, saga, kafka, admin>>

-----------------------------------------------------------------------------
(* The other operations on users.                                          *)

\* ReprovisionUser, whatever the user's status is.
ReprovisionUser(u) ==
  /\ Exists(u)
  /\ AdminCall
  /\ UpdateUserStatus(u, "initializing")
  /\ again' = [again EXCEPT ![u] = @ + 1]
  /\ UNCHANGED <<request, asked, answered, saga, kafka, faults>>

\* ... and its outbox event; no deadline is set.
CommitReprovision(u) ==
  /\ again[u] > 0
  /\ again' = [again EXCEPT ![u] = @ - 1]
  /\ asked' = [asked EXCEPT ![u] = @ + 1]
  /\ UNCHANGED <<status, request, answered, saga, kafka, admin, faults>>

\* ... or that fails, and the status stays.
ReprovisionFails(u) ==
  /\ again[u] > 0
  /\ Fault
  /\ again' = [again EXCEPT ![u] = @ - 1]
  /\ UNCHANGED <<status, request, asked, answered, saga, kafka, admin>>

\* DeleteUser.  The outbox event that follows has no org_id, which the
\* column does not take: the caller gets an error, the status stays.
DeleteUser(u) ==
  /\ Exists(u)
  /\ AdminCall
  /\ UpdateUserStatus(u, "deprovisioned")
  /\ UNCHANGED <<request, provisioner, saga, kafka, faults>>

\* The status a PatchUser of the attribute active writes.
PatchStatus(active) == IF active THEN "active" ELSE "suspended"

\* PatchUser; its event user.updated is not handled by anyone.
PatchUser(u) ==
  /\ Exists(u)
  /\ AdminCall
  /\ \E active \in BOOLEAN : UpdateUserStatus(u, PatchStatus(active))
  /\ UNCHANGED <<request, provisioner, saga, kafka, faults>>

-----------------------------------------------------------------------------
(* The watcher.                                                            *)

\* Mutant: the members are read, and removed only after the publishing.
ClaimExpiredInTwoSteps(w) ==
  /\ claimed[w] = {}
  /\ \E expired \in SUBSET deadlines \ {{}} :
       claimed' = [claimed EXCEPT ![w] = expired]
  /\ UNCHANGED <<deadlines, timeouts, status, request, provisioner, kafka,
                 admin, faults>>

\* Mutant: all that has expired is removed, though LIMIT returns less of it.
ClaimExpiredBeyondLimit(w) ==
  /\ claimed[w] = {}
  /\ \E expired \in SUBSET deadlines \ {{}}, some \in SUBSET deadlines :
       /\ some \subseteq expired
       /\ claimed' = [claimed EXCEPT ![w] = some]
       /\ deadlines' = deadlines \ expired
  /\ UNCHANGED <<timeouts, status, request, provisioner, kafka, admin, faults>>

\* Mutant: deadlines in milliseconds, compared with seconds, never pass.
ClaimExpiredNever(w) ==
  /\ deadlines = {}
  /\ UNCHANGED sagaVars

\* checkExpired: the Lua script takes deadlines that have passed out of the
\* set.
ClaimExpired(w) ==
  /\ claimed[w] = {}
  /\ \E expired \in SUBSET deadlines \ {{}} :
       /\ claimed' = [claimed EXCEPT ![w] = expired]
       /\ deadlines' = deadlines \ expired
  /\ UNCHANGED <<timeouts, status, request, provisioner, kafka, admin, faults>>

\* user.provisioning.failed is published.
PublishTimeout(w, u) ==
  /\ u \in claimed[w]
  /\ claimed' = [claimed EXCEPT ![w] = @ \ {u}]
  /\ topic' = [topic EXCEPT ![u] = Append(@, "failed")]
  /\ timeouts' = [timeouts EXCEPT ![u] = @ + 1]
  /\ UNCHANGED <<deadlines, status, request, provisioner, hand, offboard, admin,
                 faults>>

\* The publish fails: the deadline is gone.
PublishFails(w, u) ==
  /\ u \in claimed[w]
  /\ Fault
  /\ claimed' = [claimed EXCEPT ![w] = @ \ {u}]
  /\ UNCHANGED <<deadlines, timeouts, status, request, provisioner, kafka, admin>>

\* The watcher's replica dies with what it has claimed.
WatcherCrash(w) ==
  /\ claimed[w] # {}
  /\ Fault
  /\ claimed' = [claimed EXCEPT ![w] = {}]
  /\ UNCHANGED <<deadlines, timeouts, status, request, provisioner, kafka, admin>>

-----------------------------------------------------------------------------
(* Other producers of saga.orchestration.                                  *)

\* An external SCIM service answers user.created or user.reprovision, if it
\* does; the relay may have delivered the request twice.
ScimProvisioned(u) ==
  /\ asked[u] > 0
  /\ IF answered[u] < asked[u] THEN UNCHANGED faults ELSE Fault
  /\ answered' = [answered EXCEPT ![u] = IF @ < asked[u] THEN @ + 1 ELSE @]
  /\ topic' = [topic EXCEPT ![u] = Append(@, "provisioned")]
  /\ UNCHANGED <<again, asked, status, request, saga, hand, offboard, admin>>

\* Somebody else reports that the provisioning failed, with a user_id in
\* place of the watcher's saga_id.
ReportFailure(u) ==
  /\ Exists(u)
  /\ AdminCall
  /\ topic' = [topic EXCEPT ![u] = Append(@, "failed")]
  /\ UNCHANGED <<status, request, provisioner, saga, hand, offboard, faults>>

\* Somebody asks for the organisation to be offboarded.
OffboardRequested ==
  /\ offboard = "none"
  /\ offboard' = "sent"
  /\ UNCHANGED <<status, request, provisioner, saga, topic, hand, admin, faults>>

-----------------------------------------------------------------------------
(* The consumer.                                                           *)

\* ReadMessage returns a user's next event.
ReadMessage(u) ==
  /\ hand[u] = "none"
  /\ topic[u] # << >>
  /\ hand' = [hand EXCEPT ![u] = Head(topic[u])]
  /\ topic' = [topic EXCEPT ![u] = Tail(@)]
  /\ UNCHANGED <<status, request, provisioner, saga, offboard, admin, faults>>

\* The status an event stands for, whatever the user's status is.
Outcome(event) == IF event = "failed" THEN "provisioning_failed" ELSE "active"

\* The event becomes the user's status, if the user is there.
HandleEvent(u) ==
  /\ hand[u] # "none"
  /\ UpdateUserStatus(u, IF Exists(u) THEN Outcome(hand[u]) ELSE "none")
  /\ hand' = [hand EXCEPT ![u] = "none"]
  /\ UNCHANGED <<request, provisioner, saga, topic, offboard, admin, faults>>

\* UpdateUserStatus fails or the consumer dies: the event is lost.
HandleFails(u) ==
  /\ hand[u] # "none"
  /\ Fault
  /\ hand' = [hand EXCEPT ![u] = "none"]
  /\ UNCHANGED <<status, request, provisioner, saga, topic, offboard, admin>>

\* OffboardOrg: DeprovisionAllUsers.
OffboardOrg ==
  /\ offboard = "sent"
  /\ offboard' = "handled"
  /\ status' = [u \in Users |-> IF Exists(u) THEN "deprovisioned" ELSE "none"]
  /\ UNCHANGED <<request, provisioner, saga, topic, hand, admin, faults>>

\* OffboardOrg fails; the event's offset is already committed.
OffboardFails ==
  /\ offboard = "sent"
  /\ Fault
  /\ offboard' = "handled"
  /\ UNCHANGED <<status, request, provisioner, saga, topic, hand, admin>>

-----------------------------------------------------------------------------

RegisterStep(u) ==
  UpdateUserSCIM(u) \/ NotSCIM(u) \/ CommitCreated(u) \/ ZAdd(u)

SagaNext ==
  \/ \E u \in Users :
       \/ CreateUser(u) \/ RegisterStep(u) \/ RegisterFails(u)
       \/ ReprovisionUser(u) \/ CommitReprovision(u) \/ ReprovisionFails(u)
       \/ DeleteUser(u) \/ PatchUser(u)
       \/ ScimProvisioned(u) \/ ReportFailure(u)
       \/ ReadMessage(u) \/ HandleEvent(u) \/ HandleFails(u)
  \/ \E w \in Watchers :
       \/ ClaimExpired(w) \/ WatcherCrash(w)
       \/ \E u \in Users : PublishTimeout(w, u) \/ PublishFails(w, u)
  \/ OffboardRequested \/ OffboardOrg \/ OffboardFails

SagaSpec == SagaInit /\ [][SagaNext]_sagaVars

\* A request that was started goes on, the watchers' tickers fire, deadlines
\* pass, and the consumer keeps reading.  Nothing is assumed of callers or of
\* the external SCIM service.
SagaFairSpec ==
  /\ SagaSpec
  /\ \A u \in Users : WF_sagaVars(RegisterStep(u))
  /\ \A u \in Users : WF_sagaVars(ReadMessage(u)) /\ WF_sagaVars(HandleEvent(u))
  /\ \A w \in Watchers :
       WF_sagaVars(ClaimExpired(w)) /\ \A u \in Users : WF_sagaVars(PublishTimeout(w, u))

-----------------------------------------------------------------------------
(* Properties.                                                             *)

SagaTypeOK ==
  /\ status \in [Users -> Statuses]
  /\ request \in [Users -> {"none", "scim", "create", "zadd"}]
  /\ again \in [Users -> Nat]
  /\ asked \in [Users -> Nat]
  /\ answered \in [Users -> Nat]
  /\ deadlines \subseteq Users
  /\ claimed \in [Watchers -> SUBSET Users]
  /\ timeouts \in [Users -> Nat]
  /\ topic \in [Users -> Seq({"failed", "provisioned"})]
  /\ hand \in [Users -> {"none", "failed", "provisioned"}]
  /\ offboard \in {"none", "sent", "handled"}
  /\ admin \in 0..MaxAdmin
  /\ faults \in 0..MaxFaults

\* However many replicas watch, a registration is compensated at most once:
\* a deadline is in Redis, or with one watcher, or published, never two of
\* these (watcher.go:49-57).
CompensatedOnce ==
  \A u \in Users :
    /\ timeouts[u] <= 1
    /\ u \in deadlines => timeouts[u] = 0
    /\ \A w \in Watchers : u \in claimed[w] =>
         /\ u \notin deadlines
         /\ timeouts[u] = 0
         /\ \A x \in Watchers : u \in claimed[x] => x = w

\* A compensation of the user is still to come: the deadline is in Redis or
\* with a watcher, or a failure event is in the topic or in the consumer's
\* hand.
Watched(u) ==
  \/ u \in deadlines
  \/ \E w \in Watchers : u \in claimed[w]
  \/ \E i \in DOMAIN topic[u] : topic[u][i] = "failed"
  \/ hand[u] = "failed"

\* Nobody is forgotten on the way from Redis through a watcher and Kafka to
\* the consumer: without faults, a user who was not reprovisioned and is
\* still initializing when RegisterUser has returned is watched, whatever
\* administrators and the other producers do in between (users.go:56-78,
\* watcher.go:49-78, consumer.go:45-82).
InitializingIsWatched ==
  \A u \in Users :
    /\ faults = 0
    /\ status[u] = "initializing"
    /\ request[u] = "none"
    /\ asked[u] + again[u] <= 1
    => Watched(u)

\* Without faults, and unless the user is reprovisioned, nobody stays in
\* initializing: the external service answers or the deadline passes
\* (users.go:72-78, watcher.go:46-78).
EveryRegistrationEnds ==
  \A u \in Users :
    [](faults = 0 /\ asked[u] <= 1 /\ again[u] = 0) =>
      (status[u] = "initializing" ~> status[u] # "initializing")

\* ai-spec/be_open_guard/01-overview-and-architecture.md:136: a timeout takes
\* a user from initializing to provisioning_failed; it does nothing to a user
\* whose provisioning was completed in time (consumer.go:75-80).
ActiveUsersDoNotTimeOut ==
  [][\A u \in Users : status[u] = "active" => status'[u] # "provisioning_failed"]_sagaVars
=============================================================================
