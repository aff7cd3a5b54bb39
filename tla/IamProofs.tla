----------------------------- MODULE IamProofs ------------------------------
(***************************************************************************)
(* What is proved of the IAM service: the provisioning saga, the refresh   *)
(* tokens with their sessions, and the login.  Each part has its own       *)
(* specification; no theorem is about a conjunction of them.               *)
(*                                                                         *)
(* Saga.  CompensatedOnce is not inductive: it does not say that ZAdd      *)
(* happens once.  Registration adds that a user who is not there, or whose *)
(* RegisterUser is still under way, has no deadline anywhere.              *)
(* InitializingIsWatched needs that a registration which ended without     *)
(* faults has asked for the provisioning (Asked), so that a reprovisioning *)
(* makes two requests of it.                                               *)
(*                                                                         *)
(* Sessions.  SessionsTypeOK is inductive, and with it                     *)
(* SessionsAreNotCloned: a step moves a family from its one live token to  *)
(* one request, or back.  SessionsLast needs that a token of a family that *)
(* is not spoiled is claimed by the one request that presents it (Kept).   *)
(*                                                                         *)
(* Login.  OneTimeOnce is about tokens; what keeps it is where a proof may *)
(* be before: to be drawn, in Redis or in the row, held by a request, or   *)
(* spent.  Apart says that held and spent proofs are held or spent once    *)
(* and not to be had any more; every step moves proofs forward (Advances), *)
(* and nothing comes back, since marks outlive what they mark (MarksLast). *)
(* ParallelGuesses needs the requests that may still count (Guesses).      *)
(***************************************************************************)
EXTENDS Login, ProvisioningSaga, Sessions, FiniteSetTheorems, TLAPS

-----------------------------------------------------------------------------
(* The provisioning saga.                                                  *)

\* A user without a deadline, and without a timeout so far.
Untouched(u) ==
  /\ u \notin deadlines
  /\ timeouts[u] = 0
  /\ \A w \in Watchers : u \notin claimed[w]

\* Before RegisterUser is through, no deadline is anywhere.
Registration ==
  \A u \in Users :
    /\ request[u] # "none" => status[u] # "none"
    /\ status[u] = "none" \/ request[u] # "none" => Untouched(u)

\* Without faults, a registration that is through has made its request.
Asked ==
  faults = 0 =>
    \A u \in Users :
      /\ request[u] = "zadd" => asked[u] >= 1
      /\ status[u] # "none" /\ request[u] = "none" => asked[u] >= 1

\* The inductive invariant of the saga.
SagaInv == SagaTypeOK /\ CompensatedOnce /\ Registration /\ Asked /\ InitializingIsWatched

\* What an action does to the type of the state: one leaf for each.
LEMMA SagaTypeStep ==
  SagaTypeOK /\ [SagaNext]_sagaVars => SagaTypeOK'
<1> SUFFICES ASSUME SagaTypeOK, [SagaNext]_sagaVars PROVE SagaTypeOK'
  OBVIOUS
<1> USE MaxAdminAssumption, MaxFaultsAssumption
<1>1. ASSUME NEW u \in Users, CreateUser(u) PROVE SagaTypeOK'
  BY <1>1 DEF CreateUser, UpdateUserStatus, SagaTypeOK, Statuses,
              saga, kafka, provisioner
<1>2. ASSUME NEW u \in Users, RegisterStep(u) PROVE SagaTypeOK'
  <2>1. CASE UpdateUserSCIM(u)
    BY <2>1 DEF UpdateUserSCIM, UpdateUserStatus, SagaTypeOK, Statuses,
                saga, kafka, provisioner
  <2>2. CASE NotSCIM(u)
    BY <2>2 DEF NotSCIM, SagaTypeOK, saga, kafka, provisioner
  <2>3. CASE CommitCreated(u)
    BY <2>3 DEF CommitCreated, SagaTypeOK, saga, kafka
  <2>4. CASE ZAdd(u)
    BY <2>4 DEF ZAdd, SagaTypeOK, kafka, provisioner
  <2> QED BY <1>2, <2>1, <2>2, <2>3, <2>4 DEF RegisterStep
<1>3. ASSUME NEW u \in Users, RegisterFails(u) PROVE SagaTypeOK'
  BY <1>3 DEF RegisterFails, Fault, SagaTypeOK, saga, kafka,
              provisioner
<1>4. ASSUME NEW u \in Users, ReprovisionUser(u) PROVE SagaTypeOK'
  BY <1>4 DEF ReprovisionUser, AdminCall, UpdateUserStatus, SagaTypeOK,
              Statuses, saga, kafka
<1>5. ASSUME NEW u \in Users, CommitReprovision(u) PROVE SagaTypeOK'
  BY <1>5 DEF CommitReprovision, SagaTypeOK, saga, kafka
<1>6. ASSUME NEW u \in Users, ReprovisionFails(u) PROVE SagaTypeOK'
  BY <1>6 DEF ReprovisionFails, Fault, SagaTypeOK, saga, kafka
<1>7. ASSUME NEW u \in Users, DeleteUser(u) PROVE SagaTypeOK'
  BY <1>7 DEF DeleteUser, AdminCall, UpdateUserStatus, SagaTypeOK,
              Statuses, saga, kafka, provisioner
<1>8. ASSUME NEW u \in Users, PatchUser(u) PROVE SagaTypeOK'
  BY <1>8 DEF PatchUser, PatchStatus, AdminCall, UpdateUserStatus,
              SagaTypeOK, Statuses,
              saga, kafka, provisioner
<1>9. ASSUME NEW u \in Users, ScimProvisioned(u) PROVE SagaTypeOK'
  <2>1. topic' \in [Users -> Seq({"failed", "provisioned"})]
    BY <1>9 DEF ScimProvisioned, SagaTypeOK
  <2>2. answered' \in [Users -> Nat] /\ faults' \in 0..MaxFaults
    BY <1>9 DEF ScimProvisioned, Fault, SagaTypeOK
  <2> QED BY <1>9, <2>1, <2>2 DEF ScimProvisioned, SagaTypeOK, saga
<1>21. ASSUME NEW u \in Users, ReportFailure(u) PROVE SagaTypeOK'
  <2>1. topic' \in [Users -> Seq({"failed", "provisioned"})]
    BY <1>21 DEF ReportFailure, SagaTypeOK
  <2> QED BY <1>21, <2>1 DEF ReportFailure, AdminCall, SagaTypeOK, saga, provisioner
<1>10. ASSUME NEW u \in Users, ReadMessage(u) PROVE SagaTypeOK'
  <2>1. topic[u] \in Seq({"failed", "provisioned"}) /\ topic[u] # << >>
    BY <1>10 DEF ReadMessage, SagaTypeOK
  <2>2. /\ Head(topic[u]) \in {"failed", "provisioned"}
        /\ Tail(topic[u]) \in Seq({"failed", "provisioned"})
    BY <2>1
  <2>3. topic' \in [Users -> Seq({"failed", "provisioned"})]
    BY <1>10, <2>2 DEF ReadMessage, SagaTypeOK
  <2>4. hand' \in [Users -> {"none", "failed", "provisioned"}]
    BY <1>10, <2>2 DEF ReadMessage, SagaTypeOK
  <2> QED BY <1>10, <2>3, <2>4 DEF ReadMessage, SagaTypeOK, saga,
                                   provisioner
<1>11. ASSUME NEW u \in Users, HandleEvent(u) PROVE SagaTypeOK'
  BY <1>11 DEF HandleEvent, Outcome, UpdateUserStatus, SagaTypeOK,
               Statuses, saga, provisioner
<1>12. ASSUME NEW u \in Users, HandleFails(u) PROVE SagaTypeOK'
  BY <1>12 DEF HandleFails, Fault, SagaTypeOK, saga, provisioner
<1>13. ASSUME NEW w \in Watchers, ClaimExpired(w) PROVE SagaTypeOK'
  BY <1>13 DEF ClaimExpired, SagaTypeOK, kafka, provisioner
<1>14. ASSUME NEW w \in Watchers, WatcherCrash(w) PROVE SagaTypeOK'
  BY <1>14 DEF WatcherCrash, Fault, SagaTypeOK, kafka, provisioner
<1>15. ASSUME NEW w \in Watchers, NEW u \in Users, PublishTimeout(w, u) PROVE SagaTypeOK'
  <2>1. topic' \in [Users -> Seq({"failed", "provisioned"})]
    BY <1>15 DEF PublishTimeout, SagaTypeOK
  <2>2. claimed' \in [Watchers -> SUBSET Users] /\ timeouts' \in [Users -> Nat]
    BY <1>15 DEF PublishTimeout, SagaTypeOK
  <2> QED BY <1>15, <2>1, <2>2 DEF PublishTimeout, SagaTypeOK, provisioner
<1>16. ASSUME NEW w \in Watchers, NEW u \in Users, PublishFails(w, u) PROVE SagaTypeOK'
  BY <1>16 DEF PublishFails, Fault, SagaTypeOK, kafka, provisioner
<1>17. ASSUME OffboardRequested PROVE SagaTypeOK'
  BY <1>17 DEF OffboardRequested, SagaTypeOK, saga, provisioner
<1>18. ASSUME OffboardOrg PROVE SagaTypeOK'
  BY <1>18 DEF OffboardOrg, SagaTypeOK, Statuses, saga, provisioner
<1>19. ASSUME OffboardFails PROVE SagaTypeOK'
  BY <1>19 DEF OffboardFails, Fault, SagaTypeOK, saga, provisioner
<1>20. CASE UNCHANGED sagaVars
  BY <1>20 DEF SagaTypeOK, sagaVars
<1> QED
  BY <1>1, <1>2, <1>3, <1>4, <1>5, <1>6, <1>7, <1>8, <1>9, <1>10, <1>11, <1>12,
     <1>13, <1>14, <1>15, <1>16, <1>17, <1>18, <1>19, <1>20,
     <1>21 DEF SagaNext

-----------------------------------------------------------------------------
(* Which actions touch what.                                               *)

\* Only these five move a deadline from place to place.
LEMMA SagaSteps ==
  [SagaNext]_sagaVars =>
    \/ UNCHANGED <<deadlines, claimed, timeouts>>
    \/ \E u \in Users : ZAdd(u)
    \/ \E w \in Watchers : ClaimExpired(w) \/ WatcherCrash(w)
    \/ \E w \in Watchers, u \in Users : PublishTimeout(w, u) \/ PublishFails(w, u)
BY DEF SagaNext, sagaVars, saga, CreateUser, RegisterStep,
       UpdateUserSCIM, NotSCIM,
       CommitCreated, RegisterFails, ReprovisionUser,
       CommitReprovision,
       ReprovisionFails, DeleteUser, PatchUser, ScimProvisioned, ReportFailure,
       ReadMessage,
       HandleEvent, HandleFails, OffboardRequested, OffboardOrg,
       OffboardFails

\* The steps of a registration, and what the other actions do to it: a user
\* who is there stays there, and a request is left alone.
LEMMA RequestSteps ==
  ASSUME SagaTypeOK, [SagaNext]_sagaVars, NEW u \in Users
  PROVE  \/ CreateUser(u) \/ RegisterStep(u) \/ RegisterFails(u)
         \/ /\ request'[u] = request[u]
            /\ status[u] # "none" => status'[u] # "none"
<1> USE DEF UpdateUserStatus, Exists, SagaTypeOK
<1>1. ASSUME NEW v \in Users, v # u, CreateUser(v) \/ RegisterStep(v) \/ RegisterFails(v)
      PROVE  request'[u] = request[u] /\ status'[u] = status[u]
  BY <1>1 DEF CreateUser, RegisterStep, UpdateUserSCIM, NotSCIM,
              CommitCreated,
              ZAdd, RegisterFails
<1>2. ASSUME NEW v \in Users,
             \/ ReprovisionUser(v) \/ CommitReprovision(v) \/ ReprovisionFails(v)
             \/ DeleteUser(v) \/ PatchUser(v)
      PROVE  request'[u] = request[u] /\ (status[u] # "none" => status'[u] # "none")
  BY <1>2 DEF ReprovisionUser, CommitReprovision, ReprovisionFails,
              DeleteUser,
              PatchUser, PatchStatus
<1>3. ASSUME NEW v \in Users,
             \/ ScimProvisioned(v) \/ ReportFailure(v) \/ ReadMessage(v)
             \/ HandleEvent(v) \/ HandleFails(v)
      PROVE  request'[u] = request[u] /\ (status[u] # "none" => status'[u] # "none")
  BY <1>3 DEF ScimProvisioned, ReportFailure, ReadMessage, HandleEvent,
              HandleFails, Outcome
<1>4. ASSUME NEW w \in Watchers,
             \/ ClaimExpired(w) \/ WatcherCrash(w)
             \/ \E v \in Users : PublishTimeout(w, v) \/ PublishFails(w, v)
      PROVE  request'[u] = request[u] /\ status'[u] = status[u]
  BY <1>4 DEF ClaimExpired, WatcherCrash, PublishTimeout,
              PublishFails
<1>5. ASSUME OffboardRequested \/ OffboardOrg \/ OffboardFails
      PROVE  request'[u] = request[u] /\ (status[u] # "none" => status'[u] # "none")
  BY <1>5 DEF OffboardRequested, OffboardOrg, OffboardFails
<1>6. CASE UNCHANGED sagaVars
  BY <1>6 DEF sagaVars
<1> QED BY <1>1, <1>2, <1>3, <1>4, <1>5, <1>6 DEF SagaNext

-----------------------------------------------------------------------------
(* The invariant.                                                          *)

\* A deadline is in one place at a time.
LEMMA CompensatedOnceStep ==
  SagaTypeOK /\ CompensatedOnce /\ Registration /\ [SagaNext]_sagaVars => CompensatedOnce'
<1> SUFFICES ASSUME SagaTypeOK, CompensatedOnce, Registration, [SagaNext]_sagaVars
             PROVE  CompensatedOnce'
  OBVIOUS
<1>1. CASE UNCHANGED <<deadlines, claimed, timeouts>>
  BY <1>1 DEF CompensatedOnce
<1>2. ASSUME NEW u \in Users, ZAdd(u) PROVE CompensatedOnce'
  <2>1. Untouched(u)
    BY <1>2 DEF ZAdd, Registration
  <2> QED BY <1>2, <2>1 DEF ZAdd, Untouched, CompensatedOnce
<1>3. ASSUME NEW w \in Watchers, ClaimExpired(w) PROVE CompensatedOnce'
  <2> PICK expired \in SUBSET deadlines \ {{}} :
         /\ claimed' = [claimed EXCEPT ![w] = expired]
         /\ deadlines' = deadlines \ expired
    BY <1>3 DEF ClaimExpired
  <2>1. timeouts' = timeouts /\ claimed[w] = {}
    BY <1>3 DEF ClaimExpired
  <2> QED BY <2>1 DEF CompensatedOnce, SagaTypeOK
<1>4. ASSUME NEW w \in Watchers, WatcherCrash(w) PROVE CompensatedOnce'
  BY <1>4 DEF WatcherCrash, CompensatedOnce, SagaTypeOK
<1>5. ASSUME NEW w \in Watchers, NEW u \in Users, PublishTimeout(w, u)
      PROVE  CompensatedOnce'
  BY <1>5 DEF PublishTimeout, CompensatedOnce, SagaTypeOK
<1>6. ASSUME NEW w \in Watchers, NEW u \in Users, PublishFails(w, u)
      PROVE  CompensatedOnce'
  BY <1>6 DEF PublishFails, CompensatedOnce, SagaTypeOK
<1> QED BY <1>1, <1>2, <1>3, <1>4, <1>5, <1>6, SagaSteps

\* A registration that is under way has set no deadline yet.
LEMMA RegistrationStep ==
  SagaTypeOK /\ Registration /\ [SagaNext]_sagaVars => Registration'
<1> SUFFICES ASSUME SagaTypeOK, Registration, [SagaNext]_sagaVars, NEW u \in Users
             PROVE  /\ request'[u] # "none" => status'[u] # "none"
                    /\ status'[u] = "none" \/ request'[u] # "none" => Untouched(u)'
  BY DEF Registration
<1>1. /\ request'[u] # "none" => status'[u] # "none"
      /\ status'[u] = "none" \/ request'[u] # "none" =>
           (status[u] = "none" \/ request[u] # "none") /\ ~ZAdd(u)
  <2> USE DEF UpdateUserStatus, SagaTypeOK, Registration
  <2>1. CASE CreateUser(u)
    BY <2>1 DEF CreateUser, Exists, ZAdd
  <2>2. CASE RegisterStep(u)
    BY <2>2 DEF RegisterStep, UpdateUserSCIM, NotSCIM,
                CommitCreated, ZAdd
  <2>3. CASE RegisterFails(u)
    BY <2>3 DEF RegisterFails
  <2>4. CASE /\ request'[u] = request[u]
             /\ status[u] # "none" => status'[u] # "none"
    BY <2>4 DEF ZAdd
  <2> QED BY <2>1, <2>2, <2>3, <2>4, RequestSteps
<1>2. ASSUME Untouched(u), ~ZAdd(u) PROVE Untouched(u)'
  <2>1. CASE UNCHANGED <<deadlines, claimed, timeouts>>
    BY <1>2, <2>1 DEF Untouched
  <2>2. ASSUME NEW v \in Users, ZAdd(v) PROVE Untouched(u)'
    BY <1>2, <2>2 DEF ZAdd, Untouched
  <2>3. ASSUME NEW w \in Watchers, ClaimExpired(w) \/ WatcherCrash(w)
        PROVE  Untouched(u)'
    BY <1>2, <2>3 DEF ClaimExpired, WatcherCrash, Untouched, SagaTypeOK
  <2>4. ASSUME NEW w \in Watchers, NEW v \in Users,
               PublishTimeout(w, v) \/ PublishFails(w, v)
        PROVE  Untouched(u)'
    <3>1. v # u /\ deadlines' = deadlines
      BY <1>2, <2>4 DEF PublishTimeout, PublishFails, Untouched
    <3>2. timeouts'[u] = timeouts[u]
      BY <2>4, <3>1 DEF PublishTimeout, PublishFails, SagaTypeOK
    <3>3. claimed' = [claimed EXCEPT ![w] = @ \ {v}]
      BY <2>4 DEF PublishTimeout, PublishFails
    <3> QED BY <1>2, <3>1, <3>2, <3>3 DEF Untouched, SagaTypeOK
  <2> QED BY <2>1, <2>2, <2>3, <2>4, SagaSteps
<1> QED BY <1>1, <1>2 DEF Registration

\* Only CreateUser makes a user who is not there: updates match no row.
LEMMA AbsentStays ==
  ASSUME SagaTypeOK, [SagaNext]_sagaVars, NEW u \in Users,
         request[u] = "none", status[u] = "none"
  PROVE  CreateUser(u) \/ status'[u] = "none"
<1> USE DEF UpdateUserStatus, Exists, SagaTypeOK
<1>1. ASSUME NEW v \in Users, v # u, CreateUser(v) PROVE status'[u] = "none"
  BY <1>1 DEF CreateUser
<1>2. ASSUME NEW v \in Users, RegisterStep(v) \/ RegisterFails(v) PROVE status'[u] = "none"
  BY <1>2 DEF RegisterStep, UpdateUserSCIM, NotSCIM, CommitCreated, ZAdd, RegisterFails
<1>3. ASSUME NEW v \in Users,
             \/ ReprovisionUser(v) \/ CommitReprovision(v) \/ ReprovisionFails(v)
             \/ DeleteUser(v) \/ PatchUser(v)
      PROVE  status'[u] = "none"
  BY <1>3 DEF ReprovisionUser, CommitReprovision, ReprovisionFails, DeleteUser, PatchUser
<1>4. ASSUME NEW v \in Users,
             \/ ScimProvisioned(v) \/ ReportFailure(v) \/ ReadMessage(v)
             \/ HandleEvent(v) \/ HandleFails(v)
      PROVE  status'[u] = "none"
  BY <1>4 DEF ScimProvisioned, ReportFailure, ReadMessage, HandleEvent, HandleFails
<1>5. ASSUME NEW w \in Watchers,
             \/ ClaimExpired(w) \/ WatcherCrash(w)
             \/ \E v \in Users : PublishTimeout(w, v) \/ PublishFails(w, v)
      PROVE  status'[u] = "none"
  BY <1>5 DEF ClaimExpired, WatcherCrash, PublishTimeout, PublishFails
<1>6. ASSUME OffboardRequested \/ OffboardOrg \/ OffboardFails PROVE status'[u] = "none"
  BY <1>6 DEF OffboardRequested, OffboardOrg, OffboardFails
<1>7. CASE UNCHANGED sagaVars
  BY <1>7 DEF sagaVars
<1> QED BY <1>1, <1>2, <1>3, <1>4, <1>5, <1>6, <1>7 DEF SagaNext

\* Requests are counted up only, and a fault is never taken back.
LEMMA CountsGrow ==
  ASSUME SagaTypeOK, [SagaNext]_sagaVars, NEW u \in Users
  PROVE  /\ asked'[u] >= asked[u]
         /\ faults' = 0 => faults = 0
         /\ faults' = 0 => asked'[u] + again'[u] >= asked[u] + again[u]
<1> USE DEF SagaTypeOK, Fault, provisioner
<1>1. ASSUME NEW v \in Users,
             CreateUser(v) \/ RegisterStep(v) \/ RegisterFails(v)
      PROVE  /\ asked'[u] >= asked[u] /\ again'[u] >= again[u]
             /\ faults' = 0 => faults = 0
  <2>1. CASE CreateUser(v) \/ UpdateUserSCIM(v) \/ NotSCIM(v) \/ ZAdd(v)
    BY <2>1 DEF CreateUser, UpdateUserSCIM, NotSCIM, ZAdd
  <2>2. CASE CommitCreated(v)
    BY <2>2 DEF CommitCreated
  <2>3. CASE RegisterFails(v)
    BY <2>3, MaxFaultsAssumption DEF RegisterFails
  <2> QED BY <1>1, <2>1, <2>2, <2>3 DEF RegisterStep
<1>2. ASSUME NEW v \in Users, ReprovisionUser(v) \/ DeleteUser(v) \/ PatchUser(v)
      PROVE  asked'[u] >= asked[u] /\ again'[u] >= again[u] /\ (faults' = 0 => faults = 0)
  BY <1>2 DEF ReprovisionUser, DeleteUser, PatchUser
<1>3. ASSUME NEW v \in Users, CommitReprovision(v)
      PROVE  /\ asked'[u] >= asked[u] /\ faults' = faults
             /\ asked'[u] + again'[u] = asked[u] + again[u]
  <2>1. /\ asked[u] \in Nat /\ again[u] \in Nat /\ asked \in [Users -> Nat] /\ again \in [Users -> Nat]
        /\ again[v] > 0 /\ faults' = faults
        /\ again' = [again EXCEPT ![v] = @ - 1] /\ asked' = [asked EXCEPT ![v] = @ + 1]
    BY <1>3 DEF CommitReprovision
  <2> HIDE DEF SagaTypeOK
  <2>2. CASE v = u
    <3>1. again'[u] = again[u] - 1 /\ asked'[u] = asked[u] + 1
      BY <2>1, <2>2
    <3> QED
      BY <2>1, <3>1
  <2>3. CASE v # u
    <3>1. again'[u] = again[u] /\ asked'[u] = asked[u]
      BY <2>1, <2>3
    <3> QED
      BY <2>1, <3>1
  <2> QED
    BY <2>2, <2>3
<1>4. ASSUME NEW v \in Users, ReprovisionFails(v)
      PROVE  asked'[u] >= asked[u] /\ faults' # 0
  BY <1>4, MaxFaultsAssumption DEF ReprovisionFails
<1>5. ASSUME NEW v \in Users,
             \/ ScimProvisioned(v) \/ ReportFailure(v) \/ ReadMessage(v)
             \/ HandleEvent(v) \/ HandleFails(v)
      PROVE  asked'[u] >= asked[u] /\ again'[u] >= again[u] /\ (faults' = 0 => faults = 0)
  BY <1>5, MaxFaultsAssumption
     DEF ScimProvisioned, ReportFailure, ReadMessage, HandleEvent, HandleFails
<1>6. ASSUME NEW w \in Watchers,
             \/ ClaimExpired(w) \/ WatcherCrash(w)
             \/ \E v \in Users : PublishTimeout(w, v) \/ PublishFails(w, v)
      PROVE  asked'[u] >= asked[u] /\ again'[u] >= again[u] /\ (faults' = 0 => faults = 0)
  BY <1>6, MaxFaultsAssumption
     DEF ClaimExpired, WatcherCrash, PublishTimeout, PublishFails
<1>7. ASSUME OffboardRequested \/ OffboardOrg \/ OffboardFails
      PROVE  asked'[u] >= asked[u] /\ again'[u] >= again[u] /\ (faults' = 0 => faults = 0)
  BY <1>7, MaxFaultsAssumption DEF OffboardRequested, OffboardOrg, OffboardFails
<1>8. ASSUME UNCHANGED sagaVars
      PROVE  asked'[u] >= asked[u] /\ again'[u] >= again[u] /\ (faults' = 0 => faults = 0)
  BY <1>8 DEF sagaVars
<1>9. asked[u] \in Nat /\ again[u] \in Nat
  OBVIOUS
<1>10. \/ asked'[u] >= asked[u] /\ again'[u] >= again[u] /\ (faults' = 0 => faults = 0)
       \/ /\ asked'[u] >= asked[u] /\ faults' = faults
          /\ asked'[u] + again'[u] = asked[u] + again[u]
       \/ asked'[u] >= asked[u] /\ faults' # 0
  BY <1>1, <1>2, <1>3, <1>4, <1>5, <1>6, <1>7, <1>8, Zenon DEF SagaNext
<1>11. asked'[u] \in Nat /\ again'[u] \in Nat
  BY SagaTypeStep
<1> QED BY <1>9, <1>10, <1>11

\* A registration reaches ZAdd and its end through CommitCreated only,
\* unless it fails.
LEMMA AskedStep ==
  SagaTypeOK /\ Registration /\ Asked /\ [SagaNext]_sagaVars => Asked'
<1> SUFFICES ASSUME SagaTypeOK, Registration, Asked, [SagaNext]_sagaVars, faults' = 0,
                    NEW u \in Users,
                    \/ request'[u] = "zadd"
                    \/ status'[u] # "none" /\ request'[u] = "none"
             PROVE  asked'[u] >= 1
  BY DEF Asked
<1>1. faults = 0 /\ asked'[u] >= asked[u] /\ asked[u] \in Nat /\ asked'[u] \in Nat
  BY CountsGrow, SagaTypeStep DEF SagaTypeOK
<1>2. CASE CreateUser(u)
  BY <1>2 DEF CreateUser, SagaTypeOK
<1>3. CASE RegisterStep(u)
  <2>1. CASE UpdateUserSCIM(u) \/ NotSCIM(u)
    BY <2>1 DEF UpdateUserSCIM, NotSCIM, SagaTypeOK
  <2>2. CASE CommitCreated(u)
    BY <2>2 DEF CommitCreated, SagaTypeOK
  <2>3. CASE ZAdd(u)
    BY <2>3, <1>1 DEF ZAdd, Asked
  <2> QED BY <1>3, <2>1, <2>2, <2>3 DEF RegisterStep
<1>4. CASE RegisterFails(u)
  BY <1>4, <1>1 DEF RegisterFails, Fault
<1>5. CASE request'[u] = request[u] /\ (request[u] = "none" => status[u] # "none")
  BY <1>1, <1>5 DEF Asked
<1>6. CASE request'[u] = request[u] /\ request[u] = "none" /\ status[u] = "none"
  BY <1>2, <1>3, <1>4, <1>6, AbsentStays
<1> QED BY <1>2, <1>3, <1>4, <1>5, <1>6, RequestSteps

\* What is left of a compensation moves on and is not lost, as long as
\* nothing fails and the user stays initializing.
LEMMA WatchedStays ==
  ASSUME SagaTypeOK, [SagaNext]_sagaVars, NEW u \in Users, Watched(u),
         faults = 0, faults' = 0, status'[u] = "initializing"
  PROVE  Watched(u)' \/ HandleEvent(u)
<1>1. CASE UNCHANGED <<deadlines, claimed, topic, hand>>
  BY <1>1 DEF Watched
<1>2. ASSUME NEW v \in Users, ZAdd(v) PROVE Watched(u)'
  BY <1>2 DEF ZAdd, kafka, Watched
<1>3. ASSUME NEW w \in Watchers, ClaimExpired(w) PROVE Watched(u)'
  <2> PICK expired \in SUBSET deadlines \ {{}} :
         /\ claimed' = [claimed EXCEPT ![w] = expired]
         /\ deadlines' = deadlines \ expired
    BY <1>3 DEF ClaimExpired
  <2>1. topic' = topic /\ hand' = hand /\ claimed[w] = {}
    BY <1>3 DEF ClaimExpired, kafka
  <2>2. ASSUME u \in deadlines PROVE u \in deadlines' \/ u \in claimed'[w]
    BY <2>2 DEF SagaTypeOK
  <2>3. ASSUME NEW x \in Watchers, u \in claimed[x] PROVE u \in claimed'[x]
    BY <2>1, <2>3 DEF SagaTypeOK
  <2> QED BY <2>1, <2>2, <2>3 DEF Watched
<1>4. ASSUME NEW w \in Watchers, NEW v \in Users, PublishTimeout(w, v) PROVE Watched(u)'
  <2>1. topic[u] \in Seq({"failed", "provisioned"}) /\ topic[v] \in Seq({"failed", "provisioned"})
    BY DEF SagaTypeOK
  <2>2. deadlines' = deadlines /\ hand' = hand
    BY <1>4 DEF PublishTimeout
  <2>3. CASE v = u
    <3>1. topic'[u] = Append(topic[u], "failed")
      BY <1>4, <2>3 DEF PublishTimeout, SagaTypeOK
    <3>2. Len(topic'[u]) \in DOMAIN topic'[u] /\ topic'[u][Len(topic'[u])] = "failed"
      BY <2>1, <3>1
    <3> QED BY <3>2 DEF Watched
  <2>4. CASE v # u
    <3>1. topic'[u] = topic[u]
      BY <1>4, <2>4 DEF PublishTimeout, SagaTypeOK
    <3>2. ASSUME NEW x \in Watchers, u \in claimed[x] PROVE u \in claimed'[x]
      BY <1>4, <2>4, <3>2 DEF PublishTimeout, SagaTypeOK
    <3> QED BY <2>2, <3>1, <3>2 DEF Watched
  <2> QED BY <2>3, <2>4
<1>5. ASSUME NEW v \in Users, ScimProvisioned(v) \/ ReportFailure(v) PROVE Watched(u)'
  <2>1. topic[u] \in Seq({"failed", "provisioned"})
    BY DEF SagaTypeOK
  <2>2. /\ deadlines' = deadlines /\ claimed' = claimed /\ hand' = hand
        /\ \/ topic'[u] = topic[u]
           \/ \E e \in {"failed", "provisioned"} : topic'[u] = Append(topic[u], e)
    BY <1>5 DEF ScimProvisioned, ReportFailure, saga, SagaTypeOK
  <2>3. ASSUME NEW i \in DOMAIN topic[u], topic[u][i] = "failed"
        PROVE  i \in DOMAIN topic'[u] /\ topic'[u][i] = "failed"
    BY <2>1, <2>2, <2>3
  <2> QED BY <2>2, <2>3 DEF Watched
<1>6. ASSUME NEW v \in Users, ReadMessage(v) PROVE Watched(u)'
  <2>1. deadlines' = deadlines /\ claimed' = claimed
    BY <1>6 DEF ReadMessage, saga
  <2>2. CASE v # u
    <3>1. topic'[u] = topic[u] /\ hand'[u] = hand[u]
      BY <1>6, <2>2 DEF ReadMessage, SagaTypeOK
    <3> QED BY <2>1, <3>1 DEF Watched
  <2>3. CASE v = u
    <3>1. topic[u] \in Seq({"failed", "provisioned"}) /\ topic[u] # << >> /\ hand[u] = "none"
      BY <1>6, <2>3 DEF ReadMessage, SagaTypeOK
    <3>2. topic'[u] = Tail(topic[u]) /\ hand'[u] = Head(topic[u])
      BY <1>6, <2>3 DEF ReadMessage, SagaTypeOK
    <3>3. ASSUME NEW i \in DOMAIN topic[u], topic[u][i] = "failed"
          PROVE  hand'[u] = "failed" \/ \E j \in DOMAIN topic'[u] : topic'[u][j] = "failed"
      <4>1. CASE i = 1
        BY <3>1, <3>2, <3>3, <4>1
      <4>2. CASE i # 1
        <5>1. i - 1 \in DOMAIN topic'[u] /\ topic'[u][i - 1] = topic[u][i]
          BY <3>1, <3>2, <4>2
        <5> QED BY <3>3, <5>1
      <4> QED BY <4>1, <4>2
    <3> QED BY <2>1, <3>1, <3>3 DEF Watched
  <2> QED BY <2>2, <2>3
<1>7. ASSUME NEW v \in Users, v # u, HandleEvent(v) PROVE Watched(u)'
  <2>1. deadlines' = deadlines /\ claimed' = claimed /\ topic' = topic /\ hand'[u] = hand[u]
    BY <1>7 DEF HandleEvent, saga, SagaTypeOK
  <2> QED BY <2>1 DEF Watched
<1>8. \/ UNCHANGED <<deadlines, claimed, topic, hand>>
      \/ \E v \in Users : \/ ZAdd(v) \/ ScimProvisioned(v) \/ ReportFailure(v)
                            \/ ReadMessage(v) \/ HandleEvent(v)
      \/ \E w \in Watchers : ClaimExpired(w)
      \/ \E w \in Watchers, v \in Users : PublishTimeout(w, v)
  <2>1. ~Fault
    BY DEF Fault
  <2> QED BY <2>1
     DEF SagaNext, sagaVars, saga, kafka, CreateUser, RegisterStep, UpdateUserSCIM, NotSCIM,
         CommitCreated, RegisterFails, ReprovisionUser, CommitReprovision, ReprovisionFails,
         DeleteUser, PatchUser, WatcherCrash, PublishFails, HandleFails,
         OffboardRequested, OffboardOrg, OffboardFails
<1> QED BY <1>1, <1>2, <1>3, <1>4, <1>5, <1>6, <1>7, <1>8

\* How a user comes to be initializing with the registration behind them:
\* they were, or ZADD has just set the deadline, or they are reprovisioned.
LEMMA BecomesInitializing ==
  ASSUME SagaTypeOK, [SagaNext]_sagaVars, NEW u \in Users, faults' = 0,
         status'[u] = "initializing", request'[u] = "none"
  PROVE  \/ status[u] = "initializing" /\ request[u] = "none" /\ ~HandleEvent(u)
         \/ ZAdd(u)
         \/ status[u] # "none" /\ request[u] = "none" /\ ReprovisionUser(u)
<1> USE DEF UpdateUserStatus, Exists, SagaTypeOK
<1>1. ASSUME NEW v \in Users, CreateUser(v)
      PROVE  status[u] = "initializing" /\ request[u] = "none"
  BY <1>1 DEF CreateUser
<1>2. ASSUME NEW v \in Users, RegisterStep(v), ~ZAdd(u)
      PROVE  status[u] = "initializing" /\ request[u] = "none"
  BY <1>2 DEF RegisterStep, UpdateUserSCIM, NotSCIM, CommitCreated, ZAdd
<1>3. ASSUME NEW v \in Users, RegisterFails(v) PROVE FALSE
  BY <1>3, MaxFaultsAssumption DEF RegisterFails, Fault
<1>4. ASSUME NEW v \in Users, ReprovisionUser(v), ~ReprovisionUser(u)
      PROVE  status[u] = "initializing" /\ request[u] = "none"
  BY <1>4 DEF ReprovisionUser
<1>5. ASSUME ReprovisionUser(u)
      PROVE  status[u] # "none" /\ request[u] = "none"
  BY <1>5 DEF ReprovisionUser
<1>6. ASSUME NEW v \in Users,
             \/ CommitReprovision(v) \/ ReprovisionFails(v) \/ DeleteUser(v) \/ PatchUser(v)
      PROVE  status[u] = "initializing" /\ request[u] = "none"
  BY <1>6 DEF CommitReprovision, ReprovisionFails, DeleteUser, PatchUser, PatchStatus
<1>7. ASSUME NEW v \in Users,
             \/ ScimProvisioned(v) \/ ReportFailure(v) \/ ReadMessage(v)
             \/ HandleEvent(v) \/ HandleFails(v)
      PROVE  status[u] = "initializing" /\ request[u] = "none"
  BY <1>7 DEF ScimProvisioned, ReportFailure, ReadMessage, HandleEvent, HandleFails, Outcome
<1>8. ASSUME NEW w \in Watchers,
             \/ ClaimExpired(w) \/ WatcherCrash(w)
             \/ \E v \in Users : PublishTimeout(w, v) \/ PublishFails(w, v)
      PROVE  status[u] = "initializing" /\ request[u] = "none"
  BY <1>8 DEF ClaimExpired, WatcherCrash, PublishTimeout, PublishFails
<1>9. ASSUME OffboardRequested \/ OffboardOrg \/ OffboardFails
      PROVE  status[u] = "initializing" /\ request[u] = "none"
  BY <1>9 DEF OffboardRequested, OffboardOrg, OffboardFails
<1>10. ASSUME UNCHANGED sagaVars PROVE status[u] = "initializing" /\ request[u] = "none"
  BY <1>10 DEF sagaVars
<1>11. HandleEvent(u) => status'[u] # "initializing"
  BY DEF HandleEvent, Outcome
<1> QED BY <1>1, <1>2, <1>3, <1>4, <1>5, <1>6, <1>7, <1>8, <1>9, <1>10, <1>11 DEF SagaNext

\* The registration sets the deadline, and from then on it is passed on.
LEMMA InitializingIsWatchedStep ==
  SagaTypeOK /\ Asked /\ InitializingIsWatched /\ [SagaNext]_sagaVars
    => InitializingIsWatched'
<1> SUFFICES ASSUME SagaTypeOK, Asked, InitializingIsWatched, [SagaNext]_sagaVars,
                    NEW u \in Users, faults' = 0, status'[u] = "initializing",
                    request'[u] = "none", asked'[u] + again'[u] <= 1
             PROVE  Watched(u)'
  BY DEF InitializingIsWatched
<1>1. /\ faults = 0 /\ asked[u] + again[u] <= asked'[u] + again'[u]
      /\ asked[u] \in Nat /\ again[u] \in Nat /\ asked'[u] \in Nat /\ again'[u] \in Nat
  BY CountsGrow, SagaTypeStep DEF SagaTypeOK
<1>2. CASE status[u] = "initializing" /\ request[u] = "none" /\ ~HandleEvent(u)
  <2>1. Watched(u)
    BY <1>1, <1>2 DEF InitializingIsWatched
  <2> QED BY <1>1, <1>2, <2>1, WatchedStays
<1>3. CASE ZAdd(u)
  BY <1>3 DEF ZAdd, Watched
<1>4. CASE status[u] # "none" /\ request[u] = "none" /\ ReprovisionUser(u)
  <2>1. asked[u] >= 1
    BY <1>1, <1>4 DEF Asked
  <2>2. asked'[u] = asked[u] /\ again'[u] = again[u] + 1
    BY <1>4 DEF ReprovisionUser, SagaTypeOK
  <2> QED BY <1>1, <2>1, <2>2
<1> QED BY <1>2, <1>3, <1>4, BecomesInitializing

\* The inductive invariant holds in every reachable state.
LEMMA SagaInvariance ==
  SagaSpec => []SagaInv
<1>1. SagaInit => SagaInv
  BY MaxAdminAssumption, MaxFaultsAssumption
     DEF SagaInit, SagaInv, SagaTypeOK, Statuses, CompensatedOnce, Registration, Untouched,
         Asked, InitializingIsWatched
<1>2. SagaInv /\ [SagaNext]_sagaVars => SagaInv'
  BY SagaTypeStep, CompensatedOnceStep, RegistrationStep, AskedStep,
     InitializingIsWatchedStep DEF SagaInv
<1> QED BY <1>1, <1>2, PTL DEF SagaSpec

\* Users, deadlines, claims and events keep their types (users.go, saga/).
THEOREM SagaTypeCorrect ==
  SagaSpec => []SagaTypeOK
<1>1. SagaInv => SagaTypeOK
  BY DEF SagaInv
<1>2. SagaSpec => []SagaInv
  BY SagaInvariance
<1> QED BY <1>1, <1>2, PTL

\* Any number of watchers compensate a registration at most once: the Lua
\* script's claim is atomic and RegisterUser sets one deadline
\* (watcher.go:49-57, users.go:72-78).
THEOREM SagaCompensatesOnce ==
  SagaSpec => []CompensatedOnce
<1>1. SagaInv => CompensatedOnce
  BY DEF SagaInv
<1>2. SagaSpec => []SagaInv
  BY SagaInvariance
<1> QED BY <1>1, <1>2, PTL

\* Without faults no registered user is forgotten in initializing: a
\* deadline is in Redis or with a watcher, or a failure event is on its way
\* (users.go:56-78, watcher.go:49-78, consumer.go:45-82).
THEOREM SagaInitializingIsWatched ==
  SagaSpec => []InitializingIsWatched
<1>1. SagaInv => InitializingIsWatched
  BY DEF SagaInv
<1>2. SagaSpec => []SagaInv
  BY SagaInvariance
<1> QED BY <1>1, <1>2, PTL

-----------------------------------------------------------------------------
(* The refresh tokens and sessions.                                        *)

\* NoToken and NoFamily are no token and no family.
LEMMA NoNumbers ==
  NoToken \notin Tokens /\ NoFamily \notin Families
  BY NumAssumption DEF NoToken, NoFamily, Tokens, Families

\* The initial state has the right types.
LEMMA SessTypeInit ==
  SessionsInit => SessionsTypeOK
  BY NumAssumption, MaxFaultsAssumption DEF SessionsInit, SessionsTypeOK

\* Every step keeps the types, and every token and request in a family that
\* was opened.
LEMMA SessTypeNext ==
  SessionsTypeOK /\ [SessionsNext]_sessionVars => SessionsTypeOK'
<1> SUFFICES ASSUME SessionsTypeOK, [SessionsNext]_sessionVars PROVE SessionsTypeOK'
  OBVIOUS
<1> USE NoNumbers, NumAssumption, MaxFaultsAssumption DEF past
<1>1. ASSUME NEW q \in Exchanges, NEW f \in Families, Login(q, f)
      PROVE SessionsTypeOK'
  BY <1>1 DEF SessionsTypeOK, Login, Proceed, tokens
<1>2. ASSUME NEW q \in Exchanges, NEW t \in Tokens, PresentToken(q, t)
      PROVE SessionsTypeOK'
  BY <1>2 DEF SessionsTypeOK, PresentToken, Proceed, tokens
<1>3. ASSUME NEW q \in Exchanges, CreateSession(q) PROVE SessionsTypeOK'
  BY <1>3 DEF SessionsTypeOK, CreateSession, Proceed, tokens
<1>4. ASSUME NEW q \in Exchanges, NEW t \in Tokens, CreateRefreshToken(q, t) PROVE SessionsTypeOK'
  BY <1>4 DEF SessionsTypeOK, CreateRefreshToken, Return, Proceed
<1>5. ASSUME NEW q \in Exchanges, ClaimRefreshToken(q) PROVE SessionsTypeOK'
  BY <1>5 DEF SessionsTypeOK, ClaimRefreshToken, Claimable, Proceed
<1>6. ASSUME NEW q \in Exchanges, ClaimRefused(q) PROVE SessionsTypeOK'
  BY <1>6 DEF SessionsTypeOK, ClaimRefused, Proceed, tokens
<1>7. ASSUME NEW q \in Exchanges, RevokeRefreshTokenFamilyByHash(q) PROVE SessionsTypeOK'
  BY <1>7 DEF SessionsTypeOK, RevokeRefreshTokenFamilyByHash,
              RevokeRefreshTokenFamily, Return, Proceed
<1>8. ASSUME NEW q \in Exchanges, AssessRisk(q) PROVE SessionsTypeOK'
  BY <1>8 DEF SessionsTypeOK, AssessRisk, Proceed, tokens
<1>9. ASSUME NEW q \in Exchanges, ClaimFails(q) PROVE SessionsTypeOK'
  BY <1>9 DEF SessionsTypeOK, ClaimFails, Claimable, Fault, Proceed
<1>10. ASSUME NEW q \in Exchanges, ExchangeFails(q) PROVE SessionsTypeOK'
  BY <1>10 DEF SessionsTypeOK, ExchangeFails, Return, Fault, Proceed,
               tokens
<1>11. ASSUME NEW t \in Tokens, TokenExpires(t) PROVE SessionsTypeOK'
  BY <1>11 DEF SessionsTypeOK, TokenExpires
<1>12. CASE UNCHANGED sessionVars
  BY <1>12 DEF SessionsTypeOK, sessionVars
<1> QED
  BY <1>1, <1>2, <1>3, <1>4, <1>5, <1>6, <1>7, <1>8, <1>9, <1>10, <1>11,
     <1>12 DEF SessionsNext, ExchangeStep

-----------------------------------------------------------------------------
(* SessionsAreNotCloned, in terms of tokens and requests.                  *)

\* A token that can be exchanged for its family.
LiveIn(t, f) == tokenRow[t] = "live" /\ fam[t] = f

\* A request that exchanges it.
HoldsIt(q, f) == family[q] = f /\ pc[q] \in {"risk", "session", "token"}

Exclusive ==
  \A f \in Families :
    /\ \A s, t \in Tokens : LiveIn(s, f) /\ LiveIn(t, f) => s = t
    /\ \A p, q \in Exchanges : HoldsIt(p, f) /\ HoldsIt(q, f) => p = q
    /\ \A t \in Tokens, q \in Exchanges : ~(LiveIn(t, f) /\ HoldsIt(q, f))

\* Exclusive is SessionsAreNotCloned without its sets.
LEMMA ExclusiveMeans == Exclusive <=> SessionsAreNotCloned
<1>1. ASSUME Exclusive PROVE SessionsAreNotCloned
  BY <1>1 DEF Exclusive, SessionsAreNotCloned, Live, Holding, LiveIn,
              HoldsIt
<1>2. ASSUME SessionsAreNotCloned PROVE Exclusive
  BY <1>2 DEF Exclusive, SessionsAreNotCloned, Live, Holding, LiveIn,
              HoldsIt
<1> QED
  BY <1>1, <1>2

\* A step that makes no token live and lets no request hold a family keeps
\* families exclusive.
LEMMA ExclusiveShrinks ==
  ASSUME Exclusive,
         \A f \in Families, t \in Tokens : LiveIn(t, f)' => LiveIn(t, f),
         \A f \in Families, q \in Exchanges : HoldsIt(q, f)' => HoldsIt(q, f)
  PROVE  Exclusive'
  BY DEF Exclusive

\* Every step keeps families exclusive.
LEMMA ExclusiveNext ==
  SessionsTypeOK /\ Exclusive /\ [SessionsNext]_sessionVars => Exclusive'
<1> SUFFICES ASSUME SessionsTypeOK, Exclusive, [SessionsNext]_sessionVars PROVE Exclusive'
  OBVIOUS
<1> USE NoNumbers DEF LiveIn, HoldsIt
<1>1. ASSUME NEW q \in Exchanges, NEW f \in Families, Login(q, f)
      PROVE Exclusive'
  BY <1>1 DEF SessionsTypeOK, Exclusive, Login, Proceed, tokens
<1>2. ASSUME NEW q \in Exchanges, NEW t \in Tokens, PresentToken(q, t)
      PROVE Exclusive'
  BY <1>2, ExclusiveShrinks DEF SessionsTypeOK, PresentToken, Proceed, tokens
<1>3. ASSUME NEW q \in Exchanges, CreateSession(q) PROVE Exclusive'
  BY <1>3, ExclusiveShrinks DEF SessionsTypeOK, CreateSession, Proceed, tokens
<1>4. ASSUME NEW q \in Exchanges, NEW t \in Tokens, CreateRefreshToken(q, t) PROVE Exclusive'
  BY <1>4 DEF SessionsTypeOK, Exclusive, CreateRefreshToken, Return, Proceed
<1>5. ASSUME NEW q \in Exchanges, ClaimRefreshToken(q) PROVE Exclusive'
  BY <1>5 DEF SessionsTypeOK, Exclusive, ClaimRefreshToken, Claimable, Proceed
<1>6. ASSUME NEW q \in Exchanges, ClaimRefused(q) PROVE Exclusive'
  BY <1>6, ExclusiveShrinks DEF SessionsTypeOK, ClaimRefused, Proceed, tokens
<1>7. ASSUME NEW q \in Exchanges, RevokeRefreshTokenFamilyByHash(q) PROVE Exclusive'
  BY <1>7, ExclusiveShrinks
     DEF SessionsTypeOK, RevokeRefreshTokenFamilyByHash,
         RevokeRefreshTokenFamily, Return, Proceed
<1>8. ASSUME NEW q \in Exchanges, AssessRisk(q) PROVE Exclusive'
  BY <1>8, ExclusiveShrinks DEF SessionsTypeOK, AssessRisk, Proceed, tokens
<1>9. ASSUME NEW q \in Exchanges, ClaimFails(q) PROVE Exclusive'
  BY <1>9, ExclusiveShrinks DEF SessionsTypeOK, ClaimFails, Claimable, Proceed
<1>10. ASSUME NEW q \in Exchanges, ExchangeFails(q) PROVE Exclusive'
  BY <1>10, ExclusiveShrinks DEF SessionsTypeOK, ExchangeFails, Return,
                                 Proceed, tokens
<1>11. ASSUME NEW t \in Tokens, TokenExpires(t) PROVE Exclusive'
  BY <1>11, ExclusiveShrinks DEF SessionsTypeOK, TokenExpires
<1>12. CASE UNCHANGED sessionVars
  BY <1>12, ExclusiveShrinks DEF sessionVars
<1> QED
  BY <1>1, <1>2, <1>3, <1>4, <1>5, <1>6, <1>7, <1>8, <1>9, <1>10, <1>11,
     <1>12 DEF SessionsNext, ExchangeStep

-----------------------------------------------------------------------------

\* Refresh tokens, sessions and requests keep their types, and a request that
\* claimed a token knows its family (auth.go:83-141).
THEOREM SessionsTypeCorrect ==
  SessionsSpec => []SessionsTypeOK
<1> QED
  BY SessTypeInit, SessTypeNext, PTL DEF SessionsSpec

\* However many requests present a token, its family has one live token or
\* one request that exchanges it (repository_token.go:55-77).
THEOREM SessionsNotCloned ==
  SessionsSpec => []SessionsAreNotCloned
<1>1. SessionsInit => Exclusive
  BY DEF SessionsInit, Exclusive, LiveIn, HoldsIt
<1>2. Exclusive => SessionsAreNotCloned
  BY ExclusiveMeans
<1> QED
  BY <1>1, <1>2, ExclusiveNext, SessionsTypeCorrect, PTL DEF SessionsSpec

-----------------------------------------------------------------------------
(* FamiliesEnd: a family that has neither a live token nor a holder.       *)

Ended(f) ==
  /\ \A t \in Tokens : ~LiveIn(t, f)
  /\ \A q \in Exchanges : ~HoldsIt(q, f)

\* Ended is the condition of FamiliesEnd without its sets.
LEMMA EndedMeans ==
  \A f \in Families : Ended(f) <=> Live(f) = {} /\ Holding(f) = {}
  BY DEF Ended, Live, Holding, LiveIn, HoldsIt

\* Only a login opens a family, and only one that was never opened.
LEMMA EndedNext ==
  ASSUME SessionsTypeOK, [SessionsNext]_sessionVars, NEW f \in opened, Ended(f)
  PROVE  Ended(f)'
<1> USE NoNumbers DEF Ended, LiveIn, HoldsIt
<1>1. ASSUME NEW q \in Exchanges, NEW g \in Families, Login(q, g)
      PROVE Ended(f)'
  BY <1>1 DEF SessionsTypeOK, Login, Proceed, tokens
<1>2. ASSUME NEW q \in Exchanges, NEW t \in Tokens, PresentToken(q, t)
      PROVE Ended(f)'
  BY <1>2 DEF SessionsTypeOK, PresentToken, Proceed, tokens
<1>3. ASSUME NEW q \in Exchanges, CreateSession(q) PROVE Ended(f)'
  BY <1>3 DEF SessionsTypeOK, CreateSession, Proceed, tokens
<1>4. ASSUME NEW q \in Exchanges, NEW t \in Tokens, CreateRefreshToken(q, t) PROVE Ended(f)'
  BY <1>4 DEF SessionsTypeOK, CreateRefreshToken, Return, Proceed
<1>5. ASSUME NEW q \in Exchanges, ClaimRefreshToken(q) PROVE Ended(f)'
  BY <1>5 DEF SessionsTypeOK, ClaimRefreshToken, Claimable, Proceed
<1>6. ASSUME NEW q \in Exchanges, ClaimRefused(q) PROVE Ended(f)'
  BY <1>6 DEF SessionsTypeOK, ClaimRefused, Proceed, tokens
<1>7. ASSUME NEW q \in Exchanges, RevokeRefreshTokenFamilyByHash(q) PROVE Ended(f)'
  BY <1>7 DEF SessionsTypeOK, RevokeRefreshTokenFamilyByHash,
              RevokeRefreshTokenFamily, Return, Proceed
<1>8. ASSUME NEW q \in Exchanges, AssessRisk(q) PROVE Ended(f)'
  BY <1>8 DEF SessionsTypeOK, AssessRisk, Proceed, tokens
<1>9. ASSUME NEW q \in Exchanges, ClaimFails(q) PROVE Ended(f)'
  BY <1>9 DEF SessionsTypeOK, ClaimFails, Claimable, Proceed
<1>10. ASSUME NEW q \in Exchanges, ExchangeFails(q) PROVE Ended(f)'
  BY <1>10 DEF SessionsTypeOK, ExchangeFails, Return, Proceed, tokens
<1>11. ASSUME NEW t \in Tokens, TokenExpires(t) PROVE Ended(f)'
  BY <1>11 DEF SessionsTypeOK, TokenExpires
<1>12. CASE UNCHANGED sessionVars
  BY <1>12 DEF sessionVars
<1> QED
  BY <1>1, <1>2, <1>3, <1>4, <1>5, <1>6, <1>7, <1>8, <1>9, <1>10, <1>11,
     <1>12 DEF SessionsNext, ExchangeStep

\* A family that ended while nobody was exchanging its token stays ended,
\* whatever old tokens are presented (auth.go:120-133).
THEOREM SessionFamiliesEnd ==
  SessionsSpec => FamiliesEnd
<1> DEFINE Stays ==
      \A f \in opened : Live(f) = {} /\ Holding(f) = {} =>
        (Live(f) = {} /\ Holding(f) = {})'
<1>1. SessionsTypeOK /\ [SessionsNext]_sessionVars => [Stays]_sessionVars
  <2> SUFFICES ASSUME SessionsTypeOK, [SessionsNext]_sessionVars, NEW f \in opened,
                      Live(f) = {} /\ Holding(f) = {}
               PROVE  (Live(f) = {} /\ Holding(f) = {})'
    OBVIOUS
  <2>1. f \in Families
    BY DEF SessionsTypeOK
  <2>2. Ended(f)'
    BY <2>1, EndedMeans, EndedNext
  <2> QED
    BY <2>2 DEF Ended, Live, Holding, LiveIn, HoldsIt
<1> QED
  BY <1>1, SessionsTypeCorrect, PTL DEF SessionsSpec, FamiliesEnd

-----------------------------------------------------------------------------
(* SessionsLast: what keeps a family that is not spoiled.                  *)

\* As long as nothing fails: a token of such a family which nobody has
\* presented is live, a request that has presented one is the only one and
\* can claim it, and nobody revokes the family.
Kept ==
  faults = 0 =>
    /\ \A f \in opened : Ended(f) => f \in spoiled
    /\ \A t \in Tokens : tokenRow[t] # "none" /\ t \notin presented =>
         tokenRow[t] = "live" \/ fam[t] \in spoiled
    /\ \A q \in Exchanges : pc[q] = "claim" =>
         /\ token[q] \in presented
         /\ tokenRow[token[q]] = "live" \/ fam[token[q]] \in spoiled
         /\ \A p \in Exchanges :
              pc[p] = "claim" /\ token[p] = token[q] => p = q \/ fam[token[q]] \in spoiled
    /\ \A q \in Exchanges : pc[q] = "reuse" => fam[token[q]] \in spoiled

\* Every step without a fault keeps it.
LEMMA KeptNext ==
  SessionsTypeOK /\ Kept /\ [SessionsNext]_sessionVars => Kept'
<1> SUFFICES ASSUME SessionsTypeOK, Kept, [SessionsNext]_sessionVars, faults' = 0 PROVE Kept'
  BY DEF Kept
<1>0. ~Fault
  BY MaxFaultsAssumption DEF Fault, SessionsTypeOK
<1> USE NoNumbers DEF Ended, LiveIn, HoldsIt
<1>1. ASSUME NEW q \in Exchanges, NEW f \in Families, Login(q, f) PROVE Kept'
  BY <1>1 DEF SessionsTypeOK, Kept, Login, Proceed, tokens, past
<1>2. ASSUME NEW q \in Exchanges, NEW t \in Tokens, PresentToken(q, t) PROVE Kept'
  BY <1>2 DEF SessionsTypeOK, Kept, PresentToken, Proceed, tokens
<1>3. ASSUME NEW q \in Exchanges, CreateSession(q) PROVE Kept'
  BY <1>3 DEF SessionsTypeOK, Kept, CreateSession, Proceed, tokens, past
<1>4. ASSUME NEW q \in Exchanges, NEW t \in Tokens, CreateRefreshToken(q, t) PROVE Kept'
  BY <1>4 DEF SessionsTypeOK, Kept, CreateRefreshToken, Return, Proceed, past
<1>5. ASSUME NEW q \in Exchanges, ClaimRefreshToken(q) PROVE Kept'
  BY <1>5 DEF SessionsTypeOK, Kept, ClaimRefreshToken, Claimable, Proceed, past
<1>6. ASSUME NEW q \in Exchanges, ClaimRefused(q) PROVE Kept'
  BY <1>6 DEF SessionsTypeOK, Kept, ClaimRefused, Claimable, Proceed, tokens, past
<1>7. ASSUME NEW q \in Exchanges, RevokeRefreshTokenFamilyByHash(q) PROVE Kept'
  BY <1>7 DEF SessionsTypeOK, Kept, RevokeRefreshTokenFamilyByHash,
              RevokeRefreshTokenFamily, Return, Proceed, past
<1>8. ASSUME NEW q \in Exchanges, AssessRisk(q) PROVE Kept'
  BY <1>8 DEF SessionsTypeOK, Kept, AssessRisk, Proceed, tokens, past
<1>9. ASSUME NEW t \in Tokens, TokenExpires(t) PROVE Kept'
  BY <1>9 DEF SessionsTypeOK, Kept, TokenExpires
<1>10. CASE UNCHANGED sessionVars
  BY <1>10 DEF Kept, sessionVars
<1> QED
  BY <1>0, <1>1, <1>2, <1>3, <1>4, <1>5, <1>6, <1>7, <1>8, <1>9, <1>10
     DEF SessionsNext, ExchangeStep, ClaimFails, ExchangeFails

\* Nobody is logged out for what happens to another session: without faults
\* a family ends only after one of its tokens expired or was presented twice
\* (auth.go:118-141, repository_token.go:55-90).
THEOREM SessionsLastWithoutCause ==
  SessionsSpec => []SessionsLast
<1>1. SessionsInit => Kept
  BY DEF SessionsInit, Kept
<1>2. SessionsTypeOK /\ Kept => SessionsLast
  <2> SUFFICES ASSUME SessionsTypeOK, Kept, faults = 0, NEW f \in opened, f \notin spoiled
               PROVE  Live(f) \cup Holding(f) # {}
    BY DEF SessionsLast
  <2>1. ~Ended(f) /\ f \in Families
    BY DEF Kept, SessionsTypeOK
  <2> QED BY <2>1, EndedMeans
<1> QED
  BY <1>1, <1>2, KeptNext, SessionsTypeCorrect, PTL DEF SessionsSpec

-----------------------------------------------------------------------------
(* Login: the requests.                                                    *)

\* What is used up by taking it out of Redis.
OneTime == {"challenge", "code", "webauthn"}

\* What a request may still draw and store under its number.
Draws(at) ==
  {kind \in OneTime :
     \/ at = "new"
     \/ kind = "challenge" /\ at \in {"compare", "reset", "configs", "challenge"}
     \/ /\ kind = "code"
        /\ at \in {"compare", "reset", "configs", "challenge", "nonce", "validate", "consume",
                   "issue", "issue again", "code"}}

\* Where a request may still draw backup codes.
Backing == {"new", "upsert", "enable", "backup"}

\* The proofs that a request has taken and not spent yet.  A TOTP code is of no
\* use when its time is over.
Carried(r) ==
  IF r.pc \in {"nonce", "consume"} THEN {<<"challenge", r.challenge>>}
  ELSE IF r.pc = "validate"
       THEN {<<"challenge", r.challenge>>} \cup {p \in {<<"totp", r.user, r.code>>} : now <= r.code.step + 1}
  ELSE IF r.pc \in {"issue", "find", "create", "link", "link old", "sign"} THEN r.proof
  ELSE {}

Held(n) == Carried(req[n])

\* A request is n's at its statement.
AllRequests == UnderWay \cup {New, Done}

\* The statement says which request it is.
LEMMA RequestKinds ==
  ASSUME NEW r \in AllRequests
  PROVE  /\ r.pc \in {"compare", "increment", "reset", "configs", "challenge", "issue again", "code"}
              => r \in PasswordRequests
         /\ r.pc = "issue" => r \in PasswordRequests \/ r \in AcceptedRequests
         /\ r.pc = "lock" => r \in LockRequests
         /\ r.pc \in {"nonce", "validate"} => r \in CodeRequests
         /\ r.pc = "consume" => r \in BackupRequests
         /\ r.pc \in {"upsert", "enable", "backup", "save"} => r \in TokenRequests
         /\ r.pc \in {"find", "create", "link", "link old", "sign"} => r \in SamlRequests
         /\ r.pc = "new" => r = New
         /\ r.pc = "done" => r = Done
<1>1. r \in PasswordRequests =>
        r.pc \in {"compare", "increment", "reset", "configs", "challenge", "issue", "issue again", "code"}
  BY DEF PasswordRequests
<1>2. r \in LockRequests => r.pc = "lock"
  BY DEF LockRequests
<1>3. r \in AcceptedRequests => r.pc = "issue"
  BY DEF AcceptedRequests
<1>4. r \in CodeRequests => r.pc \in {"nonce", "validate"}
  BY DEF CodeRequests
<1>5. r \in BackupRequests => r.pc = "consume"
  BY DEF BackupRequests
<1>6. r \in TokenRequests => r.pc \in {"upsert", "enable", "backup", "save"}
  BY DEF TokenRequests
<1>7. r \in SamlRequests => r.pc \in {"find", "create", "link", "link old", "sign"}
  BY DEF SamlRequests
<1>8. New.pc = "new" /\ Done.pc = "done"
  BY DEF New, Done
<1> QED BY <1>1, <1>2, <1>3, <1>4, <1>5, <1>6, <1>7, <1>8 DEF AllRequests, UnderWay

\* A request that goes to its next statement keeps what it has.
LEMMA MovedPassword ==
  ASSUME NEW r \in PasswordRequests,
         NEW l \in {"compare", "increment", "reset", "configs", "challenge", "issue", "issue again", "code"}
  PROVE  /\ [r EXCEPT !.pc = l] \in AllRequests /\ [r EXCEPT !.pc = l].pc = l
         /\ [r EXCEPT !.pc = l].proof = {} /\ r.proof = {}
<1>1. [r EXCEPT !.pc = l] \in PasswordRequests
  BY DEF PasswordRequests
<1> QED BY <1>1 DEF AllRequests, UnderWay, PasswordRequests

\* The same for the requests of the second factor.
LEMMA MovedCode ==
  ASSUME NEW r \in CodeRequests
  PROVE  /\ [r EXCEPT !.pc = "validate"] \in AllRequests /\ [r EXCEPT !.pc = "validate"].pc = "validate"
         /\ [r EXCEPT !.pc = "validate"].user = r.user /\ [r EXCEPT !.pc = "validate"].code = r.code
         /\ [r EXCEPT !.pc = "validate"].challenge = r.challenge
<1>1. [r EXCEPT !.pc = "validate"] \in CodeRequests
  BY DEF CodeRequests
<1> QED BY <1>1 DEF AllRequests, UnderWay, CodeRequests

\* The same for the requests with a token.
LEMMA MovedToken ==
  ASSUME NEW r \in TokenRequests, NEW l \in {"upsert", "enable", "backup", "save"}
  PROVE  [r EXCEPT !.pc = l] \in AllRequests /\ [r EXCEPT !.pc = l].pc = l
<1>1. [r EXCEPT !.pc = l] \in TokenRequests
  BY DEF TokenRequests
<1> QED BY <1>1 DEF AllRequests, UnderWay, TokenRequests

\* The same for SAML.
LEMMA MovedSaml ==
  ASSUME NEW r \in SamlRequests, NEW l \in {"find", "create", "link", "link old", "sign"}
  PROVE  /\ [r EXCEPT !.pc = l] \in AllRequests /\ [r EXCEPT !.pc = l].pc = l
         /\ [r EXCEPT !.pc = l].proof = r.proof
<1>1. [r EXCEPT !.pc = l] \in SamlRequests
  BY DEF SamlRequests
<1> QED BY <1>1 DEF AllRequests, UnderWay, SamlRequests

\* A request is done.
LEMMA IsDone == Done \in AllRequests /\ Done.pc = "done" /\ Carried(Done) = {} /\ Draws(Done.pc) = {}
<1>1. Done.pc = "done"
  BY DEF Done
<1> QED BY <1>1 DEF AllRequests, Carried, Draws

\* A password that is asked about was read with the lock of that moment, and is
\* counted as wrong only when that lock was over.
Asks(n, r) ==
  \/ req[n].pc = "new" /\ r.pc = "compare" /\ r.user \in Users /\ r.locked = row[r.user].locked
  \/ /\ req[n].pc = "compare" /\ r.pc = "increment" /\ r.user = req[n].user
     /\ req[n].locked = 0 \/ req[n].locked <= now

\* The request n becomes r, with the proofs of S besides its own.
Becomes(n, r, S) ==
  /\ req' = [req EXCEPT ![n] = r] /\ r \in AllRequests /\ r.pc # "new"
  /\ now' = now
  /\ Carried(r) \subseteq Held(n) \cup S
  /\ Draws(r.pc) \subseteq Draws(req[n].pc)
  /\ r.pc \in Backing => req[n].pc \in Backing
  /\ r.pc = "nonce" => r.code.step <= now + 1
  /\ req[n].pc # "done"
  /\ req[n].pc = "new" => Cardinality(Active) < Slots
  /\ r.pc \in {"compare", "increment"} => Asks(n, r)

\* What a step of a request needs of the types.
RowTyped ==
  row \in [Users -> [exists : BOOLEAN, status : {"initializing", "active"}, password : BOOLEAN,
                     failed : Nat, locked : Nat, mfa : BOOLEAN, external : BOOLEAN]]
ReqTyped ==
  /\ RowTyped
  /\ req \in [Requests -> AllRequests]
  /\ \A n \in Requests : req[n].pc = "nonce" => req[n].code.step <= now + 1
  /\ now \in Nat

\* Only the request changes.
Quiet(n, r) == Becomes(n, r, {}) /\ UNCHANGED <<store, config, issued, loggedOut>>

\* A request ends.
LEMMA Ends ==
  ASSUME NEW n \in Requests, Finish(n), req[n].pc \notin {"new", "done"}, now' = now
  PROVE  \A S : Becomes(n, Done, S)
<1>1. Done.pc = "done" /\ "done" \notin Backing
  BY DEF Done, Backing
<1> QED BY <1>1, IsDone DEF Becomes, Finish

\* A request comes in.
LEMMA Comes ==
  ASSUME ReqTyped, NEW n \in Requests, NEW r, Receive(n, r), r \in AllRequests, r.pc # "new", now' = now,
         r.pc = "nonce" => r.code.step <= now + 1, NEW S, Carried(r) \subseteq S,
         r.pc \in {"compare", "increment"} => Asks(n, r)
  PROVE  Becomes(n, r, S) /\ req[n].pc = "new"
<1>1. req[n].pc = "new"
  BY DEF Receive, New
<1>2. Draws("new") = OneTime /\ Draws(r.pc) \subseteq OneTime /\ "new" \in Backing
  BY DEF Draws, Backing
<1> QED BY <1>1, <1>2 DEF Receive, Becomes

\* A record that is read from users.
LEMMA RowFields ==
  ASSUME RowTyped, NEW u \in Users
  PROVE  /\ row[u].exists \in BOOLEAN /\ row[u].status \in {"initializing", "active"}
         /\ row[u].password \in BOOLEAN /\ row[u].failed \in Nat /\ row[u].locked \in Nat
BY DEF RowTyped

\* Which requests are password requests, and to whom they belong.
LEMMA OfPassword ==
  ASSUME ReqTyped, NEW n \in Requests
  PROVE  /\ req[n] \in AllRequests
         /\ req[n].pc \in {"compare", "increment", "reset", "configs", "challenge", "issue again", "code"} =>
              /\ req[n] \in PasswordRequests /\ req[n].user \in Users /\ req[n].proof = {}
              /\ req[n].via \in {"login", "oauth", "grant"} /\ Held(n) = {}
         /\ req[n].pc = "lock" => req[n].user \in Users /\ req[n].count \in Nat
<1>1. req[n] \in AllRequests
  BY DEF ReqTyped
<1>2. ASSUME req[n].pc \in {"compare", "increment", "reset", "configs", "challenge", "issue again", "code"}
      PROVE  /\ req[n] \in PasswordRequests /\ req[n].user \in Users /\ req[n].proof = {}
             /\ req[n].via \in {"login", "oauth", "grant"} /\ Held(n) = {}
  <2>1. req[n] \in PasswordRequests
    BY <1>1, <1>2, RequestKinds
  <2>2. req[n].user \in Users /\ req[n].proof = {} /\ req[n].via \in {"login", "oauth", "grant"}
    BY <2>1 DEF PasswordRequests
  <2>3. Held(n) = {}
    BY <1>2 DEF Held, Carried
  <2> QED BY <2>1, <2>2, <2>3
<1>3. req[n].pc = "lock" => req[n].user \in Users /\ req[n].count \in Nat
  BY <1>1, RequestKinds DEF LockRequests
<1> QED BY <1>1, <1>2, <1>3

\* A password request goes to its next statement.
LEMMA GoesOn ==
  ASSUME ReqTyped, NEW n \in Requests, NEW l, Goto(n, l), now' = now,
         \/ /\ req[n].pc = "compare" /\ l \in {"increment", "reset"}
            /\ req[n].locked = 0 \/ req[n].locked <= now
         \/ req[n].pc = "reset" /\ l = "configs"
         \/ req[n].pc = "configs" /\ l \in {"challenge", "issue"}
         \/ req[n].pc \in {"challenge", "issue", "issue again"} /\ l = "code" /\ req[n] \in PasswordRequests
         \/ req[n].pc = "issue" /\ l = "issue again" /\ req[n] \in PasswordRequests
  PROVE  Becomes(n, [req[n] EXCEPT !.pc = l], {}) /\ [req[n] EXCEPT !.pc = l].pc = l
<1>1. req[n] \in PasswordRequests
  BY OfPassword
<1>2. PICK r : r = [req[n] EXCEPT !.pc = l]
  OBVIOUS
<1>3. r \in AllRequests /\ r.pc = l /\ r.proof = {}
  <2>1. l \in {"compare", "increment", "reset", "configs", "challenge", "issue", "issue again", "code"}
    OBVIOUS
  <2> QED BY <1>1, <1>2, <2>1, MovedPassword
<1>4. req' = [req EXCEPT ![n] = r]
  BY <1>2 DEF Goto, ReqTyped
<1>5. Carried(r) = {}
  BY <1>3 DEF Carried
<1>6. Draws(r.pc) \subseteq Draws(req[n].pc)
  BY <1>3 DEF Draws
<1>7. r.pc \notin Backing /\ r.pc \notin {"nonce", "new"} /\ req[n].pc # "new"
  BY <1>3 DEF Backing
<1>8. r.pc \in {"compare", "increment"} => Asks(n, r)
  <2>1. r.user = req[n].user
    BY <1>1, <1>2 DEF PasswordRequests
  <2> QED BY <1>3, <2>1 DEF Asks
<1> QED BY <1>2, <1>3, <1>4, <1>5, <1>6, <1>7, <1>8 DEF Becomes

\* A password comes in.
LEMMA PasswordComes ==
  ASSUME ReqTyped, NEW n \in Requests, PasswordRequest(n) PROVE \E r : Quiet(n, r)
<1>1. ASSUME NEW u \in Users, NEW right \in BOOLEAN, NEW via \in {"login", "oauth", "grant"}
      PROVE  /\ GetUserByEmail(u, right, via) \in PasswordRequests
             /\ GetUserByEmail(u, right, via).pc = "compare"
  <2>1. row[u].status \in {"initializing", "active"} /\ row[u].locked \in Nat
    BY RowFields DEF ReqTyped
  <2>2. (right /\ row[u].password) \in BOOLEAN
    OBVIOUS
  <2> QED BY <2>1, <2>2 DEF GetUserByEmail, PasswordRequests
<1>2. PICK u \in Users, right \in BOOLEAN, via \in {"login", "oauth", "grant"} :
        Receive(n, GetUserByEmail(u, right, via))
  BY DEF PasswordRequest, HandleLogin, HandleOAuthLogin, HandlePasswordGrant
<1>3. PICK r : r = GetUserByEmail(u, right, via)
  OBVIOUS
<1>4. r \in AllRequests /\ r.pc = "compare"
  BY <1>1, <1>3 DEF AllRequests, UnderWay
<1>5. Carried(r) = {} /\ now' = now /\ UNCHANGED <<store, config, issued, loggedOut>>
  BY <1>4 DEF Carried, PasswordRequest, db, history
<1>6. Asks(n, r)
  <2>1. r.user = u /\ r.locked = row[u].locked
    BY <1>3 DEF GetUserByEmail
  <2>2. req[n].pc = "new"
    BY <1>2 DEF Receive, New
  <2> QED BY <1>4, <2>1, <2>2 DEF Asks
<1>7. Becomes(n, r, {})
  BY <1>2, <1>3, <1>4, <1>5, <1>6, Comes
<1> QED BY <1>5, <1>7 DEF Quiet

\* The statements of a password request before it is accepted, and any that fails.
LEMMA PasswordSteps ==
  ASSUME ReqTyped, NEW n \in Requests,
         \/ Compare(n) \/ IncrementFailedLogin(n) \/ LockAccount(n) \/ ResetFailedLogin(n)
         \/ ListMFAConfigs(n) \/ RequestFails(n)
  PROVE  \E r : Quiet(n, r)
<1>1. ASSUME Finish(n), req[n].pc \notin {"new", "done"}, now' = now, UNCHANGED <<store, config, issued, loggedOut>>
      PROVE  \E r : Quiet(n, r)
  <2>1. Quiet(n, Done)
    BY <1>1, Ends DEF Quiet
  <2> QED BY <2>1
<1>2. CASE Compare(n)
  <2>1. /\ req[n].pc = "compare" /\ UNCHANGED <<now, store, config, issued, loggedOut>>
        /\ Finish(n) \/ Goto(n, "reset") \/ Goto(n, "increment")
    BY <1>2 DEF Compare, db, history
  <2>2. CASE Finish(n)
    BY <1>1, <2>1, <2>2
  <2>3. ASSUME NEW l \in {"reset", "increment"}, Goto(n, l), ~Refused(n) PROVE \E r : Quiet(n, r)
    <3>1. req[n].locked = 0 \/ req[n].locked <= now
      <4>1. req[n].locked \in Nat /\ now \in Nat
        BY <2>1, OfPassword DEF PasswordRequests, ReqTyped
      <4> QED BY <2>3, <4>1 DEF Refused
    <3>2. Quiet(n, [req[n] EXCEPT !.pc = l])
      BY <2>1, <2>3, <3>1, GoesOn DEF Quiet
    <3> QED BY <3>2
  <2> QED BY <1>2, <2>2, <2>3 DEF Compare
<1>3. CASE IncrementFailedLogin(n)
  <2>1. /\ req[n].pc = "increment" /\ UNCHANGED <<now, store, config, issued, loggedOut>>
        /\ \/ Finish(n)
           \/ req' = [req EXCEPT ![n] = [pc |-> "lock", user |-> req[n].user, count |-> row[req[n].user].failed + 1]]
    BY <1>3 DEF IncrementFailedLogin
  <2>2. PICK r : r = [pc |-> "lock", user |-> req[n].user, count |-> row[req[n].user].failed + 1]
    OBVIOUS
  <2>3. req[n].user \in Users /\ row[req[n].user].failed \in Nat
    BY <2>1, OfPassword, RowFields DEF ReqTyped
  <2>4. r \in LockRequests /\ r.pc = "lock"
    BY <2>2, <2>3 DEF LockRequests
  <2>5. r \in AllRequests
    BY <2>4 DEF AllRequests, UnderWay
  <2>6. Carried(r) = {} /\ Draws(r.pc) = {} /\ r.pc \notin Backing
    BY <2>4 DEF Carried, Draws, Backing
  <2>7. CASE req' = [req EXCEPT ![n] = r]
    <3>1. Becomes(n, r, {})
      BY <2>1, <2>4, <2>5, <2>6, <2>7 DEF Becomes
    <3> QED BY <2>1, <3>1 DEF Quiet
  <2> QED BY <1>1, <2>1, <2>2, <2>7
<1>4. CASE LockAccount(n)
  BY <1>1, <1>4 DEF LockAccount
<1>5. CASE ResetFailedLogin(n)
  <2>1. req[n].pc = "reset" /\ UNCHANGED <<now, store, config, issued, loggedOut>> /\ Goto(n, "configs")
    BY <1>5 DEF ResetFailedLogin
  <2>2. Quiet(n, [req[n] EXCEPT !.pc = "configs"])
    BY <2>1, GoesOn DEF Quiet
  <2> QED BY <2>2
<1>6. CASE ListMFAConfigs(n)
  <2>1. /\ req[n].pc = "configs" /\ UNCHANGED <<now, store, config, issued, loggedOut>>
        /\ Goto(n, "issue") \/ Goto(n, "challenge")
    BY <1>6 DEF ListMFAConfigs, db, history
  <2>2. ASSUME NEW l \in {"issue", "challenge"}, Goto(n, l) PROVE \E r : Quiet(n, r)
    <3>1. Quiet(n, [req[n] EXCEPT !.pc = l])
      BY <2>1, <2>2, GoesOn DEF Quiet
    <3> QED BY <3>1
  <2> QED BY <2>1, <2>2
<1>7. CASE RequestFails(n)
  <2>1. /\ Finish(n) /\ req[n].pc \notin {"new", "done"} /\ now' = now /\ UNCHANGED <<store, config, issued, loggedOut>>
    BY <1>7 DEF RequestFails, Active, db, history
  <2> QED BY <1>1, <2>1
<1> QED BY <1>2, <1>3, <1>4, <1>5, <1>6, <1>7

-----------------------------------------------------------------------------
(* Login: what a step does to Redis, the second factors and the tokens.    *)

\* The keys of Redis.
StoreTyped ==
  \A k \in store : /\ k.user \in Users /\ k.until \in Nat /\ now < k.until
                   /\ k.key = <<k.key[1], k.key[2]>>
                   /\ k.key[1] \in OneTime => k.key[2] \in Int

\* A key is stored that the request draws, or that proves nothing.
Stores(n, r, k) ==
  /\ Becomes(n, r, {}) /\ store' = store \cup {k} /\ UNCHANGED <<config, issued, loggedOut>>
  /\ k.user \in Users /\ k.until \in Nat /\ now < k.until
  /\ \/ k.key = <<"registration", n>>
     \/ \E kind \in Draws(req[n].pc) \ Draws(r.pc) : k.key = <<kind, n>>

\* A key is taken, and with it what it proves.
Takes(n, r, k) ==
  /\ k \in store /\ store' = store \ {k} /\ UNCHANGED <<config, issued, loggedOut>>
  /\ \/ k.key[1] \in OneTime /\ Becomes(n, r, {k.key})
     \/ k.key[1] = "registration" /\ Becomes(n, r, {})

\* A TOTP code is marked as used.
Nonces(n, r) ==
  /\ req[n] \in CodeRequests /\ req[n].pc = "nonce" /\ Key("nonce", <<req[n].user, req[n].code>>) = {}
  /\ store' = store \cup {Set("nonce", <<req[n].user, req[n].code>>, req[n].user, now + Nonce)}
  /\ Becomes(n, r, {p \in {<<"totp", req[n].user, req[n].code>>} : now <= req[n].code.step + 1})
  /\ UNCHANGED <<config, issued, loggedOut>>

\* An assertion is marked as used.
Replays(n, r, a) ==
  /\ a \in Assertions /\ now < a.until /\ Key("saml", a.id) = {}
  /\ store' = store \cup {ReplayKey(a)}
  /\ Becomes(n, r, {<<"saml", a.id>>}) /\ UNCHANGED <<config, issued, loggedOut>>

\* A backup code is used up.
Consumes(n, r, u, c) ==
  /\ u \in Users /\ c \in config[u].backup
  /\ config' = [config EXCEPT ![u].backup = @ \ {c}]
  /\ Becomes(n, r, {<<"backup", u, c>>}) /\ UNCHANGED <<store, issued, loggedOut>>

\* A second factor is set up: the secret, or the backup codes.
Configures(n, r, u) ==
  /\ u \in Users /\ Becomes(n, r, {}) /\ UNCHANGED <<store, issued, loggedOut>>
  /\ \/ config' = [config EXCEPT ![u].secret = n]
     \/ config' = [config EXCEPT ![u].backup = {n}] /\ req[n].pc \in Backing /\ r.pc \notin Backing

\* A token is taken back.
LogsOut(n, r, t) ==
  /\ t \in issued /\ now < t.until
  /\ store' = store \cup {Blocklist(t)} /\ loggedOut' = loggedOut \cup {t}
  /\ Becomes(n, r, {}) /\ UNCHANGED <<config, issued>>

\* A token is issued, and what the request has proved is spent.
Issues(n, r, t) ==
  /\ issued' = issued \cup {t}
  /\ t \in [jti : Int \X {1, 2}, user : Users, until : Nat, proof : SUBSET Proofs]
  /\ t.proof \subseteq Held(n) /\ Carried(r) = {}
  /\ Becomes(n, r, {}) /\ UNCHANGED <<store, config, loggedOut>>

\* Any of them.
Moves(n) ==
  \E r : \/ Quiet(n, r)
         \/ Nonces(n, r)
         \/ \E k : Stores(n, r, k) \/ Takes(n, r, k)
         \/ \E a : Replays(n, r, a)
         \/ \E u, c : Consumes(n, r, u, c)
         \/ \E u : Configures(n, r, u)
         \/ \E t : LogsOut(n, r, t) \/ Issues(n, r, t)

\* A challenge or a code is stored.
LEMMA StoringSteps ==
  ASSUME ReqTyped, NEW n \in Requests, StoreChallenge(n) \/ StoreAuthCode(n) PROVE Moves(n)
<1>1. CASE StoreChallenge(n)
  <2>1. /\ req[n].pc = "challenge" /\ UNCHANGED <<now, config, issued, loggedOut>>
        /\ \/ store' = store \cup {Set("challenge", n, req[n].user, now + ChallengeTTL)}
           \/ store' = store
        /\ Goto(n, "code") \/ Finish(n)
    BY <1>1 DEF StoreChallenge, db, history
  <2>2. PICK r : Becomes(n, r, {}) /\ r.pc \in {"code", "done"}
    <3>1. CASE Goto(n, "code")
      <4>1. req[n] \in PasswordRequests
        BY <2>1, OfPassword
      <4>2. PICK r : r = [req[n] EXCEPT !.pc = "code"]
        OBVIOUS
      <4>3. Becomes(n, r, {}) /\ r.pc = "code"
        BY <2>1, <3>1, <4>1, <4>2, GoesOn
      <4> QED BY <4>3
    <3>2. CASE Finish(n)
      BY <2>1, <3>2, Ends, IsDone
    <3> QED BY <2>1, <3>1, <3>2
  <2>3. CASE store' = store
    BY <2>1, <2>2, <2>3 DEF Moves, Quiet
  <2>4. CASE store' = store \cup {Set("challenge", n, req[n].user, now + ChallengeTTL)}
    <3>1. PICK k : k = Set("challenge", n, req[n].user, now + ChallengeTTL)
      OBVIOUS
    <3>2. req[n].user \in Users /\ ChallengeTTL \in Nat \ {0} /\ now \in Nat
      BY <2>1, OfPassword, TimesAssumption DEF ReqTyped
    <3>3. k.key = <<"challenge", n>> /\ k.user \in Users /\ k.until \in Nat /\ now < k.until
      BY <3>1, <3>2 DEF Set
    <3>4. "challenge" \in Draws(req[n].pc) \ Draws(r.pc)
      BY <2>1, <2>2 DEF Draws, OneTime
    <3>5. Stores(n, r, k)
      BY <2>1, <2>2, <2>4, <3>1, <3>3, <3>4 DEF Stores
    <3> QED BY <3>5 DEF Moves
  <2> QED BY <2>1, <2>3, <2>4
<1>2. CASE StoreAuthCode(n)
  <2>1. /\ req[n].pc = "code" /\ UNCHANGED <<now, config, issued, loggedOut>>
        /\ \/ store' = store \cup {Set("code", n, req[n].user, now + CodeTTL)}
           \/ store' = store
        /\ Finish(n)
    BY <1>2 DEF StoreAuthCode, db, history
  <2>2. Becomes(n, Done, {})
    BY <2>1, Ends
  <2>3. CASE store' = store
    BY <2>1, <2>2, <2>3 DEF Moves, Quiet
  <2>4. CASE store' = store \cup {Set("code", n, req[n].user, now + CodeTTL)}
    <3>1. PICK k : k = Set("code", n, req[n].user, now + CodeTTL)
      OBVIOUS
    <3>2. req[n].user \in Users /\ CodeTTL \in Nat \ {0} /\ now \in Nat
      BY <2>1, OfPassword, TimesAssumption DEF ReqTyped
    <3>3. k.key = <<"code", n>> /\ k.user \in Users /\ k.until \in Nat /\ now < k.until
      BY <3>1, <3>2 DEF Set
    <3>4. "code" \in Draws(req[n].pc) \ Draws(Done.pc)
      BY <2>1, IsDone DEF Draws, OneTime
    <3>5. Stores(n, Done, k)
      BY <2>1, <2>2, <2>4, <3>1, <3>3, <3>4 DEF Stores
    <3> QED BY <3>5 DEF Moves
  <2> QED BY <2>1, <2>3, <2>4
<1> QED BY <1>1, <1>2

\* Tokens are issued.
LEMMA IssuingSteps ==
  ASSUME ReqTyped, NEW n \in Requests, IssueTokens(n) \/ SignToken(n) PROVE Moves(n)
<1>0. n \in Int /\ now \in Nat /\ TokenTTL \in Nat /\ SamlTTL \in Nat
  BY TimesAssumption DEF Requests, ReqTyped
<1>1. CASE IssueTokens(n)
  <2>1. /\ req[n].pc \in {"issue", "issue again"} /\ UNCHANGED <<now, store, config, loggedOut>>
    BY <1>1 DEF IssueTokens, db
  <2>2. PICK i \in {1, 2} : issued' = issued \cup {Token(n, i, req[n].user, TokenTTL, req[n].proof)}
    BY <1>1 DEF IssueTokens
  <2>3. PICK t : t = Token(n, i, req[n].user, TokenTTL, req[n].proof)
    OBVIOUS
  <2>4. req[n] \in PasswordRequests \/ (req[n] \in AcceptedRequests /\ req[n].via = "login")
    BY <2>1, RequestKinds DEF ReqTyped, AcceptedRequests
  <2>5. req[n].user \in Users /\ req[n].proof \in SUBSET Proofs
    BY <2>4 DEF PasswordRequests, AcceptedRequests
  <2>6. req[n].proof \subseteq Held(n)
    <3>1. CASE req[n].pc = "issue"
      BY <3>1 DEF Held, Carried
    <3>2. CASE req[n].pc = "issue again"
      BY <3>2, OfPassword
    <3> QED BY <2>1, <3>1, <3>2
  <2>7. /\ t \in [jti : Int \X {1, 2}, user : Users, until : Nat, proof : SUBSET Proofs]
        /\ t.proof = req[n].proof
    BY <1>0, <2>3, <2>5 DEF Token
  <2>8. PICK r : Becomes(n, r, {}) /\ Carried(r) = {}
    <3>1. CASE Finish(n)
      BY <2>1, <3>1, Ends, IsDone
    <3>2. ASSUME NEW l \in {"code", "issue again"}, Goto(n, l), req[n].via # "login",
                 l = "issue again" => req[n].pc = "issue"
          PROVE  \E r : Becomes(n, r, {}) /\ Carried(r) = {}
      <4>1. req[n] \in PasswordRequests
        BY <2>4, <3>2
      <4>2. PICK r : r = [req[n] EXCEPT !.pc = l]
        OBVIOUS
      <4>3. Becomes(n, r, {}) /\ r.pc = l
        BY <2>1, <3>2, <4>1, <4>2, GoesOn
      <4>4. Carried(r) = {}
        BY <4>3 DEF Carried
      <4> QED BY <4>3, <4>4
    <3> QED BY <1>1, <2>1, <3>1, <3>2 DEF IssueTokens
  <2>9. Issues(n, r, t)
    BY <2>1, <2>2, <2>3, <2>6, <2>7, <2>8 DEF Issues
  <2> QED BY <2>9 DEF Moves
<1>2. CASE SignToken(n)
  <2>1. /\ req[n].pc = "sign" /\ UNCHANGED <<now, store, config, loggedOut>> /\ Finish(n)
        /\ issued' = issued \cup {Token(n, 1, req[n].user, SamlTTL, req[n].proof)}
    BY <1>2 DEF SignToken, db
  <2>2. req[n].user \in Users /\ req[n].proof \in SUBSET Proofs
    <3>1. req[n] \in SamlRequests
      BY <2>1, RequestKinds DEF ReqTyped
    <3> QED BY <3>1 DEF SamlRequests
  <2>3. req[n].proof = Held(n)
    BY <2>1 DEF Held, Carried
  <2>4. PICK t : t = Token(n, 1, req[n].user, SamlTTL, req[n].proof)
    OBVIOUS
  <2>5. /\ t \in [jti : Int \X {1, 2}, user : Users, until : Nat, proof : SUBSET Proofs]
        /\ t.proof = req[n].proof
    BY <1>0, <2>2, <2>4 DEF Token
  <2>6. Becomes(n, Done, {})
    BY <2>1, Ends
  <2>7. Issues(n, Done, t)
    BY <2>1, <2>3, <2>4, <2>5, <2>6, IsDone DEF Issues
  <2> QED BY <2>7 DEF Moves
<1> QED BY <1>1, <1>2

\* A factor that was accepted.
LEMMA IsAccepted ==
  ASSUME NEW u \in Users, NEW S \in SUBSET Proofs
  PROVE  /\ Accepted(u, S) \in AllRequests /\ Accepted(u, S).pc = "issue"
         /\ Carried(Accepted(u, S)) = S
<1>1. PICK r : r = Accepted(u, S)
  OBVIOUS
<1>2. r \in AcceptedRequests /\ r.pc = "issue" /\ r.proof = S
  BY <1>1 DEF Accepted, AcceptedRequests
<1>3. Carried(r) = S
  BY <1>2 DEF Carried
<1> QED BY <1>1, <1>2, <1>3 DEF AllRequests, UnderWay

\* The key of a factor is taken.
LEMMA TakingSteps ==
  ASSUME ReqTyped, StoreTyped, NEW n \in Requests, NEW k \in store,
         UNCHANGED <<config, issued, loggedOut, now>>,
         \/ \E ok \in BOOLEAN : HandleAuthCodeGrant(n, k, ok) \/ FinishWebAuthnLogin(n, k, ok)
         \/ HandleVerifyMFA(n, k) \/ HandleVerifyBackupCode(n, k),
         config \in [Users -> [secret : Int, backup : SUBSET Int]]
  PROVE  Moves(n)
<1>1. k.user \in Users /\ k.key = <<k.key[1], k.key[2]>> /\ (k.key[1] \in OneTime => k.key[2] \in Int)
      /\ now \in Nat
  BY DEF StoreTyped, ReqTyped
<1>2. ASSUME NEW r, Becomes(n, r, {k.key}), Take(k), k.key[1] \in OneTime PROVE Moves(n)
  <2>1. Takes(n, r, k)
    BY <1>2 DEF Takes, Take
  <2> QED BY <2>1 DEF Moves
<1>3. ASSUME Receive(n, Done), Take(k), k.key[1] \in OneTime PROVE Moves(n)
  <2>1. Becomes(n, Done, {k.key})
    BY <1>3, IsDone, Comes
  <2> QED BY <1>2, <1>3, <2>1
<1>4. ASSUME NEW kind \in {"code", "webauthn"}, k.key[1] = kind, Take(k),
             Receive(n, Accepted(k.user, {<<kind, k.key[2]>>}))
      PROVE  Moves(n)
  <2>1. PICK r : r = Accepted(k.user, {<<kind, k.key[2]>>})
    OBVIOUS
  <2>2. k.key[2] \in Int /\ k.key = <<kind, k.key[2]>>
    BY <1>1, <1>4 DEF OneTime
  <2>3. {<<kind, k.key[2]>>} \in SUBSET Proofs
    BY <2>2 DEF Proofs
  <2>4. r \in AllRequests /\ r.pc = "issue" /\ Carried(r) = {k.key}
    BY <1>1, <2>1, <2>2, <2>3, IsAccepted
  <2>5. Becomes(n, r, {k.key})
    BY <1>4, <2>1, <2>4, Comes
  <2> QED BY <1>2, <1>4, <2>5 DEF OneTime
<1>5. ASSUME NEW ok \in BOOLEAN, HandleAuthCodeGrant(n, k, ok) PROVE Moves(n)
  BY <1>3, <1>4, <1>5 DEF HandleAuthCodeGrant, OneTime
<1>6. ASSUME NEW ok \in BOOLEAN, FinishWebAuthnLogin(n, k, ok) PROVE Moves(n)
  BY <1>3, <1>4, <1>6 DEF FinishWebAuthnLogin, OneTime
<1>7. CASE HandleVerifyMFA(n, k)
  <2>1. PICK d, padded : /\ d \in -1..1 /\ padded \in BOOLEAN
                         /\ VerifyMFAAndLogin(n, k, [secret |-> config[k.user].secret, step |-> now + d, padded |-> padded])
    BY <1>7 DEF HandleVerifyMFA
  <2>2. PICK code : code = [secret |-> config[k.user].secret, step |-> now + d, padded |-> padded]
    OBVIOUS
  <2>3. code \in Codes /\ code.step <= now + 1
    <3>1. config[k.user].secret \in Int
      BY <1>1
    <3>2. now + d \in Int /\ now + d <= now + 1
      BY <1>1, <2>1
    <3>3. code \in Codes
      BY <2>1, <2>2, <3>1, <3>2, Zenon DEF Codes
    <3>4. code.step = now + d
      BY <2>2
    <3> QED BY <3>2, <3>3, <3>4
  <2>4. /\ k.key[1] = "challenge" /\ Take(k)
        /\ Receive(n, [pc |-> "nonce", user |-> k.user, challenge |-> k.key[2], code |-> code])
    BY <2>1, <2>2 DEF VerifyMFAAndLogin
  <2>5. PICK r : r = [pc |-> "nonce", user |-> k.user, challenge |-> k.key[2], code |-> code]
    OBVIOUS
  <2>6. k.key[2] \in Int /\ k.key = <<"challenge", k.key[2]>>
    BY <1>1, <2>4 DEF OneTime
  <2>7. r \in CodeRequests /\ r.pc = "nonce" /\ r.challenge = k.key[2] /\ r.code = code
    BY <1>1, <2>3, <2>5, <2>6 DEF CodeRequests
  <2>8. r \in AllRequests /\ Carried(r) = {k.key}
    BY <2>6, <2>7 DEF AllRequests, UnderWay, Carried
  <2>9. Becomes(n, r, {k.key})
    BY <2>3, <2>4, <2>5, <2>7, <2>8, Comes
  <2> QED BY <1>2, <2>4, <2>9 DEF OneTime
<1>8. CASE HandleVerifyBackupCode(n, k)
  <2>1. PICK code \in UNION {config[u].backup : u \in Users} : VerifyBackupCodeAndLogin(n, k, code)
    BY <1>8 DEF HandleVerifyBackupCode
  <2>2. code \in Int
    <3>1. \A u \in Users : config[u].backup \subseteq Int
      OBVIOUS
    <3> QED BY <3>1
  <2>3. /\ k.key[1] = "challenge" /\ Take(k)
        /\ Receive(n, [pc |-> "consume", user |-> k.user, challenge |-> k.key[2], code |-> code])
    BY <2>1 DEF VerifyBackupCodeAndLogin
  <2>4. PICK r : r = [pc |-> "consume", user |-> k.user, challenge |-> k.key[2], code |-> code]
    OBVIOUS
  <2>5. k.key[2] \in Int /\ k.key = <<"challenge", k.key[2]>>
    BY <1>1, <2>3 DEF OneTime
  <2>6. r \in BackupRequests /\ r.pc = "consume" /\ r.challenge = k.key[2]
    BY <1>1, <2>2, <2>4, <2>5 DEF BackupRequests
  <2>7. r \in AllRequests /\ Carried(r) = {k.key}
    BY <2>5, <2>6 DEF AllRequests, UnderWay, Carried
  <2>8. Becomes(n, r, {k.key})
    BY <2>3, <2>4, <2>6, <2>7, Comes
  <2> QED BY <1>2, <2>3, <2>8 DEF OneTime
<1> QED BY <1>5, <1>6, <1>7, <1>8

\* The statements of the second factor.
LEMMA FactorSteps ==
  ASSUME ReqTyped, NEW n \in Requests, SetNonce(n) \/ VerifyTOTP(n) \/ ConsumeBackupCode(n),
         config \in [Users -> [secret : Int, backup : SUBSET Int]]
  PROVE  Moves(n)
<1>1. CASE SetNonce(n)
  <2>1. req[n].pc = "nonce" /\ UNCHANGED <<now, config, issued, loggedOut>>
    BY <1>1 DEF SetNonce, db, history
  <2>2. req[n] \in CodeRequests
    BY <2>1, RequestKinds DEF ReqTyped
  <2>3. CASE store' = store /\ Finish(n)
    <3>1. Quiet(n, Done)
      BY <2>1, <2>3, Ends DEF Quiet
    <3> QED BY <3>1 DEF Moves
  <2>4. CASE /\ Key("nonce", <<req[n].user, req[n].code>>) = {}
             /\ store' = store \cup {Set("nonce", <<req[n].user, req[n].code>>, req[n].user, now + Nonce)}
             /\ Goto(n, "validate")
    <3>1. PICK r : r = [req[n] EXCEPT !.pc = "validate"]
      OBVIOUS
    <3>2. /\ r \in AllRequests /\ r.pc = "validate" /\ r.user = req[n].user /\ r.code = req[n].code
          /\ r.challenge = req[n].challenge
      BY <2>2, <3>1, MovedCode
    <3>3. req' = [req EXCEPT ![n] = r]
      BY <2>4, <3>1 DEF Goto, ReqTyped
    <3> DEFINE S == {p \in {<<"totp", req[n].user, req[n].code>>} : now <= req[n].code.step + 1}
    <3>4. Carried(r) = Held(n) \cup S
      BY <2>1, <3>2 DEF Carried, Held
    <3>5. Draws(r.pc) \subseteq Draws(req[n].pc) /\ r.pc \notin Backing
      BY <2>1, <3>2 DEF Draws, Backing
    <3>6. Becomes(n, r, S)
      BY <2>1, <3>2, <3>3, <3>4, <3>5 DEF Becomes
    <3>7. Nonces(n, r)
      BY <2>1, <2>2, <2>4, <3>6 DEF Nonces
    <3> QED BY <3>7 DEF Moves
  <2> QED BY <1>1, <2>3, <2>4 DEF SetNonce
<1>2. CASE VerifyTOTP(n)
  <2>1. req[n].pc = "validate" /\ UNCHANGED <<now, store, config, issued, loggedOut>>
    BY <1>2 DEF VerifyTOTP, db, history
  <2>2. req[n] \in CodeRequests
    BY <2>1, RequestKinds DEF ReqTyped
  <2>3. req[n].user \in Users /\ req[n].challenge \in Int /\ req[n].code \in Codes
    BY <2>2 DEF CodeRequests
  <2> DEFINE S == {<<"challenge", req[n].challenge>>, <<"totp", req[n].user, req[n].code>>}
  <2>4. CASE req' = [req EXCEPT ![n] = Done]
    <3>1. Quiet(n, Done)
      BY <2>1, <2>4, Ends DEF Quiet, Finish
    <3> QED BY <3>1 DEF Moves
  <2>5. CASE now \in req[n].code.step - 1..req[n].code.step + 1 /\ req' = [req EXCEPT ![n] = Accepted(req[n].user, S)]
    <3>1. PICK r : r = Accepted(req[n].user, S)
      OBVIOUS
    <3>2. S \in SUBSET Proofs
      BY <2>3 DEF Proofs
    <3>3. r \in AllRequests /\ r.pc = "issue" /\ Carried(r) = S
      BY <2>3, <3>1, <3>2, IsAccepted
    <3>4. now <= req[n].code.step + 1
      BY <2>3, <2>5 DEF Codes
    <3>5. S \subseteq Held(n)
      BY <2>1, <3>4 DEF Held, Carried
    <3>6. Draws(r.pc) \subseteq Draws(req[n].pc) /\ r.pc \notin Backing
      BY <2>1, <3>3 DEF Draws, Backing
    <3>7. Becomes(n, r, {})
      BY <2>1, <2>5, <3>1, <3>3, <3>5, <3>6 DEF Becomes
    <3>8. Quiet(n, r)
      BY <2>1, <3>7 DEF Quiet
    <3> QED BY <3>8 DEF Moves
  <2> QED BY <1>2, <2>4, <2>5 DEF VerifyTOTP, Validate
<1>3. CASE ConsumeBackupCode(n)
  <2>1. req[n].pc = "consume" /\ UNCHANGED <<now, store, issued, loggedOut>>
    BY <1>3 DEF ConsumeBackupCode, history
  <2>2. req[n] \in BackupRequests
    BY <2>1, RequestKinds DEF ReqTyped
  <2>3. req[n].user \in Users /\ req[n].challenge \in Int /\ req[n].code \in Int
    BY <2>2 DEF BackupRequests
  <2> DEFINE S == {<<"challenge", req[n].challenge>>, <<"backup", req[n].user, req[n].code>>}
  <2>4. CASE config' = config /\ req' = [req EXCEPT ![n] = Done]
    <3>1. Quiet(n, Done)
      BY <2>1, <2>4, Ends DEF Quiet, Finish
    <3> QED BY <3>1 DEF Moves
  <2>5. CASE /\ req[n].code \in config[req[n].user].backup
             /\ config' = [config EXCEPT ![req[n].user].backup = @ \ {req[n].code}]
             /\ req' = [req EXCEPT ![n] = Accepted(req[n].user, S)]
    <3>1. PICK r : r = Accepted(req[n].user, S)
      OBVIOUS
    <3>2. S \in SUBSET Proofs
      BY <2>3 DEF Proofs
    <3>3. r \in AllRequests /\ r.pc = "issue" /\ Carried(r) = S
      BY <2>3, <3>1, <3>2, IsAccepted
    <3>4. S \subseteq Held(n) \cup {<<"backup", req[n].user, req[n].code>>}
      BY <2>1 DEF Held, Carried
    <3>5. Draws(r.pc) \subseteq Draws(req[n].pc) /\ r.pc \notin Backing
      BY <2>1, <3>3 DEF Draws, Backing
    <3>6. Becomes(n, r, {<<"backup", req[n].user, req[n].code>>})
      BY <2>1, <2>5, <3>1, <3>3, <3>4, <3>5 DEF Becomes
    <3>7. Consumes(n, r, req[n].user, req[n].code)
      BY <2>1, <2>3, <2>5, <3>6 DEF Consumes
    <3> QED BY <2>3, <3>7 DEF Moves
  <2> QED BY <1>3, <2>4, <2>5 DEF ConsumeBackupCode
<1> QED BY <1>1, <1>2, <1>3


\* The statements behind a token: a second factor or a credential is set up.
LEMMA TokenSteps ==
  ASSUME ReqTyped, NEW n \in Requests,
         UpsertMFAConfig(n) \/ EnableUserMFA(n) \/ StoreBackupCodes(n) \/ SaveWebAuthnCredential(n)
  PROVE  Moves(n)
<1>1. req[n].pc \in {"upsert", "enable", "backup", "save"} /\ UNCHANGED <<now, store, issued, loggedOut>>
  BY Zenon DEF UpsertMFAConfig, EnableUserMFA, StoreBackupCodes, SaveWebAuthnCredential, history
<1>2. req[n] \in TokenRequests /\ req[n].user \in Users
  <2>1. req[n] \in TokenRequests
    BY <1>1, RequestKinds DEF ReqTyped
  <2> QED BY <2>1 DEF TokenRequests
<1>3. ASSUME NEW l \in {"enable", "backup"}, Goto(n, l), req[n].pc \in Backing
      PROVE  Becomes(n, [req[n] EXCEPT !.pc = l], {})
  <2>1. PICK r : r = [req[n] EXCEPT !.pc = l]
    OBVIOUS
  <2>2. r \in AllRequests /\ r.pc = l
    BY <1>2, <2>1, MovedToken
  <2>3. req' = [req EXCEPT ![n] = r]
    BY <1>3, <2>1 DEF Goto, ReqTyped
  <2>4. Carried(r) = {} /\ Draws(r.pc) = {}
    BY <2>2 DEF Carried, Draws
  <2> QED BY <1>1, <1>3, <2>1, <2>2, <2>3, <2>4 DEF Becomes
<1>4. Finish(n) => Becomes(n, Done, {})
  BY <1>1, Ends
<1>5. CASE UpsertMFAConfig(n)
  <2>1. req[n].pc = "upsert" /\ Goto(n, "enable") /\ config' = [config EXCEPT ![req[n].user].secret = n]
    BY <1>5 DEF UpsertMFAConfig
  <2>2. Becomes(n, [req[n] EXCEPT !.pc = "enable"], {})
    BY <1>3, <2>1 DEF Backing
  <2>3. Configures(n, [req[n] EXCEPT !.pc = "enable"], req[n].user)
    BY <1>1, <1>2, <2>1, <2>2 DEF Configures
  <2> QED BY <2>3 DEF Moves
<1>6. CASE EnableUserMFA(n)
  <2>1. req[n].pc = "enable" /\ Goto(n, "backup") /\ config' = config
    BY <1>6 DEF EnableUserMFA
  <2>2. Becomes(n, [req[n] EXCEPT !.pc = "backup"], {})
    BY <1>3, <2>1 DEF Backing
  <2>3. Quiet(n, [req[n] EXCEPT !.pc = "backup"])
    BY <1>1, <2>1, <2>2 DEF Quiet
  <2> QED BY <2>3 DEF Moves
<1>7. CASE StoreBackupCodes(n)
  <2>1. req[n].pc = "backup" /\ Finish(n) /\ config' = [config EXCEPT ![req[n].user].backup = {n}]
    BY <1>7 DEF StoreBackupCodes
  <2>2. req[n].pc \in Backing /\ Done.pc \notin Backing
    BY <2>1, IsDone DEF Backing
  <2>3. Configures(n, Done, req[n].user)
    BY <1>1, <1>2, <1>4, <2>1, <2>2 DEF Configures
  <2> QED BY <2>3 DEF Moves
<1>8. CASE SaveWebAuthnCredential(n)
  <2>1. Finish(n) /\ config' = config
    BY <1>8 DEF SaveWebAuthnCredential
  <2>2. Quiet(n, Done)
    BY <1>1, <1>4, <2>1 DEF Quiet
  <2> QED BY <2>2 DEF Moves
<1> QED BY <1>5, <1>6, <1>7, <1>8

\* A request with a token comes in.
LEMMA CallSteps ==
  ASSUME ReqTyped, StoreTyped, NEW n \in Requests, NEW t \in issued, Call(n, t),
         issued \subseteq [jti : Int \X {1, 2}, user : Users, until : Nat, proof : SUBSET Proofs]
  PROVE  Moves(n)
<1>1. t.user \in Users /\ t.until \in Nat /\ now \in Nat
  BY DEF ReqTyped
<1>2. AuthJWT(t) /\ UNCHANGED <<now, config, issued>>
  BY Zenon DEF Call, Logout, HandleTOTPEnable, BeginWebAuthnRegistration, CreateSAMLProvider,
        FinishWebAuthnRegistration, db, history
<1>3. now < t.until
  BY <1>2 DEF AuthJWT
<1>4. Receive(n, Done) => Becomes(n, Done, {})
  BY <1>2, IsDone, Comes
<1>5. CASE Logout(n, t)
  <2>1. store' = store \cup {Blocklist(t)} /\ loggedOut' = loggedOut \cup {t} /\ Receive(n, Done)
    BY <1>5 DEF Logout
  <2>2. LogsOut(n, Done, t)
    BY <1>2, <1>3, <1>4, <2>1 DEF LogsOut
  <2> QED BY <2>2 DEF Moves
<1>6. ASSUME NEW l \in {"upsert", "save"}, NEW u \in Users, Receive(n, [pc |-> l, user |-> u])
      PROVE  Becomes(n, [pc |-> l, user |-> u], {})
  <2>1. PICK r : r = [pc |-> l, user |-> u]
    OBVIOUS
  <2>2. r \in TokenRequests /\ r.pc = l
    BY <2>1 DEF TokenRequests
  <2>3. r \in AllRequests /\ Carried(r) = {}
    BY <2>2 DEF AllRequests, UnderWay, Carried
  <2> QED BY <1>2, <1>6, <2>1, <2>2, <2>3, Comes
<1>7. CASE HandleTOTPEnable(n, t)
  <2>1. Receive(n, [pc |-> "upsert", user |-> t.user]) /\ UNCHANGED <<store, loggedOut>>
    BY <1>7 DEF HandleTOTPEnable, history
  <2>2. Quiet(n, [pc |-> "upsert", user |-> t.user])
    BY <1>1, <1>2, <1>6, <2>1 DEF Quiet
  <2> QED BY <2>2 DEF Moves
<1>8. CASE BeginWebAuthnRegistration(n, t)
  <2>1. /\ Receive(n, Done) /\ loggedOut' = loggedOut
        /\ store' = store \cup {Set("registration", n, t.user, now + SessionTTL)}
    BY <1>8 DEF BeginWebAuthnRegistration, history
  <2>2. PICK k : k = Set("registration", n, t.user, now + SessionTTL)
    OBVIOUS
  <2>3. k.key = <<"registration", n>> /\ k.user \in Users /\ k.until \in Nat /\ now < k.until
    BY <1>1, <2>2, TimesAssumption DEF Set
  <2>4. Stores(n, Done, k)
    BY <1>2, <1>4, <2>1, <2>2, <2>3 DEF Stores
  <2> QED BY <2>4 DEF Moves
<1>9. CASE CreateSAMLProvider(n, t)
  <2>1. Receive(n, Done) /\ UNCHANGED <<store, loggedOut>>
    BY <1>9 DEF CreateSAMLProvider, history
  <2>2. Quiet(n, Done)
    BY <1>2, <1>4, <2>1 DEF Quiet
  <2> QED BY <2>2 DEF Moves
<1>10. ASSUME NEW k \in store, NEW ok \in BOOLEAN, FinishWebAuthnRegistration(n, t, k, ok) PROVE Moves(n)
  <2>1. /\ k.key[1] = "registration" /\ store' = store \ {k} /\ loggedOut' = loggedOut
        /\ Receive(n, [pc |-> "save", user |-> k.user]) \/ Receive(n, Done)
    BY <1>10 DEF FinishWebAuthnRegistration, Take, history
  <2>2. k.user \in Users
    BY DEF StoreTyped
  <2>3. PICK r : Becomes(n, r, {})
    BY <1>4, <1>6, <2>1, <2>2
  <2>4. Takes(n, r, k)
    BY <1>2, <2>1, <2>3 DEF Takes
  <2> QED BY <2>4 DEF Moves
<1> QED BY <1>5, <1>7, <1>8, <1>9, <1>10 DEF Call

\* The statements of a SAML login, and the beginning of a WebAuthn login.
LEMMA SamlSteps ==
  ASSUME ReqTyped, NEW n \in Requests, ProvisionOrGetSAMLUser(n) \/ CreateSAMLUser(n) \/ LinkSAMLUser(n)
  PROVE  Moves(n)
<1>1. /\ req[n].pc \in {"find", "create", "link", "link old"} /\ UNCHANGED <<now, store, config, issued, loggedOut>>
      /\ \/ Finish(n)
         \/ \E l \in {"create", "link", "link old", "sign"} : Goto(n, l)
  <2>1. CASE ProvisionOrGetSAMLUser(n)
    BY <2>1 DEF ProvisionOrGetSAMLUser, db, history
  <2>2. CASE CreateSAMLUser(n)
    BY <2>2 DEF CreateSAMLUser, history
  <2>3. CASE LinkSAMLUser(n)
    BY <2>3 DEF LinkSAMLUser, history
  <2> QED BY <2>1, <2>2, <2>3
<1>2. CASE Finish(n)
  <2>1. Quiet(n, Done)
    BY <1>1, <1>2, Ends DEF Quiet
  <2> QED BY <2>1 DEF Moves
<1>3. ASSUME NEW l \in {"create", "link", "link old", "sign"}, Goto(n, l) PROVE Moves(n)
  <2>1. req[n] \in SamlRequests
    BY <1>1, RequestKinds DEF ReqTyped
  <2>2. PICK r : r = [req[n] EXCEPT !.pc = l]
    OBVIOUS
  <2>3. r \in AllRequests /\ r.pc = l /\ r.proof = req[n].proof
    <3>1. l \in {"find", "create", "link", "link old", "sign"}
      OBVIOUS
    <3> QED BY <2>1, <2>2, <3>1, MovedSaml
  <2>4. req' = [req EXCEPT ![n] = r]
    BY <1>3, <2>2 DEF Goto, ReqTyped
  <2>5. Carried(r) = Held(n)
    BY <1>1, <2>3 DEF Carried, Held
  <2>6. Draws(r.pc) = {} /\ r.pc \notin Backing
    BY <2>3 DEF Draws, Backing
  <2>7. Becomes(n, r, {})
    BY <1>1, <2>3, <2>4, <2>5, <2>6 DEF Becomes
  <2>8. Quiet(n, r)
    BY <1>1, <2>7 DEF Quiet
  <2> QED BY <2>8 DEF Moves
<1> QED BY <1>1, <1>2, <1>3

\* An assertion is presented.
LEMMA AssertionSteps ==
  ASSUME ReqTyped, NEW n \in Requests, NEW a \in Assertions, SAMLAssertionConsumerService(n, a),
         UNCHANGED <<config, issued, loggedOut, now>>
  PROVE  Moves(n)
<1>1. CASE store' = store /\ Receive(n, Done)
  <2>1. Becomes(n, Done, {})
    BY <1>1, IsDone, Comes
  <2>2. Quiet(n, Done)
    BY <1>1, <2>1 DEF Quiet
  <2> QED BY <2>2 DEF Moves
<1>2. CASE /\ Key("saml", a.id) = {} /\ now < a.until /\ store' = store \cup {ReplayKey(a)}
           /\ Receive(n, [pc |-> "find", user |-> a.user, proof |-> {<<"saml", a.id>>}])
  <2>1. PICK r : r = [pc |-> "find", user |-> a.user, proof |-> {<<"saml", a.id>>}]
    OBVIOUS
  <2>2. a.user \in Users
    BY AssertionsAssumption
  <2>3. {<<"saml", a.id>>} \in SUBSET Proofs
    BY DEF Proofs
  <2>4. r \in SamlRequests /\ r.pc = "find" /\ r.proof = {<<"saml", a.id>>}
    BY <2>1, <2>2, <2>3 DEF SamlRequests
  <2>5. r \in AllRequests /\ Carried(r) = {<<"saml", a.id>>}
    BY <2>4 DEF AllRequests, UnderWay, Carried
  <2>6. Becomes(n, r, {<<"saml", a.id>>})
    BY <1>2, <2>1, <2>4, <2>5, Comes
  <2>7. Replays(n, r, a)
    BY <1>2, <2>6 DEF Replays
  <2> QED BY <2>7 DEF Moves
<1> QED BY <1>1, <1>2 DEF SAMLAssertionConsumerService, NotExpired

\* A WebAuthn login begins.
LEMMA CeremonyBegins ==
  ASSUME ReqTyped, NEW n \in Requests, NEW u \in Users, BeginWebAuthnLogin(n, u) PROVE Moves(n)
<1>1. /\ Receive(n, Done) /\ UNCHANGED <<now, config, issued, loggedOut>>
      /\ store' = store \cup {Set("webauthn", n, u, now + SessionTTL)}
  BY DEF BeginWebAuthnLogin, db, history
<1>2. Becomes(n, Done, {}) /\ req[n].pc = "new"
  BY <1>1, IsDone, Comes
<1>3. PICK k : k = Set("webauthn", n, u, now + SessionTTL)
  OBVIOUS
<1>4. k.key = <<"webauthn", n>> /\ k.user \in Users /\ k.until \in Nat /\ now < k.until
  BY <1>3, TimesAssumption DEF Set, ReqTyped
<1>5. "webauthn" \in Draws(req[n].pc) \ Draws(Done.pc)
  BY <1>2, IsDone DEF Draws, OneTime
<1>6. Stores(n, Done, k)
  BY <1>1, <1>2, <1>3, <1>4, <1>5 DEF Stores
<1> QED BY <1>6 DEF Moves

\* The types that the steps of requests need, together.
StepTyped ==
  /\ ReqTyped /\ StoreTyped
  /\ config \in [Users -> [secret : Int, backup : SUBSET Int]]
  /\ issued \subseteq [jti : Int \X {1, 2}, user : Users, until : Nat, proof : SUBSET Proofs]

\* A request comes in or takes a step.
Acts(n) ==
  \/ PasswordRequest(n) \/ Present(n) \/ \E t \in issued : Call(n, t)
  \/ \E u \in Users : BeginWebAuthnLogin(n, u)
  \/ Step(n) \/ RequestFails(n)

\* It is one of these.
LEMMA LoginSteps ==
  ASSUME StepTyped, NEW n \in Requests, Acts(n) PROVE Moves(n)
<1>1. ASSUME PasswordRequest(n) \/ RequestFails(n) PROVE Moves(n)
  BY <1>1, PasswordComes, PasswordSteps DEF Moves, StepTyped
<1>2. ASSUME Present(n) PROVE Moves(n)
  <2>1. UNCHANGED <<config, issued, loggedOut, now>>
    BY <1>2 DEF Present, db, history
  <2>2. ASSUME NEW k \in store,
               \/ \E ok \in BOOLEAN : HandleAuthCodeGrant(n, k, ok) \/ FinishWebAuthnLogin(n, k, ok)
               \/ HandleVerifyMFA(n, k) \/ HandleVerifyBackupCode(n, k)
        PROVE  Moves(n)
    BY <2>1, <2>2, TakingSteps DEF StepTyped
  <2>3. ASSUME NEW a \in Assertions, SAMLAssertionConsumerService(n, a) PROVE Moves(n)
    BY <2>1, <2>3, AssertionSteps DEF StepTyped
  <2> QED BY <1>2, <2>2, <2>3, Zenon DEF Present
<1>3. ASSUME NEW t \in issued, Call(n, t) PROVE Moves(n)
  BY <1>3, CallSteps DEF StepTyped
<1>4. ASSUME NEW u \in Users, BeginWebAuthnLogin(n, u) PROVE Moves(n)
  BY <1>4, CeremonyBegins DEF StepTyped
<1>5. ASSUME Step(n) PROVE Moves(n)
  <2>1. CASE \/ Compare(n) \/ IncrementFailedLogin(n) \/ LockAccount(n) \/ ResetFailedLogin(n)
             \/ ListMFAConfigs(n)
    BY <2>1, PasswordSteps DEF Moves, StepTyped
  <2>2. CASE StoreChallenge(n) \/ StoreAuthCode(n)
    BY <2>2, StoringSteps DEF StepTyped
  <2>3. CASE IssueTokens(n) \/ SignToken(n)
    BY <2>3, IssuingSteps DEF StepTyped
  <2>4. CASE SetNonce(n) \/ VerifyTOTP(n) \/ ConsumeBackupCode(n)
    BY <2>4, FactorSteps DEF StepTyped
  <2>5. CASE UpsertMFAConfig(n) \/ EnableUserMFA(n) \/ StoreBackupCodes(n) \/ SaveWebAuthnCredential(n)
    BY <2>5, TokenSteps DEF StepTyped
  <2>6. CASE ProvisionOrGetSAMLUser(n) \/ CreateSAMLUser(n) \/ LinkSAMLUser(n)
    BY <2>6, SamlSteps DEF StepTyped
  <2> QED BY <1>5, <2>1, <2>2, <2>3, <2>4, <2>5, <2>6 DEF Step
<1> QED BY <1>1, <1>2, <1>3, <1>4, <1>5, Zenon DEF Acts


-----------------------------------------------------------------------------
(* Login: what is not used up yet, and the invariant of the proofs.        *)

\* A key that may be taken out of Redis.
InRedis(p) == p[1] \in OneTime /\ \E k \in store : k.key = p

\* A key that a request may still draw.
ToDraw(p) == p[1] \in OneTime /\ \E n \in Requests : p[1] \in Draws(req[n].pc) /\ p = <<p[1], n>>

\* A backup code that is there, or may still be drawn.
Listed(p) ==
  /\ p[1] = "backup"
  /\ p[3] \in config[p[2]].backup \/ (p[3] \in Requests /\ req[p[3]].pc \in Backing)

\* A TOTP code in its time that was not marked as used.
Valid(p) == p[1] = "totp" /\ now <= p[3].step + 1 /\ Key("nonce", <<p[2], p[3]>>) = {}

\* An assertion in its time that was not marked as used.
Unseen(p) ==
  /\ p[1] = "saml" /\ Key("saml", p[2]) = {}
  /\ \E a \in Assertions : a.id = p[2] /\ now < a.until

\* What a request may still prove.
Unused(p) == InRedis(p) \/ ToDraw(p) \/ Listed(p) \/ Valid(p) \/ Unseen(p)

\* A key is there once, and is not drawn again.
KeysOnce ==
  /\ \A k, l \in store : k.key[1] \in OneTime /\ k.key = l.key => k = l
  /\ \A k \in store, n \in Requests : \A kind \in Draws(req[n].pc) : k.key # <<kind, n>>

\* A backup code that is there is not drawn again.
BackupsOnce == \A u \in Users, c \in Requests : c \in config[u].backup => req[c].pc \notin Backing

\* What marks a code or an assertion as used lives as long as the code or the
\* assertion is accepted.
MarksLast ==
  /\ \A u \in Users, c \in Codes : \A k \in Key("nonce", <<u, c>>) : c.step + 2 <= k.until
  /\ \A a \in Assertions : \A k \in Key("saml", a.id) : a.until <= k.until

\* The blocklist.
Blocked ==
  \A t \in loggedOut : now < t.until => \E k \in store : k.key = <<"blocked", t.jti>> /\ k.until = t.until

\* What requests hold and tokens were issued for is held or spent once, and used up.
Apart ==
  /\ \A m, n \in Requests : m # n => Held(m) \cap Held(n) = {}
  /\ \A n \in Requests, t \in issued : Held(n) \cap t.proof = {}
  /\ \A n \in Requests : \A p \in Held(n) : ~Unused(p)
  /\ \A t \in issued : \A p \in t.proof : ~Unused(p)

\* What a proof consists of.
LEMMA ProofKinds ==
  ASSUME NEW p \in Proofs
  PROVE  /\ p[1] \in OneTime \cup {"totp", "backup", "saml"}
         /\ p[1] \in OneTime => p = <<p[1], p[2]>> /\ p[2] \in Int
         /\ p[1] = "totp" => p[2] \in Users /\ p[3] \in Codes
         /\ p[1] = "backup" => p[2] \in Users /\ p[3] \in Int
         /\ p[1] = "saml" => \E a \in Assertions : a.id = p[2]
<1>1. CASE p \in {"challenge", "code", "webauthn"} \X Int
  BY <1>1 DEF OneTime
<1>2. CASE p \in {"totp"} \X Users \X Codes
  BY <1>2 DEF OneTime
<1>3. CASE p \in {"backup"} \X Users \X Int
  BY <1>3 DEF OneTime
<1>4. CASE p \in {"saml"} \X {a.id : a \in Assertions}
  BY <1>4 DEF OneTime
<1> QED BY <1>1, <1>2, <1>3, <1>4 DEF Proofs

\* A request holds proofs only.
LEMMA CarriesProofs ==
  ASSUME NEW r \in AllRequests PROVE Carried(r) \subseteq Proofs
<1>1. CASE r.pc \in {"nonce", "consume", "validate"}
  <2>1. r \in CodeRequests \/ r \in BackupRequests
    BY <1>1, RequestKinds
  <2>2. r.challenge \in Int
    BY <2>1 DEF CodeRequests, BackupRequests
  <2>3. r.pc = "validate" => r.user \in Users /\ r.code \in Codes
    BY RequestKinds DEF CodeRequests
  <2>4. <<"challenge", r.challenge>> \in Proofs /\ (r.pc = "validate" => <<"totp", r.user, r.code>> \in Proofs)
    BY <2>2, <2>3 DEF Proofs
  <2> QED BY <1>1, <2>4 DEF Carried
<1>2. CASE r.pc \in {"issue", "find", "create", "link", "link old", "sign"}
  <2>1. r \in PasswordRequests \/ r \in AcceptedRequests \/ r \in SamlRequests
    BY <1>2, RequestKinds
  <2>2. r.proof \in SUBSET Proofs
    BY <2>1 DEF PasswordRequests, AcceptedRequests, SamlRequests
  <2> QED BY <1>2, <2>2 DEF Carried
<1>3. CASE r.pc \notin {"nonce", "consume", "validate", "issue", "find", "create", "link", "link old", "sign"}
  BY <1>3 DEF Carried
<1> QED BY <1>1, <1>2, <1>3

-----------------------------------------------------------------------------
(* Login: one step of a request, seen from the proofs.                     *)

\* At most one key is new, and it is the request's own or proves nothing.
OneNewKey(n, r) ==
  \E k \in store' :
    /\ store' \subseteq store \cup {k}
    /\ k.user \in Users /\ k.until \in Nat /\ now < k.until /\ k.key = <<k.key[1], k.key[2]>>
    /\ \/ k.key[1] \notin OneTime
       \/ \E kind \in Draws(req[n].pc) \ Draws(r.pc) : k.key = <<kind, n>>

\* The keys that mark something as used or taken back stay.
MarksStay == \A k \in store : k.key[1] \in {"nonce", "saml", "blocked"} => k \in store'

\* Backup codes are new only where they are drawn.
BackupsDrawn(n, r) ==
  /\ config' \in [Users -> [secret : Int, backup : SUBSET Int]]
  /\ \A u \in Users : \A c \in config'[u].backup :
       c \in config[u].backup \/ (c = n /\ req[n].pc \in Backing /\ r.pc \notin Backing)

\* What a token is issued for was held.
HeldSpent(n, r) ==
  \/ issued' = issued
  \/ \E t : /\ issued' = issued \cup {t} /\ t.proof \subseteq Held(n) /\ Carried(r) = {}
            /\ t \in [jti : Int \X {1, 2}, user : Users, until : Nat, proof : SUBSET Proofs]

\* A step of n that uses up S.
Advances(n, r, S) ==
  /\ Becomes(n, r, S)
  /\ store' \subseteq store \/ OneNewKey(n, r)
  /\ MarksStay /\ BackupsDrawn(n, r) /\ HeldSpent(n, r)
  /\ \A p \in S : p \in Proofs /\ Unused(p) /\ ~Unused(p)'

\* What is not used up after a step was not used up before it.
LEMMA NothingComesBack ==
  ASSUME StepTyped, NEW n \in Requests, NEW r, NEW S, Becomes(n, r, S),
         store' \subseteq store \/ OneNewKey(n, r), MarksStay, BackupsDrawn(n, r)
  PROVE  \A p \in Proofs : Unused(p)' => Unused(p)
<1> SUFFICES ASSUME NEW p \in Proofs, Unused(p)' PROVE Unused(p)
  OBVIOUS
<1>1. req' = [req EXCEPT ![n] = r] /\ now' = now /\ req \in [Requests -> AllRequests]
  BY DEF Becomes, StepTyped, ReqTyped
<1>2. \A m \in Requests : /\ Draws(req'[m].pc) \subseteq Draws(req[m].pc)
                          /\ req'[m].pc \in Backing => req[m].pc \in Backing
  BY <1>1 DEF Becomes
<1>3. CASE InRedis(p)'
  <2>1. PICK k \in store' : k.key = p /\ p[1] \in OneTime
    BY <1>3 DEF InRedis
  <2>2. CASE k \in store
    BY <2>1, <2>2 DEF InRedis, Unused
  <2>3. CASE k \notin store
    <3>1. PICK kind \in Draws(req[n].pc) \ Draws(r.pc) : k.key = <<kind, n>>
      BY <2>1, <2>3 DEF OneNewKey
    <3> QED BY <2>1, <3>1 DEF ToDraw, Unused
  <2> QED BY <2>2, <2>3
<1>4. CASE ToDraw(p)'
  BY <1>2, <1>4 DEF ToDraw, Unused
<1>5. CASE Listed(p)'
  <2>1. p[1] = "backup" /\ p[2] \in Users
    BY <1>5, ProofKinds DEF Listed
  <2>2. CASE p[3] \in config'[p[2]].backup
    BY <2>1, <2>2 DEF BackupsDrawn, Listed, Unused
  <2>3. CASE p[3] \in Requests /\ req'[p[3]].pc \in Backing
    BY <1>2, <2>1, <2>3 DEF Listed, Unused
  <2> QED BY <1>5, <2>2, <2>3 DEF Listed
<1>6. \A id : Key("nonce", id) \subseteq Key("nonce", id)' /\ Key("saml", id) \subseteq Key("saml", id)'
  BY DEF MarksStay, Key
<1>7. CASE Valid(p)'
  BY <1>1, <1>6, <1>7 DEF Valid, Unused
<1>8. CASE Unseen(p)'
  BY <1>1, <1>6, <1>8 DEF Unseen, Unused
<1> QED BY <1>3, <1>4, <1>5, <1>7, <1>8 DEF Unused


\* What a request holds depends on its state and the time only.
LEMMA HeldAfter ==
  ASSUME StepTyped, NEW n \in Requests, NEW r, NEW S, Becomes(n, r, S)
  PROVE  /\ \A m \in Requests : m # n => Held(m)' = Held(m)
         /\ Held(n)' = Carried(r) /\ Held(n)' \subseteq Held(n) \cup S
         /\ \A m \in Requests : Held(m) \subseteq Proofs
<1>1. req' = [req EXCEPT ![n] = r] /\ now' = now /\ req \in [Requests -> AllRequests]
  BY DEF Becomes, StepTyped, ReqTyped
<1>2. ASSUME NEW m \in Requests, m # n PROVE Held(m)' = Held(m)
  <2>1. req'[m] = req[m]
    BY <1>1, <1>2
  <2> QED BY <1>1, <2>1 DEF Held, Carried
<1>3. Held(n)' = Carried(r)
  <2>1. req'[n] = r
    BY <1>1
  <2> QED BY <1>1, <2>1 DEF Held, Carried
<1>4. ASSUME NEW m \in Requests PROVE Held(m) \subseteq Proofs
  BY <1>1, CarriesProofs DEF Held
<1> QED BY <1>2, <1>3, <1>4 DEF Becomes

\* What was used up stays used up, and is held or spent once.
LEMMA ApartKept ==
  ASSUME StepTyped, Apart, OneTimeOnce, NEW n \in Requests, NEW r, NEW S, Advances(n, r, S)
  PROVE  Apart' /\ OneTimeOnce'
<1>1. \A m \in Requests : m # n => Held(m)' = Held(m)
  BY HeldAfter DEF Advances
<1>2. Held(n)' = Carried(r) /\ Held(n)' \subseteq Held(n) \cup S /\ \A m \in Requests : Held(m) \subseteq Proofs
  BY HeldAfter DEF Advances
<1>3. \A p \in Proofs : Unused(p)' => Unused(p)
  BY NothingComesBack DEF Advances
<1>4. \A p \in S : p \in Proofs /\ Unused(p) /\ ~Unused(p)'
  BY DEF Advances
<1>5. \A t \in issued : t.proof \subseteq Proofs
  BY DEF StepTyped
<1>6. \A m \in Requests : S \cap Held(m) = {}
  BY <1>4 DEF Apart
<1>7. \A t \in issued : S \cap t.proof = {}
  BY <1>4 DEF Apart
<1>8. \A l, m \in Requests : l # m => Held(l)' \cap Held(m)' = {}
  BY <1>1, <1>2, <1>6 DEF Apart
<1>9. \A m \in Requests : \A p \in Held(m)' : ~Unused(p)'
  BY <1>1, <1>2, <1>3, <1>4 DEF Apart
<1>10. \A m \in Requests, t \in issued : Held(m)' \cap t.proof = {}
  BY <1>1, <1>2, <1>7 DEF Apart
<1>11. \A t \in issued : \A p \in t.proof : ~Unused(p)'
  BY <1>3, <1>5 DEF Apart
<1>12. CASE issued' = issued
  BY <1>8, <1>9, <1>10, <1>11, <1>12 DEF Apart, OneTimeOnce
<1>13. CASE issued' # issued
  <2>1. PICK t : issued' = issued \cup {t} /\ t.proof \subseteq Held(n) /\ Carried(r) = {}
    BY <1>13 DEF Advances, HeldSpent
  <2>2. \A p \in t.proof : ~Unused(p)'
    BY <1>2, <1>3, <2>1 DEF Apart
  <2>3. \A m \in Requests : Held(m)' \cap t.proof = {}
    BY <1>1, <1>2, <2>1 DEF Apart
  <2>4. \A s \in issued : s.proof \cap t.proof = {}
    BY <2>1 DEF Apart
  <2>5. OneTimeOnce'
    BY <2>1, <2>4 DEF OneTimeOnce
  <2> QED BY <1>8, <1>9, <1>10, <1>11, <2>1, <2>2, <2>3, <2>5 DEF Apart
<1> QED BY <1>12, <1>13

\* A key stays the only one of its name.
LEMMA KeysKept ==
  ASSUME StepTyped, KeysOnce, BackupsOnce, NEW n \in Requests, NEW r, NEW S, Advances(n, r, S)
  PROVE  KeysOnce' /\ BackupsOnce' /\ StoreTyped'
<1>1. req' = [req EXCEPT ![n] = r] /\ now' = now /\ req \in [Requests -> AllRequests]
  BY DEF Advances, Becomes, StepTyped, ReqTyped
<1>2. \A m \in Requests : /\ Draws(req'[m].pc) \subseteq Draws(req[m].pc)
                          /\ req'[m].pc \in Backing => req[m].pc \in Backing
  BY <1>1 DEF Advances, Becomes
<1>3. \A m \in Requests : Draws(req[m].pc) \subseteq OneTime
  BY DEF Draws
<1>4. KeysOnce' /\ StoreTyped'
  <2>1. CASE store' \subseteq store
    <3>1. StoreTyped'
      BY <1>1, <2>1 DEF StoreTyped, StepTyped
    <3>2. \A k, l \in store' : k.key[1] \in OneTime /\ k.key = l.key => k = l
      BY <2>1 DEF KeysOnce
    <3>3. \A k \in store', m \in Requests : \A kind \in Draws(req'[m].pc) : k.key # <<kind, m>>
      BY <1>2, <2>1 DEF KeysOnce
    <3> QED BY <3>1, <3>2, <3>3 DEF KeysOnce
  <2>2. CASE OneNewKey(n, r)
    <3>1. PICK k \in store' :
            /\ store' \subseteq store \cup {k}
            /\ k.user \in Users /\ k.until \in Nat /\ now < k.until /\ k.key = <<k.key[1], k.key[2]>>
            /\ \/ k.key[1] \notin OneTime
               \/ \E kind \in Draws(req[n].pc) \ Draws(r.pc) : k.key = <<kind, n>>
      BY <2>2 DEF OneNewKey
    <3>2. n \in Int
      BY DEF Requests
    <3>3. k.key[1] \in OneTime => k.key[2] \in Int
      BY <3>1, <3>2
    <3>4. StoreTyped'
      BY <1>1, <3>1, <3>3 DEF StoreTyped, StepTyped
    <3>5. \A l \in store : k.key[1] \in OneTime => k.key # l.key
      BY <3>1 DEF KeysOnce
    <3>6. \A l, m \in store' : l.key[1] \in OneTime /\ l.key = m.key => l = m
      BY <3>1, <3>5 DEF KeysOnce
    <3>7. \A m \in Requests : \A kind \in Draws(req'[m].pc) : k.key # <<kind, m>>
      BY <1>1, <1>2, <1>3, <3>1
    <3>8. \A l \in store', m \in Requests : \A kind \in Draws(req'[m].pc) : l.key # <<kind, m>>
      BY <1>2, <3>1, <3>7 DEF KeysOnce
    <3> QED BY <3>4, <3>6, <3>8 DEF KeysOnce
  <2> QED BY <2>1, <2>2 DEF Advances
<1>5. BackupsOnce'
  <2> SUFFICES ASSUME NEW u \in Users, NEW c \in Requests, c \in config'[u].backup PROVE req'[c].pc \notin Backing
    BY DEF BackupsOnce
  <2>1. CASE c \in config[u].backup
    BY <1>2, <2>1 DEF BackupsOnce
  <2>2. CASE c = n /\ r.pc \notin Backing
    BY <1>1, <2>2
  <2> QED BY <2>1, <2>2 DEF Advances, BackupsDrawn
<1> QED BY <1>4, <1>5


\* The marks stay good as long as no mark is new, and the blocklist as long as no
\* token is taken back.
LEMMA MarksKept ==
  ASSUME StepTyped, MarksLast, Blocked, now' = now, MarksStay
  PROVE  /\ (\A k \in store' : k \in store \/ k.key[1] \notin {"nonce", "saml"}) => MarksLast'
         /\ loggedOut' = loggedOut => Blocked'
<1>1. ASSUME \A k \in store' : k \in store \/ k.key[1] \notin {"nonce", "saml"} PROVE MarksLast'
  <2>1. \A id : Key("nonce", id)' \subseteq Key("nonce", id) /\ Key("saml", id)' \subseteq Key("saml", id)
    BY <1>1 DEF Key
  <2> QED BY <2>1 DEF MarksLast
<1>2. loggedOut' = loggedOut => Blocked'
  <2>1. \A k \in store : \A id : k.key = <<"blocked", id>> => k \in store'
    BY DEF MarksStay
  <2> QED BY <2>1 DEF Blocked
<1> QED BY <1>1, <1>2

\* The steps that leave Redis, the second factors and the tokens alone.
LEMMA QuietAdvances ==
  ASSUME StepTyped, MarksLast, Blocked, NEW n \in Requests, NEW r, Quiet(n, r)
  PROVE  Advances(n, r, {}) /\ MarksLast' /\ Blocked'
<1>1. Becomes(n, r, {}) /\ UNCHANGED <<store, config, issued, loggedOut, now>>
  BY DEF Quiet, Becomes
<1>2. MarksStay /\ BackupsDrawn(n, r) /\ HeldSpent(n, r)
  BY <1>1 DEF MarksStay, BackupsDrawn, HeldSpent, StepTyped
<1> QED BY <1>1, <1>2, MarksKept DEF Advances

\* A key is stored.
LEMMA StoresAdvances ==
  ASSUME StepTyped, MarksLast, Blocked, NEW n \in Requests, NEW r, NEW k, Stores(n, r, k)
  PROVE  Advances(n, r, {}) /\ MarksLast' /\ Blocked'
<1>1. Becomes(n, r, {}) /\ UNCHANGED <<config, issued, loggedOut, now>> /\ store' = store \cup {k}
  BY DEF Stores, Becomes
<1>2. MarksStay /\ BackupsDrawn(n, r) /\ HeldSpent(n, r)
  BY <1>1 DEF MarksStay, BackupsDrawn, HeldSpent, StepTyped
<1>3. /\ k.user \in Users /\ k.until \in Nat /\ now < k.until
      /\ k.key = <<"registration", n>> \/ \E kind \in Draws(req[n].pc) \ Draws(r.pc) : k.key = <<kind, n>>
  BY DEF Stores
<1>4. Draws(req[n].pc) \subseteq OneTime
  BY DEF Draws
<1>5. k.key = <<k.key[1], k.key[2]>> /\ k.key[1] \notin {"nonce", "saml"}
  BY <1>3, <1>4 DEF OneTime
<1>6. OneNewKey(n, r)
  <2>1. k.key[1] \notin OneTime \/ \E kind \in Draws(req[n].pc) \ Draws(r.pc) : k.key = <<kind, n>>
    BY <1>3 DEF OneTime
  <2> QED BY <1>1, <1>3, <1>5, <2>1 DEF OneNewKey
<1> QED BY <1>1, <1>2, <1>5, <1>6, MarksKept DEF Advances

\* A key is taken: it was there once.
LEMMA TakesAdvances ==
  ASSUME StepTyped, KeysOnce, MarksLast, Blocked, NEW n \in Requests, NEW r, NEW k, Takes(n, r, k)
  PROVE  (\E S : Advances(n, r, S)) /\ MarksLast' /\ Blocked'
<1>1. PICK S : /\ Becomes(n, r, S) /\ UNCHANGED <<config, issued, loggedOut, now>>
               /\ k \in store /\ store' = store \ {k}
               /\ \/ k.key[1] \in OneTime /\ S = {k.key}
                  \/ k.key[1] = "registration" /\ S = {}
  BY DEF Takes, Becomes
<1>2. MarksStay
  BY <1>1 DEF MarksStay, OneTime
<1>3. BackupsDrawn(n, r) /\ HeldSpent(n, r)
  BY <1>1 DEF BackupsDrawn, HeldSpent, StepTyped
<1>4. ASSUME NEW p, p = k.key, p[1] \in OneTime PROVE p \in Proofs /\ Unused(p) /\ ~Unused(p)'
  <2>1. p = <<p[1], p[2]>> /\ p[2] \in Int
    BY <1>1, <1>4 DEF StepTyped, StoreTyped
  <2>2. p \in Proofs
    BY <1>4, <2>1 DEF Proofs, OneTime
  <2>3. Unused(p)
    BY <1>1, <1>4 DEF Unused, InRedis
  <2>4. ~InRedis(p)'
    BY <1>1, <1>4 DEF KeysOnce, InRedis
  <2>5. ~ToDraw(p)'
    <3>1. \A m \in Requests : Draws(req'[m].pc) \subseteq Draws(req[m].pc)
      BY <1>1 DEF Becomes, StepTyped, ReqTyped
    <3> QED BY <1>1, <1>4, <3>1 DEF KeysOnce, ToDraw
  <2>6. ~Listed(p)' /\ ~Valid(p)' /\ ~Unseen(p)'
    BY <1>4 DEF Listed, Valid, Unseen, OneTime
  <2> QED BY <2>2, <2>3, <2>4, <2>5, <2>6 DEF Unused
<1>5. Advances(n, r, S)
  BY <1>1, <1>2, <1>3, <1>4 DEF Advances
<1> QED BY <1>1, <1>2, <1>5, MarksKept

\* A TOTP code is marked: the mark outlives it.
LEMMA NoncesAdvances ==
  ASSUME StepTyped, MarksLast, Blocked, NEW n \in Requests, NEW r, Nonces(n, r)
  PROVE  (\E S : Advances(n, r, S)) /\ MarksLast' /\ Blocked'
<1>1. PICK u, c : u = req[n].user /\ c = req[n].code
  OBVIOUS
<1>2. PICK S : S = {p \in {<<"totp", u, c>>} : now <= c.step + 1}
  OBVIOUS
<1>3. PICK k : k = Set("nonce", <<u, c>>, u, now + Nonce)
  OBVIOUS
<1>4. /\ Becomes(n, r, S) /\ UNCHANGED <<config, issued, loggedOut, now>>
      /\ Key("nonce", <<u, c>>) = {} /\ store' = store \cup {k}
  BY <1>1, <1>2, <1>3 DEF Nonces, Becomes
<1>5. u \in Users /\ c \in Codes /\ c.step <= now + 1 /\ now \in Nat /\ c.step \in Int
  BY <1>1 DEF Nonces, CodeRequests, StepTyped, ReqTyped, Codes
<1>6. /\ k.key = <<"nonce", <<u, c>>>> /\ k.until = now + 3 /\ k.user \in Users
      /\ k.until \in Nat /\ now < k.until /\ k.key[1] = "nonce" /\ k.key = <<k.key[1], k.key[2]>>
  BY <1>3, <1>5 DEF Set, Nonce
<1>7. MarksStay
  BY <1>4 DEF MarksStay
<1>8. BackupsDrawn(n, r) /\ HeldSpent(n, r)
  BY <1>4 DEF BackupsDrawn, HeldSpent, StepTyped
<1>9. OneNewKey(n, r)
  BY <1>4, <1>6 DEF OneNewKey, OneTime
<1>10. ASSUME NEW p \in S PROVE p \in Proofs /\ Unused(p) /\ ~Unused(p)'
  <2>1. p = <<"totp", u, c>> /\ now <= c.step + 1
    BY <1>2
  <2>2. p \in Proofs
    BY <1>5, <2>1 DEF Proofs
  <2>3. p[1] = "totp" /\ p[2] = u /\ p[3] = c
    BY <2>1
  <2>4. Unused(p)
    BY <1>4, <2>1, <2>3 DEF Unused, Valid
  <2>5. k \in Key("nonce", <<u, c>>)'
    BY <1>4, <1>6 DEF Key
  <2>6. ~Valid(p)'
    BY <2>3, <2>5 DEF Valid
  <2>7. ~InRedis(p)' /\ ~ToDraw(p)' /\ ~Listed(p)' /\ ~Unseen(p)'
    BY <2>3 DEF InRedis, ToDraw, Listed, Unseen, OneTime
  <2> QED BY <2>2, <2>4, <2>6, <2>7 DEF Unused
<1>11. Advances(n, r, S)
  BY <1>4, <1>7, <1>8, <1>9, <1>10 DEF Advances
<1>12. MarksLast'
  <2>1. \A v \in Users, d \in Codes : \A l \in Key("nonce", <<v, d>>)' : d.step + 2 <= l.until
    <3> SUFFICES ASSUME NEW v \in Users, NEW d \in Codes, NEW l \in Key("nonce", <<v, d>>)' PROVE d.step + 2 <= l.until
      OBVIOUS
    <3>1. l \in store' /\ l.key = <<"nonce", <<v, d>>>>
      BY DEF Key
    <3>2. CASE l \in store
      BY <3>1, <3>2 DEF MarksLast, Key
    <3>3. CASE l = k
      <4>1. d = c
        BY <1>6, <3>1, <3>3
      <4> QED BY <1>5, <1>6, <3>3, <4>1
    <3> QED BY <1>4, <3>1, <3>2, <3>3
  <2>2. \A id : Key("saml", id)' \subseteq Key("saml", id)
    BY <1>4, <1>6 DEF Key
  <2> QED BY <2>1, <2>2 DEF MarksLast
<1> QED BY <1>4, <1>7, <1>11, <1>12, MarksKept

\* An assertion is marked: the mark lives as long.
LEMMA ReplaysAdvances ==
  ASSUME StepTyped, MarksLast, Blocked, NEW n \in Requests, NEW r, NEW a, Replays(n, r, a)
  PROVE  (\E S : Advances(n, r, S)) /\ MarksLast' /\ Blocked'
<1>1. PICK k : k = ReplayKey(a)
  OBVIOUS
<1>2. PICK S : S = {<<"saml", a.id>>}
  OBVIOUS
<1>3. /\ Becomes(n, r, S) /\ UNCHANGED <<config, issued, loggedOut, now>>
      /\ a \in Assertions /\ now < a.until /\ Key("saml", a.id) = {} /\ store' = store \cup {k}
  BY <1>1, <1>2 DEF Replays, Becomes
<1>4. a.user \in Users /\ a.until \in Nat
  BY <1>3, AssertionsAssumption
<1>5. /\ k.key = <<"saml", a.id>> /\ k.until = a.until /\ k.user \in Users
      /\ k.key[1] = "saml" /\ k.key = <<k.key[1], k.key[2]>>
  BY <1>1, <1>4 DEF ReplayKey, Set
<1>6. MarksStay
  BY <1>3 DEF MarksStay
<1>7. BackupsDrawn(n, r) /\ HeldSpent(n, r)
  BY <1>3 DEF BackupsDrawn, HeldSpent, StepTyped
<1>8. OneNewKey(n, r)
  BY <1>3, <1>4, <1>5 DEF OneNewKey, OneTime
<1>9. ASSUME NEW p \in S PROVE p \in Proofs /\ Unused(p) /\ ~Unused(p)'
  <2>1. p = <<"saml", a.id>> /\ p[1] = "saml" /\ p[2] = a.id
    BY <1>2
  <2>2. p \in Proofs
    BY <1>3, <2>1 DEF Proofs
  <2>3. Unused(p)
    BY <1>3, <2>1 DEF Unused, Unseen
  <2>4. k \in Key("saml", a.id)'
    BY <1>3, <1>5 DEF Key
  <2>5. ~Unseen(p)'
    BY <2>1, <2>4 DEF Unseen
  <2>6. ~InRedis(p)' /\ ~ToDraw(p)' /\ ~Listed(p)' /\ ~Valid(p)'
    BY <2>1 DEF InRedis, ToDraw, Listed, Valid, OneTime
  <2> QED BY <2>2, <2>3, <2>5, <2>6 DEF Unused
<1>10. Advances(n, r, S)
  BY <1>3, <1>6, <1>7, <1>8, <1>9 DEF Advances
<1>11. MarksLast'
  <2>1. \A b \in Assertions : \A l \in Key("saml", b.id)' : b.until <= l.until
    <3> SUFFICES ASSUME NEW b \in Assertions, NEW l \in Key("saml", b.id)' PROVE b.until <= l.until
      OBVIOUS
    <3>1. l \in store' /\ l.key = <<"saml", b.id>>
      BY DEF Key
    <3>2. CASE l \in store
      BY <3>1, <3>2 DEF MarksLast, Key
    <3>3. CASE l = k
      <4>1. b.id = a.id
        BY <1>5, <3>1, <3>3
      <4>2. b = a
        BY <1>3, <4>1, AssertionsAssumption
      <4> QED BY <1>4, <1>5, <3>3, <4>2
    <3> QED BY <1>3, <3>1, <3>2, <3>3
  <2>2. \A id : Key("nonce", id)' \subseteq Key("nonce", id)
    BY <1>3, <1>5 DEF Key
  <2> QED BY <2>1, <2>2 DEF MarksLast
<1> QED BY <1>3, <1>6, <1>10, <1>11, MarksKept


\* A backup code is used up: it was there, and is not drawn again.
LEMMA ConsumesAdvances ==
  ASSUME StepTyped, BackupsOnce, MarksLast, Blocked, NEW n \in Requests, NEW r, NEW u, NEW c, Consumes(n, r, u, c)
  PROVE  (\E S : Advances(n, r, S)) /\ MarksLast' /\ Blocked'
<1>1. PICK S : S = {<<"backup", u, c>>}
  OBVIOUS
<1>2. PICK row1 : row1 = [config[u] EXCEPT !.backup = @ \ {c}]
  OBVIOUS
<1>3. config \in [Users -> [secret : Int, backup : SUBSET Int]] /\ u \in Users /\ c \in config[u].backup
  BY DEF Consumes, StepTyped
<1>4. /\ Becomes(n, r, S) /\ UNCHANGED <<store, issued, loggedOut, now>>
      /\ config' = [config EXCEPT ![u] = row1]
  BY <1>1, <1>2, <1>3 DEF Consumes, Becomes
<1>5. row1 \in [secret : Int, backup : SUBSET Int] /\ row1.backup = config[u].backup \ {c} /\ c \in Int
  BY <1>2, <1>3
<1>6. config' \in [Users -> [secret : Int, backup : SUBSET Int]]
      /\ \A v \in Users : config'[v].backup \subseteq config[v].backup
  BY <1>3, <1>4, <1>5
<1>7. MarksStay /\ BackupsDrawn(n, r) /\ HeldSpent(n, r)
  BY <1>4, <1>6 DEF MarksStay, BackupsDrawn, HeldSpent
<1>8. ASSUME NEW p \in S PROVE p \in Proofs /\ Unused(p) /\ ~Unused(p)'
  <2>1. p = <<"backup", u, c>> /\ p[1] = "backup" /\ p[2] = u /\ p[3] = c
    BY <1>1
  <2>2. p \in Proofs
    BY <1>3, <1>5, <2>1 DEF Proofs
  <2>3. Unused(p)
    BY <1>3, <2>1 DEF Unused, Listed
  <2>4. c \notin config'[u].backup
    BY <1>3, <1>4, <1>5
  <2>5. c \in Requests => req'[c].pc \notin Backing
    BY <1>3, <1>4 DEF BackupsOnce, Becomes, StepTyped, ReqTyped
  <2>6. ~Listed(p)'
    BY <2>1, <2>4, <2>5 DEF Listed
  <2>7. ~InRedis(p)' /\ ~ToDraw(p)' /\ ~Valid(p)' /\ ~Unseen(p)'
    BY <2>1 DEF InRedis, ToDraw, Valid, Unseen, OneTime
  <2> QED BY <2>2, <2>3, <2>6, <2>7 DEF Unused
<1>9. Advances(n, r, S)
  BY <1>4, <1>7, <1>8 DEF Advances
<1> QED BY <1>4, <1>7, <1>9, MarksKept

\* A second factor is set up.
LEMMA ConfiguresAdvances ==
  ASSUME StepTyped, MarksLast, Blocked, NEW n \in Requests, NEW r, NEW u, Configures(n, r, u)
  PROVE  Advances(n, r, {}) /\ MarksLast' /\ Blocked'
<1>1. config \in [Users -> [secret : Int, backup : SUBSET Int]] /\ u \in Users /\ n \in Int
  BY DEF Configures, StepTyped, Requests
<1>2. Becomes(n, r, {}) /\ UNCHANGED <<store, issued, loggedOut, now>>
  BY DEF Configures, Becomes
<1>3. PICK row1 : /\ config' = [config EXCEPT ![u] = row1] /\ row1 \in [secret : Int, backup : SUBSET Int]
                  /\ \/ row1.backup = config[u].backup
                     \/ row1.backup = {n} /\ req[n].pc \in Backing /\ r.pc \notin Backing
  <2>1. CASE config' = [config EXCEPT ![u].secret = n]
    <3>1. PICK row1 : row1 = [config[u] EXCEPT !.secret = n]
      OBVIOUS
    <3>2. row1 \in [secret : Int, backup : SUBSET Int] /\ row1.backup = config[u].backup
      BY <1>1, <3>1
    <3>3. config' = [config EXCEPT ![u] = row1]
      BY <1>1, <2>1, <3>1
    <3> QED BY <3>2, <3>3
  <2>2. CASE config' = [config EXCEPT ![u].backup = {n}] /\ req[n].pc \in Backing /\ r.pc \notin Backing
    <3>1. PICK row1 : row1 = [config[u] EXCEPT !.backup = {n}]
      OBVIOUS
    <3>2. row1 \in [secret : Int, backup : SUBSET Int] /\ row1.backup = {n}
      BY <1>1, <3>1
    <3>3. config' = [config EXCEPT ![u] = row1]
      BY <1>1, <2>2, <3>1
    <3> QED BY <2>2, <3>2, <3>3
  <2> QED BY <2>1, <2>2 DEF Configures
<1>4. BackupsDrawn(n, r)
  BY <1>1, <1>3 DEF BackupsDrawn
<1>5. MarksStay /\ HeldSpent(n, r)
  BY <1>2 DEF MarksStay, HeldSpent
<1> QED BY <1>2, <1>4, <1>5, MarksKept DEF Advances

\* A token is taken back: the blocklist has it as long as it would be accepted.
LEMMA LogsOutAdvances ==
  ASSUME StepTyped, MarksLast, Blocked, NEW n \in Requests, NEW r, NEW t, LogsOut(n, r, t)
  PROVE  Advances(n, r, {}) /\ MarksLast' /\ Blocked'
<1>1. PICK k : k = Blocklist(t)
  OBVIOUS
<1>2. /\ Becomes(n, r, {}) /\ UNCHANGED <<config, issued, now>> /\ t \in issued /\ now < t.until
      /\ store' = store \cup {k} /\ loggedOut' = loggedOut \cup {t}
  BY <1>1 DEF LogsOut, Becomes
<1>3. t.user \in Users /\ t.until \in Nat
  BY <1>2 DEF StepTyped
<1>4. /\ k.key = <<"blocked", t.jti>> /\ k.until = t.until /\ k.user \in Users
      /\ k.key[1] = "blocked" /\ k.key = <<k.key[1], k.key[2]>>
  BY <1>1, <1>3 DEF Blocklist, Set
<1>5. MarksStay
  BY <1>2 DEF MarksStay
<1>6. BackupsDrawn(n, r) /\ HeldSpent(n, r)
  BY <1>2 DEF BackupsDrawn, HeldSpent, StepTyped
<1>7. OneNewKey(n, r)
  BY <1>2, <1>3, <1>4 DEF OneNewKey, OneTime
<1>8. MarksLast'
  BY <1>2, <1>4, <1>5, MarksKept
<1>9. Blocked'
  BY <1>2, <1>4 DEF Blocked
<1> QED BY <1>2, <1>5, <1>6, <1>7, <1>8, <1>9 DEF Advances

\* A token is issued.
LEMMA IssuesAdvances ==
  ASSUME StepTyped, MarksLast, Blocked, NEW n \in Requests, NEW r, NEW t, Issues(n, r, t)
  PROVE  Advances(n, r, {}) /\ MarksLast' /\ Blocked'
<1>1. Becomes(n, r, {}) /\ UNCHANGED <<store, config, loggedOut, now>>
  BY DEF Issues, Becomes
<1>2. MarksStay /\ BackupsDrawn(n, r) /\ HeldSpent(n, r)
  BY <1>1 DEF MarksStay, BackupsDrawn, HeldSpent, StepTyped, Issues
<1> QED BY <1>1, <1>2, MarksKept DEF Advances

\* What the proofs need, together.
ProofsInv ==
  /\ KeysOnce /\ BackupsOnce /\ MarksLast /\ Blocked /\ loggedOut \subseteq issued
  /\ Apart /\ OneTimeOnce

\* A step of a request keeps it.
LEMMA MovesKeep ==
  ASSUME StepTyped, ProofsInv, NEW n \in Requests, Moves(n)
  PROVE  /\ ProofsInv' /\ StoreTyped'
         /\ \E r, S : Becomes(n, r, S)
         /\ config' \in [Users -> [secret : Int, backup : SUBSET Int]]
         /\ issued' \subseteq [jti : Int \X {1, 2}, user : Users, until : Nat, proof : SUBSET Proofs]
<1>1. KeysOnce /\ BackupsOnce /\ MarksLast /\ Blocked /\ loggedOut \subseteq issued /\ Apart /\ OneTimeOnce
  BY DEF ProofsInv
<1>2. PICK r, S : Advances(n, r, S) /\ MarksLast' /\ Blocked'
  <2>1. ASSUME NEW r, Quiet(n, r) PROVE \E S : Advances(n, r, S) /\ MarksLast' /\ Blocked'
    BY <1>1, <2>1, QuietAdvances
  <2>2. ASSUME NEW r, Nonces(n, r) PROVE \E S : Advances(n, r, S) /\ MarksLast' /\ Blocked'
    BY <1>1, <2>2, NoncesAdvances
  <2>3. ASSUME NEW r, NEW k, Stores(n, r, k) PROVE \E S : Advances(n, r, S) /\ MarksLast' /\ Blocked'
    BY <1>1, <2>3, StoresAdvances
  <2>4. ASSUME NEW r, NEW k, Takes(n, r, k) PROVE \E S : Advances(n, r, S) /\ MarksLast' /\ Blocked'
    BY <1>1, <2>4, TakesAdvances
  <2>5. ASSUME NEW r, NEW a, Replays(n, r, a) PROVE \E S : Advances(n, r, S) /\ MarksLast' /\ Blocked'
    BY <1>1, <2>5, ReplaysAdvances
  <2>6. ASSUME NEW r, NEW u, NEW c, Consumes(n, r, u, c) PROVE \E S : Advances(n, r, S) /\ MarksLast' /\ Blocked'
    BY <1>1, <2>6, ConsumesAdvances
  <2>7. ASSUME NEW r, NEW u, Configures(n, r, u) PROVE \E S : Advances(n, r, S) /\ MarksLast' /\ Blocked'
    BY <1>1, <2>7, ConfiguresAdvances
  <2>8. ASSUME NEW r, NEW t, LogsOut(n, r, t) PROVE \E S : Advances(n, r, S) /\ MarksLast' /\ Blocked'
    BY <1>1, <2>8, LogsOutAdvances
  <2>9. ASSUME NEW r, NEW t, Issues(n, r, t) PROVE \E S : Advances(n, r, S) /\ MarksLast' /\ Blocked'
    BY <1>1, <2>9, IssuesAdvances
  <2> QED BY <2>1, <2>2, <2>3, <2>4, <2>5, <2>6, <2>7, <2>8, <2>9, Zenon DEF Moves
<1>3. loggedOut' \subseteq issued'
  BY <1>1, Zenon DEF Moves, Quiet, Nonces, Stores, Takes, Replays, Consumes, Configures, LogsOut, Issues
<1>4. issued' \subseteq [jti : Int \X {1, 2}, user : Users, until : Nat, proof : SUBSET Proofs]
  BY <1>2 DEF Advances, HeldSpent, StepTyped
<1>5. Apart' /\ OneTimeOnce'
  BY <1>1, <1>2, ApartKept
<1>6. KeysOnce' /\ BackupsOnce' /\ StoreTyped'
  BY <1>1, <1>2, KeysKept
<1>7. Becomes(n, r, S) /\ config' \in [Users -> [secret : Int, backup : SUBSET Int]]
  BY <1>2 DEF Advances, BackupsDrawn
<1> QED BY <1>2, <1>3, <1>4, <1>5, <1>6, <1>7 DEF ProofsInv

\* Time passes: keys expire, and what they marked has expired too.
LEMMA TickKeeps ==
  ASSUME StepTyped, ProofsInv, Tick PROVE ProofsInv' /\ StepTyped'
<1>1. /\ KeysOnce /\ BackupsOnce /\ MarksLast /\ Blocked /\ loggedOut \subseteq issued /\ Apart /\ OneTimeOnce
      /\ UNCHANGED <<row, config, req, issued, loggedOut>> /\ now \in Nat /\ now' = now + 1
      /\ store' = {k \in store : now' < k.until}
  BY DEF ProofsInv, Tick, db, history, StepTyped, ReqTyped
<1>2. StoreTyped'
  BY <1>1 DEF StepTyped, StoreTyped
<1>3. KeysOnce' /\ BackupsOnce'
  BY <1>1 DEF KeysOnce, BackupsOnce
<1>4. MarksLast'
  <2>1. \A kind, id : Key(kind, id)' \subseteq Key(kind, id)
    BY <1>1 DEF Key
  <2> QED BY <1>1, <2>1 DEF MarksLast
<1>5. Blocked'
  <2> SUFFICES ASSUME NEW t \in loggedOut, now' < t.until
               PROVE  \E k \in store' : k.key = <<"blocked", t.jti>> /\ k.until = t.until
    BY <1>1 DEF Blocked
  <2>1. t.until \in Nat
    BY <1>1 DEF StepTyped
  <2>2. now < t.until
    BY <1>1, <2>1
  <2>3. PICK k \in store : k.key = <<"blocked", t.jti>> /\ k.until = t.until
    BY <1>1, <2>2 DEF Blocked
  <2> QED BY <1>1, <2>3
<1>6. ReqTyped'
  <2>1. ASSUME NEW n \in Requests, req[n].pc = "nonce" PROVE req[n].code.step <= now' + 1
    <3>1. req[n] \in CodeRequests
      BY <2>1, RequestKinds DEF StepTyped, ReqTyped
    <3>2. req[n].code.step \in Int
      BY <3>1 DEF CodeRequests, Codes
    <3> QED BY <1>1, <2>1, <3>2 DEF StepTyped, ReqTyped
  <2> QED BY <1>1, <2>1 DEF StepTyped, ReqTyped, RowTyped
<1>7. \A n \in Requests : Held(n)' \subseteq Held(n) /\ Held(n) \subseteq Proofs
  <2> SUFFICES ASSUME NEW n \in Requests PROVE Held(n)' \subseteq Held(n) /\ Held(n) \subseteq Proofs
    OBVIOUS
  <2>1. req[n] \in AllRequests
    BY DEF StepTyped, ReqTyped
  <2>2. req[n].pc = "validate" => req[n].code.step \in Int
    BY <2>1, RequestKinds DEF CodeRequests, Codes
  <2>3. Held(n)' \subseteq Held(n)
    <3>1. CASE req[n].pc = "validate"
      BY <1>1, <2>2, <3>1 DEF Held, Carried
    <3>2. CASE req[n].pc # "validate"
      BY <1>1, <3>2 DEF Held, Carried
    <3> QED BY <3>1, <3>2
  <2> QED BY <2>1, <2>3, CarriesProofs DEF Held
<1>8. \A p \in Proofs : Unused(p)' => Unused(p)
  <2> SUFFICES ASSUME NEW p \in Proofs, Unused(p)' PROVE Unused(p)
    OBVIOUS
  <2>1. CASE InRedis(p)' \/ ToDraw(p)' \/ Listed(p)'
    BY <1>1, <2>1 DEF InRedis, ToDraw, Listed, Unused
  <2>2. CASE Valid(p)'
    <3>1. p[1] = "totp" /\ p[2] \in Users /\ p[3] \in Codes /\ p[3].step \in Int /\ now' <= p[3].step + 1
      BY <2>2, ProofKinds DEF Valid, Codes
    <3>2. now <= p[3].step + 1
      BY <1>1, <3>1
    <3>3. ASSUME NEW k \in Key("nonce", <<p[2], p[3]>>) PROVE FALSE
      <4>1. p[3].step + 2 <= k.until /\ k \in store /\ k.until \in Nat
        BY <1>1, <3>1 DEF MarksLast, Key, StepTyped, StoreTyped
      <4>2. now' < k.until
        BY <1>1, <3>1, <4>1
      <4>3. k \in Key("nonce", <<p[2], p[3]>>)'
        BY <1>1, <4>1, <4>2 DEF Key
      <4> QED BY <2>2, <4>3 DEF Valid
    <3> QED BY <3>1, <3>2, <3>3 DEF Valid, Unused
  <2>3. CASE Unseen(p)'
    <3>1. PICK a \in Assertions : a.id = p[2] /\ now' < a.until
      BY <2>3 DEF Unseen
    <3>2. a.until \in Nat
      BY AssertionsAssumption
    <3>3. now < a.until
      BY <1>1, <3>1, <3>2
    <3>4. ASSUME NEW k \in Key("saml", p[2]) PROVE FALSE
      <4>1. a.until <= k.until /\ k \in store /\ k.until \in Nat
        BY <1>1, <3>1 DEF MarksLast, Key, StepTyped, StoreTyped
      <4>2. k \in Key("saml", p[2])'
        BY <1>1, <3>1, <3>2, <4>1 DEF Key
      <4> QED BY <2>3, <4>2 DEF Unseen
    <3> QED BY <2>3, <3>1, <3>3, <3>4 DEF Unseen, Unused
  <2> QED BY <2>1, <2>2, <2>3 DEF Unused
<1>9. Apart' /\ OneTimeOnce'
  <2>1. \A t \in issued : t.proof \subseteq Proofs
    BY DEF StepTyped
  <2> QED BY <1>1, <1>7, <1>8, <2>1 DEF Apart, OneTimeOnce
<1>10. StepTyped'
  BY <1>1, <1>2, <1>6 DEF StepTyped
<1> QED BY <1>1, <1>3, <1>4, <1>5, <1>9, <1>10 DEF ProofsInv


-----------------------------------------------------------------------------
(* Login: the rows of users, and the other types.                          *)

\* A lock has a length.
LEMMA LockLasts == ASSUME NEW c \in Nat PROVE lockoutDuration(c) \in Nat
<1>1. PICK d \in Int : d = c \div 10 - 1
  OBVIOUS
<1>2. PICK m \in Nat : m = Max({0, d})
  <2>1. Max({0, d}) = IF d > 0 THEN d ELSE 0
    BY DEF Max
  <2> QED BY <2>1
<1>3. m >= 7 \/ m \in {0, 1, 2, 3, 4, 5, 6}
  BY <1>2
<1>4. m < 7 => <<1, 2, 4, 8, 16, 32, 64>>[m + 1] \in Nat
  BY <1>3
<1> QED BY <1>1, <1>2, <1>4 DEF lockoutDuration

\* A row is written.
LEMMA RowWritten ==
  ASSUME RowTyped, NEW u \in Users, NEW new, row' = [row EXCEPT ![u] = new],
         new \in [exists : BOOLEAN, status : {"initializing", "active"}, password : BOOLEAN,
                  failed : Nat, locked : Nat, mfa : BOOLEAN, external : BOOLEAN]
  PROVE  RowTyped' /\ row'[u] = new /\ \A v \in Users : v # u => row'[v] = row[v]
BY DEF RowTyped


\* The locks of the accounts stay, and what is counted against them.
LocksKept == over' = over /\ \A u \in Users : row'[u].locked = row[u].locked

\* Most steps leave the users alone.
LEMMA RowsLeft ==
  ASSUME NEW n \in Requests,
         \/ PasswordRequest(n) \/ Present(n) \/ \E t \in issued : Call(n, t)
         \/ \E u \in Users : BeginWebAuthnLogin(n, u)
         \/ RequestFails(n) \/ Compare(n) \/ ListMFAConfigs(n) \/ StoreChallenge(n) \/ IssueTokens(n)
         \/ StoreAuthCode(n) \/ SetNonce(n) \/ VerifyTOTP(n) \/ ConsumeBackupCode(n) \/ UpsertMFAConfig(n)
         \/ StoreBackupCodes(n) \/ SaveWebAuthnCredential(n) \/ ProvisionOrGetSAMLUser(n) \/ SignToken(n)
  PROVE  UNCHANGED <<row, over>>
<1>1. CASE PasswordRequest(n)
  BY <1>1 DEF PasswordRequest, db, history
<1>2. CASE Present(n)
  BY <1>2 DEF Present, db, history
<1>3. ASSUME NEW t \in issued, Call(n, t) PROVE UNCHANGED <<row, over>>
  BY <1>3, Zenon DEF Call, Logout, HandleTOTPEnable, BeginWebAuthnRegistration, CreateSAMLProvider,
       FinishWebAuthnRegistration, db, history
<1>4. ASSUME NEW u \in Users, BeginWebAuthnLogin(n, u) PROVE UNCHANGED <<row, over>>
  BY <1>4 DEF BeginWebAuthnLogin, db, history
<1>5. CASE \/ RequestFails(n) \/ Compare(n) \/ ListMFAConfigs(n) \/ StoreChallenge(n) \/ IssueTokens(n)
           \/ StoreAuthCode(n) \/ SetNonce(n) \/ VerifyTOTP(n)
  BY <1>5, Zenon DEF RequestFails, Compare, ListMFAConfigs, StoreChallenge, IssueTokens, StoreAuthCode,
       SetNonce, VerifyTOTP, db, history
<1>6. CASE \/ ConsumeBackupCode(n) \/ UpsertMFAConfig(n) \/ StoreBackupCodes(n)
           \/ SaveWebAuthnCredential(n) \/ ProvisionOrGetSAMLUser(n) \/ SignToken(n)
  BY <1>6, Zenon DEF ConsumeBackupCode, UpsertMFAConfig, StoreBackupCodes, SaveWebAuthnCredential,
       ProvisionOrGetSAMLUser, SignToken, db, history
<1> QED BY <1>1, <1>2, <1>3, <1>4, <1>5, <1>6

\* A user is found, created or linked, or has a second factor: the lock stays.
LEMMA RowsLinked ==
  ASSUME ReqTyped, NEW n \in Requests, EnableUserMFA(n) \/ CreateSAMLUser(n) \/ LinkSAMLUser(n)
  PROVE  RowTyped' /\ LocksKept
<1>1. req[n].pc \in {"enable", "create", "link", "link old"} /\ over' = over
  BY DEF EnableUserMFA, CreateSAMLUser, LinkSAMLUser, history
<1>2. PICK u : u = req[n].user
  OBVIOUS
<1>3. u \in Users
  <2>1. req[n] \in TokenRequests \/ req[n] \in SamlRequests
    BY <1>1, RequestKinds DEF ReqTyped
  <2> QED BY <1>2, <2>1 DEF TokenRequests, SamlRequests
<1>4. ASSUME NEW new, row' = [row EXCEPT ![u] = new], new.locked = row[u].locked,
             new \in [exists : BOOLEAN, status : {"initializing", "active"}, password : BOOLEAN,
                      failed : Nat, locked : Nat, mfa : BOOLEAN, external : BOOLEAN]
      PROVE  RowTyped' /\ LocksKept
  <2>1. RowTyped' /\ row'[u] = new /\ \A v \in Users : v # u => row'[v] = row[v]
    BY <1>3, <1>4, RowWritten DEF ReqTyped
  <2> QED BY <1>1, <1>4, <2>1 DEF LocksKept
<1>5. CASE row' = row
  BY <1>1, <1>5 DEF LocksKept, RowTyped, ReqTyped
<1>6. CASE row' = [row EXCEPT ![u].mfa = TRUE]
  <2>1. PICK new : new = [row[u] EXCEPT !.mfa = TRUE]
    OBVIOUS
  <2>2. new.locked = row[u].locked
    BY <1>3, <2>1 DEF ReqTyped, RowTyped
  <2>3. new \in [exists : BOOLEAN, status : {"initializing", "active"}, password : BOOLEAN,
                 failed : Nat, locked : Nat, mfa : BOOLEAN, external : BOOLEAN]
    BY <1>3, <2>1 DEF ReqTyped, RowTyped
  <2>4. row' = [row EXCEPT ![u] = new]
    BY <1>3, <1>6, <2>1 DEF ReqTyped, RowTyped
  <2> QED BY <1>4, <2>2, <2>3, <2>4
<1>7. CASE row' = [row EXCEPT ![u].exists = TRUE, ![u].status = "active"]
  <2>1. PICK new : new = [row[u] EXCEPT !.exists = TRUE, !.status = "active"]
    OBVIOUS
  <2>2. new.locked = row[u].locked
    BY <1>3, <2>1 DEF ReqTyped, RowTyped
  <2>3. new \in [exists : BOOLEAN, status : {"initializing", "active"}, password : BOOLEAN,
                 failed : Nat, locked : Nat, mfa : BOOLEAN, external : BOOLEAN]
    BY <1>3, <2>1 DEF ReqTyped, RowTyped
  <2>4. row' = [row EXCEPT ![u] = new]
    BY <1>3, <1>7, <2>1 DEF ReqTyped, RowTyped
  <2> QED BY <1>4, <2>2, <2>3, <2>4
<1>8. CASE row' = [row EXCEPT ![u].external = TRUE, ![u].status = "active"]
  <2>1. PICK new : new = [row[u] EXCEPT !.external = TRUE, !.status = "active"]
    OBVIOUS
  <2>2. new.locked = row[u].locked
    BY <1>3, <2>1 DEF ReqTyped, RowTyped
  <2>3. new \in [exists : BOOLEAN, status : {"initializing", "active"}, password : BOOLEAN,
                 failed : Nat, locked : Nat, mfa : BOOLEAN, external : BOOLEAN]
    BY <1>3, <2>1 DEF ReqTyped, RowTyped
  <2>4. row' = [row EXCEPT ![u] = new]
    BY <1>3, <1>8, <2>1 DEF ReqTyped, RowTyped
  <2> QED BY <1>4, <2>2, <2>3, <2>4
<1>9. \/ row' = row \/ row' = [row EXCEPT ![u].mfa = TRUE]
      \/ row' = [row EXCEPT ![u].exists = TRUE, ![u].status = "active"]
      \/ row' = [row EXCEPT ![u].external = TRUE, ![u].status = "active"]
  BY <1>2, Zenon DEF EnableUserMFA, CreateSAMLUser, LinkSAMLUser
<1> QED BY <1>5, <1>6, <1>7, <1>8, <1>9

\* A wrong password is counted for the account, and once more while it is locked.
LEMMA RowsCounted ==
  ASSUME ReqTyped, over \in [Users -> Nat], NEW n \in Requests, IncrementFailedLogin(n)
  PROVE  /\ RowTyped' /\ \A v \in Users : row'[v].locked = row[v].locked
         /\ req[n].pc = "increment" /\ req[n].user \in Users /\ over' \in [Users -> Nat]
         /\ \A v \in Users : v # req[n].user \/ ~(now < row[v].locked) => over'[v] = over[v]
         /\ now < row[req[n].user].locked => over'[req[n].user] = over[req[n].user] + 1
<1>1. PICK u : u = req[n].user
  OBVIOUS
<1>2. /\ req[n].pc = "increment" /\ row' = [row EXCEPT ![u].failed = @ + 1]
      /\ over' = [over EXCEPT ![u] = IF now < row[u].locked THEN @ + 1 ELSE @]
  BY <1>1 DEF IncrementFailedLogin
<1>3. u \in Users
  BY <1>1, <1>2, OfPassword
<1>4. PICK new : new = [row[u] EXCEPT !.failed = @ + 1]
  OBVIOUS
<1>5. /\ new.locked = row[u].locked
      /\ new \in [exists : BOOLEAN, status : {"initializing", "active"}, password : BOOLEAN,
                  failed : Nat, locked : Nat, mfa : BOOLEAN, external : BOOLEAN]
  BY <1>3, <1>4 DEF ReqTyped, RowTyped
<1>6. row' = [row EXCEPT ![u] = new]
  BY <1>2, <1>3, <1>4 DEF ReqTyped, RowTyped
<1>7. RowTyped' /\ row'[u] = new /\ \A v \in Users : v # u => row'[v] = row[v]
  BY <1>3, <1>5, <1>6, RowWritten DEF ReqTyped
<1> QED BY <1>1, <1>2, <1>3, <1>5, <1>7

\* The account is locked, or its lock is removed: the count starts again.
LEMMA RowsLocked ==
  ASSUME ReqTyped, over \in [Users -> Nat], NEW n \in Requests, LockAccount(n) \/ ResetFailedLogin(n)
  PROVE  /\ RowTyped' /\ over' \in [Users -> Nat] /\ req[n].pc \in {"lock", "reset"}
         /\ \/ LocksKept
            \/ /\ req[n].user \in Users /\ over'[req[n].user] = 0
               /\ \A v \in Users : v # req[n].user => over'[v] = over[v] /\ row'[v].locked = row[v].locked
<1>1. req[n].pc \in {"lock", "reset"}
  BY DEF LockAccount, ResetFailedLogin
<1>2. PICK u : u = req[n].user
  OBVIOUS
<1>3. u \in Users /\ (req[n].pc = "lock" => req[n].count \in Nat)
  BY <1>1, <1>2, OfPassword
<1>4. ASSUME NEW new, row' = [row EXCEPT ![u] = new], over' = [over EXCEPT ![u] = 0],
             new \in [exists : BOOLEAN, status : {"initializing", "active"}, password : BOOLEAN,
                      failed : Nat, locked : Nat, mfa : BOOLEAN, external : BOOLEAN]
      PROVE  /\ RowTyped' /\ over' \in [Users -> Nat] /\ over'[u] = 0
             /\ \A v \in Users : v # u => over'[v] = over[v] /\ row'[v].locked = row[v].locked
  <2>1. RowTyped' /\ \A v \in Users : v # u => row'[v] = row[v]
    BY <1>3, <1>4, RowWritten DEF ReqTyped
  <2> QED BY <1>3, <1>4, <2>1
<1>5. CASE LockAccount(n)
  <2>1. PICK until : until = now + LockUnit * lockoutDuration(req[n].count)
    OBVIOUS
  <2>2. until \in Nat
    <3>1. lockoutDuration(req[n].count) \in Nat
      BY <1>3, <1>5, LockLasts DEF LockAccount
    <3>2. PICK d \in Nat : d = lockoutDuration(req[n].count)
      BY <3>1
    <3>3. LockUnit \in Nat /\ now \in Nat
      BY TimesAssumption DEF ReqTyped
    <3> QED BY <2>1, <3>2, <3>3
  <2>3. row' = [row EXCEPT ![u].locked = until] /\ over' = [over EXCEPT ![u] = 0]
    BY <1>2, <1>5, <2>1 DEF LockAccount
  <2>4. PICK new : new = [row[u] EXCEPT !.locked = until]
    OBVIOUS
  <2>5. new \in [exists : BOOLEAN, status : {"initializing", "active"}, password : BOOLEAN,
                 failed : Nat, locked : Nat, mfa : BOOLEAN, external : BOOLEAN]
    BY <1>3, <2>2, <2>4 DEF ReqTyped, RowTyped
  <2>6. row' = [row EXCEPT ![u] = new]
    BY <1>3, <2>3, <2>4 DEF ReqTyped, RowTyped
  <2> QED BY <1>1, <1>2, <1>3, <1>4, <2>3, <2>5, <2>6
<1>6. CASE row' = [row EXCEPT ![u].failed = 0, ![u].locked = 0] /\ over' = [over EXCEPT ![u] = 0]
  <2>1. PICK new : new = [row[u] EXCEPT !.failed = 0, !.locked = 0]
    OBVIOUS
  <2>2. new \in [exists : BOOLEAN, status : {"initializing", "active"}, password : BOOLEAN,
                 failed : Nat, locked : Nat, mfa : BOOLEAN, external : BOOLEAN]
    BY <1>3, <2>1 DEF ReqTyped, RowTyped
  <2>3. row' = [row EXCEPT ![u] = new]
    BY <1>3, <1>6, <2>1 DEF ReqTyped, RowTyped
  <2> QED BY <1>1, <1>2, <1>3, <1>4, <1>6, <2>2, <2>3
<1>7. CASE UNCHANGED <<row, over>>
  BY <1>1, <1>7 DEF LocksKept, RowTyped, ReqTyped
<1> QED BY <1>2, <1>5, <1>6, <1>7, Zenon DEF ResetFailedLogin


\* The credentials, the identity provider and the faults.
RestKept ==
  /\ creds' = creds \/ \E n \in Requests, u \in Users : creds' = [creds EXCEPT ![u] = @ \cup {n}]
  /\ provider' \in {provider, TRUE}
  /\ faults' = faults \/ Fault

\* What the steps do to them.
LEMMA RestSteps ==
  ASSUME ReqTyped, NEW n \in Requests, Acts(n) PROVE RestKept
<1>1. CASE PasswordRequest(n)
  BY <1>1 DEF PasswordRequest, db, RestKept
<1>2. CASE Present(n)
  BY <1>2 DEF Present, db, RestKept
<1>3. ASSUME NEW t \in issued, Call(n, t) PROVE RestKept
  <2>1. creds' = creds /\ (provider' = provider \/ provider' = TRUE) /\ AuthJWT(t)
    BY <1>3, Zenon DEF Call, Logout, HandleTOTPEnable, BeginWebAuthnRegistration, CreateSAMLProvider,
         UpsertSAMLProvider, FinishWebAuthnRegistration, db
  <2> QED BY <2>1 DEF AuthJWT, RestKept
<1>4. ASSUME NEW u \in Users, BeginWebAuthnLogin(n, u) PROVE RestKept
  BY <1>4 DEF BeginWebAuthnLogin, db, RestKept
<1>5. CASE RequestFails(n)
  BY <1>5 DEF RequestFails, db, RestKept
<1>6. CASE SaveWebAuthnCredential(n)
  <2>1. req[n].user \in Users
    <3>1. req[n] \in TokenRequests
      BY <1>6, RequestKinds DEF ReqTyped, SaveWebAuthnCredential
    <3> QED BY <3>1 DEF TokenRequests
  <2>2. creds' = [creds EXCEPT ![req[n].user] = @ \cup {n}] /\ UNCHANGED <<provider, faults>>
    BY <1>6 DEF SaveWebAuthnCredential
  <2> QED BY <2>1, <2>2 DEF RestKept
<1>7. CASE \/ Compare(n) \/ IncrementFailedLogin(n) \/ LockAccount(n) \/ ResetFailedLogin(n)
           \/ ListMFAConfigs(n) \/ StoreChallenge(n) \/ IssueTokens(n) \/ StoreAuthCode(n)
  <2>1. UNCHANGED <<creds, provider>> /\ (faults' = faults \/ Fault)
    BY <1>7, Zenon DEF Compare, IncrementFailedLogin, LockAccount, ResetFailedLogin, ListMFAConfigs,
         StoreChallenge, IssueTokens, StoreAuthCode, db
  <2> QED BY <2>1 DEF RestKept
<1>8. CASE \/ SetNonce(n) \/ VerifyTOTP(n) \/ ConsumeBackupCode(n) \/ UpsertMFAConfig(n) \/ EnableUserMFA(n)
           \/ StoreBackupCodes(n) \/ ProvisionOrGetSAMLUser(n) \/ CreateSAMLUser(n) \/ LinkSAMLUser(n)
           \/ SignToken(n)
  <2>1. UNCHANGED <<creds, provider>> /\ (faults' = faults \/ Fault)
    BY <1>8, Zenon DEF SetNonce, VerifyTOTP, ConsumeBackupCode, UpsertMFAConfig, EnableUserMFA,
         StoreBackupCodes, ProvisionOrGetSAMLUser, CreateSAMLUser, LinkSAMLUser, SignToken, db
  <2> QED BY <2>1 DEF RestKept
<1> QED BY <1>1, <1>2, <1>3, <1>4, <1>5, <1>6, <1>7, <1>8, Zenon DEF Acts, Step

-----------------------------------------------------------------------------
(* Login: wrong passwords while an account is locked.                      *)

\* The requests that may still count a wrong password for an account, though it
\* is locked: they read an earlier lock, or have compared.
Guessing(u) ==
  {n \in Requests : /\ req[n].pc \in {"compare", "increment"} /\ req[n].user = u
                    /\ req[n].pc = "compare" => req[n].locked < row[u].locked}

\* The wrong passwords counted and those that may still be leave room for the
\* request that locked the account.
Guesses ==
  \A u \in Users : over[u] + (IF now < row[u].locked THEN Cardinality(Guessing(u)) ELSE 0) < Slots

\* The requests under way are finitely many.
LEMMA ActiveFinite ==
  /\ IsFiniteSet(Active) /\ Cardinality(Active) \in Nat
  /\ \A u : Guessing(u) \subseteq Active /\ IsFiniteSet(Guessing(u)) /\ Cardinality(Guessing(u)) \in Nat
<1>1. IsFiniteSet(Requests)
  BY FS_Interval, BoundsAssumption DEF Requests
<1>2. IsFiniteSet(Active)
  BY <1>1, FS_Subset DEF Active
<1>3. ASSUME NEW u PROVE Guessing(u) \subseteq Active
  BY DEF Guessing, Active
<1>4. ASSUME NEW u PROVE IsFiniteSet(Guessing(u))
  BY <1>2, <1>3, FS_Subset
<1> QED BY <1>2, <1>3, <1>4, FS_CardinalityType

\* A request comes in only where there is room.
LEMMA ActiveKept ==
  ASSUME ReqTyped, Cardinality(Active) <= Slots, NEW n \in Requests, NEW r, NEW S, Becomes(n, r, S)
  PROVE  Cardinality(Active') <= Slots
<1>1. Active' \subseteq Active \cup {n}
  BY DEF Becomes, Active, ReqTyped
<1>2. IsFiniteSet(Active) /\ Cardinality(Active) \in Nat /\ Slots \in Nat
  BY ActiveFinite, BoundsAssumption
<1>3. IsFiniteSet(Active \cup {n}) /\ Cardinality(Active \cup {n}) <= Slots
  <2>1. CASE n \in Active
    <3>1. Active \cup {n} = Active
      BY <2>1
    <3> QED BY <1>2, <3>1
  <2>2. CASE n \notin Active
    <3>1. Cardinality(Active) < Slots
      BY <2>2 DEF Becomes, Active
    <3>2. IsFiniteSet(Active \cup {n}) /\ Cardinality(Active \cup {n}) = Cardinality(Active) + 1
      BY <1>2, <2>2, FS_AddElement
    <3> QED BY <1>2, <3>1, <3>2
  <2> QED BY <2>1, <2>2
<1>4. IsFiniteSet(Active') /\ Cardinality(Active') <= Cardinality(Active \cup {n})
  BY <1>1, <1>3, FS_Subset
<1>5. Cardinality(Active') \in Nat /\ Cardinality(Active \cup {n}) \in Nat
  BY <1>3, <1>4, FS_CardinalityType
<1> QED BY <1>2, <1>3, <1>4, <1>5

\* Nobody new may count a wrong password for a locked account while the lock stays.
LEMMA GuessingShrinks ==
  ASSUME StepTyped, NEW n \in Requests, NEW r, NEW S, Becomes(n, r, S), NEW u \in Users,
         row'[u].locked = row[u].locked, now < row[u].locked
  PROVE  Guessing(u)' \subseteq Guessing(u)
<1>1. /\ req' = [req EXCEPT ![n] = r] /\ req \in [Requests -> AllRequests]
      /\ r.pc \in {"compare", "increment"} => Asks(n, r)
  BY DEF Becomes, StepTyped, ReqTyped
<1>2. row[u].locked \in Nat /\ now \in Nat
  BY RowFields DEF StepTyped, ReqTyped
<1> SUFFICES ASSUME NEW m \in Guessing(u)' PROVE m \in Guessing(u)
  OBVIOUS
<1>3. /\ m \in Requests /\ req'[m].pc \in {"compare", "increment"} /\ req'[m].user = u
      /\ req'[m].pc = "compare" => req'[m].locked < row'[u].locked
  BY DEF Guessing
<1>4. CASE m # n
  BY <1>1, <1>3, <1>4 DEF Guessing
<1>5. CASE m = n
  <2>1. req'[m] = r
    BY <1>1, <1>5
  <2>2. r.pc # "compare"
    BY <1>1, <1>2, <1>3, <2>1 DEF Asks
  <2>3. /\ req[n].pc = "compare" /\ req[n].user = u
        /\ req[n].locked = 0 \/ req[n].locked <= now
    BY <1>1, <1>3, <2>1, <2>2 DEF Asks
  <2>4. req[n].locked \in Nat
    BY <1>1, <2>3, RequestKinds DEF PasswordRequests
  <2>5. req[n].locked < row[u].locked
    BY <1>2, <2>3, <2>4
  <2> QED BY <1>5, <2>3, <2>5 DEF Guessing
<1> QED BY <1>4, <1>5


\* The wrong passwords counted while the account is locked stay bounded.
LEMMA GuessesKept ==
  ASSUME StepTyped, over \in [Users -> Nat], Guesses, Cardinality(Active) <= Slots,
         NEW n \in Requests, NEW r, NEW S, Becomes(n, r, S), Acts(n)
  PROVE  Guesses' /\ RowTyped' /\ over' \in [Users -> Nat]
<1>1. now' = now /\ now \in Nat /\ ReqTyped /\ Slots \in Nat \ {0}
  BY BoundsAssumption DEF Becomes, StepTyped, ReqTyped
<1>2. \A u \in Users : row[u].locked \in Nat
  BY RowFields DEF StepTyped, ReqTyped
\* The count of one account when its lock stays.
<1>3. ASSUME NEW u \in Users, row'[u].locked = row[u].locked, over'[u] = over[u]
      PROVE  over'[u] + (IF now' < row'[u].locked THEN Cardinality(Guessing(u)') ELSE 0) < Slots
  <2>1. CASE now < row[u].locked
    <3>1. Guessing(u)' \subseteq Guessing(u)
      BY <1>3, <2>1, GuessingShrinks
    <3>2. IsFiniteSet(Guessing(u)) /\ Cardinality(Guessing(u)) \in Nat
      BY ActiveFinite
    <3>3. IsFiniteSet(Guessing(u)') /\ Cardinality(Guessing(u)') <= Cardinality(Guessing(u))
      BY <3>1, <3>2, FS_Subset
    <3>4. Cardinality(Guessing(u)') \in Nat
      BY <3>3, FS_CardinalityType
    <3>5. over[u] + Cardinality(Guessing(u)) < Slots /\ over[u] \in Nat
      BY <2>1 DEF Guesses
    <3> QED BY <1>1, <1>3, <2>1, <3>2, <3>3, <3>4, <3>5
  <2>2. CASE ~(now < row[u].locked)
    BY <1>1, <1>3, <2>2 DEF Guesses
  <2> QED BY <2>1, <2>2
\* A request that has counted or locked is not among those that may still count.
<1>4. req[n].pc \in {"increment", "lock", "reset"} => \A u : n \notin Guessing(u)'
  <2>1. req[n].pc \in {"increment", "lock", "reset"} => r.pc \notin {"compare", "increment"}
    BY DEF Becomes, Asks
  <2>2. req'[n] = r
    BY DEF Becomes, StepTyped, ReqTyped
  <2> QED BY <2>1, <2>2 DEF Guessing
<1>5. CASE LocksKept /\ RowTyped' /\ over' \in [Users -> Nat]
  BY <1>3, <1>5 DEF LocksKept, Guesses
<1>6. CASE IncrementFailedLogin(n)
  <2>1. PICK v \in Users : v = req[n].user
    BY <1>1, <1>6, RowsCounted
  <2>2. /\ RowTyped' /\ \A u \in Users : row'[u].locked = row[u].locked
        /\ req[n].pc = "increment" /\ over' \in [Users -> Nat]
        /\ \A u \in Users : u # v \/ ~(now < row[u].locked) => over'[u] = over[u]
        /\ now < row[v].locked => over'[v] = over[v] + 1
    BY <1>1, <1>6, <2>1, RowsCounted
  <2>3. CASE now < row[v].locked
    <3>1. Guessing(v)' \subseteq Guessing(v) \ {n}
      BY <1>4, <2>2, <2>3, GuessingShrinks
    <3>2. IsFiniteSet(Guessing(v)) /\ Cardinality(Guessing(v)) \in Nat
      BY ActiveFinite
    <3>3. n \in Guessing(v)
      BY <2>1, <2>2 DEF Guessing
    <3>4. /\ IsFiniteSet(Guessing(v) \ {n})
          /\ Cardinality(Guessing(v) \ {n}) = Cardinality(Guessing(v)) - 1
      BY <3>2, <3>3, FS_RemoveElement
    <3>5. IsFiniteSet(Guessing(v)') /\ Cardinality(Guessing(v)') <= Cardinality(Guessing(v) \ {n})
      BY <3>1, <3>4, FS_Subset
    <3>6. Cardinality(Guessing(v)') \in Nat
      BY <3>5, FS_CardinalityType
    <3>7. over[v] + Cardinality(Guessing(v)) < Slots /\ over[v] \in Nat
      BY <2>3 DEF Guesses
    <3>8. over'[v] + Cardinality(Guessing(v)') < Slots
      BY <1>1, <2>2, <2>3, <3>2, <3>4, <3>5, <3>6, <3>7
    <3>9. over'[v] + (IF now' < row'[v].locked THEN Cardinality(Guessing(v)') ELSE 0) < Slots
      BY <1>1, <2>2, <2>3, <3>8
    <3>10. ASSUME NEW u \in Users, u # v
           PROVE  over'[u] + (IF now' < row'[u].locked THEN Cardinality(Guessing(u)') ELSE 0) < Slots
      BY <1>3, <2>2, <3>10
    <3> QED BY <2>2, <3>9, <3>10 DEF Guesses
  <2>4. CASE ~(now < row[v].locked)
    <3>1. \A u \in Users : over'[u] = over[u] /\ row'[u].locked = row[u].locked
      BY <2>2, <2>4
    <3> QED BY <1>3, <2>2, <3>1 DEF Guesses
  <2> QED BY <2>3, <2>4
<1>7. CASE LockAccount(n) \/ ResetFailedLogin(n)
  <2>1. RowTyped' /\ over' \in [Users -> Nat] /\ req[n].pc \in {"lock", "reset"}
    BY <1>1, <1>7, RowsLocked
  <2>2. CASE ~LocksKept
    <3>1. PICK v \in Users : v = req[n].user
      BY <1>1, <1>7, <2>2, RowsLocked
    <3>2. /\ over'[v] = 0
          /\ \A u \in Users : u # v => over'[u] = over[u] /\ row'[u].locked = row[u].locked
      BY <1>1, <1>7, <2>2, <3>1, RowsLocked
    <3>3. IsFiniteSet(Active) /\ Cardinality(Active) \in Nat
      BY ActiveFinite
    <3>4. n \in Active
      BY <2>1 DEF Active
    <3>5. Guessing(v)' \subseteq Active \ {n}
      <4>1. \A m \in Requests : m # n => req'[m] = req[m]
        BY DEF Becomes, StepTyped, ReqTyped
      <4>2. \A m \in Guessing(v)' : m \in Requests /\ m # n /\ req'[m].pc \in {"compare", "increment"}
        BY <1>4, <2>1 DEF Guessing
      <4> QED BY <4>1, <4>2 DEF Active
    <3>6. IsFiniteSet(Active \ {n}) /\ Cardinality(Active \ {n}) = Cardinality(Active) - 1
      BY <3>3, <3>4, FS_RemoveElement
    <3>7. IsFiniteSet(Guessing(v)') /\ Cardinality(Guessing(v)') <= Cardinality(Active \ {n})
      BY <3>5, <3>6, FS_Subset
    <3>8. Cardinality(Guessing(v)') \in Nat
      BY <3>7, FS_CardinalityType
    <3>9. over'[v] + (IF now' < row'[v].locked THEN Cardinality(Guessing(v)') ELSE 0) < Slots
      BY <1>1, <3>2, <3>3, <3>6, <3>7, <3>8
    <3>10. ASSUME NEW u \in Users, u # v
           PROVE  over'[u] + (IF now' < row'[u].locked THEN Cardinality(Guessing(u)') ELSE 0) < Slots
      BY <1>3, <3>2, <3>10
    <3> QED BY <2>1, <3>9, <3>10 DEF Guesses
  <2> QED BY <1>5, <2>1, <2>2
<1>8. CASE EnableUserMFA(n) \/ CreateSAMLUser(n) \/ LinkSAMLUser(n)
  <2>1. RowTyped' /\ LocksKept
    BY <1>1, <1>8, RowsLinked
  <2> QED BY <1>5, <2>1 DEF LocksKept
<1>9. CASE \/ PasswordRequest(n) \/ Present(n) \/ \E t \in issued : Call(n, t)
           \/ \E u \in Users : BeginWebAuthnLogin(n, u)
           \/ RequestFails(n) \/ Compare(n) \/ ListMFAConfigs(n) \/ StoreChallenge(n) \/ IssueTokens(n)
           \/ StoreAuthCode(n) \/ SetNonce(n) \/ VerifyTOTP(n) \/ ConsumeBackupCode(n) \/ UpsertMFAConfig(n)
           \/ StoreBackupCodes(n) \/ SaveWebAuthnCredential(n) \/ ProvisionOrGetSAMLUser(n) \/ SignToken(n)
  <2>1. UNCHANGED <<row, over>>
    BY <1>9, RowsLeft
  <2>2. LocksKept /\ RowTyped' /\ over' \in [Users -> Nat]
    BY <1>1, <2>1 DEF LocksKept, ReqTyped, RowTyped
  <2> QED BY <1>5, <2>2
<1> QED BY <1>6, <1>7, <1>8, <1>9, Zenon DEF Acts, Step


-----------------------------------------------------------------------------
(* Login: the inductive invariant.                                         *)

\* The other types.
RestTyped ==
  /\ creds \in [Users -> SUBSET Int] /\ provider \in BOOLEAN
  /\ over \in [Users -> Nat] /\ now \in 0..MaxTime /\ faults \in 0..MaxFaults
  /\ Cardinality(Active) <= Slots

\* The invariant: types, what is used up and held once, and the wrong passwords.
LoginInv == StepTyped /\ RestTyped /\ ProofsInv /\ Guesses

\* It implies what the runs check.
LEMMA LoginInvImplies ==
  ASSUME LoginInv PROVE TypeOK /\ OneTimeOnce /\ ParallelGuesses /\ LogoutHolds
<1>1. TypeOK
  BY DEF LoginInv, StepTyped, ReqTyped, RowTyped, StoreTyped, RestTyped, ProofsInv, TypeOK, AllRequests
<1>2. OneTimeOnce
  BY DEF LoginInv, ProofsInv
<1>3. ParallelGuesses
  <2> SUFFICES ASSUME NEW u \in Users PROVE over[u] < Slots
    BY DEF ParallelGuesses
  <2>1. over[u] \in Nat /\ Cardinality(Guessing(u)) \in Nat /\ Slots \in Nat
    BY ActiveFinite, BoundsAssumption DEF LoginInv, RestTyped
  <2> QED BY <2>1 DEF LoginInv, Guesses
<1>4. LogoutHolds
  BY DEF LoginInv, ProofsInv, Blocked, LogoutHolds, Key
<1> QED BY <1>1, <1>2, <1>3, <1>4

\* At the start.
LEMMA LoginInit == Init => LoginInv
<1> SUFFICES ASSUME Init PROVE LoginInv
  OBVIOUS
<1>1. \A n \in Requests : req[n] = New /\ req[n].pc = "new" /\ New \in AllRequests
  BY DEF Init, New, AllRequests
<1>2. req \in [Requests -> AllRequests]
  BY <1>1 DEF Init
<1>3. StoreTyped
  <2> SUFFICES ASSUME NEW k \in store
               PROVE  /\ k.user \in Users /\ k.until \in Nat /\ now < k.until
                      /\ k.key = <<k.key[1], k.key[2]>>
                      /\ k.key[1] \in OneTime => k.key[2] \in Int
    BY DEF StoreTyped
  <2>1. k \in [key : {"challenge"} \X (Int \ Requests), user : Users, until : Nat \ {0}]
    BY InitialStoreAssumption DEF Init
  <2> QED BY <2>1 DEF Init
<1>4. config \in [Users -> [secret : Int, backup : SUBSET Int]] /\ BackupsOnce /\ creds \in [Users -> SUBSET Int]
  BY InitialRowsAssumption DEF Init, BackupsOnce
<1>5. /\ issued \subseteq [jti : Int \X {1, 2}, user : Users, until : Nat, proof : SUBSET Proofs]
      /\ \A t \in issued : t.proof = {}
  <2>1. \A t \in issued : t \in [jti : (Int \ Requests) \X {1, 2}, user : Users, until : Nat, proof : {{}}]
    BY InitialTokensAssumption DEF Init
  <2>2. \A t \in issued : t.proof = {} /\ t \in [jti : Int \X {1, 2}, user : Users, until : Nat, proof : SUBSET Proofs]
    BY <2>1
  <2> QED BY <2>2
<1>6. StepTyped
  BY <1>1, <1>2, <1>3, <1>4, <1>5, InitialRowsAssumption DEF Init, StepTyped, ReqTyped, RowTyped
<1>7. Active = {} /\ \A u : Guessing(u) = {}
  BY <1>1 DEF Active, Guessing
<1>8. RestTyped /\ Guesses
  <2>1. Cardinality({}) = 0
    BY FS_EmptySet
  <2>2. RestTyped
    <3>1. over \in [Users -> Nat] /\ provider \in BOOLEAN
      BY DEF Init
    <3>2. now \in 0..MaxTime /\ faults \in 0..MaxFaults
      BY BoundsAssumption, MaxFaultsAssumption DEF Init
    <3>3. Cardinality(Active) <= Slots
      BY <1>7, <2>1, BoundsAssumption
    <3> QED BY <1>4, <3>1, <3>2, <3>3 DEF RestTyped
  <2>3. \A u \in Users : row[u].locked \in Nat /\ over[u] = 0
    BY <1>6, RowFields DEF StepTyped, ReqTyped, Init
  <2> QED BY <1>7, <2>1, <2>2, <2>3, BoundsAssumption DEF Guesses
<1>9. KeysOnce
  <2>1. \A k \in store : k.key \in {"challenge"} \X (Int \ Requests)
    BY InitialStoreAssumption DEF Init
  <2>2. \A k, l \in store : k.key = l.key => k = l
    BY InitialStoreAssumption DEF Init
  <2>3. \A k \in store, n \in Requests : \A kind : k.key # <<kind, n>>
    BY <2>1
  <2> QED BY <2>2, <2>3 DEF KeysOnce
<1>10. MarksLast
  <2>1. \A k \in store : k.key \in {"challenge"} \X (Int \ Requests)
    BY InitialStoreAssumption DEF Init
  <2>2. \A id : Key("nonce", id) = {} /\ Key("saml", id) = {}
    BY <2>1 DEF Key
  <2> QED BY <2>2 DEF MarksLast
<1>11. Blocked /\ loggedOut \subseteq issued
  BY DEF Init, Blocked
<1>12. \A n \in Requests : Held(n) = {}
  BY <1>1 DEF Held, Carried
<1>13. Apart /\ OneTimeOnce
  BY <1>5, <1>12 DEF Apart, OneTimeOnce
<1> QED BY <1>4, <1>6, <1>8, <1>9, <1>10, <1>11, <1>13 DEF LoginInv, ProofsInv

\* A request's step keeps the invariant.
LEMMA LoginActs ==
  ASSUME LoginInv, NEW n \in Requests, Acts(n) PROVE LoginInv'
<1>1. StepTyped /\ RestTyped /\ ProofsInv /\ Guesses
  BY DEF LoginInv
<1>2. Moves(n)
  BY <1>1, LoginSteps
<1>3. /\ ProofsInv' /\ StoreTyped'
      /\ config' \in [Users -> [secret : Int, backup : SUBSET Int]]
      /\ issued' \subseteq [jti : Int \X {1, 2}, user : Users, until : Nat, proof : SUBSET Proofs]
  BY <1>1, <1>2, MovesKeep
<1>4. PICK r, S : Becomes(n, r, S)
  BY <1>1, <1>2, MovesKeep
<1>5. Guesses' /\ RowTyped' /\ over' \in [Users -> Nat]
  BY <1>1, <1>4, GuessesKept DEF RestTyped
<1>6. Cardinality(Active') <= Slots
  BY <1>1, <1>4, ActiveKept DEF RestTyped, StepTyped
<1>7. ReqTyped'
  <2>1. req' \in [Requests -> AllRequests] /\ now' = now /\ now \in Nat
    BY <1>1, <1>4 DEF Becomes, StepTyped, ReqTyped
  <2>2. \A m \in Requests : req'[m].pc = "nonce" => req'[m].code.step <= now + 1
    BY <1>1, <1>4 DEF Becomes, StepTyped, ReqTyped
  <2> QED BY <1>5, <2>1, <2>2 DEF ReqTyped
<1>8. creds' \in [Users -> SUBSET Int] /\ provider' \in BOOLEAN /\ faults' \in 0..MaxFaults
  <2>1. RestKept
    BY <1>1, RestSteps DEF StepTyped
  <2>2. n \in Int /\ creds \in [Users -> SUBSET Int]
    BY <1>1 DEF RestTyped, Requests
  <2>3. creds' \in [Users -> SUBSET Int]
    BY <2>1, <2>2 DEF RestKept, Requests
  <2>4. provider' \in BOOLEAN
    BY <1>1, <2>1 DEF RestKept, RestTyped
  <2>5. faults' \in 0..MaxFaults
    BY <1>1, <2>1, BoundsAssumption, MaxFaultsAssumption DEF RestKept, RestTyped, Fault
  <2> QED BY <2>3, <2>4, <2>5
<1>9. now' \in 0..MaxTime
  BY <1>1, <1>4 DEF Becomes, RestTyped
<1>10. StepTyped'
  BY <1>3, <1>7 DEF StepTyped
<1>11. RestTyped'
  BY <1>5, <1>6, <1>8, <1>9 DEF RestTyped
<1> QED BY <1>3, <1>5, <1>10, <1>11 DEF LoginInv

\* So does time passing: a lock that ends needs no room any more.
LEMMA LoginTick == ASSUME LoginInv, Tick PROVE LoginInv'
<1>1. StepTyped /\ RestTyped /\ ProofsInv /\ Guesses
  BY DEF LoginInv
<1>2. /\ UNCHANGED <<row, config, creds, provider, req, issued, loggedOut, over, faults>>
      /\ now' = now + 1 /\ now < MaxTime
  BY DEF Tick, db, history
<1>3. ProofsInv' /\ StepTyped'
  BY <1>1, TickKeeps
<1>4. Active' = Active /\ \A u : Guessing(u)' = Guessing(u)
  BY <1>2 DEF Active, Guessing
<1>5. RestTyped'
  <2>1. now' \in 0..MaxTime
    BY <1>1, <1>2, BoundsAssumption, MaxFaultsAssumption DEF RestTyped
  <2> QED BY <1>1, <1>2, <1>4, <2>1 DEF RestTyped
<1>6. Guesses'
  <2> SUFFICES ASSUME NEW u \in Users
               PROVE  over[u] + (IF now' < row[u].locked THEN Cardinality(Guessing(u)) ELSE 0) < Slots
    BY <1>2, <1>4 DEF Guesses
  <2>1. /\ over[u] \in Nat /\ Cardinality(Guessing(u)) \in Nat /\ Slots \in Nat
        /\ row[u].locked \in Nat /\ now \in Nat
    BY <1>1, ActiveFinite, RowFields, BoundsAssumption DEF RestTyped, StepTyped, ReqTyped
  <2>2. over[u] + (IF now < row[u].locked THEN Cardinality(Guessing(u)) ELSE 0) < Slots
    BY <1>1 DEF Guesses
  <2>3. now' < row[u].locked => now < row[u].locked
    BY <1>2, <2>1
  <2> QED BY <2>1, <2>2, <2>3
<1> QED BY <1>3, <1>5, <1>6 DEF LoginInv

\* The invariant is inductive.
LEMMA LoginInductive == LoginInv /\ [Next]_vars => LoginInv'
<1> SUFFICES ASSUME LoginInv, [Next]_vars PROVE LoginInv'
  OBVIOUS
<1>1. CASE UNCHANGED vars
  <2>1. UNCHANGED <<row, config, creds, provider, store, req, issued, loggedOut, over, now, faults>>
    BY <1>1 DEF vars
  <2>2. StepTyped' /\ RestTyped'
    BY <2>1 DEF LoginInv, StepTyped, ReqTyped, RowTyped, StoreTyped, RestTyped, Active
  <2>3. Guesses'
    BY <2>1 DEF LoginInv, Guesses, Guessing
  <2>4. KeysOnce' /\ BackupsOnce' /\ MarksLast' /\ Blocked' /\ OneTimeOnce' /\ (loggedOut \subseteq issued)'
    BY <2>1 DEF LoginInv, ProofsInv, KeysOnce, BackupsOnce, MarksLast, Key, Blocked, OneTimeOnce
  <2>5. \A n : Held(n)' = Held(n)
    BY <2>1 DEF Held, Carried
  <2>6. \A p : Unused(p)' = Unused(p)
    BY <2>1 DEF Unused, InRedis, ToDraw, Listed, Valid, Unseen, Key
  <2>7. Apart'
    BY <2>1, <2>5, <2>6 DEF LoginInv, ProofsInv, Apart
  <2> QED BY <2>2, <2>3, <2>4, <2>7 DEF LoginInv, ProofsInv
<1>2. CASE Tick
  BY <1>2, LoginTick
<1>3. ASSUME NEW n \in Requests, Acts(n) PROVE LoginInv'
  BY <1>3, LoginActs
<1> QED BY <1>1, <1>2, <1>3, Zenon DEF Next, Acts

\* Login: every reachable state satisfies the inductive invariant.
THEOREM LoginInvariant == Spec => []LoginInv
<1>1. Init => LoginInv
  BY LoginInit
<1>2. LoginInv /\ [Next]_vars => LoginInv'
  BY LoginInductive
<1> QED BY <1>1, <1>2, PTL DEF Spec

\* Rows, requests, keys and tokens keep their types, nothing in Redis has
\* expired, and no more requests are under way than there is room for.
THEOREM LoginTypeCorrect == Spec => []TypeOK
<1>1. LoginInv => TypeOK
  BY LoginInvImplies
<1> QED BY <1>1, LoginInvariant, PTL

\* A challenge, a backup code, an authorization code, a WebAuthn session and a
\* SAML assertion open at most one session each, and so does a TOTP code for
\* each way it is written in a request (mfa.go:175, 281-324, auth.go:181,
\* saml.go:183-196), for any number of requests and users, all lifetimes and all
\* interleavings.
THEOREM LoginOneTimeOnce == Spec => []OneTimeOnce
<1>1. LoginInv => OneTimeOnce
  BY LoginInvImplies
<1> QED BY <1>1, LoginInvariant, PTL

\* Wrong passwords counted for a locked account come only from the requests that
\* were under way when it was last locked (auth.go:18-51), whatever the length
\* of the lock and however often it is prolonged.
THEOREM LoginParallelGuesses == Spec => []ParallelGuesses
<1>1. LoginInv => ParallelGuesses
  BY LoginInvImplies
<1> QED BY <1>1, LoginInvariant, PTL

\* A token whose logout was confirmed is in the blocklist until its signature
\* expires (auth.go:151-163).
THEOREM LoginLogoutHolds == Spec => []LogoutHolds
<1>1. LoginInv => LogoutHolds
  BY LoginInvImplies
<1> QED BY <1>1, LoginInvariant, PTL
==============================================================================
