-------------------------------- MODULE Login --------------------------------
(***************************************************************************)
(* How IAM (services/iam) turns credentials into tokens: passwords with    *)
(* the lockout, TOTP and backup codes behind an MFA challenge, OAuth       *)
(* authorization codes, WebAuthn ceremonies and SAML assertions, and how a *)
(* logout takes a token back.  Requests run concurrently; each statement   *)
(* on PostgreSQL or Redis is a step of its own.                            *)
(*                                                                         *)
(* Requests are numbered in the order they come in, and a key, secret or   *)
(* code drawn by a request has its number.  Time is counted in periods of  *)
(* a TOTP code (30 s).  What follows a token's issue is in Sessions.       *)
(* Signatures and attestations are checked by libraries: the client of a   *)
(* ceremony passes or fails.                                               *)
(***************************************************************************)
EXTENDS Iam, Integers, FiniteSets, FiniteSetsExt

CONSTANTS
  InitialRow,     \* the row of each user, see TypeOK
  InitialConfig,  \* the row of mfa_configs, or None
  InitialTokens,  \* tokens issued before
  InitialCreds,   \* the WebAuthn credentials registered before
  InitialStore,   \* challenges of earlier logins
  Assertions,     \* [id, user, until]: what the identity provider signs
  Slots,          \* bound: requests at a time
  MaxRequests,    \* bound: requests
  MaxTime,        \* bound: periods
  LockUnit,       \* 15 minutes
  ChallengeTTL, SessionTTL, CodeTTL, TokenTTL, SamlTTL

ASSUME BoundsAssumption ==
  /\ Slots \in Nat \ {0} /\ MaxRequests \in Nat /\ MaxTime \in Nat
ASSUME TimesAssumption ==
  {LockUnit, ChallengeTTL, SessionTTL, CodeTTL, TokenTTL, SamlTTL} \subseteq Nat \ {0}

VARIABLES
  row,       \* users: [exists, status, password, failed, locked, mfa, external]
  config,    \* mfa_configs: [secret, backup] or None
  creds,     \* webauthn_credentials
  provider,  \* saml_providers: is the identity provider configured
  store,     \* Redis: the keys with their lifetime, [key, user, until]
  req,       \* the requests
  issued,    \* the tokens: [jti, user, until, proof]
  loggedOut, \* history: tokens whose logout was confirmed
  over,      \* history: wrong passwords counted for the account since it was last locked
  now

db == <<row, config, creds, provider>>
history == <<issued, loggedOut, over>>
vars == <<row, config, creds, provider, store, req, issued, loggedOut, over, now, faults>>

None == [secret |-> -1, backup |-> {}]
New == [pc |-> "new"]
Done == [pc |-> "done"]
Requests == 1..MaxRequests

\* What is there at the start was drawn by earlier requests, and is not used up.
ASSUME InitialRowsAssumption ==
  /\ InitialRow \in [Users -> [exists : BOOLEAN, status : {"initializing", "active"}, password : BOOLEAN,
                              failed : Nat, locked : Nat, mfa : BOOLEAN, external : BOOLEAN]]
  /\ InitialConfig \in [Users -> [secret : Int, backup : SUBSET (Int \ Requests)]]
  /\ InitialCreds \in [Users -> SUBSET (Int \ Requests)]
ASSUME InitialStoreAssumption ==
  /\ InitialStore \subseteq [key : {"challenge"} \X (Int \ Requests), user : Users, until : Nat \ {0}]
  /\ \A k, l \in InitialStore : k.key = l.key => k = l
ASSUME InitialTokensAssumption ==
  InitialTokens \subseteq [jti : (Int \ Requests) \X {1, 2}, user : Users, until : Nat, proof : {{}}]
\* The id of an assertion is unique.
ASSUME AssertionsAssumption ==
  /\ \A a \in Assertions : a.user \in Users /\ a.until \in Nat
  /\ \A a, b \in Assertions : a.id = b.id => a = b

Active == {n \in Requests : req[n].pc \notin {"new", "done"}}

Init ==
  /\ row = InitialRow
  /\ config = InitialConfig
  /\ creds = InitialCreds
  /\ provider = FALSE
  /\ store = InitialStore
  /\ req = [n \in Requests |-> New]
  /\ issued = InitialTokens
  /\ loggedOut = {}
  /\ over = [u \in Users |-> 0]
  /\ now = 0
  /\ faults = 0

\* The next request comes in, and is then r.
Receive(n, r) ==
  /\ req[n] = New /\ \A k \in 1..n - 1 : req[k] # New
  /\ Cardinality(Active) < Slots
  /\ req' = [req EXCEPT ![n] = r]

Goto(n, pc) == req' = [req EXCEPT ![n].pc = pc]
Finish(n) == req' = [req EXCEPT ![n] = Done]

Key(kind, id) == {k \in store : k.key = <<kind, id>>}

Set(kind, id, u, until) == [key |-> <<kind, id>>, user |-> u, until |-> until]

\* Mutant: GET instead of GETDEL.
TakeKept(k) == k \in store /\ store' = store

\* GETDEL.
Take(k) == k \in store /\ store' = store \ {k}

\* A step fails or its caller goes away: the request is answered with an error.
\* A comparison that is cancelled counts as a wrong password.
RequestFails(n) ==
  /\ n \in Active /\ req[n].pc # "compare"
  /\ Fault
  /\ Finish(n)
  /\ UNCHANGED <<db, store, history, now>>

-----------------------------------------------------------------------------
(* Passwords.  via is the endpoint: /auth/login, /auth/oauth/login or      *)
(* /auth/token with the grant type password.                               *)

\* GetUserByEmail: the row as it is before the comparison.
GetUserByEmail(u, right, via) ==
  [pc |-> "compare", user |-> u, right |-> right /\ row[u].password, via |-> via,
   status |-> row[u].status, locked |-> row[u].locked, proof |-> {}]

HandleLogin(n, u, right) ==
  row[u].exists /\ Receive(n, GetUserByEmail(u, right, "login"))

HandleOAuthLogin(n, u, right) ==
  row[u].exists /\ Receive(n, GetUserByEmail(u, right, "oauth"))

HandlePasswordGrant(n, u, right) ==
  row[u].exists /\ Receive(n, GetUserByEmail(u, right, "grant"))

PasswordRequest(n) ==
  /\ \E u \in Users, right \in BOOLEAN :
       \/ HandleLogin(n, u, right) \/ HandleOAuthLogin(n, u, right)
       \/ HandlePasswordGrant(n, u, right)
  /\ UNCHANGED <<db, store, history, now, faults>>

\* Mutant: the lock is not checked.
RefusedUnlocked(n) == req[n].status = "initializing"

\* The row that was read says that nobody may log in.
Refused(n) ==
  \/ req[n].status = "initializing"
  \/ req[n].locked # 0 /\ now < req[n].locked

\* bcrypt has compared the password; only now is the row looked at.
Compare(n) ==
  /\ req[n].pc = "compare"
  /\ IF Refused(n) THEN Finish(n) ELSE Goto(n, IF req[n].right THEN "reset" ELSE "increment")
  /\ UNCHANGED <<db, store, history, now, faults>>

IncrementFailedLogin(n) ==
  LET u == req[n].user IN
  /\ req[n].pc = "increment"
  /\ row' = [row EXCEPT ![u].failed = @ + 1]
  /\ over' = [over EXCEPT ![u] = IF now < row[u].locked THEN @ + 1 ELSE @]
  /\ IF row[u].failed + 1 >= 10
     THEN req' = [req EXCEPT ![n] = [pc |-> "lock", user |-> u, count |-> row[u].failed + 1]]
     ELSE Finish(n)
  /\ UNCHANGED <<config, creds, provider, store, issued, loggedOut, now, faults>>

\* 15 minutes doubled with every ten failures, at most 24 hours, in units of 15
\* minutes.  The product is an int64 of nanoseconds, and 15 minutes are
\* 439453125 * 2^11 of them: from the 240th failure on its sign is a matter
\* of the bits that remain.
lockoutDuration(failCount) ==
  LET steps == Max({0, failCount \div 10 - 1})
      bits == 53 - steps
      negative == bits <= 0 \/ (bits <= 30 /\ 439453125 % 2^bits >= 2^(bits - 1)) IN
  IF negative THEN 0 ELSE IF steps >= 7 THEN 96 ELSE <<1, 2, 4, 8, 16, 32, 64>>[steps + 1]

LockAccount(n) ==
  LET u == req[n].user IN
  /\ req[n].pc = "lock"
  /\ row' = [row EXCEPT ![u].locked = now + LockUnit * lockoutDuration(req[n].count)]
  /\ over' = [over EXCEPT ![u] = 0]
  /\ Finish(n)
  /\ UNCHANGED <<config, creds, provider, store, issued, loggedOut, now, faults>>

\* An error is ignored.
ResetFailedLogin(n) ==
  LET u == req[n].user IN
  /\ req[n].pc = "reset"
  /\ \/ /\ row' = [row EXCEPT ![u].failed = 0, ![u].locked = 0]
        /\ over' = [over EXCEPT ![u] = 0]
        /\ faults' = faults
     \/ Fault /\ UNCHANGED <<row, over>>
  /\ Goto(n, "configs")
  /\ UNCHANGED <<config, creds, provider, store, issued, loggedOut, now>>

\* An error counts as no second factor.
ListMFAConfigs(n) ==
  /\ req[n].pc = "configs"
  /\ \/ Goto(n, IF config[req[n].user] = None THEN "issue" ELSE "challenge") /\ faults' = faults
     \/ Fault /\ Goto(n, "issue")
  /\ UNCHANGED <<db, store, history, now>>

\* The challenge is answered also when it could not be stored.
StoreChallenge(n) ==
  /\ req[n].pc = "challenge"
  /\ \/ store' = store \cup {Set("challenge", n, req[n].user, now + ChallengeTTL)} /\ faults' = faults
     \/ Fault /\ store' = store
  /\ IF req[n].via = "oauth" THEN Goto(n, "code") ELSE Finish(n)
  /\ UNCHANGED <<db, history, now>>

-----------------------------------------------------------------------------
(* Tokens.                                                                 *)

Token(n, i, u, ttl, proof) ==
  [jti |-> <<n, i>>, user |-> u, until |-> now + ttl, proof |-> proof]

\* IssueTokens.  The password grant issues a second pair after Login's, and an
\* OAuth login draws a code.
IssueTokens(n) ==
  LET again == req[n].pc = "issue again" IN
  /\ req[n].pc \in {"issue", "issue again"}
  /\ issued' = issued \cup
       {Token(n, IF again THEN 2 ELSE 1, req[n].user, TokenTTL, req[n].proof)}
  /\ IF req[n].via = "oauth" THEN Goto(n, "code")
     ELSE IF req[n].via = "grant" /\ ~again THEN Goto(n, "issue again")
     ELSE Finish(n)
  /\ UNCHANGED <<db, store, loggedOut, over, now, faults>>

\* A request without code_challenge is refused only here.
StoreAuthCode(n) ==
  /\ req[n].pc = "code"
  /\ \/ store' = store \cup {Set("code", n, req[n].user, now + CodeTTL)}
     \/ store' = store
  /\ Finish(n)
  /\ UNCHANGED <<db, history, now, faults>>

\* What follows a factor that was accepted: the proof is spent for the token.
Accepted(u, proof) == [pc |-> "issue", user |-> u, via |-> "login", proof |-> proof]

\* The code is gone, whether the verifier fits or not.
HandleAuthCodeGrant(n, k, verified) ==
  /\ k.key[1] = "code" /\ Take(k)
  /\ Receive(n, IF verified THEN Accepted(k.user, {<<"code", k.key[2]>>}) ELSE Done)

\* AuthJWTWithBlocklist lets requests pass when Redis does not answer.
AuthJWT(t) ==
  /\ t \in issued /\ now < t.until
  /\ \/ Key("blocked", t.jti) = {} /\ faults' = faults
     \/ Key("blocked", t.jti) # {} /\ Fault

\* Mutant: a lifetime of the code's own choosing.
BlocklistFixed(t) == Set("blocked", t.jti, t.user, now + 1)

\* The key lives as long as the token would (Service.Logout).
Blocklist(t) == Set("blocked", t.jti, t.user, t.until)

Logout(n, t) ==
  /\ AuthJWT(t)
  /\ store' = store \cup {Blocklist(t)}
  /\ loggedOut' = loggedOut \cup {t}
  /\ Receive(n, Done)
  /\ UNCHANGED <<db, issued, over, now>>

-----------------------------------------------------------------------------
(* The second factor.                                                      *)

\* A TOTP code as it is written in the request: its secret, its period, and
\* whether white space surrounds the digits.  totp.Validate accepts the periods
\* next to the current one and trims the white space.  A wrong code is one of a
\* secret that was replaced or of a period that has passed.
Validate(code, secret) == code.secret = secret /\ now \in code.step - 1..code.step + 1

\* The challenge is gone, whatever becomes of the code.
VerifyMFAAndLogin(n, k, code) ==
  /\ k.key[1] = "challenge" /\ Take(k)
  /\ Receive(n, [pc |-> "nonce", user |-> k.user, challenge |-> k.key[2], code |-> code])

\* The client answers a challenge with a code of this period or the next ones.
HandleVerifyMFA(n, k) ==
  \E d \in -1..1, padded \in BOOLEAN :
    VerifyMFAAndLogin(n, k, [secret |-> config[k.user].secret, step |-> now + d, padded |-> padded])

\* Mutant: the nonce lives for two periods.
NonceShort == 2

Nonce == 3 \* 90 seconds

\* SET NX of totp:used:<user>:<code>, with the code as it is written.
SetNonce(n) ==
  /\ req[n].pc = "nonce"
  /\ IF Key("nonce", <<req[n].user, req[n].code>>) = {}
     THEN /\ store' = store \cup {Set("nonce", <<req[n].user, req[n].code>>, req[n].user, now + Nonce)}
          /\ Goto(n, "validate")
     ELSE store' = store /\ Finish(n)
  /\ UNCHANGED <<db, history, now, faults>>

GetMFAConfig(u) == config[u]

VerifyTOTP(n) ==
  LET r == req[n] IN
  /\ r.pc = "validate"
  /\ req' = [req EXCEPT ![n] =
       IF GetMFAConfig(r.user) # None /\ Validate(r.code, GetMFAConfig(r.user).secret)
       THEN Accepted(r.user, {<<"challenge", r.challenge>>, <<"totp", r.user, r.code>>})
       ELSE Done]
  /\ UNCHANGED <<db, store, history, now, faults>>

VerifyBackupCodeAndLogin(n, k, code) ==
  /\ k.key[1] = "challenge" /\ Take(k)
  /\ Receive(n, [pc |-> "consume", user |-> k.user, challenge |-> k.key[2], code |-> code])

HandleVerifyBackupCode(n, k) ==
  \E code \in UNION {config[u].backup : u \in Users} : VerifyBackupCodeAndLogin(n, k, code)

\* One UPDATE finds and removes the code.
ConsumeBackupCode(n) ==
  LET r == req[n]
      found == r.code \in config[r.user].backup IN
  /\ r.pc = "consume"
  /\ config' = IF found THEN [config EXCEPT ![r.user].backup = @ \ {r.code}] ELSE config
  /\ req' = [req EXCEPT ![n] =
       IF found THEN Accepted(r.user, {<<"challenge", r.challenge>>, <<"backup", r.user, r.code>>})
       ELSE Done]
  /\ UNCHANGED <<row, creds, provider, store, history, now, faults>>

\* The client shows a code of the secret it was given at the setup.
HandleTOTPEnable(n, t) ==
  /\ AuthJWT(t)
  /\ Receive(n, [pc |-> "upsert", user |-> t.user])
  /\ UNCHANGED <<db, store, history, now>>

\* The backup codes of an earlier secret stay.
UpsertMFAConfig(n) ==
  /\ req[n].pc = "upsert"
  /\ config' = [config EXCEPT ![req[n].user].secret = n]
  /\ Goto(n, "enable")
  /\ UNCHANGED <<row, creds, provider, store, history, now, faults>>

EnableUserMFA(n) ==
  /\ req[n].pc = "enable"
  /\ row' = [row EXCEPT ![req[n].user].mfa = TRUE]
  /\ Goto(n, "backup")
  /\ UNCHANGED <<config, creds, provider, store, history, now, faults>>

\* GenerateBackupCodes: the new codes replace the old.
StoreBackupCodes(n) ==
  /\ req[n].pc = "backup"
  /\ config' = [config EXCEPT ![req[n].user].backup = {n}]
  /\ Finish(n)
  /\ UNCHANGED <<row, creds, provider, store, history, now, faults>>

-----------------------------------------------------------------------------
(* WebAuthn.                                                               *)

BeginWebAuthnRegistration(n, t) ==
  /\ AuthJWT(t)
  /\ store' = store \cup {Set("registration", n, t.user, now + SessionTTL)}
  /\ Receive(n, Done)
  /\ UNCHANGED <<db, history, now>>

\* The session is the caller's own; the attestation passes or fails.
FinishWebAuthnRegistration(n, t, k, passes) ==
  /\ AuthJWT(t)
  /\ k.key[1] = "registration" /\ k.user = t.user /\ Take(k)
  /\ Receive(n, IF passes THEN [pc |-> "save", user |-> k.user] ELSE Done)
  /\ UNCHANGED <<db, history, now>>

SaveWebAuthnCredential(n) ==
  /\ req[n].pc = "save"
  /\ creds' = [creds EXCEPT ![req[n].user] = @ \cup {n}]
  /\ Finish(n)
  /\ UNCHANGED <<row, config, provider, store, history, now, faults>>

ListWebAuthnCredentials(u) == creds[u]

\* A login can begin only for a user with credentials.
BeginWebAuthnLogin(n, u) ==
  /\ row[u].exists /\ ListWebAuthnCredentials(u) # {}
  /\ store' = store \cup {Set("webauthn", n, u, now + SessionTTL)}
  /\ Receive(n, Done)
  /\ UNCHANGED <<db, history, now, faults>>

FinishWebAuthnLogin(n, k, passes) ==
  /\ k.key[1] = "webauthn" /\ Take(k)
  /\ Receive(n, IF passes /\ ListWebAuthnCredentials(k.user) # {}
                THEN Accepted(k.user, {<<"webauthn", k.key[2]>>}) ELSE Done)

-----------------------------------------------------------------------------
(* SAML.                                                                   *)

GetSAMLProvider == provider

\* The organization's only row, enabled.
UpsertSAMLProvider == provider' = TRUE

CreateSAMLProvider(n, t) ==
  /\ AuthJWT(t)
  /\ UpsertSAMLProvider
  /\ Receive(n, Done)
  /\ UNCHANGED <<row, config, creds, store, history, now>>

\* Mutant: the assertion is remembered for one period only.
ReplayKeyShort(a) == Set("saml", a.id, a.user, now + 1)

ReplayKey(a) == Set("saml", a.id, a.user, a.until)

NotExpired(a) == now < a.until

\* The assertion is in its time and was not seen before (SET NX).
SAMLAssertionConsumerService(n, a) ==
  /\ GetSAMLProvider
  /\ NotExpired(a)
  /\ IF Key("saml", a.id) = {}
     THEN /\ store' = store \cup {ReplayKey(a)}
          /\ Receive(n, [pc |-> "find", user |-> a.user, proof |-> {<<"saml", a.id>>}])
     ELSE store' = store /\ Receive(n, Done)

GetUserByExternalID(u) == row[u].external

\* By the external id, then by the email address.
ProvisionOrGetSAMLUser(n) ==
  LET u == req[n].user IN
  /\ req[n].pc = "find"
  /\ Goto(n, IF GetUserByExternalID(u) THEN "sign" ELSE IF row[u].exists THEN "link old" ELSE "create")
  /\ UNCHANGED <<db, store, history, now, faults>>

\* UNIQUE (org_id, email): the second of two first logins fails.
CreateSAMLUser(n) ==
  LET u == req[n].user IN
  /\ req[n].pc = "create"
  /\ IF row[u].exists THEN row' = row /\ Finish(n)
     ELSE /\ row' = [row EXCEPT ![u].exists = TRUE, ![u].status = "active"]
          /\ Goto(n, "link")
  /\ UNCHANGED <<config, creds, provider, store, history, now, faults>>

\* For a user found by email an error is ignored; the next login comes back here.
LinkSAMLUser(n) ==
  LET u == req[n].user IN
  /\ req[n].pc \in {"link", "link old"}
  /\ \/ row' = [row EXCEPT ![u].external = TRUE, ![u].status = "active"] /\ faults' = faults
     \/ req[n].pc = "link old" /\ Fault /\ row' = row
  /\ Goto(n, "sign")
  /\ UNCHANGED <<config, creds, provider, store, history, now>>

\* A token of eight hours, without session and refresh token.
SignToken(n) ==
  /\ req[n].pc = "sign"
  /\ issued' = issued \cup {Token(n, 1, req[n].user, SamlTTL, req[n].proof)}
  /\ Finish(n)
  /\ UNCHANGED <<db, store, loggedOut, over, now, faults>>

-----------------------------------------------------------------------------

\* A factor is presented.
Present(n) ==
  /\ \/ \E k \in store, ok \in BOOLEAN : HandleAuthCodeGrant(n, k, ok) \/ FinishWebAuthnLogin(n, k, ok)
     \/ \E k \in store : HandleVerifyMFA(n, k) \/ HandleVerifyBackupCode(n, k)
     \/ \E a \in Assertions : SAMLAssertionConsumerService(n, a)
  /\ UNCHANGED <<db, history, now, faults>>

\* A request with a token.
Call(n, t) ==
  \/ Logout(n, t) \/ HandleTOTPEnable(n, t) \/ BeginWebAuthnRegistration(n, t)
  \/ CreateSAMLProvider(n, t)
  \/ \E k \in store, ok \in BOOLEAN : FinishWebAuthnRegistration(n, t, k, ok)

Step(n) ==
  \/ Compare(n) \/ IncrementFailedLogin(n) \/ LockAccount(n) \/ ResetFailedLogin(n)
  \/ ListMFAConfigs(n) \/ StoreChallenge(n) \/ IssueTokens(n) \/ StoreAuthCode(n)
  \/ SetNonce(n) \/ VerifyTOTP(n) \/ ConsumeBackupCode(n)
  \/ UpsertMFAConfig(n) \/ EnableUserMFA(n) \/ StoreBackupCodes(n)
  \/ SaveWebAuthnCredential(n)
  \/ ProvisionOrGetSAMLUser(n) \/ CreateSAMLUser(n) \/ LinkSAMLUser(n) \/ SignToken(n)

Tick ==
  /\ now < MaxTime
  /\ now' = now + 1
  /\ store' = {k \in store : now' < k.until}
  /\ UNCHANGED <<db, req, history, faults>>

Next ==
  \/ \E n \in Requests :
       \/ PasswordRequest(n) \/ Present(n)
       \/ \E t \in issued : Call(n, t)
       \/ \E u \in Users : BeginWebAuthnLogin(n, u)
       \/ Step(n) \/ RequestFails(n)
  \/ Tick

Spec == Init /\ [][Next]_vars

-----------------------------------------------------------------------------
(* Properties.                                                             *)

\* A TOTP code, and what a request may present.
Codes == [secret : Int, step : Int, padded : BOOLEAN]
Proofs ==
  ({"challenge", "code", "webauthn"} \X Int) \cup ({"totp"} \X Users \X Codes)
  \cup ({"backup"} \X Users \X Int) \cup ({"saml"} \X {a.id : a \in Assertions})

\* The requests under way, by what they have read and drawn.
PasswordRequests ==
  [pc : {"compare", "increment", "reset", "configs", "challenge", "issue", "issue again", "code"},
   user : Users, right : BOOLEAN, via : {"login", "oauth", "grant"},
   status : {"initializing", "active"}, locked : Nat, proof : {{}}]
LockRequests == [pc : {"lock"}, user : Users, count : Nat]
AcceptedRequests == [pc : {"issue"}, user : Users, via : {"login"}, proof : SUBSET Proofs]
CodeRequests == [pc : {"nonce", "validate"}, user : Users, challenge : Int, code : Codes]
BackupRequests == [pc : {"consume"}, user : Users, challenge : Int, code : Int]
TokenRequests == [pc : {"upsert", "enable", "backup", "save"}, user : Users]
SamlRequests == [pc : {"find", "create", "link", "link old", "sign"}, user : Users, proof : SUBSET Proofs]
UnderWay ==
  PasswordRequests \cup LockRequests \cup AcceptedRequests \cup CodeRequests \cup BackupRequests
  \cup TokenRequests \cup SamlRequests

\* Types; nothing in Redis has expired, no more requests are under way than
\* there is room for, and a TOTP code is of the next period at the latest.
TypeOK ==
  /\ row \in [Users -> [exists : BOOLEAN, status : {"initializing", "active"}, password : BOOLEAN,
                        failed : Nat, locked : Nat, mfa : BOOLEAN, external : BOOLEAN]]
  /\ config \in [Users -> [secret : Int, backup : SUBSET Int]]
  /\ creds \in [Users -> SUBSET Int]
  /\ provider \in BOOLEAN
  /\ \A k \in store : k.user \in Users /\ k.until \in Nat /\ now < k.until
  /\ req \in [Requests -> UnderWay \cup {New, Done}]
  /\ \A n \in Requests : req[n].pc = "nonce" => req[n].code.step <= now + 1
  /\ Cardinality(Active) <= Slots
  /\ issued \subseteq [jti : Int \X {1, 2}, user : Users, until : Nat, proof : SUBSET Proofs]
  /\ loggedOut \subseteq issued
  /\ over \in [Users -> Nat]
  /\ now \in 0..MaxTime
  /\ faults \in 0..MaxFaults

\* Whatever is meant to be used once, a challenge, a backup code, an
\* authorization code, a WebAuthn session or a SAML assertion, opens at most one
\* session, however requests interleave, steps fail and keys expire (mfa.go:175,
\* 281-324, auth.go:181, saml.go:183-196).  A TOTP code does so once for every
\* way it is written: the nonce has the text of the request, and the validation
\* trims it, so that the digits with and without white space are two.
OneTimeOnce ==
  \A s, t \in issued : s # t => s.proof \cap t.proof = {}

\* The lock is read before bcrypt runs and written after it: wrong passwords
\* counted for an account while it is locked come only from the requests that
\* were under way when it was last locked (auth.go:18-51).
ParallelGuesses == \A u \in Users : over[u] < Slots

\* Once a logout has been confirmed, the token is in the blocklist for as long
\* as its signature would be accepted (auth.go:151-163).
LogoutHolds ==
  \A t \in loggedOut : now < t.until => Key("blocked", t.jti) # {}
==============================================================================
