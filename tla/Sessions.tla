------------------------------ MODULE Sessions ------------------------------
(***************************************************************************)
(* The sessions of IAM (services/iam/pkg/service/auth.go).  A login opens  *)
(* a family of refresh tokens, of which one is live at a time: a refresh   *)
(* claims the presented token and issues the next token of the family.  A  *)
(* token that cannot be claimed ends the family.  Each statement runs on a *)
(* connection of its own, so the steps of concurrent requests interleave.  *)
(*                                                                         *)
(* Tokens and family ids are random and never meet twice; they are         *)
(* numbered in the order in which they are drawn.  The rows of sessions    *)
(* are left out: nothing of a refresh depends on them (AssessRisk).        *)
(* Access tokens and the blocklist are in Login.                           *)
(***************************************************************************)
EXTENDS Iam, FiniteSets

CONSTANTS
  NumFamilies, \* bound: the logins
  NumTokens,   \* bound: the refresh tokens issued
  Exchanges    \* the requests that run at a time

Families == 1..NumFamilies
Tokens == 1..NumTokens
NoFamily == 0
NoToken == 0

ASSUME NumAssumption == NumFamilies \in Nat /\ NumTokens \in Nat

VARIABLES
  opened,    \* the families whose id has been drawn
  tokenRow,  \* refresh_tokens: "none", "live", "expired" or "revoked"
  fam,       \* ... its column family_id
  pc,        \* where each request is
  token,     \* the refresh token it presents
  family,    \* the family it issues a token for
  presented, \* history: the tokens somebody has presented
  spoiled    \* history: the families with a token that was presented twice
             \* or expired

tokens == <<tokenRow, fam>>
past == <<presented, spoiled>>
sessionVars == <<opened, tokenRow, fam, pc, token, family, presented, spoiled, faults>>

SessionsInit ==
  /\ opened = {}
  /\ tokenRow = [t \in Tokens |-> "none"]
  /\ fam = [t \in Tokens |-> NoFamily]
  /\ pc = [q \in Exchanges |-> "idle"]
  /\ token = [q \in Exchanges |-> NoToken]
  /\ family = [q \in Exchanges |-> NoFamily]
  /\ presented = {}
  /\ spoiled = {}
  /\ faults = 0

Proceed(q, l) == pc' = [pc EXCEPT ![q] = l]

\* The request q is over.
Return(q) ==
  /\ Proceed(q, "idle")
  /\ token' = [token EXCEPT ![q] = NoToken]
  /\ family' = [family EXCEPT ![q] = NoFamily]

-----------------------------------------------------------------------------
(* IssueTokens, at the end of every login and refresh.                     *)

\* Some login succeeds, and issues the first token of a new family.
Login(q, f) ==
  /\ pc[q] = "idle"
  /\ f \notin opened /\ 1..f - 1 \subseteq opened
  /\ opened' = opened \cup {f}
  /\ family' = [family EXCEPT ![q] = f]
  /\ Proceed(q, "session")
  /\ UNCHANGED <<tokens, token, past, faults>>

CreateSession(q) ==
  /\ pc[q] = "session"
  /\ Proceed(q, "token")
  /\ UNCHANGED <<opened, tokens, token, family, past, faults>>

CreateRefreshToken(q, t) ==
  /\ pc[q] = "token"
  /\ tokenRow[t] = "none" /\ \A s \in 1..t - 1 : tokenRow[s] # "none"
  /\ tokenRow' = [tokenRow EXCEPT ![t] = "live"]
  /\ fam' = [fam EXCEPT ![t] = family[q]]
  /\ Return(q)
  /\ UNCHANGED <<opened, past, faults>>

-----------------------------------------------------------------------------
(* RefreshToken.                                                           *)

\* A client presents a token it was given, now or earlier.
PresentToken(q, t) ==
  /\ pc[q] = "idle"
  /\ tokenRow[t] # "none"
  /\ token' = [token EXCEPT ![q] = t]
  /\ Proceed(q, "claim")
  /\ presented' = presented \cup {t}
  /\ spoiled' = IF t \in presented THEN spoiled \cup {fam[t]} ELSE spoiled
  /\ UNCHANGED <<opened, tokens, family, faults>>

\* Mutant: the UPDATE forgets AND revoked = FALSE.
ClaimableAgain(t) == tokenRow[t] \in {"live", "revoked"}

\* Mutant: the UPDATE forgets AND expires_at > NOW().
ClaimableExpired(t) == tokenRow[t] \in {"live", "expired"}

\* The WHERE clause of ClaimRefreshToken.
Claimable(t) == tokenRow[t] = "live"

\* Mutant: RETURNING forgets the family.
ClaimRefreshTokenNoFamily(q) ==
  /\ pc[q] = "claim"
  /\ Claimable(token[q])
  /\ tokenRow' = [tokenRow EXCEPT ![token[q]] = "revoked"]
  /\ Proceed(q, "risk")
  /\ UNCHANGED <<opened, fam, token, family, past, faults>>

\* UPDATE ... RETURNING: one request gets the row.
ClaimRefreshToken(q) ==
  /\ pc[q] = "claim"
  /\ Claimable(token[q])
  /\ tokenRow' = [tokenRow EXCEPT ![token[q]] = "revoked"]
  /\ family' = [family EXCEPT ![q] = fam[token[q]]]
  /\ Proceed(q, "risk")
  /\ UNCHANGED <<opened, fam, token, past, faults>>

\* The token was used, revoked or has expired.
ClaimRefused(q) ==
  /\ pc[q] = "claim"
  /\ ~Claimable(token[q])
  /\ Proceed(q, "reuse")
  /\ UNCHANGED <<opened, tokens, token, family, past, faults>>

\* The statement fails, before or after it took effect; the code does not
\* tell this from a refusal.
ClaimFails(q) ==
  /\ pc[q] = "claim"
  /\ Fault
  /\ tokenRow' \in {tokenRow, [tokenRow EXCEPT ![token[q]] =
                       IF Claimable(token[q]) THEN "revoked" ELSE @]}
  /\ Proceed(q, "reuse")
  /\ UNCHANGED <<opened, fam, token, family, past>>

\* Mutant: the UPDATE forgets the WHERE clause.
RevokeEveryFamily(f) ==
  tokenRow' = [t \in Tokens |-> IF tokenRow[t] # "none" THEN "revoked" ELSE "none"]

\* UPDATE refresh_tokens SET revoked = TRUE WHERE family_id = ...
RevokeRefreshTokenFamily(f) ==
  tokenRow' = [t \in Tokens |-> IF fam[t] = f THEN "revoked" ELSE tokenRow[t]]

\* Reuse: the presented token's family is revoked.  An error is ignored.
RevokeRefreshTokenFamilyByHash(q) ==
  /\ pc[q] = "reuse"
  /\ RevokeRefreshTokenFamily(fam[token[q]])
  /\ Return(q)
  /\ UNCHANGED <<opened, fam, past, faults>>

\* GetSessionByUserID.  There is no session, or the row's ip_address, an
\* INET, is scanned into a string, which pgx refuses: every outcome is an
\* error, the score is not computed, and the exchange goes on.
AssessRisk(q) ==
  /\ pc[q] = "risk"
  /\ Proceed(q, "session")
  /\ UNCHANGED <<opened, tokens, token, family, past, faults>>

\* A statement fails, or the request is lost with its replica.
ExchangeFails(q) ==
  /\ pc[q] # "idle"
  /\ Fault
  /\ Return(q)
  /\ UNCHANGED <<opened, tokens, past>>

\* expires_at of a refresh token passes.
TokenExpires(t) ==
  /\ tokenRow[t] = "live"
  /\ tokenRow' = [tokenRow EXCEPT ![t] = "expired"]
  /\ spoiled' = spoiled \cup {fam[t]}
  /\ UNCHANGED <<opened, fam, pc, token, family, presented, faults>>

-----------------------------------------------------------------------------

\* What a request does by itself.
ExchangeStep(q) ==
  \/ CreateSession(q) \/ \E t \in Tokens : CreateRefreshToken(q, t)
  \/ ClaimRefreshToken(q) \/ ClaimRefused(q)
  \/ RevokeRefreshTokenFamilyByHash(q) \/ AssessRisk(q)

SessionsNext ==
  \/ \E q \in Exchanges :
       \/ \E f \in Families : Login(q, f)
       \/ \E t \in Tokens : PresentToken(q, t)
       \/ ExchangeStep(q)
       \/ ClaimFails(q) \/ ExchangeFails(q)
  \/ \E t \in Tokens : TokenExpires(t)

SessionsSpec == SessionsInit /\ [][SessionsNext]_sessionVars

-----------------------------------------------------------------------------
(* Properties.                                                             *)

Live(f) == {t \in Tokens : tokenRow[t] = "live" /\ fam[t] = f}

\* The requests that hold f, by a login or a claimed token.
Holding(f) ==
  {q \in Exchanges : family[q] = f /\ pc[q] \in {"risk", "session", "token"}}

\* Types; a request that has claimed a token knows its family.
SessionsTypeOK ==
  /\ opened \subseteq Families
  /\ tokenRow \in [Tokens -> {"none", "live", "expired", "revoked"}]
  /\ fam \in [Tokens -> Families \cup {NoFamily}]
  /\ \A t \in Tokens : tokenRow[t] # "none" => fam[t] \in opened
  /\ pc \in [Exchanges -> {"idle", "claim", "reuse", "risk", "session", "token"}]
  /\ token \in [Exchanges -> Tokens \cup {NoToken}]
  /\ family \in [Exchanges -> Families \cup {NoFamily}]
  /\ \A q \in Exchanges :
       /\ pc[q] \in {"claim", "reuse"} => token[q] \in Tokens /\ tokenRow[token[q]] # "none"
       /\ pc[q] \in {"risk", "session", "token"} => family[q] \in opened
  /\ presented \subseteq Tokens
  /\ spoiled \subseteq Families
  /\ faults \in 0..MaxFaults

\* However many requests present the same token, a session is never cloned:
\* a family has one live token, or one request that holds it, not
\* both and not two (auth.go:120-141, repository_token.go:56-77).
SessionsAreNotCloned ==
  \A f \in Families :
    /\ \A s, t \in Live(f) : s = t
    /\ \A p, q \in Holding(f) : p = q
    /\ Live(f) = {} \/ Holding(f) = {}

\* A family that was revoked, or ran out, while nobody was exchanging its
\* token never has a token again, whatever old tokens are presented
\* (auth.go:120-133).
FamiliesEnd ==
  [][\A f \in opened : Live(f) = {} /\ Holding(f) = {} =>
       (Live(f) = {} /\ Holding(f) = {})']_sessionVars

\* Nobody is logged out for what happens to another session: without
\* faults, a family none of whose tokens expired or was presented twice has
\* a live token or a request that is about to issue one, however the
\* refreshes and reuses of all families interleave (auth.go:118-141,
\* repository_token.go:55-90).
SessionsLast ==
  faults = 0 => \A f \in opened \ spoiled : Live(f) \cup Holding(f) # {}
=============================================================================
