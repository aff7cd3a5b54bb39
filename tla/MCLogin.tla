------------------------------ MODULE MCLogin ------------------------------
(* A small instance of Login for TLC. *)
EXTENDS Login

\* A user with a password and a second factor, nine failures after the last
\* success, and one that only the identity provider knows.
MCNine ==
  [u \in Users |->
     [exists |-> u = "u1", status |-> "active", password |-> u = "u1",
      failed |-> IF u = "u1" THEN 9 ELSE 0, locked |-> 0,
      mfa |-> u = "u1", external |-> FALSE]]

MCConfig ==
  [u \in Users |-> IF u = "u1" THEN [secret |-> 0, backup |-> {0}] ELSE None]

MCTokens == {[jti |-> <<0, 1>>, user |-> "u1", until |-> 2, proof |-> {}]}

MCCreds == [u \in Users |-> IF u = "u1" THEN {0} ELSE {}]

MCStore == {[key |-> <<"challenge", 0>>, user |-> "u1", until |-> 1]}

MCAssertions == {[id |-> "a1", user |-> "u2", until |-> 2]}
=============================================================================
