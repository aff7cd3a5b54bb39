----------------------------- MODULE MCAlertSaga -----------------------------
(* A small instance of AlertSaga for TLC: every detector is one event away   *)
(* from an alert.                                                            *)
EXTENDS AlertSaga

Ev(t) == [type |-> t, user |-> "u", device |-> "d", place |-> "here"]
MCEvents == {Ev(t) : t \in {"failed", "password", "success", "access", "grant"}}

\* One event of any type, or two accesses.
OnTopic(t, events) == [u \in {"auth", "access", "policy"} |-> IF u = t THEN events ELSE <<>>]
MCLogs ==
  {OnTopic("auth", <<Ev(t)>>) : t \in {"failed", "password", "success"}}
    \cup {OnTopic("policy", <<Ev("grant")>>)}
    \cup {OnTopic("access", <<Ev("access"), Ev("access")>>)}

MCKeys ==
  {[key |-> <<"pwchange", "u">>, val |-> "1", until |-> 1],
   [key |-> <<"travel", "u">>, val |-> "there", until |-> 1],
   [key |-> <<"login", "u">>, val |-> "1", until |-> 1]}

\* One attempt from elsewhere counts for the account; the second access is too many.
MCWindow ==
  [k \in {<<"ip", "here">>, <<"user", "u">>, <<"access", "u">>} |->
     IF k[1] = "user" THEN <<0>> ELSE <<>>]
=============================================================================
