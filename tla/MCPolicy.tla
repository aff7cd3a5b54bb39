------------------------------ MODULE MCPolicy ------------------------------
(* A small instance of Policy for TLC. *)
EXTENDS Policy, TLC

Ask(u, gs) ==
  [subject |-> u, groups |-> gs, action |-> <<"read", ":", "doc">>, resource |-> <<"doc">>]

MCSubjects == {<<"u1">>, <<"g1">>}

\* The same user, alone and as a member of a group.
MCQuestions == {Ask(<<"u1">>, {}), Ask(<<"u1">>, {<<"g1">>})}

MCLogics ==
  {[type |-> "deny_all"], [type |-> "malformed"], [type |-> "cel", compiles |-> FALSE]}

MCGrants == {[policy |-> "p1", subject |-> <<"g1">>, type |-> "group"]}

\* One policy that lets the members of the group read.
MCInitialDB ==
  [policies |-> [p \in {"p1"} |->
     [version |-> 1,
      logic |-> [type |-> "rbac", subjects |-> {<<"*">>},
                 actions |-> {<<"read", ":", "*">>}, resources |-> {<<"do", "*">>, <<"doc">>}]]],
   assigned |-> {[id |-> "a1", policy |-> "p1", subject |-> <<"g1">>, type |-> "group"]}]

Symmetry == Permutations(Evaluators)
=============================================================================
