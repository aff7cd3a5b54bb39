-------------------------------- MODULE Iam ---------------------------------
(***************************************************************************)
(* What the models of the IAM service share: the rows of users, and the    *)
(* faults of PostgreSQL, Redis, Kafka and of the replicas themselves.      *)
(***************************************************************************)
EXTENDS Naturals

CONSTANTS
  Users,      \* the users, all of one organisation
  MaxFaults   \* bound: failed statements and calls, lost requests and crashes

ASSUME MaxFaultsAssumption == MaxFaults \in Nat

VARIABLE faults \* how much of MaxFaults has been used

Fault == faults < MaxFaults /\ faults' = faults + 1
=============================================================================
