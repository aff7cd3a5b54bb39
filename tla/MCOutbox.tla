------------------------------ MODULE MCOutbox ------------------------------
(* Small instances of Outbox for TLC. *)
EXTENDS Outbox, TLC

\* The replicas of a service run the same code.
RelaySymmetry == Permutations(Relays)
=============================================================================
