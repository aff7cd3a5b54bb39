------------------------- MODULE MCProvisioningSaga -------------------------
(* Small instances of ProvisioningSaga for TLC. *)
EXTENDS ProvisioningSaga, TLC

\* The replicas run the same code.
WatcherSymmetry == Permutations(Watchers)
=============================================================================
