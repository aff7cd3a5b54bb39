----------------------------- MODULE MCSessions -----------------------------
(* A small instance of Sessions for TLC. *)
EXTENDS Sessions, TLC

\* The requests differ in nothing but their names.
RequestSymmetry == Permutations(Exchanges)
=============================================================================
