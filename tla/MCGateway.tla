------------------------------ MODULE MCGateway ------------------------------
(* A small instance of Gateway for TLC.                                      *)
EXTENDS Gateway, TLC

\* Slots are interchangeable, and so are instances.
MCSymmetry == Permutations(Slots) \cup Permutations(Instances)
=============================================================================
