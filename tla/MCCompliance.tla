---------------------------- MODULE MCCompliance ----------------------------
(* A small instance of Compliance for TLC.                                  *)
EXTENDS Compliance
=============================================================================
