----------------------------- MODULE MCPayments -----------------------------
(* Instances of Payments for TLC.                                          *)
EXTENDS Payments, TLC

\* Requests differ in nothing but their name.
Symmetry == Permutations(Requests)
=============================================================================
