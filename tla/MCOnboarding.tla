---------------------------- MODULE MCOnboarding ----------------------------
(* Values of the constants of Onboarding for TLC. *)
EXTENDS Onboarding, TLC

CONSTANTS r1, r2, r3, r4, d1, d2, c1, c2, t1, t2, b1

MCBusinessOf == [d \in Datasets |-> b1]
Symmetry == Permutations(Requests)
=============================================================================
