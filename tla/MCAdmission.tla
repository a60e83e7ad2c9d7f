----------------------------- MODULE MCAdmission -----------------------------
(* Instances of Admission for TLC: one account with a single slot and one  *)
(* with one or two, a global limit below the sum of both, and queue limits *)
(* small enough to be hit.                                                 *)
EXTENDS Admission, TLC

CONSTANTS a1, a2, r1, r2, r3, r4

TwoAccounts == {a1, a2}
FourRequests == {r1, r2, r3, r4}
UpToTwoSlots == {c \in [TwoAccounts -> 1..2] : c[a1] = 1}

RequestSymmetry == Permutations(Requests)
=============================================================================
