------------------------------ MODULE MCArbiter ------------------------------
(***************************************************************************)
(* A small instance of PredgeRefundArbiter.  Accounts, payments and hashes *)
(* are compared for equality only, and every property is safety.           *)
(***************************************************************************)
EXTENDS PredgeRefundArbiter, TLC

ArbiterSymmetry ==
    Permutations(Accounts) \cup Permutations(Payments) \cup Permutations(Hashes)
==============================================================================
