------------------------------- MODULE MCVault -------------------------------
(***************************************************************************)
(* A small instance of PredgeSignalVaultV2.  Accounts and markets are      *)
(* compared for equality only, and every property is safety.               *)
(***************************************************************************)
EXTENDS PredgeSignalVaultV2, TLC

VaultSymmetry ==
    Permutations(Accounts) \cup Permutations(Markets)
==============================================================================
