----------------------------- MODULE MCValidator -----------------------------
(***************************************************************************)
(* A small instance of AgentSettlement over PredgeAgentValidator.          *)
(* Requests are compared for equality only, and every property is safety.  *)
(***************************************************************************)
EXTENDS AgentSettlement, TLC

ValidatorSymmetry == Permutations(Requests)
==============================================================================
