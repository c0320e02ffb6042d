------------------------------ MODULE MCDeploy ------------------------------
(* DeploymentScripts on a small instance. *)
EXTENDS DeploymentScripts

OneJob == {{"AgentJob"}, {"AgentJob", "PredgeValidatorBond"},
           {"PredgeOracle", "PredgeValidatorBond"}}
==============================================================================
