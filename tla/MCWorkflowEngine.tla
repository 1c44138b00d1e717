-------------------------- MODULE MCWorkflowEngine --------------------------
(* A three-step template for TLC: "collect" asks the user, "deploy" is a call *)
(* that needs an approval, "tidy" is a call that needs none and whose failure *)
(* leads to a step that does not exist.                                       *)
EXTENDS WorkflowEngine, TLC

CONSTANTS collect, deploy, tidy, missing

MCSteps == {collect, deploy, tidy}
MCRequestSteps == {collect}
MCGatedSteps == {deploy}
MCOnSuccess == collect :> deploy @@ deploy :> NoStep @@ tidy :> NoStep
MCOnFailure == collect :> NoStep @@ deploy :> tidy @@ tidy :> missing

\* The first two steps alone, for the runs with two threads.
MCPair == {collect, deploy}
MCPairOnSuccess == collect :> deploy @@ deploy :> NoStep
MCPairOnFailure == collect :> NoStep @@ deploy :> NoStep

=============================================================================
