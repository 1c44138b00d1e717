-------------------------------- MODULE MCFair --------------------------------
(***************************************************************************)
(* Stopping a workflow, the streams and Stops of one run id of the agent,  *)
(* and the messages sent to a live run, side by side for TLC's liveness    *)
(* checking: they share no state.  `part` names the one a behaviour        *)
(* belongs to, and its threads alone are fair: those of the others are     *)
(* never asked to step.  The workflow is a single call that is retried     *)
(* until it succeeds.                                                      *)
(***************************************************************************)
EXTENDS WorkflowEngine, RunControl, SessionInputs, TLC

CONSTANTS deploy, s1, s2

MCRetry == {deploy}
MCRetryOnSuccess == deploy :> NoStep
MCRetryOnFailure == deploy :> deploy
MCStreams == {s1, s2}

VARIABLE part

fairVars == <<vars, controlVars, inputsVars, part>>

FairInit == Init /\ ControlInit /\ InputsInit /\ part \in {"workflow", "control", "inputs"}

FairNext ==
    \/ part = "workflow" /\ Next /\ UNCHANGED <<controlVars, inputsVars, part>>
    \/ part = "control" /\ ControlNext /\ UNCHANGED <<vars, inputsVars, part>>
    \/ part = "inputs" /\ InputsNext /\ UNCHANGED <<vars, controlVars, part>>

\* The fairness of FairSpec, ControlFairSpec and InputsFairSpec, each for its part.
FairParts ==
    /\ FairInit /\ [][FairNext]_fairVars
    /\ \A t \in Threads : WF_vars(part = "workflow" /\ Continue(t))
    /\ \A s \in Streams : WF_controlVars(part = "control" /\ Obliged(s))
    /\ \A k \in Stops :
          /\ WF_controlVars(part = "control" /\ Cancel(k))
          /\ WF_controlVars(part = "control" /\ stop[k].at = "session" /\ StopToken(k))
    /\ WF_inputsVars(part = "inputs" /\ Loop)

=============================================================================
