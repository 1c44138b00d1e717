------------------------------- MODULE MCClaims -------------------------------
(***************************************************************************)
(* The two claims a backend may be stopped in the middle of, side by side  *)
(* for TLC: that of an answer on a request card, with crashes and startup  *)
(* recovery, and that of a tick on a trigger.  They share no state; `part` *)
(* names the one a behaviour belongs to, and its threads alone are fair.   *)
(* The backend of the triggers serves no requests and has no other work.   *)
(***************************************************************************)
EXTENDS MCWorkflowEngine

CONSTANTS c1, c2, Triggers, Chains, NoChain, Agents, RunIds, MaxRequests, MaxJobs, MaxFails

MCChains == {c1, c2}

\* The variables of ReleaseDrain; `counted` are its requests.
VARIABLES draining, admitted, counted, agents, jobs, running, ticking, handle, active, tick, worker, due, last,
          open, ctl, up, quiet, crossed, fails

Drain == INSTANCE ReleaseDrain WITH requests <- counted

drainVars == <<draining, admitted, counted, agents, jobs, running, ticking, handle, active, tick, worker, due,
               last, open, ctl, up, quiet, crossed, fails>>

VARIABLE part

claimsVars == <<vars, drainVars, part>>

ClaimsInit == Init /\ Drain!Init /\ part \in {"engine", "triggers"} /\ (part = "engine" => ~admitted)

ClaimsNext ==
    \/ part = "engine" /\ Next /\ UNCHANGED <<drainVars, part>>
    \/ part = "triggers" /\ Drain!Next /\ UNCHANGED <<vars, part>>

\* The fairness of FairSpec of either module, each for its part.
ClaimsSpec ==
    /\ ClaimsInit /\ [][ClaimsNext]_claimsVars
    /\ \A t \in Threads : WF_vars(part = "engine" /\ Continue(t))
    /\ WF_vars(part = "engine" /\ Recover)
    /\ \A c \in Chains : WF_drainVars(part = "triggers" /\ up /\ Drain!Chain(c))
    /\ \A t \in Triggers : WF_drainVars(part = "triggers" /\ up /\ Drain!Thread(t))

\* A trigger that is due is claimed, unless the scheduler is stopped or an earlier
\* run of it still waits, whatever ticks fail, cross or end early (triggers.py).
DueIsClaimed == Drain!DueIsClaimed

=============================================================================
