------------------------------- MODULE MCQuiet -------------------------------
(***************************************************************************)
(* What a Stop, a drain or a lost client leaves behind: the streams and    *)
(* Stops of one run id, the admission and the scheduler of one backend,    *)
(* and what a run holds of its task and of its own repetitions, side by    *)
(* side for TLC.  They share no state; `part` names the one a behaviour    *)
(* belongs to.  The scheduler is checked without background processes,     *)
(* they without a due trigger; the verdicts without publications and jobs, *)
(* the answers without criteria, the Web calls without the command, and    *)
(* the command without Web calls.                                          *)
(***************************************************************************)
EXTENDS RunControl, ReleaseDrain, TaskVerdicts, CommandProgress, TLC

CONSTANTS s1, s2, k1, k2, c1, c2, now, once

MCStreams == {s1, s2}
MCStops == {k1, k2}
MCChains == {c1, c2}

Symmetry == Permutations(MCStops) \cup Permutations(MCChains)

VARIABLE part

quietVars == <<controlVars, vars, verdictVars, progressVars, part>>

QuietInit ==
    /\ ControlInit /\ Init /\ VerdictsInit /\ ProgressInit
    /\ part \in {"control", "drain", "jobs", "verdicts", "answers", "web", "repeats"}
    /\ part \notin {"drain", "jobs"} => ~admitted
    /\ (part = "verdicts") <=> (mind.spec # {})
    /\ part # "verdicts" => met = {}

QuietNext ==
    /\ UNCHANGED part
    /\ part # "control" => UNCHANGED controlVars
    /\ part \notin {"drain", "jobs"} => UNCHANGED vars
    /\ part \notin {"verdicts", "answers"} => UNCHANGED verdictVars
    /\ part \notin {"web", "repeats"} => UNCHANGED progressVars
    /\ \/ part = "control" /\ ControlNext
       \/ part = "drain" /\ Next /\ jobs' = 0
       \/ part = "jobs" /\ Next /\ \A t \in Triggers : ~due'[t]
       \/ /\ part = "verdicts" /\ VerdictsNext
          /\ calling'.kind \notin {"publish", "redirect", "poll"} /\ ~mind'.quoted
       \/ /\ part = "answers" /\ VerdictsNext
          /\ calling'.kind # "shell" /\ met' = {} /\ clarified' = 0
       \/ part = "web" /\ ProgressNext /\ runs' = <<>>
       \/ part = "repeats" /\ ProgressNext /\ attempted' = <<>>

QuietSpec == QuietInit /\ [][QuietNext]_quietVars

\* For TLC: the variables of the other parts have the same values all along.
View == <<part,
    CASE part = "control" -> controlVars
      [] part \in {"drain", "jobs"} -> vars
      [] part \in {"verdicts", "answers"} -> verdictVars
      [] part \in {"web", "repeats"} -> progressVars>>

\* The part a behaviour belongs to keeps its types.
QuietTypeOK ==
    /\ part = "control" => ControlTypeOK
    /\ part \in {"drain", "jobs"} => TypeOK
    /\ part \in {"verdicts", "answers"} => VerdictsTypeOK
    /\ part \in {"web", "repeats"} => ProgressTypeOK

=============================================================================
