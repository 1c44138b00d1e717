-------------------------------- MODULE MCRaces --------------------------------
(***************************************************************************)
(* Two who act at once: the threads that start, resume, answer, stop and   *)
(* delete one workflow run, and the runs, the user and the socket of one   *)
(* terminal tab, side by side for TLC.  They share no state; `part` names  *)
(* the one a behaviour belongs to.                                         *)
(***************************************************************************)
EXTENDS MCWorkflowEngine, TerminalSessions

Symmetry == Permutations(Threads) \cup Permutations(Turns)

VARIABLE part

racesVars == <<vars, terminalVars, part>>

RacesInit == Init /\ TerminalInit /\ part \in {"workflow", "tab"}

RacesNext ==
    \/ part = "workflow" /\ Next /\ UNCHANGED <<terminalVars, part>>
    \/ part = "tab" /\ TerminalNext /\ UNCHANGED <<vars, part>>

RacesSpec == RacesInit /\ [][RacesNext]_racesVars

=============================================================================
