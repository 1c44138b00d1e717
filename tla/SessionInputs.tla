---------------------------- MODULE SessionInputs ----------------------------
(***************************************************************************)
(* Messages of the owner to a run under way: POST /runs/{id}/input         *)
(* (queue_session_input of loop_helpers.py), the ledger user-inputs.json   *)
(* (run_journal.py), the loop that takes them between its steps            *)
(* (agent_loop.py, turn_context.py), the model history it checkpoints, and *)
(* the Resume that rebuilds the history (delivery_session.py).             *)
(*                                                                         *)
(* _SESSION_LOCK makes a post and a take single steps; a crash, a client   *)
(* that goes away and a failing write fall between any two.                *)
(***************************************************************************)
EXTENDS Naturals, FiniteSets

CONSTANTS
    InputIds,         \* request ids
    MaxQueued,      \* rows that may be queued at once (32 in the code)
    MaxSessions,    \* bound: sessions of the run
    MaxInputFails        \* bound: writes of the ledger or the checkpoint that fail

ASSUME InputsAssumption == {MaxQueued, MaxSessions, MaxInputFails} \subseteq Nat /\ MaxQueued > 0

VARIABLES
    ledger,     \* user-inputs.json: the state of each row
    sessionLive,       \* _SESSION_INPUTS holds the run; the ledger it holds equals the file's
    accepting,  \* its "accepting"
    stopped,    \* the session's cancel token
    at,         \* where the loop is
    taken,    \* rows taken and not yet among the messages
    dialogue,   \* how often each input stands in the model's messages
    ckpt,       \* model-history.json: its messages, and the inputs it claims to contain
    sender,     \* what the sender of each input knows
    outcome,    \* how the last session ended
    sessions, inputFails

inputsVars == <<ledger, sessionLive, accepting, stopped, at, taken, dialogue, ckpt, sender, outcome, sessions, inputFails>>
sessionVars == <<sessionLive, accepting, stopped>>
loop == <<at, taken, dialogue>>

InputsIn(state) == {i \in InputIds : ledger[i] = state}
Seen(count) == {i \in InputIds : count[i] > 0}
NoMessages == [i \in InputIds |-> 0]
NoCheckpoint == [some |-> FALSE, told |-> NoMessages, ids |-> {}]
Fail == inputFails < MaxInputFails /\ inputFails' = inputFails + 1
With(count, S) == [i \in InputIds |-> IF i \in S THEN count[i] + 1 ELSE count[i]]

---------------------------------------------------------------------------
(* The sender *)

Told(i, what) == sender' = [sender EXCEPT ![i] = what]

\* Mutant of AcceptInput: the queue has no limit.
AcceptInputUnbounded(i) ==
    /\ ledger[i] = "none"
    /\ sessionLive /\ accepting /\ ~stopped
    /\ ledger' = [ledger EXCEPT ![i] = "queued"]

\* A new row of a session that accepts it, written before it counts.
AcceptInput(i) ==
    /\ ledger[i] = "none"
    /\ sessionLive /\ accepting /\ ~stopped
    /\ Cardinality(InputsIn("queued")) < MaxQueued
    /\ ledger' = [ledger EXCEPT ![i] = "queued"]

\* The sender may ask again: its answer was lost, or it was told to wait.
Post(i) ==
    /\ \/ AcceptInput(i) /\ Told(i, "accepted") /\ UNCHANGED inputFails
       \/ AcceptInput(i) /\ Fail /\ UNCHANGED sender             \* the answer is lost
       \/ /\ ledger[i] # "none" /\ sender[i] # "accepted"
          /\ Told(i, "accepted") /\ UNCHANGED <<ledger, inputFails>>
       \/ /\ ledger[i] = "none" /\ sender[i] = "new" /\ (~sessionLive \/ ~accepting \/ stopped)
          /\ Told(i, "refused") /\ UNCHANGED <<ledger, inputFails>>
    /\ UNCHANGED <<sessionVars, loop, ckpt, outcome, sessions>>

\* A refused text may be sent again.
Retry(i) ==
    /\ sender[i] = "refused" /\ Told(i, "new")
    /\ UNCHANGED <<ledger, sessionVars, loop, ckpt, outcome, sessions, inputFails>>

---------------------------------------------------------------------------
(* Sessions *)

\* build_continuation_kwargs: the checkpoint and the applied rows it lacks, or
\* without one every applied row.
RestoredInputs ==
    IF ckpt.some THEN With(ckpt.told, InputsIn("applied") \ ckpt.ids)
                 ELSE With(NoMessages, InputsIn("applied"))

\* register_session, for a new stream or a Resume.
BeginSession ==
    /\ ~sessionLive /\ outcome # "finished" /\ sessions < MaxSessions
    /\ sessionLive' = TRUE /\ accepting' = TRUE /\ stopped' = FALSE
    /\ at' = "step" /\ taken' = {}
    /\ dialogue' = RestoredInputs
    /\ outcome' = "none" /\ sessions' = sessions + 1
    /\ UNCHANGED <<ledger, ckpt, sender, inputFails>>

\* unregister_session; the queued rows stay in the file.
SessionOver(how) ==
    /\ sessionLive' = FALSE /\ accepting' = FALSE
    /\ at' = "off" /\ taken' = {} /\ dialogue' = NoMessages
    /\ outcome' = how
    /\ UNCHANGED <<stopped, ledger, ckpt, sender, sessions>>

StopSession ==
    /\ sessionLive /\ ~stopped
    /\ stopped' = TRUE
    /\ UNCHANGED <<ledger, sessionLive, accepting, loop, ckpt, sender, outcome, sessions, inputFails>>

\* The client of the stream goes away, the run meets an error, or the process
\* dies: between any two steps, also between two rows being appended.
Break == sessionLive /\ SessionOver("broken") /\ UNCHANGED inputFails

---------------------------------------------------------------------------
(* The loop *)

\* Mutant of Taken: a session that no longer accepts leaves its queue alone, and
\* one that accepts leaves the last row for later.
TakenLate == IF stopped \/ Cardinality(InputsIn("queued")) < 2 THEN {} ELSE InputsIn("queued")

\* take_session_inputs: queued rows are applied in the file, then handed over.
Taken == IF stopped THEN {} ELSE InputsIn("queued")

Apply == ledger' = [i \in InputIds |-> IF i \in Taken THEN "applied" ELSE ledger[i]]

\* At the start of a step, and after the model has answered (then its answer is
\* dropped if there are any).
TakeInputs ==
    /\ at \in {"step", "answered"} /\ taken = {}
    /\ \/ /\ Apply /\ taken' = Taken
          /\ at' = IF Taken # {} THEN "append" ELSE IF at = "step" THEN "think" ELSE "answer"
          /\ UNCHANGED <<sessionVars, dialogue, ckpt, sender, outcome, sessions, inputFails>>
       \/ Taken # {} /\ Fail /\ SessionOver("broken")

\* Mutant of TakeFinal: the session goes on accepting after its last look.
TakeFinalOpen ==
    /\ at = "answer" /\ taken = {}
    /\ Apply /\ taken' = Taken
    /\ at' = IF Taken # {} THEN "append" ELSE "final"
    /\ UNCHANGED <<sessionVars, dialogue, ckpt, sender, outcome, sessions, inputFails>>

\* Before the final answer: none left closes the session to further ones.
TakeFinal ==
    /\ at = "answer" /\ taken = {}
    /\ \/ /\ Apply /\ taken' = Taken
          /\ accepting' = (accepting /\ (stopped \/ Taken # {}))
          /\ at' = IF Taken # {} THEN "append" ELSE "final"
          /\ UNCHANGED <<sessionLive, stopped, dialogue, ckpt, sender, outcome, sessions, inputFails>>
       \/ Taken # {} /\ Fail /\ SessionOver("broken")

\* apply_user_inputs, a row at a time; then the step goes on or begins anew.
AppendInput ==
    /\ at = "append"
    /\ \E i \in taken :
          /\ dialogue' = With(dialogue, {i})
          /\ taken' = taken \ {i}
          /\ at' = IF taken = {i} THEN "think" ELSE "append"
    /\ UNCHANGED <<ledger, sessionVars, ckpt, sender, outcome, sessions, inputFails>>

\* The model is asked, unless a Stop is seen before or after.
Think ==
    /\ at = "think"
    /\ \/ stopped /\ SessionOver("stopped") /\ UNCHANGED inputFails
       \/ ~stopped /\ at' = "answered"
          /\ UNCHANGED <<ledger, sessionVars, taken, dialogue, ckpt, sender, outcome, sessions, inputFails>>

\* checkpoint_model_history: the messages, and every applied row of the ledger.
CheckpointInputs ==
    \/ ckpt' = [some |-> TRUE, told |-> dialogue, ids |-> InputsIn("applied")] /\ UNCHANGED inputFails
    \/ Fail /\ UNCHANGED ckpt

\* The model's answer asks for tools: a checkpoint, their calls, the next step.
Tools ==
    /\ at = "answer"
    /\ CheckpointInputs
    /\ at' = "step"
    /\ UNCHANGED <<ledger, sessionVars, taken, dialogue, sender, outcome, sessions>>

\* The accepted final answer.
FinishSession ==
    /\ at = "final"
    /\ CheckpointInputs
    /\ sessionLive' = FALSE /\ accepting' = FALSE
    /\ at' = "off" /\ dialogue' = NoMessages
    /\ outcome' = "finished"
    /\ UNCHANGED <<stopped, ledger, taken, sender, sessions>>

---------------------------------------------------------------------------
InputsInit ==
    /\ ledger = [i \in InputIds |-> "none"]
    /\ sessionLive = FALSE /\ accepting = FALSE /\ stopped = FALSE
    /\ at = "off" /\ taken = {} /\ dialogue = NoMessages
    /\ ckpt = NoCheckpoint
    /\ sender = [i \in InputIds |-> "new"]
    /\ outcome = "none" /\ sessions = 0 /\ inputFails = 0

Loop == TakeInputs \/ TakeFinal \/ AppendInput \/ Think \/ Tools \/ FinishSession

InputsNext ==
    \/ \E i \in InputIds : Post(i) \/ Retry(i)
    \/ BeginSession \/ StopSession \/ Break \/ Loop

InputsSpec == InputsInit /\ [][InputsNext]_inputsVars

\* The loop goes on: the model and the tools it asks for answer in the end.
InputsFairSpec == InputsSpec /\ WF_inputsVars(Loop)

---------------------------------------------------------------------------
(* Properties *)

\* Every part of the state has its type.
InputsTypeOK ==
    /\ ledger \in [InputIds -> {"none", "queued", "applied"}]
    /\ {sessionLive, accepting, stopped} \subseteq BOOLEAN
    /\ at \in {"off", "step", "append", "think", "answered", "answer", "final"}
    /\ taken \subseteq InputIds
    /\ dialogue \in [InputIds -> Nat]
    /\ ckpt \in [some : BOOLEAN, told : [InputIds -> Nat], ids : SUBSET InputIds]
    /\ sender \in [InputIds -> {"new", "refused", "accepted"}]
    /\ outcome \in {"none", "broken", "stopped", "finished"}
    /\ sessions \in 0..MaxSessions /\ inputFails \in 0..MaxInputFails
    /\ Cardinality(InputsIn("queued")) <= MaxQueued

\* What a sender was told is accepted is in the file, whatever breaks later.
AcceptedIsKept == \A i \in InputIds : sender[i] = "accepted" => ledger[i] # "none"

\* The model reads every accepted clarification once: not twice after a retry or
\* a Resume, and when it is asked none that was applied is missing.
ReadOnce ==
    /\ \A i \in InputIds : dialogue[i] <= 1
    /\ at \in {"think", "answered", "answer", "final"} => InputsIn("applied") = Seen(dialogue)

\* The checkpoint contains what it claims to contain, so a Resume may leave that out.
CheckpointHonest == ckpt.ids = Seen(ckpt.told)

\* A run that finishes unstopped has read every input it accepted: none slips in
\* between its last look and the end.
FinishedReadAll == outcome = "finished" /\ ~stopped => InputsIn("queued") = {}

\* A queued input is read, unless its session is stopped or breaks.
QueuedIsRead ==
    \A i \in InputIds : (ledger[i] = "queued" /\ sessionLive) ~> (ledger[i] = "applied" \/ ~sessionLive \/ stopped)

\* A message that the client was told is accepted is neither lost nor read twice,
\* over checkpoints, sessions and resumes, and what a checkpoint or a finished run
\* says was read has been read.
InputsHold == AcceptedIsKept /\ ReadOnce /\ CheckpointHonest /\ FinishedReadAll

=============================================================================
