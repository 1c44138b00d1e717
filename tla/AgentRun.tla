------------------------------- MODULE AgentRun -------------------------------
(***************************************************************************)
(* One run of the code agent through its attempts: the turn loop           *)
(* (_stream_code_agent_core), the wrapper that journals what it yields     *)
(* (stream_code_agent), the journal's state.json, events.jsonl and         *)
(* model-history.json (run_journal.py), and the continuation that a Resume *)
(* or the next slice rebuilds from them (delivery_session.py).             *)
(*                                                                         *)
(* The question is what the model of the next attempt knows of the tool    *)
(* calls of this one.  The stream may be closed by its client wherever it  *)
(* yields, may raise, its files may fail to be replaced, and the process   *)
(* may be killed between any two of its writes.  Tool calls are numbered   *)
(* in the order the model asks for them; a model turn is reduced to what   *)
(* it leads to, the inputs of the user are SessionInputs.                  *)
(***************************************************************************)
EXTENDS Integers, Sequences, FiniteSets

CONSTANTS
    MaxCalls,       \* bound: tool calls of the run
    BatchSizes,     \* how many calls one model turn asks for
    MaxAttempts,    \* bound: the first attempt and its continuations
    MaxFailures     \* bound: files that cannot be replaced

ASSUME AgentRunAssumption ==
    /\ {MaxCalls, MaxFailures} \subseteq Nat /\ MaxAttempts \in Nat \ {0}
    /\ BatchSizes \subseteq Nat \ {0}

VARIABLES
    phase,      \* where the attempt is
    memory,     \* RunJournal._state of the attempt
    snapshot,   \* state.json
    modelHistory,    \* model-history.json
    events,     \* events.jsonl: the tool_call events
    messages,   \* what the attempt's messages say of completed batches and of a restored one
    batch,      \* the batch under way: its calls, and those whose result is a message
    ran,        \* history: calls whose tool was started
    asked,      \* how many calls the model has asked for
    attempt, saveFails,
    lossy,      \* history: an attempt began from a journal whose model_history_error is set
    givenUp     \* history: the last snapshot of an attempt could not be written

journal == <<memory, snapshot, modelHistory, events>>
runVars == <<phase, memory, snapshot, modelHistory, events, messages, batch, ran, asked, attempt, saveFails, lossy, givenUp>>

NoBatch == [calls |-> {}, done |-> {}]
BatchOpen == batch.calls # {}

\* Calls mentioned, calls whose result is told, calls it is said of that receipts may be missing.
NothingKnown == [named |-> {}, known |-> {}, cut |-> {}]
ReceiptsIn(first, last) == {events[i] : i \in (first + 1)..last}
Since(offset) == ReceiptsIn(offset, Len(events))
Published == {events[i] : i \in 1..Len(events)}
Call == CHOOSE c \in batch.calls \ batch.done : \A d \in batch.calls \ batch.done : c <= d
To(p) == phase' = p
ReplaceFails == saveFails < MaxFailures /\ saveFails' = saveFails + 1

\* _write_state: state.json is what the journal holds in memory, or stays as it is.
Save(state) ==
    /\ memory' = state
    /\ \/ snapshot' = state /\ UNCHANGED saveFails
       \/ ReplaceFails /\ UNCHANGED snapshot

---------------------------------------------------------------------------
(* checkpoint_model_history *)

NoPending == [calls |-> {}, done |-> {}, offset |-> 0]

\* Mutant of Pending: the offset moves with every checkpoint of the batch.
PendingMoved(b) ==
    [calls |-> b.calls, done |-> {}, offset |-> Len(events)]

\* An open batch is only described: its calls, the results so far, and where in
\* events.jsonl its receipts begin.
Pending(b) ==
    [calls |-> b.calls, done |-> b.done,
     offset |-> IF memory.pending.calls = b.calls THEN memory.pending.offset ELSE Len(events)]

\* No batch is open: the complete groups are written, unless they are already.
WriteHistory(said) ==
    \/ /\ said = memory.sha /\ memory.pending = NoPending /\ ~memory.error
       /\ UNCHANGED <<memory, snapshot, modelHistory, saveFails>>
    \/ /\ said # memory.sha \/ memory.pending # NoPending \/ memory.error
       /\ \/ /\ modelHistory' = said
             /\ Save([memory EXCEPT !.sha = said, !.pending = NoPending, !.error = FALSE])
          \/ /\ ReplaceFails                        \* an OSError, or 16 MB are exceeded
             /\ memory' = [memory EXCEPT !.error = TRUE] /\ snapshot' \in {memory', snapshot}
             /\ UNCHANGED modelHistory

Checkpoint(b, said) ==
    IF b.calls # {} THEN Save([memory EXCEPT !.pending = Pending(b)]) /\ UNCHANGED modelHistory
                    ELSE WriteHistory(said)

---------------------------------------------------------------------------
(* An attempt *)

\* journal.start.
StartAttempt ==
    /\ phase = "off" /\ attempt = 0
    /\ attempt' = 1
    /\ Save([status |-> "running", resumable |-> FALSE, sha |-> NothingKnown,
             pending |-> NoPending, error |-> FALSE])
    /\ To("step")
    /\ UNCHANGED <<modelHistory, events, messages, batch, ran, asked, lossy, givenUp>>

\* build_continuation_kwargs with load_model_history and
\* pending_model_history_context: the checkpoint if it is the one state.json
\* names, and the interrupted batch with the receipts published since it began,
\* of which 40,000 bytes are read (none if the file cannot be): up to the one
\* numbered `last`.  If that is not all, the description of the batch says so.
Restored(state, last) ==
    LET whole == IF modelHistory = state.sha THEN modelHistory ELSE NothingKnown
        observed == state.pending # NoPending
    IN [named |-> whole.named \cup state.pending.calls,
        known |-> whole.known \cup state.pending.done
                    \cup IF observed THEN ReceiptsIn(state.pending.offset, last) ELSE {},
        cut |-> whole.cut \cup IF observed /\ last < Len(events) THEN state.pending.calls ELSE {}]

\* How far the receipts may have been read: their sizes are anything.
ReadTo(state) == {n \in 0..Len(events) : state.pending.offset <= n}

\* POST /resume, or the next slice of the session: RunJournal.load, resume.
ContinueRun ==
    /\ phase = "off" /\ attempt \in 1..(MaxAttempts - 1)
    /\ snapshot.resumable
    /\ attempt' = attempt + 1
    /\ \E last \in ReadTo(snapshot) : messages' = Restored(snapshot, last)
    /\ lossy' = (lossy \/ snapshot.error)
    /\ Save([snapshot EXCEPT !.status = "running", !.resumable = FALSE])
    /\ To("step")
    /\ UNCHANGED <<modelHistory, events, batch, ran, asked, givenUp>>

\* One pass without tools: a retry of the answer, a correction of a malformed
\* call, new user input; nothing the journal's state depends on.
Again ==
    /\ phase = "step"
    /\ Save(memory)
    /\ UNCHANGED <<phase, modelHistory, events, messages, batch, ran, asked, attempt, lossy, givenUp>>

\* The model asks for tools: the groups so far are written before they begin.
Propose ==
    /\ phase = "step"
    /\ \E n \in BatchSizes :
          /\ asked + n <= MaxCalls
          /\ asked' = asked + n
          /\ batch' = [calls |-> (asked + 1)..(asked + n), done |-> {}]
    /\ WriteHistory(messages)
    /\ To("checkpoint")
    /\ UNCHANGED <<events, messages, ran, attempt, lossy, givenUp>>

\* The checkpoint before a call, and the one after the last.
Note ==
    /\ phase = "checkpoint"
    /\ Checkpoint(batch, messages)
    /\ To(IF BatchOpen THEN "call" ELSE "step")
    /\ UNCHANGED <<events, messages, batch, ran, asked, attempt, lossy, givenUp>>

\* The result of call c is a message; the last one completes the batch.
Answered(c) ==
    IF batch.done \cup {c} = batch.calls
    THEN /\ messages' = [messages EXCEPT !.named = @ \cup batch.calls, !.known = @ \cup batch.calls]
         /\ batch' = NoBatch
    ELSE batch' = [batch EXCEPT !.done = @ \cup {c}] /\ UNCHANGED messages

\* A call that is not dispatched: a recovery, wrong arguments, a read-only run.
Reject ==
    /\ phase = "call"
    /\ Answered(Call)
    /\ events' = Append(events, Call)
    /\ Save(memory)
    /\ To("checkpoint")
    /\ UNCHANGED <<modelHistory, ran, asked, attempt, lossy, givenUp>>

\* run_tool: tool_started is yielded and the tool runs in its thread.
DispatchTool ==
    /\ phase = "call"
    /\ ran' = ran \cup {Call}
    /\ Save(memory)
    /\ To("running")
    /\ UNCHANGED <<modelHistory, events, messages, batch, asked, attempt, lossy, givenUp>>

\* The wrapper journals the tool_call event before it yields it.
PublishEvent ==
    /\ phase = "running"
    /\ events' = Append(events, Call)
    /\ Save(memory)
    /\ To("published")
    /\ UNCHANGED <<modelHistory, messages, batch, ran, asked, attempt, lossy, givenUp>>

Receive ==
    /\ phase = "published"
    /\ Answered(Call)
    /\ To("checkpoint")
    /\ UNCHANGED <<journal, ran, asked, attempt, saveFails, lossy, givenUp>>

\* A call that waits for the user ends the attempt: the receipt is published,
\* its text is a message, checkpointed.
Pause ==
    /\ phase = "call"
    /\ events' = Append(events, Call)
    /\ Answered(Call)
    /\ Checkpoint(batch', messages')
    /\ To("paused")
    /\ UNCHANGED <<ran, asked, attempt, lossy, givenUp>>

---------------------------------------------------------------------------
(* The ends of an attempt *)

\* append_event(done).
Done(status, resumable) ==
    /\ Save([memory EXCEPT !.status = status, !.resumable = resumable])
    /\ batch' = NoBatch /\ messages' = NothingKnown
    /\ To("over")
    /\ UNCHANGED <<modelHistory, events, ran, asked, attempt, lossy, givenUp>>

\* The final answer is checkpointed, then published and the run ends; criteria
\* that nobody confirmed leave it resumable.
ModelAnswers ==
    /\ phase = "step"
    /\ WriteHistory(messages)
    /\ To("answered")
    /\ UNCHANGED <<events, messages, batch, ran, asked, attempt, lossy, givenUp>>

Accept == phase = "answered" /\ (Done("completed", FALSE) \/ Done("answer", TRUE))

\* Stop, a full context window, a failing model, an unfinished answer.
Halt ==
    /\ phase = "step"
    /\ \/ Done("cancelled", TRUE) \/ Done("context_limit", TRUE)
       \/ Done("error", TRUE) \/ Done("error", FALSE)

\* A tool waits for the user, or its wait is stopped; the loop or the journal raises.
HaltInBatch ==
    \/ phase = "paused" /\ Done("workflow_request", TRUE)
    \/ phase \in {"call", "running"} /\ Done("cancelled", TRUE)
    \/ phase \in {"call", "running", "published"} /\ Done("error", TRUE)

\* The client closes the stream where it yields: there is no terminal event.
Close ==
    /\ phase \in {"step", "call", "running", "published", "paused", "answered"}
    /\ batch' = NoBatch /\ messages' = NothingKnown
    /\ To("over")
    /\ UNCHANGED <<journal, ran, asked, attempt, saveFails, lossy, givenUp>>

\* journal.finish: _flush_state tries five times to write what could not be, and
\* gives up in silence.
FinishAttempt ==
    /\ phase = "over"
    /\ memory' = IF memory.status = "running"
                 THEN [memory EXCEPT !.status = "interrupted", !.resumable = TRUE] ELSE memory
    /\ \/ snapshot' = memory' /\ UNCHANGED <<saveFails, givenUp>>
       \/ snapshot # memory' /\ ReplaceFails /\ givenUp' = TRUE /\ UNCHANGED snapshot
    /\ To("off")
    /\ UNCHANGED <<modelHistory, events, messages, batch, ran, asked, attempt, lossy>>

\* The process is killed, perhaps when model-history.json is written and
\* state.json not yet.  run.lock stays, nothing removes it: no attempt follows.
ProcessKilled ==
    /\ phase \notin {"off", "dead"}
    /\ \/ UNCHANGED modelHistory
       \/ /\ phase = "step" \/ (phase = "checkpoint" /\ ~BatchOpen)
          /\ modelHistory' = messages
    /\ batch' = NoBatch /\ messages' = NothingKnown
    /\ To("dead")
    /\ UNCHANGED <<memory, snapshot, events, ran, asked, attempt, saveFails, lossy, givenUp>>

---------------------------------------------------------------------------
NoState == [status |-> "none", resumable |-> FALSE, sha |-> NothingKnown, pending |-> NoPending, error |-> FALSE]

RunInit ==
    /\ phase = "off" /\ attempt = 0
    /\ memory = NoState /\ snapshot = NoState
    /\ modelHistory = NothingKnown /\ events = <<>>
    /\ messages = NothingKnown /\ batch = NoBatch
    /\ ran = {} /\ asked = 0 /\ saveFails = 0 /\ lossy = FALSE /\ givenUp = FALSE

RunNext ==
    \/ StartAttempt \/ ContinueRun \/ Again \/ Propose \/ Note
    \/ Reject \/ DispatchTool \/ PublishEvent \/ Receive \/ Pause
    \/ ModelAnswers \/ Accept \/ Halt \/ HaltInBatch \/ Close \/ FinishAttempt \/ ProcessKilled

RunSpec == RunInit /\ [][RunNext]_runVars

---------------------------------------------------------------------------
(* Properties *)

Statuses == {"none", "running", "interrupted", "completed", "answer", "cancelled",
             "context_limit", "error", "workflow_request"}
Phases == {"off", "step", "checkpoint", "call", "running", "published", "paused", "answered", "over", "dead"}
CallNumbers == 1..MaxCalls
Knowledge == [named : SUBSET CallNumbers, known : SUBSET CallNumbers, cut : SUBSET CallNumbers]
States == [status : Statuses, resumable : BOOLEAN, sha : Knowledge, error : BOOLEAN,
           pending : [calls : SUBSET CallNumbers, done : SUBSET CallNumbers, offset : Nat]]
Batches == [calls : SUBSET CallNumbers, done : SUBSET CallNumbers]

\* Every part of the run has its type; results are kept of the batch's own calls.
RunTypeOK ==
    /\ phase \in Phases
    /\ memory \in States /\ snapshot \in States
    /\ modelHistory \in Knowledge /\ messages \in Knowledge
    /\ events \in Seq(CallNumbers)
    /\ batch \in Batches /\ batch.done \subseteq batch.calls
    /\ ran \subseteq CallNumbers /\ asked \in 0..MaxCalls
    /\ attempt \in 0..MaxAttempts /\ saveFails \in 0..MaxFailures
    /\ lossy \in BOOLEAN /\ givenUp \in BOOLEAN

\* The files tell of all the run did: they name every tool that was started, and
\* have the result of every call whose receipt was published, or say that
\* receipts of its batch are missing, however much of the receipts is read.
FilesTell ==
    \A last \in ReadTo(snapshot) :
        LET told == Restored(snapshot, last)
        IN ran \subseteq told.named /\ Published \subseteq told.known \cup told.cut

\* Whenever the run can be resumed its files tell of all it did, and they do where
\* the process was killed: the checkpoint of a batch is written before its first
\* tool starts.  Excused are a journal that says its history is unavailable, one
\* whose last snapshot was given up, and a death before the next state.json is.
NothingForgotten ==
    ( /\ ~snapshot.error /\ ~lossy /\ ~givenUp
      /\ \/ phase = "off" /\ snapshot.resumable
         \/ phase = "dead" /\ snapshot = memory /\ modelHistory = snapshot.sha )
    => FilesTell

\* Whatever ended an attempt, state.json says so and says all the journal knew,
\* unless the last snapshot was given up: no ended attempt is left running, and
\* none can be resumed from an older state.
OverIsRecorded ==
    phase = "off" /\ attempt > 0 /\ ~givenUp
        => /\ snapshot = memory /\ snapshot.status # "running"
           /\ snapshot.status \in {"interrupted", "cancelled", "workflow_request"} => snapshot.resumable

\* What the run did is in its files when somebody may rely on it: a pending call is
\* never forgotten, and the end of a run is recorded.
RunRemembers == NothingForgotten /\ OverIsRecorded

=============================================================================
