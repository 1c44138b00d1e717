--------------------------- MODULE CommandProgress ---------------------------
(***************************************************************************)
(* What a run knows of its own repetitions (command_progress.py): how      *)
(* often it made each Web call, with the limit at which the call is not    *)
(* dispatched and the model must answer, and how often one command came to *)
(* the same result on the same code and inputs, with the hint the third    *)
(* time.  The loop asks before_dispatch, runs the call, observes it and    *)
(* journals the snapshot with the event (agent_loop.py, run_journal.py); a *)
(* Resume begins from the snapshot of state.json.                          *)
(*                                                                         *)
(* A Web call is its tool and arguments, an execution one run of the one   *)
(* command by one of its tools (each tool has a count of its own): always  *)
(* in the foreground (run_bash), or always as a job that is looked at      *)
(* again and again (run_server).  Digests, diagnostics and the texts of    *)
(* the hints are left out.                                                 *)
(***************************************************************************)
EXTENDS Integers, Sequences, FiniteSets

CONSTANTS
    WebCalls,       \* calls of web_search and web_fetch
    Results,        \* what the command may come to
    MaxAttempted,   \* bound: Web calls the model asks for, and batches
    MaxRuns,        \* bound: executions of the command
    MaxEpochs,      \* bound: changes of the code or the inputs
    MaxBreaks       \* bound: lost clients, and Resumes

ASSUME ProgressAssumption ==
    /\ "none" \notin Results
    /\ {MaxAttempted, MaxRuns, MaxEpochs, MaxBreaks} \subseteq Nat

VARIABLES
    tracker,    \* the CommandProgress of the attempt
    kept,       \* command_progress of state.json
    doing,       \* where the loop is, and the call under way
    answerOnly, \* the next model turn has no tools
    epochs,     \* progress_epoch: the code's version and the user's messages
    runs,       \* the executions of the command: at which epoch, how far, with what result
    breaks,
    dispatched, \* history: the Web calls dispatched since the user's last message
    attempted,  \* history: those asked for since then, the refused ones too
    unkept,     \* history: dispatched calls whose count was lost with their attempt
    revived,    \* history: a Resume brought back counts a message had cleared
    untold      \* history: jobs whose start the run did not observe

progressVars == <<tracker, kept, doing, answerOnly, epochs, runs, breaks,
                  dispatched, attempted, unkept, revived, untold>>

NoResult == [result |-> "none", count |-> 0, notified |-> FALSE]
NoCounts == [c \in WebCalls |-> 0]
NewTracker == [calls |-> NoCounts, sequence |-> <<>>, epoch |-> 0, result |-> NoResult, seen |-> <<>>]
Resting(where) == [at |-> where, call |-> "none"]

LastSix(s) == IF Len(s) > 6 THEN SubSeq(s, Len(s) - 5, Len(s)) ELSE s

\* How many of the last calls are this one.
Streak(s, c) ==
    LET others == {i \in 1..Len(s) : s[i] # c} IN
    Len(s) - (IF others = {} THEN 0 ELSE CHOOSE i \in others : \A j \in others : j <= i)

Alternating(s) ==
    Len(s) = 6 /\ s[1] # s[2] /\ \A i \in 1..4 : s[i] = s[i + 2]

\* The call has been made too often: five times in a row, six times, or A-B-A-B-A-B.
TooOften(t, c) == Streak(t.sequence, c) >= 5 \/ t.calls[c] >= 6 \/ Alternating(t.sequence)

\* before_dispatch counts what is asked for, refused or not.
CountedCall(c) ==
    [tracker EXCEPT !.calls[c] = @ + 1, !.sequence = LastSix(Append(@, c))]

\* _sync_epoch: results of other code or inputs are forgotten.
Synced(t) == IF t.epoch = epochs THEN t ELSE [t EXCEPT !.epoch = epochs, !.result = NoResult]

---------------------------------------------------------------------------
(* Web calls *)

Batch ==
    /\ doing.at = "thinking" /\ ~answerOnly /\ doing' = Resting("batch")
    /\ UNCHANGED <<tracker, kept, answerOnly, epochs, runs, breaks, dispatched, attempted,
                   unkept, revived, untold>>

BatchEnds ==
    /\ doing.at = "batch" /\ doing' = Resting("thinking")
    /\ UNCHANGED <<tracker, kept, answerOnly, epochs, runs, breaks, dispatched, attempted,
                   unkept, revived, untold>>

AskWeb(c) ==
    /\ doing.at = "batch" /\ Len(attempted) < MaxAttempted
    /\ tracker' = Synced(CountedCall(c)) /\ attempted' = Append(attempted, c)
    /\ IF TooOften(CountedCall(c), c)
       THEN /\ answerOnly' = TRUE /\ kept' = tracker'       \* the refusal is journaled
            /\ UNCHANGED <<doing, dispatched>>
       ELSE /\ doing' = [at |-> "web", call |-> c] /\ dispatched' = Append(dispatched, c)
            /\ UNCHANGED <<answerOnly, kept>>
    /\ UNCHANGED <<epochs, runs, breaks, unkept, revived, untold>>

WebReturns ==
    /\ doing.at = "web" /\ doing' = Resting("batch")
    /\ kept' = tracker
    /\ UNCHANGED <<tracker, answerOnly, epochs, runs, breaks, dispatched, attempted, unkept,
                   revived, untold>>

---------------------------------------------------------------------------
(* The command *)

\* Mutant of CountTerminal: every look at a finished job is another execution.
CountEveryLook(t, i, came) ==
    LET again == t.result.result = came
        count == IF again THEN t.result.count + 1 ELSE 1
        hinted == again /\ (t.result.notified \/ count >= 3)
    IN IF t.seen[i].at # epochs THEN [t EXCEPT !.seen[i].terminal = TRUE]
       ELSE [t EXCEPT !.result = [result |-> came, count |-> count, notified |-> hinted]]

\* _observe_command_result: execution i ended with this result.  An execution counts
\* once, and not if the code or the inputs changed since it was first seen.
CountTerminal(t, i, came) ==
    LET again == t.result.result = came
        count == IF again THEN t.result.count + 1 ELSE 1
        hinted == again /\ (t.result.notified \/ count >= 3)
    IN IF t.seen[i].terminal THEN t
       ELSE IF t.seen[i].at # epochs THEN [t EXCEPT !.seen[i].terminal = TRUE]
       ELSE [t EXCEPT !.seen[i].terminal = TRUE,
                      !.result = [result |-> came, count |-> count, notified |-> hinted]]

\* The attempt's record of execution i, made when its first observation comes.
Noted(t, i) ==
    IF i \in DOMAIN t.seen THEN t
    ELSE [t EXCEPT !.seen = [j \in DOMAIN @ \cup {i} |->
            IF j = i THEN [at |-> epochs, terminal |-> FALSE] ELSE @[j]]]

\* A job is started, or the command run to its end, by the tool that is looked at.
RunCommand ==
    /\ doing.at = "batch" /\ Len(runs) < MaxRuns
    /\ \E came \in Results \cup {"none"} :
         /\ \A i \in 1..Len(runs) : runs[i].job = (came = "none")
         /\ runs' = Append(runs, [at |-> epochs, result |-> came, job |-> came = "none"])
    /\ doing' = [at |-> "command", call |-> Len(runs) + 1]
    /\ UNCHANGED <<tracker, kept, answerOnly, epochs, breaks, dispatched, attempted, unkept,
                   revived, untold>>

\* A cancelled job counts for nothing, as one that never ends.
JobEnds(i) ==
    /\ runs[i].job /\ runs[i].result = "none"
    /\ \E came \in Results : runs' = [runs EXCEPT ![i].result = came]
    /\ UNCHANGED <<tracker, kept, doing, answerOnly, epochs, breaks, dispatched, attempted,
                   unkept, revived, untold>>

LookAtJob(i) ==
    /\ doing.at = "batch" /\ runs[i].job
    /\ doing' = [at |-> "command", call |-> i]
    /\ UNCHANGED <<tracker, kept, answerOnly, epochs, runs, breaks, dispatched, attempted,
                   unkept, revived, untold>>

\* observe, and the event that journals the snapshot.
Observed ==
    LET i == doing.call
        t == Noted(Synced(tracker), i)
    IN
    /\ doing.at = "command" /\ doing' = Resting("batch")
    /\ tracker' = IF runs[i].result = "none" THEN t ELSE CountTerminal(t, i, runs[i].result)
    /\ kept' = tracker'
    /\ UNCHANGED <<answerOnly, epochs, runs, breaks, dispatched, attempted, unkept, revived, untold>>

---------------------------------------------------------------------------
(* New code and new inputs, and the end of an attempt *)

\* A tool call changed the project: observed and journaled as any other.
Edited ==
    /\ doing.at = "batch" /\ epochs < MaxEpochs /\ epochs' = epochs + 1
    /\ tracker' = [tracker EXCEPT !.epoch = epochs', !.result = NoResult] /\ kept' = tracker'
    /\ UNCHANGED <<doing, answerOnly, runs, breaks, dispatched, attempted, unkept, revived, untold>>

\* A message of the user allows the calls again; its event carries no snapshot.
UserWrites ==
    /\ doing.at = "thinking" /\ epochs < MaxEpochs /\ epochs' = epochs + 1
    /\ tracker' = [tracker EXCEPT !.calls = NoCounts, !.sequence = <<>>]
    /\ dispatched' = <<>> /\ attempted' = <<>> /\ unkept' = 0
    /\ revived' = FALSE
    /\ UNCHANGED <<kept, doing, answerOnly, runs, breaks, untold>>

\* The attempt ends without its tracker: what it counted since the last snapshot is lost.
AttemptBreaks ==
    /\ doing.at # "over" /\ breaks < MaxBreaks /\ breaks' = breaks + 1
    /\ doing' = Resting("over")
    /\ tracker' = NewTracker
    /\ unkept' = IF doing.at = "web" THEN unkept + 1 ELSE unkept
    /\ revived' = (revived \/ \E c \in WebCalls : tracker.calls[c] < kept.calls[c])
    /\ untold' = IF doing.at = "command" /\ doing.call \notin DOMAIN tracker.seen
                 THEN untold \cup {doing.call} ELSE untold
    /\ UNCHANGED <<kept, answerOnly, epochs, runs, dispatched, attempted>>

\* from_snapshot.
TakeUp ==
    /\ doing.at = "over" /\ doing' = Resting("thinking")
    /\ tracker' = kept /\ answerOnly' = FALSE
    /\ UNCHANGED <<kept, epochs, runs, breaks, dispatched, attempted, unkept, revived, untold>>

---------------------------------------------------------------------------
ProgressInit ==
    /\ tracker = NewTracker /\ kept = NewTracker /\ doing = Resting("thinking") /\ answerOnly = FALSE
    /\ epochs = 0 /\ runs = <<>> /\ breaks = 0
    /\ dispatched = <<>> /\ attempted = <<>> /\ unkept = 0 /\ revived = FALSE /\ untold = {}

ProgressNext ==
    \/ Batch \/ BatchEnds \/ (\E c \in WebCalls : AskWeb(c)) \/ WebReturns
    \/ RunCommand \/ (\E i \in 1..Len(runs) : JobEnds(i) \/ LookAtJob(i)) \/ Observed
    \/ Edited \/ UserWrites \/ AttemptBreaks \/ TakeUp

ProgressSpec == ProgressInit /\ [][ProgressNext]_progressVars

---------------------------------------------------------------------------
\* What the tracker counts and the loop has under way.
ProgressTypeOK ==
    /\ \A t \in {tracker, kept} :
         /\ t.calls \in [WebCalls -> Nat]
         /\ t.sequence \in Seq(WebCalls) /\ Len(t.sequence) <= 6
         /\ t.result.count \in 0..MaxRuns /\ t.result.notified \in BOOLEAN
    /\ doing.at \in {"thinking", "batch", "web", "command", "over"}
    /\ epochs \in 0..MaxEpochs /\ unkept \in 0..MaxBreaks

Times(s, c) == Cardinality({i \in 1..Len(s) : s[i] = c})

\* Since the user's last message no Web call is dispatched more than five times (once
\* more for every count that was lost with its attempt), nor when it was asked for
\* five times in a row or as the sixth of two in turn, however often the run is
\* broken off and resumed.
WebRepeatsEnd ==
    /\ \A c \in WebCalls : Times(dispatched, c) <= 5 + unkept
    /\ doing.at = "web" /\ unkept = 0 /\ ~revived =>
         Streak(attempted, doing.call) <= 4 /\ ~Alternating(LastSix(attempted))

\* What holds a Web call back is what the run asked for since the user's last message,
\* unless a Resume brought back the counts that message had cleared.
RefusalsAreEarned ==
    ~revived => \A c \in WebCalls : tracker.calls[c] <= Times(attempted, c)

\* The hint counts executions that ended with this result on this code and these
\* inputs, each of them once, except jobs whose start the run never observed.
HintsAreEarned ==
    LET equal == {i \in 1..Len(runs) : runs[i].at = tracker.epoch
                                       /\ runs[i].result = tracker.result.result}
    IN /\ tracker.result.count <= Cardinality(equal \cup untold)
       /\ tracker.result.notified => Cardinality(equal \cup untold) >= 3

\* What the run is told of its repetitions is so, and it cannot go on repeating.
RepeatsHold == WebRepeatsEnd /\ RefusalsAreEarned /\ HintsAreEarned

=============================================================================
