---------------------------- MODULE BackgroundRuns ----------------------------
(***************************************************************************)
(* One chat of the desktop client and the reader of its run                *)
(* (frontend/src/workspace/backgroundRuns.ts, api/codeAgent.ts): sending,   *)
(* resuming, stopping until the server confirms it, messages to a live run, *)
(* a stream that breaks and a page that is loaded again.                   *)
(*                                                                         *)
(* A turn of the agent and its run share a name.  The text of the answer   *)
(* and the meters are left out; an event stands for what changes the       *)
(* turn's state.  The server is what its routes promise: RunControl is     *)
(* the module that says how it keeps the promise.                          *)
(***************************************************************************)
EXTENDS Integers, FiniteSets, Sequences

CONSTANTS
    ChatRuns,           \* ids of the runs the chat may have
    NoRun,
    MaxRequests,    \* bound: request ids of messages to a run
    MaxMishaps      \* bound: failing calls, broken streams, loads of the page

ASSUME BackgroundAssumption == NoRun \notin ChatRuns /\ MaxRequests \in Nat /\ MaxMishaps \in Nat

VARIABLES
    \* the server
    gen,        \* each run's generation: "none", "live", "cut" (resumable) or "done"
    awaited,      \* the request that has not been answered: "no", "start" or "resume"
    stopAsked,  \* a Stop has come before the run
    rows,       \* messages it has accepted
    cancelCalls,    \* Stops on their way to it
    \* between them
    pipe,       \* events of a run that its reader has not seen
    reading,    \* runs with a reader
    \* the entry of the chat
    control,    \* runControlState
    runId,    \* runId
    runReady, resuming, startError,
    lastMode,   \* a run was sent or resumed since the page was loaded
    cancellation, \* where the Stop under way is
    turns,       \* the turns of the transcript
    shown,      \* messages in the transcript, by their request
    steering,   \* the message under way, (pendingInput) the one of uncertain fate, those that
                \* may still arrive, and (history) the runs whose pendingInput another's replaced
    persisted,      \* the transcript as last persisted
    \* for the properties
    answered,       \* runs whose final answer the transcript has been given
    crossed,    \* runs given up by a broken stream or a load of the page while their request
                \* was on its way or the server had them live
    dropped,    \* messages whose "applied" no reader has seen
    mishaps

serverVars == <<gen, awaited, stopAsked, rows, cancelCalls>>
wireVars == <<pipe, reading>>
entryVars == <<control, runId, runReady, resuming, startError, lastMode>>
backgroundVars == <<serverVars, wireVars, entryVars, cancellation, turns, shown, steering, persisted, answered, crossed, dropped, mishaps>>

Requests == 1..MaxRequests
EmptyTurn == [running |-> FALSE, answer |-> "none", control |-> "idle", resumable |-> FALSE]
NoInput == [run |-> NoRun, id |-> 0, text |-> 0]
ChatRunning == control = "running"
StopUnconfirmed == control \in {"stopping", "cancel_failed"}
Mishap == mishaps < MaxMishaps /\ mishaps' = mishaps + 1

\* A save, once it has reached the server; one that is lost or overtaken is left out.
\* None matters when no load of the page is left.
Persist ==
    persisted' = IF mishaps = MaxMishaps THEN persisted
             ELSE [turns |-> [r \in ChatRuns |-> [turns'[r] EXCEPT !.running = FALSE]], shown |-> shown']

---------------------------------------------------------------------------
(* The server *)

Event(what) == [what |-> what, id |-> 0]
Unseen(r) == {pipe[r][i].id : i \in {j \in 1..Len(pipe[r]) : pipe[r][j].what = "applied"}}
StreamEnded(r) == \E i \in DOMAIN pipe[r] : pipe[r][i].what \in {"done", "cut", "refused", "failed"}
\* Its reader is of this generation.
Attended(r) == r \in reading /\ awaited[r] = "no" /\ ~StreamEnded(r)
Emit(r, events) == pipe' = [pipe EXCEPT ![r] = IF Attended(r) THEN @ \o events ELSE @]
Respond(r, events) == pipe' = [pipe EXCEPT ![r] = IF r \in reading THEN @ \o events ELSE @]

\* prepare_run and the headers.  A run stopped before it began ends at once.  A run
\* that cannot be resumed answers 409, which the client turns into a done; one that
\* never began has no journal: 404.
RunPrepared(r) ==
    /\ awaited[r] # "no"
    /\ awaited' = [awaited EXCEPT ![r] = "no"]
    /\ \/ /\ awaited[r] = "start" /\ stopAsked[r]
          /\ gen' = [gen EXCEPT ![r] = "cut"]
          /\ Respond(r, <<Event("headers"), Event("cut")>>)
       \/ /\ (awaited[r] = "start" /\ ~stopAsked[r]) \/ (awaited[r] = "resume" /\ gen[r] = "cut")
          /\ gen' = [gen EXCEPT ![r] = "live"]
          /\ Respond(r, <<Event("headers")>>)
       \/ /\ awaited[r] = "resume" /\ gen[r] # "cut"
          /\ Respond(r, IF gen[r] = "none" THEN <<Event("failed")>> ELSE <<Event("headers"), Event("refused")>>)
          /\ UNCHANGED gen
    /\ UNCHANGED <<stopAsked, rows, cancelCalls, reading, entryVars, cancellation, turns, shown, steering, persisted, answered, crossed, dropped, mishaps>>

\* The run answers, or ends without an answer.
RunOver(r) ==
    /\ gen[r] = "live"
    /\ \/ gen' = [gen EXCEPT ![r] = "done"] /\ Emit(r, <<Event("final"), Event("done")>>)
       \/ gen' = [gen EXCEPT ![r] = "cut"] /\ Emit(r, <<Event("cut")>>)
    /\ UNCHANGED <<awaited, stopAsked, rows, cancelCalls, reading, entryVars, cancellation, turns, shown, steering, persisted, answered, crossed, dropped, mishaps>>

\* It reads a message.
RunReads(x) ==
    /\ gen[x.run] = "live" /\ ~x.applied
    /\ rows' = (rows \ {x}) \cup {[x EXCEPT !.applied = TRUE]}
    /\ Emit(x.run, <<[what |-> "applied", id |-> x.id]>>)
    /\ dropped' = IF Attended(x.run) THEN dropped ELSE dropped \cup {x.id}
    /\ UNCHANGED <<gen, awaited, stopAsked, cancelCalls, reading, entryVars, cancellation, turns, shown, steering, persisted, answered, crossed, mishaps>>

\* A reader that has gone is noticed.
Disconnected(r) ==
    /\ gen[r] = "live" /\ ~Attended(r)
    /\ gen' = [gen EXCEPT ![r] = "cut"]
    /\ UNCHANGED <<awaited, stopAsked, rows, cancelCalls, wireVars, entryVars, cancellation, turns, shown, steering, persisted, answered, crossed, dropped, mishaps>>

\* /cancel: a run that is live is over before the answer; a run that has not begun
\* is going to end at once; a run that is over stays over.
CancelRun(r) ==
    /\ IF gen[r] = "live" THEN gen' = [gen EXCEPT ![r] = "cut"] /\ Emit(r, <<Event("cut")>>) ELSE UNCHANGED <<gen, pipe>>
    /\ stopAsked' = [stopAsked EXCEPT ![r] = @ \/ gen[r] = "none"]

\* A Stop whose sender no longer waits.
LateCancel(r) ==
    /\ cancelCalls[r] > (IF cancellation = "posted" /\ runId = r THEN 1 ELSE 0)
    /\ cancelCalls' = [cancelCalls EXCEPT ![r] = @ - 1]
    /\ CancelRun(r)
    /\ UNCHANGED <<awaited, rows, reading, entryVars, cancellation, turns, shown, steering, persisted, answered, crossed, dropped, mishaps>>

---------------------------------------------------------------------------
(* send and resume *)

\* wire: a reader of its own.
Wire(r, resume) ==
    /\ runId' = r /\ runReady' = FALSE /\ resuming' = resume /\ startError' = FALSE /\ lastMode' = TRUE
    /\ control' = "running"
    /\ awaited' = [awaited EXCEPT ![r] = IF resume THEN "resume" ELSE "start"]
    /\ reading' = reading \cup {r} /\ pipe' = [pipe EXCEPT ![r] = <<>>]
    /\ turns' = [turns EXCEPT ![r] = [EmptyTurn EXCEPT !.running = TRUE, !.answer = "draft", !.control = IF resume THEN "running" ELSE "idle"]]
    /\ UNCHANGED <<gen, stopAsked, rows, cancelCalls, cancellation, shown, steering, persisted, crossed, dropped, mishaps>>

SendMessage(r) ==
    /\ ~ChatRunning /\ ~StopUnconfirmed
    /\ turns[r] = EmptyTurn /\ awaited[r] = "no" /\ gen[r] = "none"
    /\ Wire(r, FALSE)
    /\ UNCHANGED answered

Resume(r) ==
    /\ ~ChatRunning /\ ~StopUnconfirmed
    /\ turns[r].resumable /\ ~turns[r].running /\ awaited[r] = "no"
    /\ Wire(r, TRUE)
    /\ answered' = answered \ {r}

---------------------------------------------------------------------------
(* The reader: onRunId, onEvent, onError *)

Idle == control' = "idle" /\ runId' = NoRun

\* A done; after an error a turn without its answer may be resumed.
EndTurn(r, resumable) ==
    turns' = [turns EXCEPT ![r].running = FALSE, ![r].answer = IF @ = "accepted" THEN @ ELSE "interrupted",
                         ![r].resumable = resumable]

\* onError: while a Stop is not confirmed it only tells a Stop that waits for a Resume.
ReaderFails(r) ==
    IF StopUnconfirmed
    THEN /\ startError' = (startError \/ (resuming /\ ~runReady)) /\ resuming' = (resuming /\ runReady)
         /\ UNCHANGED <<control, runId, turns, persisted>>
    ELSE /\ Idle /\ EndTurn(r, turns[r].answer # "accepted")
         /\ UNCHANGED <<shown, startError, resuming>> /\ Persist

\* recordUserInput: one line of the transcript for a request, and a message that was
\* applied stays so.
Record(id, state) == shown' = [shown EXCEPT ![id] = IF @ = "applied" THEN @ ELSE state]

\* While a Stop is not confirmed only what the run took from the user is recorded,
\* on a turn without an answer; headers still count.
See(r) ==
    /\ r \in reading /\ pipe[r] # <<>>
    /\ LET e == Head(pipe[r])
           over == e.what \in {"done", "cut", "refused"}
           mine == ~StopUnconfirmed
           taken == e.what = "applied" /\ (mine \/ turns[r].answer = "interrupted")
       IN  /\ e.what # "failed"
           /\ runReady' = (runReady \/ e.what = "headers")
           /\ IF taken THEN Record(e.id, "applied") ELSE UNCHANGED shown
           /\ IF mine /\ over THEN Idle /\ EndTurn(r, e.what = "cut") ELSE
                 /\ UNCHANGED <<control, runId>>
                 /\ turns' = IF mine /\ e.what = "final"
                            THEN [turns EXCEPT ![r].answer = "accepted", ![r].running = FALSE] ELSE turns
           /\ IF (mine /\ over) \/ (~mine /\ taken) THEN Persist ELSE UNCHANGED persisted
           /\ answered' = IF mine /\ e.what = "final" THEN answered \cup {r} ELSE answered
           /\ reading' = IF over THEN reading \ {r} ELSE reading
    /\ pipe' = [pipe EXCEPT ![r] = Tail(@)]
    /\ UNCHANGED <<serverVars, resuming, startError, lastMode, cancellation, steering, crossed, dropped, mishaps>>

ResumeRefused(r) ==
    /\ r \in reading /\ pipe[r] # <<>> /\ Head(pipe[r]).what = "failed"
    /\ reading' = reading \ {r} /\ pipe' = [pipe EXCEPT ![r] = <<>>]
    /\ ReaderFails(r)
    /\ UNCHANGED <<serverVars, runReady, lastMode, cancellation, shown, steering, answered, crossed, dropped, mishaps>>

\* The call fails or the stream breaks, what is in it lost; a request that was not
\* answered may still arrive.
StreamBreaks(r) ==
    /\ r \in reading /\ Mishap
    /\ reading' = reading \ {r} /\ pipe' = [pipe EXCEPT ![r] = <<>>]
    /\ awaited' \in {awaited, [awaited EXCEPT ![r] = "no"]}
    /\ crossed' = IF awaited'[r] # "no" THEN crossed \cup {r} ELSE crossed
    /\ dropped' = dropped \cup Unseen(r)
    /\ ReaderFails(r)
    /\ UNCHANGED <<gen, stopAsked, rows, cancelCalls, runReady, lastMode, cancellation, shown, steering, answered>>

---------------------------------------------------------------------------
(* stop *)

Unconfirmed(how) ==
    /\ control' = how
    /\ turns' = [turns EXCEPT ![runId].running = FALSE, ![runId].control = how, ![runId].resumable = FALSE,
                            ![runId].answer = IF @ = "accepted" THEN @ ELSE "interrupted"]
    /\ UNCHANGED shown /\ Persist

SendCancel ==
    /\ cancellation' = "posted"
    /\ cancelCalls' = [cancelCalls EXCEPT ![runId] = @ + 1]

\* A Resume is stopped after its headers: its run has the name of one that is over.
Stop ==
    /\ ChatRunning \/ StopUnconfirmed
    /\ cancellation = "none"
    /\ Unconfirmed("stopping")
    /\ IF resuming /\ ~runReady THEN cancellation' = "waits" /\ UNCHANGED cancelCalls ELSE SendCancel
    /\ UNCHANGED <<gen, awaited, stopAsked, rows, wireVars, runId, runReady, resuming, startError, lastMode, steering, answered, crossed, dropped, mishaps>>

StopFails ==
    /\ Unconfirmed("cancel_failed")
    /\ cancellation' = "none"

\* Mutant of HeadersSeen: a Resume without its headers is stopped by its old name.
HeadersNotAwaited == TRUE

HeadersSeen == runReady

\* The wait ends: the headers are there, the start has failed, or 15 s are over.
Waited ==
    /\ cancellation = "waits"
    /\ \/ ~startError /\ HeadersSeen /\ SendCancel /\ UNCHANGED <<control, turns, shown, persisted, mishaps>>
       \/ startError /\ StopFails /\ UNCHANGED <<cancelCalls, mishaps>>
       \/ ~startError /\ ~runReady /\ Mishap /\ StopFails /\ UNCHANGED cancelCalls
    /\ UNCHANGED <<gen, awaited, stopAsked, rows, wireVars, runId, runReady, resuming, startError, lastMode, steering, answered, crossed, dropped>>

\* The server confirms, and finish gives the chat back.
Confirmed ==
    /\ cancellation = "posted"
    /\ cancelCalls' = [cancelCalls EXCEPT ![runId] = @ - 1]
    /\ IF gen[runId] = "live" THEN gen' = [gen EXCEPT ![runId] = "cut"] ELSE UNCHANGED gen
    /\ stopAsked' = [stopAsked EXCEPT ![runId] = @ \/ gen[runId] = "none"]
    /\ cancellation' = "none" /\ control' = "stopped" /\ runId' = NoRun
    /\ turns' = [turns EXCEPT ![runId].control = "stopped", ![runId].resumable = lastMode]
    /\ reading' = reading \ {runId} /\ pipe' = [pipe EXCEPT ![runId] = <<>>]
    /\ dropped' = dropped \cup Unseen(runId)
    /\ UNCHANGED shown /\ Persist
    /\ UNCHANGED <<awaited, rows, runReady, resuming, startError, lastMode, steering, answered, crossed, mishaps>>

\* It cannot clean up, or no answer comes in time; the request may still be on its way.
Unanswered ==
    /\ cancellation = "posted" /\ Mishap
    /\ \/ cancelCalls' = [cancelCalls EXCEPT ![runId] = @ - 1] /\ CancelRun(runId)
       \/ cancelCalls' = [cancelCalls EXCEPT ![runId] = @ - 1] /\ UNCHANGED <<gen, stopAsked, pipe>>
       \/ UNCHANGED <<cancelCalls, gen, stopAsked, pipe>>
    /\ StopFails
    /\ UNCHANGED <<awaited, rows, reading, runId, runReady, resuming, startError, lastMode, steering, answered, crossed, dropped>>

---------------------------------------------------------------------------
(* steer: one message that the user sends until it has been taken *)

NoSteering == [at |-> "idle", now |-> NoInput, pending |-> NoInput, late |-> {}, ids |-> 0, text |-> 1, lost |-> {}]
RowOf(id) == {x \in rows : x.id = id}
SteeringVars == <<gen, awaited, stopAsked, cancelCalls, wireVars, entryVars, cancellation, turns, persisted, answered, crossed, dropped>>

\* Mutant of SteerId: a message that is sent again is a new request.
SteerIdNew == steering.ids + 1

\* A message whose fate is uncertain keeps its id when it is sent again.
SteerId == IF steering.pending.run = runId THEN steering.pending.id ELSE steering.ids + 1

Steer ==
    /\ ChatRunning /\ runReady /\ steering.at = "idle" /\ SteerId \in Requests
    /\ LET input == [run |-> runId, id |-> SteerId, text |-> steering.text]
       IN  steering' = [steering EXCEPT !.at = "posted", !.now = input, !.pending = input,
                                        !.ids = IF SteerId > @ THEN SteerId ELSE @,
                                        !.lost = @ \cup ({steering.pending.run} \ {runId, NoRun})]
    /\ UNCHANGED <<SteeringVars, rows, shown, mishaps>>

\* POST input: one row for an id.
TakeInput(input) ==
    /\ gen[input.run] = "live"
    /\ rows' = IF RowOf(input.id) # {} THEN rows
               ELSE rows \cup {[id |-> input.id, run |-> input.run, text |-> input.text, applied |-> FALSE]}

\* Its answer may be lost; a run that is over refuses.
Posted ==
    /\ steering.at = "posted"
    /\ \/ /\ TakeInput(steering.now)
          /\ \/ steering' = [steering EXCEPT !.at = "accepted"] /\ UNCHANGED mishaps
             \/ steering' = [steering EXCEPT !.at = "uncertain"] /\ Mishap
       \/ /\ gen[steering.now.run] # "live"
          /\ steering' = [steering EXCEPT !.at = "idle"] /\ UNCHANGED <<rows, mishaps>>
    /\ UNCHANGED <<SteeringVars, shown>>

\* No answer in time: it may still arrive.
Late ==
    /\ steering.at = "posted" /\ Mishap
    /\ steering' = [steering EXCEPT !.at = "uncertain", !.late = @ \cup {steering.now}]
    /\ UNCHANGED <<SteeringVars, rows, shown>>

Arrives(input) ==
    /\ TakeInput(input)
    /\ steering' = [steering EXCEPT !.late = @ \ {input}]
    /\ UNCHANGED <<SteeringVars, shown, mishaps>>

\* GET inputs: a row of the id is as good as the answer; else the draft is kept.
Reconcile ==
    /\ steering.at = "uncertain"
    /\ \/ /\ RowOf(steering.now.id) # {}
          /\ steering' = [steering EXCEPT !.at = "accepted"] /\ UNCHANGED mishaps
       \/ /\ steering' = [steering EXCEPT !.at = "idle"]
          /\ IF RowOf(steering.now.id) # {} THEN Mishap ELSE UNCHANGED mishaps
    /\ UNCHANGED <<SteeringVars, rows, shown>>

\* The receipt is recorded, whatever has become of the run.  The next message is
\* another text.
Receipt ==
    /\ steering.at = "accepted"
    /\ \E state \in {"accepted"} \cup {"applied" : x \in {y \in RowOf(steering.now.id) : y.applied}} :
          Record(steering.now.id, state)
    /\ steering' = [steering EXCEPT !.at = "idle", !.now = NoInput, !.pending = NoInput, !.text = @ + 1]
    /\ UNCHANGED <<SteeringVars, rows, mishaps>>

---------------------------------------------------------------------------
(* The page is loaded again: seed *)

Reload ==
    /\ Mishap
    /\ turns' = persisted.turns /\ shown' = persisted.shown
    /\ LET unstopped == {r \in ChatRuns : persisted.turns[r].control \in {"stopping", "cancel_failed"}}
       IN  \/ unstopped = {} /\ control' = "idle" /\ runId' = NoRun
           \/ \E r \in unstopped : control' = "cancel_failed" /\ runId' = r
    /\ runReady' = FALSE /\ resuming' = FALSE /\ startError' = FALSE /\ lastMode' = FALSE /\ cancellation' = "none"
    /\ steering' = [steering EXCEPT !.at = "idle", !.now = NoInput, !.pending = NoInput, !.text = @ + 1]
    /\ reading' = {} /\ pipe' = [r \in ChatRuns |-> <<>>]
    /\ answered' = {r \in answered : persisted.turns[r].answer = "accepted"}
    /\ crossed' = crossed \cup {r \in ChatRuns : awaited[r] # "no" \/ gen[r] = "live"}
    /\ dropped' = dropped \cup {x.id : x \in rows}
    /\ UNCHANGED <<serverVars, persisted>>

BackgroundInit ==
    /\ gen = [r \in ChatRuns |-> "none"] /\ awaited = [r \in ChatRuns |-> "no"] /\ stopAsked = [r \in ChatRuns |-> FALSE]
    /\ rows = {} /\ cancelCalls = [r \in ChatRuns |-> 0]
    /\ pipe = [r \in ChatRuns |-> <<>>] /\ reading = {}
    /\ control = "idle" /\ runId = NoRun /\ runReady = FALSE /\ resuming = FALSE /\ startError = FALSE /\ lastMode = FALSE
    /\ cancellation = "none" /\ turns = [r \in ChatRuns |-> EmptyTurn]
    /\ shown = [id \in Requests |-> "none"] /\ steering = NoSteering
    /\ persisted = [turns |-> turns, shown |-> shown] /\ answered = {} /\ crossed = {} /\ dropped = {} /\ mishaps = 0

BackgroundNext ==
    \/ \E r \in ChatRuns : RunPrepared(r) \/ RunOver(r) \/ Disconnected(r) \/ LateCancel(r) \/ SendMessage(r) \/ Resume(r) \/ See(r) \/ ResumeRefused(r) \/ StreamBreaks(r)
    \/ \E x \in rows : RunReads(x)
    \/ Stop \/ Waited \/ Confirmed \/ Unanswered
    \/ Steer \/ Posted \/ Late \/ Reconcile \/ Receipt
    \/ \E input \in steering.late : Arrives(input)
    \/ Reload

BackgroundSpec == BackgroundInit /\ [][BackgroundNext]_backgroundVars

---------------------------------------------------------------------------
(* Properties *)

BackgroundTypeOK ==
    /\ gen \in [ChatRuns -> {"none", "live", "cut", "done"}] /\ awaited \in [ChatRuns -> {"no", "start", "resume"}]
    /\ control \in {"idle", "running", "stopping", "cancel_failed", "stopped"}
    /\ runId \in ChatRuns \cup {NoRun} /\ (runId = NoRun <=> control \in {"idle", "stopped"})
    /\ cancellation \in {"none", "waits", "posted"} /\ (cancellation # "none" => control = "stopping")
    /\ \A id \in Requests : shown[id] \in {"none", "accepted", "applied"}
    /\ reading \subseteq ChatRuns

\* "Stopped" is shown of a run that is over, or is going to end before it begins,
\* unless a broken stream or a load of the page had given the run up.
StopIsTrue ==
    \A r \in ChatRuns \ crossed : turns[r].control = "stopped" =>
        gen[r] # "live" /\ (awaited[r] = "no" \/ (awaited[r] = "start" /\ stopAsked[r]))

\* A chat has one reader, and a Stop that is not confirmed keeps the run it is about.
OneReader == Cardinality(reading) <= 1 /\ (StopUnconfirmed => reading \subseteq {runId})

\* A message the user sends until it is taken is in the run's queue once, unless the
\* user sent it to another run in between: the chat remembers one pending input.
SteerOnce == \A x, y \in rows : x.run = y.run /\ x.text = y.text /\ x.run \notin steering.lost => x = y

\* When the answer is shown, what its run has read is shown as read.
ReadIsShown == \A x \in rows : x.applied /\ x.run \in answered /\ x.id \notin dropped => shown[x.id] = "applied"

\* An answer that was given is not taken back by a Stop, an error or a broken stream.
AnswerStays == \A r \in answered : turns[r].answer = "accepted"

\* What the transcript says of a chat and its messages agrees with what happened,
\* whatever is stopped, repeated, lost or loaded again.
ChatHolds == OneReader /\ SteerOnce /\ ReadIsShown /\ AnswerStays

=============================================================================
