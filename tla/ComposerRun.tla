------------------------------ MODULE ComposerRun ------------------------------
(***************************************************************************)
(* The durable control record of a chat run, builtin-composer-runtime: the *)
(* stream that projects the agent's requests into Workflow cards           *)
(* (_stream_with_workflow_requests of code_agent_routes.py), the rendezvous*)
(* the agent waits in (run_control.py, tool_execution.py), the threads that*)
(* answer a card (resolve_request of request_lifecycle.py), Stop from the  *)
(* chat and from the Workflow side, the end of the run and a restart.      *)
(*                                                                         *)
(* Every SQL statement is a transaction of its own, so a step is one       *)
(* statement; the agent and its stream are one thread, each answer another.*)
(***************************************************************************)
EXTENDS Integers, FiniteSets

CONSTANTS
    MaxCards,       \* bound: requests the agent may make
    Solvers,        \* threads that answer cards
    MaxAnswers      \* bound: answers begun

ASSUME ComposerAssumption == MaxCards \in Nat /\ MaxAnswers \in Nat

VARIABLES
    record,     \* workflow_runs.status of the run's control record
    card,       \* workflow_requests.status of each card
    slot,       \* _WORKFLOW_RESPONSES: "none", "open", or the action stored
    streamAt,   \* where the stream's thread is
    ask,        \* the agent's request under way (0: none), and its polling order
    cardRow,        \* the card that create_workflow_request_record returned for it
    ending,     \* how the run ends, and the cards read for cancellation
    cancelSet,  \* the cancel event of the live run
    solver,     \* each answering thread: where it is, its card and action
    received,   \* history: the action the agent received for each request
    told,       \* history: the actions whose resolution was answered with success
    answers

composerVars == <<record, card, slot, streamAt, ask, cardRow, ending, cancelSet, solver, received, told, answers>>

Cards == 1..MaxCards    \* in the order in which they are made
Actions == {"accept", "decline", "cancel"}
Terminal == {"resolved", "declined", "cancelled"}
RunEnded == {"completed", "partial", "failed", "cancelled"}
ResultOf(a) == [accept |-> "resolved", decline |-> "declined", cancel |-> "cancelled"][a]
NoAsk == [card |-> 0, responseFirst |-> FALSE]
NoEnding == [how |-> "none", cards |-> {}]
NoTask == [at |-> "idle", card |-> 0, action |-> "none"]
StreamTo(at) == streamAt' = at
Actionable == {c \in Cards : card[c] = "pending"}

\* update_workflow_run: a cancelled run is not updated.
SetRecord(s) == record' = IF record = "cancelled" THEN record ELSE s

---------------------------------------------------------------------------
(* The agent and its stream *)

\* start_code_agent_workflow_run, on the first event.
StartRecord ==
    /\ streamAt = "off" /\ record = "none"
    /\ record' = "running"
    /\ StreamTo("work")
    /\ UNCHANGED <<card, slot, ask, cardRow, ending, cancelSet, solver, received, told, answers>>

\* run_ask_user, run_workflow_request, run_runtime_workflow, an approval of
\* run_tool: the rendezvous is opened before the event is yielded.
Ask ==
    /\ streamAt = "work" /\ ~cancelSet
    /\ \E c \in Cards, first \in BOOLEAN :
          /\ slot[c] = "none" /\ card[c] = "none" /\ \A d \in Cards : d < c => card[d] # "none"
          /\ slot' = [slot EXCEPT ![c] = "open"]
          /\ ask' = [card |-> c, responseFirst |-> first]
    /\ StreamTo("card")
    /\ UNCHANGED <<record, card, cardRow, ending, cancelSet, solver, received, told, answers>>

\* create_workflow_request_record: a pending card of the step is returned as it
\* is, one that is being resolved counts as accepted.
CreateCard ==
    /\ streamAt = "card"
    /\ LET old == {c \in Cards : card[c] \in {"pending", "resolving"}}
           latest == CHOOSE c \in old : \A d \in old : d <= c
       IN IF old # {} /\ card[latest] = "pending"
          THEN cardRow' = latest /\ UNCHANGED card
          ELSE /\ cardRow' = ask.card
               /\ card' = [c \in Cards |-> IF c = ask.card THEN "pending"
                                           ELSE IF old # {} /\ c = latest THEN "resolved" ELSE card[c]]
    /\ StreamTo("mark")
    /\ UNCHANGED <<record, slot, ask, ending, cancelSet, solver, received, told, answers>>

\* pause_workflow_for_request: the run is set to wait; a run that is cancelled
\* takes its card with it.
MarkWaiting ==
    /\ streamAt = "mark"
    /\ SetRecord("waiting")
    /\ StreamTo(IF record = "cancelled" THEN "void" ELSE "wait")
    /\ UNCHANGED <<card, slot, ask, cardRow, ending, cancelSet, solver, received, told, answers>>

VoidCard ==
    /\ streamAt = "void"
    /\ card' = [card EXCEPT ![cardRow] = "cancelled"]
    /\ StreamTo("wait")
    /\ UNCHANGED <<record, slot, ask, cardRow, ending, cancelSet, solver, received, told, answers>>

\* wait_workflow_response sees a response, or a Stop; only ask_user looks for the
\* response first.
PollAnswer ==
    /\ streamAt = "wait"
    /\ \/ /\ ask.responseFirst \/ ~cancelSet
          /\ slot[ask.card] \in Actions
          /\ received' = [received EXCEPT ![ask.card] = slot[ask.card]]
       \/ /\ cancelSet
          /\ ~ask.responseFirst \/ slot[ask.card] = "open"
          /\ UNCHANGED received
    /\ StreamTo("pop")
    /\ UNCHANGED <<record, card, slot, ask, cardRow, ending, cancelSet, solver, told, answers>>

\* The slot is popped; ask_user takes what has arrived meanwhile.
Pop ==
    /\ streamAt = "pop"
    /\ slot' = [slot EXCEPT ![ask.card] = "none"]
    /\ received' = IF ask.responseFirst /\ slot[ask.card] \in Actions
                   THEN [received EXCEPT ![ask.card] = slot[ask.card]] ELSE received
    /\ ask' = NoAsk /\ cardRow' = 0
    /\ StreamTo("work")
    /\ UNCHANGED <<record, card, ending, cancelSet, solver, told, answers>>

\* The done event, or the client's disappearance: _cancel_live_run, then the same.
End ==
    /\ streamAt = "work"
    /\ \/ \E how \in RunEnded :
             /\ how = "cancelled" \/ ~cancelSet
             /\ ending' = [NoEnding EXCEPT !.how = how]
          /\ UNCHANGED cancelSet
       \/ ending' = [NoEnding EXCEPT !.how = "cancelled"] /\ cancelSet' = TRUE
    /\ StreamTo("finish")
    /\ UNCHANGED <<record, card, slot, ask, cardRow, solver, received, told, answers>>

\* finish_code_agent_workflow_run: the cards that wait are read, ...
ReadFinish ==
    /\ streamAt = "finish"
    /\ ending' = [ending EXCEPT !.cards = Actionable]
    /\ StreamTo(IF record \in RunEnded THEN "over" ELSE "cancelCards")
    /\ UNCHANGED <<record, card, slot, ask, cardRow, cancelSet, solver, received, told, answers>>

\* ... cancelled one by one, ...
CancelCards ==
    /\ streamAt = "cancelCards"
    /\ \E c \in ending.cards :
          /\ card' = [card EXCEPT ![c] = "cancelled"]
          /\ ending' = [ending EXCEPT !.cards = @ \ {c}]
    /\ UNCHANGED <<record, slot, streamAt, ask, cardRow, cancelSet, solver, received, told, answers>>

\* ... and the record is closed.
CloseRecord ==
    /\ streamAt = "cancelCards" /\ ending.cards = {}
    /\ SetRecord(ending.how)
    /\ StreamTo("over")
    /\ UNCHANGED <<card, slot, ask, cardRow, ending, cancelSet, solver, received, told, answers>>

---------------------------------------------------------------------------
(* resolve_request *)

SolverTo(u, at) == solver' = [solver EXCEPT ![u].at = at]

\* The card and its run are read; a card that is final or claimed ends it here.
ReadCard(u) ==
    /\ solver[u].at = "idle" /\ answers < MaxAnswers
    /\ \E c \in Cards, a \in Actions :
          /\ card[c] = "pending"
          /\ solver' = [solver EXCEPT ![u] = [at |-> "claim", card |-> c, action |-> a]]
    /\ answers' = answers + 1
    /\ UNCHANGED <<record, card, slot, streamAt, ask, cardRow, ending, cancelSet, received, told>>

\* Mutant of ClaimCard: the status is not part of the UPDATE.
ClaimCardAlways(u) ==
    /\ solver[u].at = "claim"
    /\ card' = [card EXCEPT ![solver[u].card] = "resolving"] /\ SolverTo(u, "act")
    /\ UNCHANGED <<record, slot, streamAt, ask, cardRow, ending, cancelSet, received, told, answers>>

\* claim_workflow_request.
ClaimCard(u) ==
    /\ solver[u].at = "claim"
    /\ IF card[solver[u].card] = "pending"
       THEN card' = [card EXCEPT ![solver[u].card] = "resolving"] /\ SolverTo(u, "act")
       ELSE solver' = [solver EXCEPT ![u] = NoTask] /\ UNCHANGED card
    /\ UNCHANGED <<record, slot, streamAt, ask, cardRow, ending, cancelSet, received, told, answers>>

\* request_cancel for a cancel, which sets the flag and may then fail to stop what
\* the run owns; submit_workflow_response otherwise.
Act(u) ==
    /\ solver[u].at = "act"
    /\ LET c == solver[u].card  a == solver[u].action
       IN \/ a = "cancel" /\ cancelSet' = TRUE /\ (SolverTo(u, "finalize") \/ SolverTo(u, "release")) /\ UNCHANGED slot
          \/ /\ a # "cancel" /\ slot[c] # "none"
             /\ slot' = [slot EXCEPT ![c] = a] /\ SolverTo(u, "finalize") /\ UNCHANGED cancelSet
          \/ a # "cancel" /\ slot[c] = "none" /\ SolverTo(u, "release") /\ UNCHANGED <<slot, cancelSet>>
    /\ UNCHANGED <<record, card, streamAt, ask, cardRow, ending, received, told, answers>>

\* finalize_workflow_request, unconditionally.
FinalizeCard(u) ==
    /\ solver[u].at = "finalize"
    /\ card' = [card EXCEPT ![solver[u].card] = ResultOf(solver[u].action)]
    /\ SolverTo(u, "update")
    /\ UNCHANGED <<record, slot, streamAt, ask, cardRow, ending, cancelSet, received, told, answers>>

UpdateRecord(u) ==
    /\ solver[u].at = "update"
    /\ SetRecord(IF solver[u].action = "cancel" THEN "cancelled" ELSE "running")
    /\ told' = [told EXCEPT ![solver[u].card] = solver[u].action]
    /\ solver' = [solver EXCEPT ![u] = NoTask]
    /\ UNCHANGED <<card, slot, streamAt, ask, cardRow, ending, cancelSet, received, answers>>

\* The request is no longer live: the claim is given back, the run set to wait again.
ReleaseClaim(u) ==
    /\ solver[u].at = "release"
    /\ card' = IF card[solver[u].card] = "resolving" THEN [card EXCEPT ![solver[u].card] = "pending"] ELSE card
    /\ SolverTo(u, "revert")
    /\ UNCHANGED <<record, slot, streamAt, ask, cardRow, ending, cancelSet, received, told, answers>>

RevertRecord(u) ==
    /\ solver[u].at = "revert"
    /\ record' = IF record = "running" THEN "waiting" ELSE record
    /\ solver' = [solver EXCEPT ![u] = NoTask]
    /\ UNCHANGED <<card, slot, streamAt, ask, cardRow, ending, cancelSet, received, told, answers>>

---------------------------------------------------------------------------
(* Stop and restart *)

\* POST /cancel of the chat.
StopChat ==
    /\ streamAt \notin {"off", "finish", "cancelCards", "over"} /\ ~cancelSet
    /\ cancelSet' = TRUE
    /\ UNCHANGED <<record, card, slot, streamAt, ask, cardRow, ending, solver, received, told, answers>>

\* cancel_workflow_run: the record is sealed; the run ids it asks run_control to
\* cancel are those of workflow steps, not the chat run's.
StopRecord ==
    /\ record \in {"running", "waiting"}
    /\ record' = "cancelled"
    /\ UNCHANGED <<card, slot, streamAt, ask, cardRow, ending, cancelSet, solver, received, told, answers>>

\* The backend restarts: recover_incomplete_requests before anything else.
Restart ==
    /\ streamAt # "off"
    /\ LET open == {c \in Cards : card[c] \in {"pending", "resolving"}}
       IN /\ card' = [c \in Cards |-> IF c \in open THEN "cancelled" ELSE card[c]]
          /\ record' = IF open # {} THEN "cancelled" ELSE record
    /\ slot' = [c \in Cards |-> "none"]
    /\ streamAt' = "over" /\ ask' = NoAsk /\ cardRow' = 0 /\ ending' = NoEnding
    /\ cancelSet' = FALSE
    /\ solver' = [u \in Solvers |-> NoTask]
    /\ UNCHANGED <<received, told, answers>>

---------------------------------------------------------------------------
ComposerInit ==
    /\ record = "none"
    /\ card = [c \in Cards |-> "none"]
    /\ slot = [c \in Cards |-> "none"]
    /\ streamAt = "off" /\ ask = NoAsk /\ cardRow = 0 /\ ending = NoEnding
    /\ cancelSet = FALSE
    /\ solver = [u \in Solvers |-> NoTask]
    /\ received = [c \in Cards |-> "none"] /\ told = [c \in Cards |-> "none"]
    /\ answers = 0

StreamThread ==
    \/ StartRecord \/ Ask \/ CreateCard \/ MarkWaiting \/ VoidCard \/ PollAnswer \/ Pop
    \/ End \/ ReadFinish \/ CancelCards \/ CloseRecord

SolverThread(u) ==
    \/ ReadCard(u) \/ ClaimCard(u) \/ Act(u) \/ FinalizeCard(u) \/ UpdateRecord(u)
    \/ ReleaseClaim(u) \/ RevertRecord(u)

ComposerNext ==
    \/ StreamThread
    \/ \E u \in Solvers : SolverThread(u)
    \/ StopChat \/ StopRecord \/ Restart

ComposerSpec == ComposerInit /\ [][ComposerNext]_composerVars

---------------------------------------------------------------------------
(* Properties *)

\* The record, the cards and the threads have their types.
ComposerTypeOK ==
    /\ record \in {"none", "running", "waiting"} \cup RunEnded
    /\ card \in [Cards -> {"none", "pending", "resolving"} \cup Terminal]
    /\ slot \in [Cards -> {"none", "open"} \cup Actions]
    /\ streamAt \in {"off", "work", "card", "mark", "void", "wait", "pop", "finish", "cancelCards", "over"}
    /\ ask \in [card : Cards \cup {0}, responseFirst : BOOLEAN]
    /\ cardRow \in Cards \cup {0}
    /\ ending \in [how : {"none"} \cup RunEnded, cards : SUBSET Cards]
    /\ cancelSet \in BOOLEAN
    /\ solver \in [Solvers -> [at : {"idle", "claim", "act", "finalize", "update", "release", "revert"},
                               card : Cards \cup {0}, action : {"none"} \cup Actions]]
    /\ received \in [Cards -> {"none"} \cup Actions]
    /\ told \in [Cards -> {"none"} \cup Actions]
    /\ answers \in 0..MaxAnswers

\* An answer that was acknowledged reaches the agent as it was given, unless a
\* Stop or a restart overtakes it: it is received, or in the slot it is polled from.
AnswersArrive ==
    \A c \in Cards :
        told[c] \in {"accept", "decline"} /\ ~cancelSet /\ streamAt \notin {"finish", "over"}
            => received[c] = told[c] \/ (ask.card = c /\ slot[c] = told[c])

\* While the agent waits and nothing has stopped it, somebody can answer it: its
\* card is pending, or a thread is about to answer it or to give it back.
WaitingIsAnswerable ==
    streamAt = "wait" /\ ~cancelSet /\ record # "cancelled"
        => \/ slot[ask.card] \in Actions
           \/ cardRow = ask.card /\ card[cardRow] = "pending"
           \/ \E u \in Solvers : solver[u].card = ask.card /\ solver[u].at \in {"act", "release", "finalize"}

\* An answer given to a card reaches the agent that asked, and a run that waits has
\* a card that can be answered.
CardsWork == AnswersArrive /\ WaitingIsAnswerable

=============================================================================
