--------------------------- MODULE WorkflowEngine ---------------------------
(***************************************************************************)
(* One run of a workflow template in Elira's workflow engine               *)
(* (backend/app/application/workflows): the rows of workflow_engine.db     *)
(* that belong to the run, the threads of the backend that serve the HTTP  *)
(* calls about it, the executor those threads run, and what startup does   *)
(* after a crash.                                                          *)
(*                                                                         *)
(* Every SQL statement of the engine filters on one run_id, so one run is  *)
(* modelled.  An SQLite transaction is atomic; between two transactions    *)
(* any other thread may run.  update_workflow_run commits its UPDATE and   *)
(* only then, in a second transaction, reads the row it returns: wherever  *)
(* a caller tests the returned status that read is a step of its own.      *)
(*                                                                         *)
(* The four waiting statuses (one per request kind) are one, "waiting".    *)
(* Events, metrics and step payloads are left out.                         *)
(***************************************************************************)
EXTENDS Naturals, FiniteSets

CONSTANTS
    Steps,          \* ids of the template's steps
    Entry,          \* graph.entry_step
    NoStep,         \* the empty current_step_id
    RequestSteps,   \* steps of type "request"; the others call a tool or an agent
    GatedSteps,     \* tool/agent steps whose call needs an approval in this mode
    PauseAfter,     \* steps with pause_after
    OnSuccess,      \* [Steps -> step id or NoStep]: _resolve_next_step, success
    OnFailure,      \* [Steps -> step id or NoStep]: _resolve_next_step, failure
    Threads,        \* backend threads serving calls about this run
    RequestIds,     \* rows of workflow_requests, a set of positive numbers
    MaxCrashes      \* bound: how often the backend may be killed

ASSUME GraphAssumption ==
    /\ Entry \in Steps
    /\ NoStep \notin Steps
    /\ RequestSteps \subseteq Steps
    /\ GatedSteps \subseteq Steps \ RequestSteps
    /\ PauseAfter \subseteq Steps
    /\ DOMAIN OnSuccess = Steps
    /\ DOMAIN OnFailure = Steps

ASSUME BoundsAssumption ==
    /\ RequestIds \subseteq Nat \ {0}
    /\ MaxCrashes \in Nat

\* normalize_graph does not check the targets of "next" and "on_error", so a
\* transition may name a step that does not exist.
StepIds == Steps \cup {NoStep} \cup {OnSuccess[s] : s \in Steps}
                 \cup {OnFailure[s] : s \in Steps}

TerminalRun == {"completed", "failed", "cancelled"}
RunStatus == {"none", "running", "paused", "waiting", "needs_reconciliation"}
                 \cup TerminalRun
ClosedRequest == {"resolved", "cancelled"}
Actionable == {"pending", "needs_reconciliation"}
OpenRequest == Actionable \cup {"resolving"}
RequestStatus == {"none"} \cup ClosedRequest \cup OpenRequest

VARIABLES
    run,        \* the row of workflow_runs: status, current step, resolutions
    requests,   \* the rows of workflow_requests: step and status
    template,   \* whether the template row still exists
    pc,         \* where each thread is
    loc,        \* the local variables of each thread
    server,     \* "up", or "recovering" while startup recovery runs
    todo,       \* rows startup recovery still has to handle
    fix,        \* run update recovery still owes for the row it handled last
    crashes,    \* number of crashes so far
    stranded,   \* history: a crash cut a decline off between closing the card and
                \* stopping the run
    spent,      \* history: gated steps whose latest approval has been used
    doubt       \* history: steps a crash cut off between call and record

dbVars == <<run, requests>>
bootVars == <<server, todo, fix, crashes, stranded>>
vars == <<run, requests, template, pc, loc, bootVars, spent, doubt>>

---------------------------------------------------------------------------
(* Threads *)

Labels == {"idle", "resume_write", "resume_check", "claim", "accept_write",
           "accept_check", "accept_final", "decline_final", "abort_release",
           "abort_read", "abort_write", "cancel_read", "cancel_write", "load",
           "check", "exec", "recheck", "pop", "settle", "ask_look",
           "ask_insert", "ask_write", "ask_check"}

\* Labels of execute_workflow_run after it has read the run.
Executing == {"check", "exec", "recheck", "pop", "settle", "ask_look",
              "ask_insert", "ask_write", "ask_check"}

\* Labels at which a resolve_request call that accepts holds its claim.
Claiming == {"accept_write", "accept_check", "accept_final", "abort_release",
             "load"} \cup Executing

Ops == {"none", "start", "resume", "accept", "decline", "cancel"}

\* op: the call the thread serves; at, ctx: the executor's current_step_id and
\* context; ans: the step's result; acted: whether its tool or agent was really
\* called; late: whether it was called after Stop was committed; claim: the row
\* a resolver works on (0: none); row: the row a pause works on (0: none).
Locals == [op : Ops, at : StepIds, ctx : SUBSET Steps,
           ans : {"none", "ok", "fail", "ask"}, acted : BOOLEAN,
           late : BOOLEAN, claim : RequestIds \cup {0}, row : RequestIds \cup {0}]

Fresh == [op |-> "none", at |-> NoStep, ctx |-> {}, ans |-> "none",
          acted |-> FALSE, late |-> FALSE, claim |-> 0, row |-> 0]

Goto(t, label) == pc' = [pc EXCEPT ![t] = label]

Finish(t) ==
    /\ Goto(t, "idle")
    /\ loc' = [loc EXCEPT ![t] = Fresh]

\* execute_workflow_run returns: resolve_request goes on to finalize its row,
\* every other caller answers its client.
Return(t) ==
    IF loc[t].op = "accept"
    THEN /\ Goto(t, "accept_final")
         /\ loc' = [loc EXCEPT ![t] = [Fresh EXCEPT !.op = "accept",
                                                    !.claim = loc[t].claim]]
    ELSE Finish(t)

\* Mutant of Raise: resolve_request lets the exception through.
RaiseUncaught(t) == Finish(t)

\* execute_workflow_run raises: the except branch of resolve_request gives the
\* claim back, every other caller only reports the error.  (Nothing calls
\* start_workflow_run_background, which would write "failed".)
Raise(t) ==
    IF loc[t].op = "accept"
    THEN /\ Goto(t, "abort_release")
         /\ loc' = [loc EXCEPT ![t] = [Fresh EXCEPT !.op = "accept",
                                                    !.claim = loc[t].claim]]
    ELSE Finish(t)

\* A thread moves only while the backend is up.
At(t, label) == server = "up" /\ pc[t] = label

---------------------------------------------------------------------------
(* The store *)

\* Mutant of UpdateRun: the WHERE clause tests the run_id alone.
UpdateRunBlind(new) == run' = new

\* update_workflow_run: UPDATE ... WHERE run_id = ? AND status != 'cancelled'.
UpdateRun(new) == run' = IF run.status = "cancelled" THEN run ELSE new

SetStatus(r, status) == requests' = [requests EXCEPT ![r].status = status]

\* The unique index over run and step of open requests.
OpenFor(s) == {r \in RequestIds : requests[r].step = s /\ requests[r].status \in OpenRequest}

\* Rows an INSERT may take: never used, or closed and held by no thread.  A
\* closed row nobody holds is never read again, so its id can stand for a new
\* one; this keeps the state space finite without bounding the requests.
FreeIds == {r \in RequestIds : /\ requests[r].status \in {"none"} \cup ClosedRequest
                               /\ \A t \in Threads : loc[t].claim # r /\ loc[t].row # r}

\* Mutant of DurableCancelled: the executor never looks at the durable status.
StopIgnored == FALSE

\* The executor's durable Stop check: the row's status, read again.
DurableCancelled == run.status = "cancelled"

---------------------------------------------------------------------------
(* The executor: execute_workflow_run *)

\* Reads run and template; a deleted template is an error.
Load(t) ==
    /\ At(t, "load")
    /\ IF template
       THEN /\ Goto(t, "check")
            /\ loc' = [loc EXCEPT ![t].at = run.step, ![t].ctx = run.ctx]
       ELSE Raise(t)
    /\ UNCHANGED <<dbVars, template, bootVars, spent, doubt>>

\* Top of the loop, and the code after it when there is no current step.  (No
\* caller passes a cancel_check.)
Check(t) ==
    /\ At(t, "check")
    /\ \/ /\ DurableCancelled
          /\ Return(t)
          /\ UNCHANGED run
       \/ /\ ~DurableCancelled /\ loc[t].at = NoStep
          /\ UpdateRun([run EXCEPT !.status = "completed", !.step = NoStep])
          /\ Return(t)
       \/ /\ ~DurableCancelled /\ loc[t].at \notin Steps \cup {NoStep}
          /\ UpdateRun([run EXCEPT !.status = "failed", !.step = loc[t].at])
          /\ Return(t)
       \/ /\ ~DurableCancelled /\ loc[t].at \in Steps
          /\ Goto(t, "exec")
          /\ UNCHANGED <<run, loc>>
    /\ UNCHANGED <<requests, template, bootVars, spent, doubt>>

\* What _execute_step may do for step s with resolutions ctx: a request step
\* asks until it is answered; a gated call asks until it is approved; any other
\* call may be made and succeed, fail or ask, or fail or ask before it is made.
Outcomes(s, ctx) ==
    IF s \in RequestSteps
    THEN {[acted |-> FALSE, ans |-> IF s \in ctx THEN "ok" ELSE "ask"]}
    ELSE {[acted |-> FALSE, ans |-> a] : a \in {"fail", "ask"}}
         \cup IF s \in GatedSteps /\ s \notin ctx THEN {}
              ELSE {[acted |-> TRUE, ans |-> a] : a \in {"ok", "fail", "ask"}}

Dispatch(t) ==
    /\ At(t, "exec")
    /\ \E out \in Outcomes(loc[t].at, loc[t].ctx) :
          /\ loc' = [loc EXCEPT ![t] = [loc[t] EXCEPT !.acted = out.acted, !.ans = out.ans,
                                    !.late = loc[t].late \/ run.status = "cancelled"]]
          /\ spent' = IF out.acted THEN spent \cup ({loc[t].at} \cap GatedSteps) ELSE spent
    /\ Goto(t, "recheck")
    /\ UNCHANGED <<dbVars, template, bootVars, doubt>>

\* Stop is tested again before anything about the step is recorded.
Recheck(t) ==
    /\ At(t, "recheck")
    /\ \/ /\ DurableCancelled
          /\ Return(t)
       \/ /\ ~DurableCancelled
          /\ Goto(t, CASE loc[t].ans = "ask" -> "ask_look"
                       [] loc[t].ans = "ok" /\ loc[t].at \in loc[t].ctx -> "pop"
                       [] OTHER -> "settle")
          /\ UNCHANGED loc
    /\ UNCHANGED <<dbVars, template, bootVars, spent, doubt>>

\* A step that succeeded consumes its resolution; the whole local context is
\* written back.
Pop(t) ==
    /\ At(t, "pop")
    /\ LET rest == loc[t].ctx \ {loc[t].at} IN
          /\ UpdateRun([run EXCEPT !.ctx = rest])
          /\ loc' = [loc EXCEPT ![t].ctx = rest]
    /\ Goto(t, "settle")
    /\ UNCHANGED <<requests, template, bootVars, spent, doubt>>

NextStep(t) == IF loc[t].ans = "ok" THEN OnSuccess[loc[t].at] ELSE OnFailure[loc[t].at]

\* pause_after_step, fail_step_and_finish, complete_after_step and
\* advance_to_next_step.  The status the last one returns is tested by the
\* caller and at once again by Check: one read stands for both.
Settle(t) ==
    /\ At(t, "settle")
    /\ \/ /\ loc[t].ans = "ok" /\ loc[t].at \in PauseAfter /\ NextStep(t) # NoStep
          /\ UpdateRun([run EXCEPT !.status = "paused", !.step = NextStep(t)])
          /\ Return(t)
       \/ /\ loc[t].ans = "fail" /\ NextStep(t) = NoStep
          /\ UpdateRun([run EXCEPT !.status = "failed", !.step = loc[t].at])
          /\ Return(t)
       \/ /\ loc[t].ans = "ok" /\ NextStep(t) = NoStep
          /\ UpdateRun([run EXCEPT !.status = "completed", !.step = NoStep])
          /\ Return(t)
       \/ /\ NextStep(t) # NoStep
          /\ ~(loc[t].ans = "ok" /\ loc[t].at \in PauseAfter)
          /\ UpdateRun([run EXCEPT !.status = "running", !.step = NextStep(t)])
          /\ Goto(t, "check")
          /\ loc' = [loc EXCEPT ![t].at = NextStep(t), ![t].ans = "none",
                                ![t].acted = FALSE]
    /\ UNCHANGED <<requests, template, bootVars, spent, doubt>>

\* pause_workflow_for_request, create_workflow_request_record: the SELECT runs
\* outside the transaction the UPDATE and INSERT open.
AskLook(t) ==
    /\ At(t, "ask_look")
    /\ LET found == {r \in OpenFor(loc[t].at) : requests[r].status # "needs_reconciliation"} IN
          \/ /\ found = {}
             /\ Goto(t, "ask_insert")
             /\ UNCHANGED loc
          \/ \E r \in found :
             /\ Goto(t, IF requests[r].status = "pending" THEN "ask_write" ELSE "ask_insert")
             /\ loc' = [loc EXCEPT ![t].row = r]
    /\ UNCHANGED <<dbVars, template, bootVars, spent, doubt>>

\* Mutant of Conflicts: the table lost its unique index.
ConflictsUnindexed(t) == {}

\* Open rows the INSERT would collide with: all but the one just resolved.
Conflicts(t) == {r \in OpenFor(loc[t].at) :
                    ~(r = loc[t].row /\ requests[r].status = "resolving")}

\* The row found resolving is marked resolved; an open row that is left makes
\* the INSERT violate the unique index, which rolls the transaction back.
AskInsert(t) ==
    /\ At(t, "ask_insert")
    /\ \/ /\ Conflicts(t) # {}
          /\ Raise(t)
          /\ UNCHANGED requests
       \/ /\ Conflicts(t) = {}
          /\ \E new \in FreeIds :
                /\ \A r \in FreeIds : new <= r
                /\ requests' = [r \in RequestIds |->
                      CASE r = new -> [step |-> loc[t].at, status |-> "pending"]
                        [] r = loc[t].row /\ requests[r].status = "resolving" ->
                              [requests[r] EXCEPT !.status = "resolved"]
                        [] OTHER -> requests[r]]
                /\ loc' = [loc EXCEPT ![t].row = new]
          /\ Goto(t, "ask_write")
    /\ UNCHANGED <<run, template, bootVars, spent, doubt>>

AskWrite(t) ==
    /\ At(t, "ask_write")
    /\ UpdateRun([run EXCEPT !.status = "waiting", !.step = loc[t].at])
    /\ Goto(t, "ask_check")
    /\ UNCHANGED <<requests, template, loc, bootVars, spent, doubt>>

\* The run is no longer waiting: the new row is finalized as cancelled.
AskCheck(t) ==
    /\ At(t, "ask_check")
    /\ IF run.status = "waiting" THEN UNCHANGED requests
                                 ELSE SetStatus(loc[t].row, "cancelled")
    /\ Return(t)
    /\ UNCHANGED <<run, template, bootVars, spent, doubt>>

Execute(t) ==
    \/ Load(t) \/ Check(t) \/ Dispatch(t) \/ Recheck(t) \/ Pop(t) \/ Settle(t)
    \/ AskLook(t) \/ AskInsert(t) \/ AskWrite(t) \/ AskCheck(t)

---------------------------------------------------------------------------
(* The calls a client may make *)

\* create_workflow_run_record and the executor that follows it.
Start(t) ==
    /\ At(t, "idle") /\ run.status = "none" /\ template
    /\ run' = [status |-> "running", step |-> Entry, ctx |-> {}]
    /\ loc' = [loc EXCEPT ![t].op = "start"]
    /\ Goto(t, "load")
    /\ UNCHANGED <<requests, template, bootVars, spent, doubt>>

\* resume_workflow_run tests the status it has read ...
ResumeRead(t) ==
    /\ At(t, "idle") /\ run.status = "paused"
    /\ loc' = [loc EXCEPT ![t].op = "resume", ![t].ctx = run.ctx]
    /\ Goto(t, "resume_write")
    /\ UNCHANGED <<dbVars, template, bootVars, spent, doubt>>

\* ... writes "running" with the context it has read, whatever the row has
\* become (unless cancelled), ...
ResumeWrite(t) ==
    /\ At(t, "resume_write")
    /\ UpdateRun([run EXCEPT !.status = "running", !.ctx = loc[t].ctx])
    /\ Goto(t, "resume_check")
    /\ UNCHANGED <<requests, template, loc, bootVars, spent, doubt>>

\* ... and executes if the row then reads "running".
ResumeCheck(t) ==
    /\ At(t, "resume_check")
    /\ IF run.status = "running" THEN Goto(t, "load") /\ UNCHANGED loc
                                 ELSE Finish(t)
    /\ UNCHANGED <<dbVars, template, bootVars, spent, doubt>>

\* resolve_request up to the claim: the context is read here and written back
\* by AcceptWrite.  A request that is not actionable is answered at once.
ResolveRead(t) ==
    /\ At(t, "idle")
    /\ \E r \in RequestIds, action \in {"accept", "decline"} :
          /\ requests[r].status \in Actionable
          /\ loc' = [loc EXCEPT ![t].op = action, ![t].claim = r, ![t].ctx = run.ctx]
    /\ Goto(t, "claim")
    /\ UNCHANGED <<dbVars, template, bootVars, spent, doubt>>

\* claim_workflow_request: compare and set; the loser is told so.  Claiming a
\* row that needs reconciliation is the user's answer to its warning.
Claim(t) ==
    /\ At(t, "claim")
    /\ LET row == requests[loc[t].claim] IN
       IF row.status \in Actionable
       THEN /\ SetStatus(loc[t].claim, "resolving")
            /\ Goto(t, IF loc[t].op = "accept" THEN "accept_write" ELSE "decline_final")
            /\ doubt' = IF row.status = "needs_reconciliation" THEN {} ELSE doubt
            /\ UNCHANGED loc
       ELSE /\ Finish(t)
            /\ UNCHANGED <<requests, doubt>>
    /\ UNCHANGED <<run, template, bootVars, spent>>

AcceptWrite(t) ==
    /\ At(t, "accept_write")
    /\ LET s == requests[loc[t].claim].step IN
          /\ UpdateRun([status |-> "running", step |-> s, ctx |-> loc[t].ctx \cup {s}])
          /\ spent' = spent \ {s}
    /\ Goto(t, "accept_check")
    /\ UNCHANGED <<requests, template, loc, bootVars, doubt>>

AcceptCheck(t) ==
    /\ At(t, "accept_check")
    /\ IF run.status = "running"
       THEN /\ Goto(t, "load")
            /\ UNCHANGED <<requests, loc>>
       ELSE /\ SetStatus(loc[t].claim, "cancelled")
            /\ Finish(t)
    /\ UNCHANGED <<run, template, bootVars, spent, doubt>>

\* Mutant of AcceptFinal: the resolver forgets to finalize its row.
AcceptFinalForgets(t) ==
    /\ At(t, "accept_final")
    /\ Finish(t)
    /\ UNCHANGED <<dbVars, template, bootVars, spent, doubt>>

\* The executor has returned; the row is finalized whatever its status.
AcceptFinal(t) ==
    /\ At(t, "accept_final")
    /\ SetStatus(loc[t].claim, "resolved")
    /\ Finish(t)
    /\ UNCHANGED <<run, template, bootVars, spent, doubt>>

\* Decline and cancel finalize the row and then stop the run.
DeclineFinal(t) ==
    /\ At(t, "decline_final")
    /\ SetStatus(loc[t].claim, "cancelled")
    /\ Goto(t, "cancel_read")
    /\ UNCHANGED <<run, template, loc, bootVars, spent, doubt>>

\* The except branch of resolve_request: release the claim, read the run, and
\* put a run that still reads "running" back to waiting.
AbortRelease(t) ==
    /\ At(t, "abort_release")
    /\ IF requests[loc[t].claim].status = "resolving"
       THEN SetStatus(loc[t].claim, "pending") ELSE UNCHANGED requests
    /\ Goto(t, "abort_read")
    /\ UNCHANGED <<run, template, loc, bootVars, spent, doubt>>

AbortRead(t) ==
    /\ At(t, "abort_read")
    /\ IF run.status = "running" THEN Goto(t, "abort_write") /\ UNCHANGED loc
                                 ELSE Finish(t)
    /\ UNCHANGED <<dbVars, template, bootVars, spent, doubt>>

AbortWrite(t) ==
    /\ At(t, "abort_write")
    /\ UpdateRun([run EXCEPT !.status = "waiting", !.step = requests[loc[t].claim].step])
    /\ Finish(t)
    /\ UNCHANGED <<requests, template, bootVars, spent, doubt>>

\* cancel_workflow_run (Stop): the terminal test is made on the row read first.
CancelCall(t) ==
    /\ At(t, "idle") /\ run.status # "none"
    /\ loc' = [loc EXCEPT ![t].op = "cancel"]
    /\ Goto(t, "cancel_read")
    /\ UNCHANGED <<dbVars, template, bootVars, spent, doubt>>

CancelRead(t) ==
    /\ At(t, "cancel_read")
    /\ IF run.status \in TerminalRun THEN Finish(t)
                                     ELSE Goto(t, "cancel_write") /\ UNCHANGED loc
    /\ UNCHANGED <<dbVars, template, bootVars, spent, doubt>>

CancelWrite(t) ==
    /\ At(t, "cancel_write")
    /\ UpdateRun([run EXCEPT !.status = "cancelled"])
    /\ Finish(t)
    /\ UNCHANGED <<requests, template, bootVars, spent, doubt>>

\* DELETE /workflows/{id} does not look at the template's runs.
DeleteTemplate ==
    /\ server = "up" /\ template
    /\ template' = FALSE
    /\ UNCHANGED <<dbVars, pc, loc, bootVars, spent, doubt>>

Call(t) == Start(t) \/ ResumeRead(t) \/ ResolveRead(t) \/ CancelCall(t)

Continue(t) ==
    \/ Execute(t) \/ ResumeWrite(t) \/ ResumeCheck(t)
    \/ Claim(t) \/ AcceptWrite(t) \/ AcceptCheck(t) \/ AcceptFinal(t) \/ DeclineFinal(t)
    \/ AbortRelease(t) \/ AbortRead(t) \/ AbortWrite(t) \/ CancelRead(t) \/ CancelWrite(t)

---------------------------------------------------------------------------
(* Crash and startup recovery *)

NoFix == [status |-> "none", step |-> NoStep]

\* A decline that has closed the card and still has to stop the run.
Declining(t) == loc[t].op = "decline" /\ pc[t] \in {"cancel_read", "cancel_write"}

\* Calls whose result is in no table yet.
CutOff == {loc[t].at : t \in {u \in Threads :
              loc[u].acted /\ pc[u] \in {"recheck", "pop", "settle", "ask_look", "ask_insert"}}}

\* Mutant of ClaimsLeft: recovery lists the rows still waiting for an answer.
ClaimsUnlisted == {r \in RequestIds : requests[r].status \in Actionable}

\* list_workflow_requests(status="resolving")
ClaimsLeft == {r \in RequestIds : requests[r].status = "resolving"}

\* The process dies; the next one lists the claims it left behind.
Crash ==
    /\ crashes < MaxCrashes
    /\ crashes' = crashes + 1
    /\ server' = "recovering"
    /\ todo' = ClaimsLeft
    /\ fix' = NoFix
    /\ pc' = [t \in Threads |-> "idle"]
    /\ loc' = [t \in Threads |-> Fresh]
    /\ doubt' = doubt \cup CutOff
    /\ stranded' = (stranded \/ \E t \in Threads : Declining(t))
    /\ UNCHANGED <<dbVars, template, spent>>

SafeToReplay(r) ==
    \/ run.status = "waiting"
    \/ template /\ requests[r].step \in RequestSteps

\* recover_incomplete_requests, the row: one transaction ...
RecoverRequest ==
    /\ server = "recovering" /\ fix = NoFix
    /\ \E r \in todo :
          /\ todo' = todo \ {r}
          /\ \/ /\ run.status \in TerminalRun
                /\ SetStatus(r, IF run.status = "cancelled" THEN "cancelled" ELSE "resolved")
                /\ UNCHANGED fix
             \/ /\ run.status \notin TerminalRun /\ SafeToReplay(r)
                /\ SetStatus(r, "pending")
                /\ fix' = [status |-> "waiting", step |-> requests[r].step]
             \/ /\ run.status \notin TerminalRun /\ ~SafeToReplay(r)
                /\ SetStatus(r, "needs_reconciliation")
                /\ fix' = [status |-> "needs_reconciliation", step |-> requests[r].step]
    /\ UNCHANGED <<run, template, pc, loc, server, crashes, stranded, spent, doubt>>

\* ... and the run: another.
RecoverRun ==
    /\ server = "recovering" /\ fix # NoFix
    /\ UpdateRun([run EXCEPT !.status = fix.status, !.step = fix.step])
    /\ fix' = NoFix
    /\ UNCHANGED <<requests, template, pc, loc, server, todo, crashes, stranded, spent, doubt>>

RecoverDone ==
    /\ server = "recovering" /\ todo = {} /\ fix = NoFix
    /\ server' = "up"
    /\ UNCHANGED <<dbVars, template, pc, loc, todo, fix, crashes, stranded, spent, doubt>>

Recover == RecoverRequest \/ RecoverRun \/ RecoverDone

---------------------------------------------------------------------------

Init ==
    /\ run = [status |-> "none", step |-> NoStep, ctx |-> {}]
    /\ requests = [r \in RequestIds |-> [step |-> NoStep, status |-> "none"]]
    /\ template = TRUE
    /\ pc = [t \in Threads |-> "idle"]
    /\ loc = [t \in Threads |-> Fresh]
    /\ server = "up" /\ todo = {} /\ fix = NoFix /\ crashes = 0 /\ stranded = FALSE
    /\ spent = {} /\ doubt = {}

Next ==
    \/ \E t \in Threads : Call(t) \/ Continue(t)
    \/ DeleteTemplate
    \/ Crash
    \/ Recover

Spec == Init /\ [][Next]_vars

\* Threads of the backend and its startup code keep running; clients and the
\* crash do what they like.  A dispatched call is assumed to return: a model
\* call has no deadline, but Stop closes its transport.
Fairness == (\A t \in Threads : WF_vars(Continue(t))) /\ WF_vars(Recover)

FairSpec == Spec /\ Fairness

---------------------------------------------------------------------------
(* Properties *)

TypeOK ==
    /\ run \in [status : RunStatus, step : StepIds, ctx : SUBSET Steps]
    /\ requests \in [RequestIds -> [step : StepIds, status : RequestStatus]]
    /\ template \in BOOLEAN
    /\ pc \in [Threads -> Labels]
    /\ loc \in [Threads -> Locals]
    /\ server \in {"up", "recovering"}
    /\ todo \subseteq RequestIds
    /\ fix \in [status : {"none", "waiting", "needs_reconciliation"}, step : StepIds]
    /\ crashes \in 0..MaxCrashes /\ stranded \in BOOLEAN
    /\ spent \subseteq Steps
    /\ doubt \subseteq Steps

\* A step of a run never has two open request cards, whichever threads pause
\* on it and whatever a crash leaves behind (store.py:786, the unique index).
OneOpenRequest ==
    \A r1, r2 \in RequestIds :
        /\ requests[r1].status \in OpenRequest
        /\ requests[r2].status \in OpenRequest
        /\ requests[r1].step = requests[r2].step
        => r1 = r2

\* A row that reads "resolving" is one a live resolve_request call still has to
\* settle, or one startup recovery has on its list: no claim is ever lost.
Owns(t, r) ==
    /\ loc[t].claim = r
    /\ (loc[t].op = "accept" /\ pc[t] \in Claiming) \/ pc[t] = "decline_final"

ClaimHasOwner ==
    \A r \in RequestIds : requests[r].status = "resolving" =>
        \/ server = "up" /\ \E t \in Threads : Owns(t, r)
        \/ server = "recovering" /\ r \in todo

\* Stop is final: no executor, resume, answer or recovery that was under way
\* changes a run once its cancellation is committed (store.py:622).
CancelledIsSealed == [][run.status = "cancelled" => run' = run]_run

\* Thread t calls a tool or an agent in this step.
Calls(t) == At(t, "exec") /\ pc'[t] = "recheck" /\ loc'[t].acted

\* An executor that overlaps Stop makes at most one more call (runtime.py:125).
OneLateCall == [][\A t \in Threads : Calls(t) /\ run.status = "cancelled" => ~loc[t].late]_vars

\* An approval allows one call of the gated step (step_executor.py:137).
ApprovalUsedOnce ==
    [][\A t \in Threads : Calls(t) /\ loc[t].at \in GatedSteps => loc[t].at \notin spent]_vars

\* A call a crash cut off is not made again before a user has answered the
\* reconciliation warning (store.py:974).
NoBlindReplay == [][\A t \in Threads : Calls(t) => loc[t].at \notin doubt]_vars

\* While no call is under way, a run that waits for the user shows a card of its
\* current step that can be answered: closing a card, stopping the run, pausing and
\* recovering are transactions of their own.  The code has one way to leave a run
\* waiting with no such card, the crash that `stranded` records; that run can only
\* be stopped.
WaitingHasCard ==
    /\ server = "up" /\ ~stranded
    /\ \A t \in Threads : pc[t] = "idle"
    /\ run.status \in {"waiting", "needs_reconciliation"}
    => \E r \in RequestIds : requests[r].step = run.step /\ requests[r].status \in Actionable

\* Every claim is settled, by its resolver or, after a crash, by recovery.
ClaimSettles ==
    \A r \in RequestIds : requests[r].status = "resolving" ~> requests[r].status # "resolving"

\* After Stop no thread stays in the executor.
StopQuiesces ==
    run.status = "cancelled" ~> [](\A t \in Threads : pc[t] \notin Executing)

=============================================================================
