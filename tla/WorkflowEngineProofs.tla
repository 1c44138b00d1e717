------------------------ MODULE WorkflowEngineProofs ------------------------
(***************************************************************************)
(* What WorkflowEngine guarantees for every template graph, every number   *)
(* of threads, every number of request rows and every number of crashes.   *)
(* The type invariant is not inductive alone: a thread that writes a step  *)
(* or a row must be known to hold one, which ThreadHolds and RowsHold say. *)
(* The last two parts are about the card of a run that waits, and about    *)
(* the calls an executor makes after a Stop.                               *)
(***************************************************************************)
EXTENDS WorkflowEngine, TLAPS

\* Labels at which the executor works on a step, and at which a resolver has
\* already claimed its row.
OnStep == Executing \ {"check"}
Accepting == {"accept_write", "accept_check", "accept_final", "abort_release",
              "abort_read", "abort_write"}

\* A thread at label l with locals v holds what that label is going to use,
\* the rows being reqs.
ThreadHolds(l, v, reqs) ==
    /\ l \in OnStep => v.at \in Steps
    /\ l \in Accepting => v.op = "accept"
    /\ l \in {"claim", "decline_final"} \/ v.op = "accept"
         => v.claim \in RequestIds /\ reqs[v.claim].status # "none"
    /\ l \in {"ask_write", "ask_check"}
         => v.row \in RequestIds /\ reqs[v.row].status # "none"

Row == [step : StepIds, status : RequestStatus]
RunRow == [status : RunStatus, step : StepIds, ctx : SUBSET Steps]

RowsHold(reqs) ==
    /\ reqs \in [RequestIds -> Row]
    /\ \A r \in RequestIds : reqs[r].status # "none" => reqs[r].step \in Steps

TypeInv ==
    /\ TypeOK
    /\ RowsHold(requests)
    /\ \A t \in Threads : ThreadHolds(pc[t], loc[t], requests)
    /\ \A r \in todo : requests[r].status # "none"

\* What a step of thread t does to the rows, and to the thread.
RowsStep ==
    /\ RowsHold(requests')
    /\ \A r \in RequestIds : requests[r].status # "none" => requests'[r].status # "none"

ThreadMove(t) ==
    \E l \in Labels, v \in Locals :
        /\ pc' = [pc EXCEPT ![t] = l]
        /\ loc' = [loc EXCEPT ![t] = v]
        /\ ThreadHolds(l, v, requests')

Rest == <<template, server, todo, fix, crashes, stranded>>

USE GraphAssumption, BoundsAssumption

LEMMA FreshIsLocal == Fresh \in Locals
  BY DEF Fresh, Locals, Ops, StepIds

LEMMA StepsAreIds ==
  /\ Steps \subseteq StepIds /\ NoStep \in StepIds
  /\ \A s \in Steps : OnSuccess[s] \in StepIds /\ OnFailure[s] \in StepIds
  BY DEF StepIds

\* What TypeInv says of one thread and of the rows, in the form the steps use.
LEMMA Known ==
  ASSUME TypeInv, NEW t \in Threads
  PROVE  /\ run \in RunRow /\ RowsHold(requests) /\ requests \in [RequestIds -> Row]
         /\ pc \in [Threads -> Labels] /\ pc[t] \in Labels
         /\ loc \in [Threads -> Locals] /\ loc[t] \in Locals
         /\ ThreadHolds(pc[t], loc[t], requests)
         /\ spent \subseteq Steps /\ doubt \subseteq Steps
  BY DEF TypeInv, TypeOK, RowsHold, Row, RunRow

(***************************************************************************)
(* A step that moves thread t and treats the rows well preserves TypeInv.  *)
(***************************************************************************)
LEMMA ThreadStep ==
  ASSUME TypeInv, NEW t \in Threads, ThreadMove(t), RowsStep,
         run' \in RunRow, spent' \subseteq Steps, doubt' \subseteq Steps,
         UNCHANGED Rest
  PROVE  TypeInv'
<1>1. PICK l \in Labels, v \in Locals :
          /\ pc' = [pc EXCEPT ![t] = l]
          /\ loc' = [loc EXCEPT ![t] = v]
          /\ ThreadHolds(l, v, requests')
  BY DEF ThreadMove
<1>2. /\ pc' \in [Threads -> Labels] /\ loc' \in [Threads -> Locals]
      /\ pc'[t] = l /\ loc'[t] = v
      /\ \A u \in Threads : u # t => pc'[u] = pc[u] /\ loc'[u] = loc[u]
  BY <1>1 DEF TypeInv, TypeOK
<1>3. ASSUME NEW u \in Threads PROVE ThreadHolds(pc'[u], loc'[u], requests')
  <2>1. CASE u = t
    BY <2>1, <1>1, <1>2
  <2>2. CASE u # t
    BY <2>2, <1>2 DEF ThreadHolds, TypeInv, RowsStep
  <2>3. QED BY <2>1, <2>2
<1>4. TypeOK'
  BY <1>2 DEF TypeInv, TypeOK, RowsStep, RowsHold, Row, RunRow, Rest
<1>5. \A r \in todo' : requests'[r].status # "none"
  BY DEF TypeInv, TypeOK, RowsStep, Rest
<1>6. QED BY <1>3, <1>4, <1>5 DEF TypeInv, RowsStep

\* A jump that leaves the locals alone.
LEMMA Jump ==
  ASSUME TypeInv, NEW t \in Threads, NEW l \in Labels, Goto(t, l), UNCHANGED loc,
         ThreadHolds(l, loc[t], requests')
  PROVE  ThreadMove(t)
<1>1. loc' = [loc EXCEPT ![t] = loc[t]] /\ loc[t] \in Locals
  BY DEF TypeInv, TypeOK
<1>2. QED BY <1>1 DEF ThreadMove, Goto

\* A thread that goes idle holds nothing.
LEMMA Ending ==
  ASSUME TypeInv, NEW t \in Threads, Finish(t)
  PROVE  ThreadMove(t)
<1>1. ThreadHolds("idle", Fresh, requests')
  BY DEF ThreadHolds, Fresh, OnStep, Accepting, Executing
<1>2. QED BY <1>1, FreshIsLocal DEF ThreadMove, Finish, Goto, Labels

\* execute_workflow_run returns or raises: a resolver keeps its row.
LEMMA Leaving ==
  ASSUME TypeInv, NEW t \in Threads, RowsStep, Return(t) \/ Raise(t)
  PROVE  ThreadMove(t)
<1> DEFINE v == [Fresh EXCEPT !.op = "accept", !.claim = loc[t].claim]
<1>1. CASE loc[t].op = "accept"
  <2>1. v \in Locals /\ v.op = "accept" /\ v.claim = loc[t].claim
    BY FreshIsLocal, Known DEF Locals, Ops, Fresh
  <2>2. PICK l \in {"accept_final", "abort_release"} :
            pc' = [pc EXCEPT ![t] = l] /\ loc' = [loc EXCEPT ![t] = v]
    BY <1>1 DEF Return, Raise, Goto
  <2>3. ThreadHolds(l, v, requests')
    BY <1>1, <2>1, Known DEF ThreadHolds, RowsStep, OnStep, Executing
  <2>4. l \in Labels
    BY DEF Labels
  <2>5. QED BY <2>1, <2>2, <2>3, <2>4 DEF ThreadMove
<1>2. CASE loc[t].op # "accept"
  BY <1>2, Ending DEF Return, Raise
<1>3. QED BY <1>1, <1>2

\* Rows that do not change, and a change of the status of one row in use.
LEMMA SameRows ==
  ASSUME TypeInv, UNCHANGED requests
  PROVE  RowsStep
  BY DEF TypeInv, RowsStep

LEMMA StatusStep ==
  ASSUME TypeInv, NEW r \in RequestIds, NEW s \in RequestStatus \ {"none"},
         requests[r].status # "none", SetStatus(r, s)
  PROVE  RowsStep
  BY DEF TypeInv, RowsStep, RowsHold, SetStatus, Row

\* What an UPDATE of the run leaves in its row.
LEMMA RunStep ==
  ASSUME TypeInv, NEW status \in RunStatus, NEW step \in StepIds,
         UpdateRun([run EXCEPT !.status = status, !.step = step])
  PROVE  run' \in RunRow
<1>1. run \in RunRow
  BY DEF TypeInv, TypeOK, RunRow
<1>2. [run EXCEPT !.status = status, !.step = step] \in RunRow
  BY <1>1 DEF RunRow
<1>3. QED BY <1>1, <1>2 DEF UpdateRun

(***************************************************************************)
(* The executor's steps preserve the type invariant.                       *)
(***************************************************************************)
LEMMA ExecuteType ==
  ASSUME TypeInv, NEW t \in Threads, Execute(t)
  PROVE  TypeInv'
<1>0. /\ run \in RunRow /\ RowsHold(requests) /\ requests \in [RequestIds -> Row]
      /\ loc \in [Threads -> Locals] /\ loc[t] \in Locals
      /\ ThreadHolds(pc[t], loc[t], requests)
      /\ spent \subseteq Steps /\ doubt \subseteq Steps
  BY Known
<1>1. CASE Load(t)
  <2>1. UNCHANGED <<run, requests, spent, doubt>> /\ UNCHANGED Rest
    BY <1>1 DEF Load, dbVars, bootVars, Rest
  <2>2. RowsStep
    BY <2>1, SameRows
  <2>3. CASE template
    <3> DEFINE v == [loc[t] EXCEPT !.at = run.step, !.ctx = run.ctx]
    <3>1. v \in Locals /\ v.op = loc[t].op /\ v.claim = loc[t].claim
      BY <1>0 DEF Locals, RunRow
    <3>2. loc' = [loc EXCEPT ![t] = v] /\ pc' = [pc EXCEPT ![t] = "check"]
      BY <1>1, <2>3 DEF Load, Goto
    <3>3. ThreadHolds("check", v, requests')
      BY <1>0, <2>1, <3>1 DEF ThreadHolds, OnStep, Accepting, Executing
    <3>4. ThreadMove(t)
      BY <3>1, <3>2, <3>3 DEF ThreadMove, Labels
    <3>5. QED BY <1>0, <2>1, <2>2, <3>4, ThreadStep
  <2>4. CASE ~template
    <3>1. ThreadMove(t)
      BY <1>1, <2>2, <2>4, Leaving DEF Load
    <3>2. QED BY <1>0, <2>1, <2>2, <3>1, ThreadStep
  <2>5. QED BY <2>3, <2>4
<1>2. CASE Check(t)
  <2>1. UNCHANGED <<requests, spent, doubt>> /\ UNCHANGED Rest
    BY <1>2 DEF Check, bootVars, Rest
  <2>2. RowsStep
    BY <2>1, SameRows
  <2>3. run' \in RunRow
    <3>1. loc[t].at \in StepIds /\ {"completed", "failed"} \subseteq RunStatus
      BY <1>0 DEF Locals, RunStatus, TerminalRun
    <3>2. CASE UNCHANGED run
      BY <1>0, <3>2
    <3>3. CASE UpdateRun([run EXCEPT !.status = "completed", !.step = NoStep])
      BY <3>1, <3>3, RunStep, StepsAreIds
    <3>4. CASE UpdateRun([run EXCEPT !.status = "failed", !.step = loc[t].at])
      BY <3>1, <3>4, RunStep
    <3>5. QED BY <1>2, <3>2, <3>3, <3>4 DEF Check
  <2>4. ThreadMove(t)
    <3>1. CASE Return(t)
      BY <3>1, <2>2, Leaving
    <3>2. CASE loc[t].at \in Steps /\ Goto(t, "exec") /\ UNCHANGED loc
      <4>1. ThreadHolds("exec", loc[t], requests')
        BY <1>0, <2>1, <3>2 DEF ThreadHolds, Accepting
      <4>2. QED BY <3>2, <4>1, Jump DEF Labels
    <3>3. QED BY <1>2, <3>1, <3>2 DEF Check
  <2>5. QED BY <1>0, <2>1, <2>2, <2>3, <2>4, ThreadStep
<1>3. CASE Dispatch(t)
  <2>1. UNCHANGED <<run, requests, doubt>> /\ UNCHANGED Rest
    BY <1>3 DEF Dispatch, dbVars, bootVars, Rest
  <2>2. RowsStep
    BY <2>1, SameRows
  <2>3. PICK out \in Outcomes(loc[t].at, loc[t].ctx) :
            /\ loc' = [loc EXCEPT ![t] = [loc[t] EXCEPT !.acted = out.acted, !.ans = out.ans,
                                      !.late = loc[t].late \/ run.status = "cancelled"]]
            /\ spent' = IF out.acted THEN spent \cup ({loc[t].at} \cap GatedSteps) ELSE spent
    BY <1>3 DEF Dispatch
  <2>4. out.acted \in BOOLEAN /\ out.ans \in {"ok", "fail", "ask"}
    <3>1. CASE loc[t].at \in RequestSteps
      <4>1. out = [acted |-> FALSE, ans |-> IF loc[t].at \in loc[t].ctx THEN "ok" ELSE "ask"]
        BY <2>3, <3>1 DEF Outcomes
      <4>2. QED BY <4>1
    <3>2. CASE loc[t].at \notin RequestSteps
      <4>1. \/ \E a \in {"fail", "ask"} : out = [acted |-> FALSE, ans |-> a]
            \/ \E a \in {"ok", "fail", "ask"} : out = [acted |-> TRUE, ans |-> a]
        BY <2>3, <3>2, Zenon DEF Outcomes
      <4>2. CASE \E a \in {"fail", "ask"} : out = [acted |-> FALSE, ans |-> a]
        <5>1. PICK a \in {"fail", "ask"} : out = [acted |-> FALSE, ans |-> a]
          BY <4>2
        <5>2. out.acted = FALSE /\ out.ans = a
          BY <5>1
        <5>3. QED BY <5>2
      <4>3. CASE \E a \in {"ok", "fail", "ask"} : out = [acted |-> TRUE, ans |-> a]
        <5>1. PICK a \in {"ok", "fail", "ask"} : out = [acted |-> TRUE, ans |-> a]
          BY <4>3
        <5>2. out.acted = TRUE /\ out.ans = a
          BY <5>1
        <5>3. QED BY <5>2
      <4>4. QED BY <4>1, <4>2, <4>3
    <3>3. QED BY <3>1, <3>2
  <2> DEFINE v == [loc[t] EXCEPT !.acted = out.acted, !.ans = out.ans,
                                 !.late = loc[t].late \/ run.status = "cancelled"]
  <2>5. /\ v \in Locals /\ v.at = loc[t].at /\ v.op = loc[t].op
        /\ v.claim = loc[t].claim
    <3>1. \A b \in BOOLEAN : [loc[t] EXCEPT !.acted = out.acted, !.ans = out.ans, !.late = b] \in Locals
      BY <1>0, <2>4 DEF Locals
    <3>2. v \in Locals
      BY <1>0, <3>1 DEF Locals
    <3>3. v.at = loc[t].at /\ v.op = loc[t].op /\ v.claim = loc[t].claim
      BY <1>0 DEF Locals
    <3>4. QED BY <3>2, <3>3
  <2>6. loc' = [loc EXCEPT ![t] = v] /\ pc' = [pc EXCEPT ![t] = "recheck"]
    BY <1>3, <2>3 DEF Dispatch, Goto
  <2>7. ThreadHolds("recheck", v, requests')
    BY <1>0, <1>3, <2>1, <2>5 DEF ThreadHolds, Dispatch, At, OnStep, Accepting, Executing
  <2>8. ThreadMove(t)
    BY <2>5, <2>6, <2>7 DEF ThreadMove, Labels
  <2>9. spent' \subseteq Steps
    BY <1>0, <2>3 DEF GraphAssumption
  <2>10. QED BY <1>0, <2>1, <2>2, <2>8, <2>9, ThreadStep
<1>4. CASE Recheck(t)
  <2>1. UNCHANGED <<run, requests, spent, doubt>> /\ UNCHANGED Rest
    BY <1>4 DEF Recheck, dbVars, bootVars, Rest
  <2>2. RowsStep
    BY <2>1, SameRows
  <2>3. ThreadMove(t)
    <3>1. CASE Return(t)
      BY <3>1, <2>2, Leaving
    <3>2. CASE UNCHANGED loc /\ \E l \in {"ask_look", "pop", "settle"} : Goto(t, l)
      <4>1. PICK l \in {"ask_look", "pop", "settle"} : Goto(t, l)
        BY <3>2
      <4>2. ThreadHolds(l, loc[t], requests')
        BY <1>0, <1>4, <2>1 DEF ThreadHolds, Recheck, At, OnStep, Accepting, Executing
      <4>3. QED BY <3>2, <4>1, <4>2, Jump DEF Labels
    <3>3. QED BY <1>4, <3>1, <3>2 DEF Recheck
  <2>4. QED BY <1>0, <2>1, <2>2, <2>3, ThreadStep
<1>5. CASE Pop(t)
  <2>1. UNCHANGED <<requests, spent, doubt>> /\ UNCHANGED Rest
    BY <1>5 DEF Pop, bootVars, Rest
  <2>2. RowsStep
    BY <2>1, SameRows
  <2> DEFINE rest == loc[t].ctx \ {loc[t].at}
             v == [loc[t] EXCEPT !.ctx = rest]
  <2>3. rest \subseteq Steps
    BY <1>0 DEF Locals
  <2>4. run' \in RunRow
    BY <1>0, <1>5, <2>3 DEF Pop, UpdateRun, RunRow
  <2>5. /\ v \in Locals /\ v.at = loc[t].at /\ v.op = loc[t].op
        /\ v.claim = loc[t].claim
    BY <1>0, <2>3 DEF Locals
  <2>6. loc' = [loc EXCEPT ![t] = v] /\ pc' = [pc EXCEPT ![t] = "settle"]
    BY <1>5 DEF Pop, Goto
  <2>7. ThreadHolds("settle", v, requests')
    BY <1>0, <1>5, <2>1, <2>5 DEF ThreadHolds, Pop, At, OnStep, Accepting, Executing
  <2>8. ThreadMove(t)
    BY <2>5, <2>6, <2>7 DEF ThreadMove, Labels
  <2>9. QED BY <1>0, <2>1, <2>2, <2>4, <2>8, ThreadStep
<1>6. CASE Settle(t)
  <2>1. UNCHANGED <<requests, spent, doubt>> /\ UNCHANGED Rest
    BY <1>6 DEF Settle, bootVars, Rest
  <2>2. RowsStep
    BY <2>1, SameRows
  <2>3. loc[t].at \in Steps /\ NextStep(t) \in StepIds
    BY <1>0, <1>6, StepsAreIds DEF Settle, At, ThreadHolds, NextStep, OnStep, Executing
  <2>4. run' \in RunRow
    BY ZenonT(60), <1>0, <1>6, <2>3, StepsAreIds DEF Settle, UpdateRun, RunRow, RunStatus, TerminalRun
  <2>5. ThreadMove(t)
    <3>1. CASE Return(t)
      BY <3>1, <2>2, Leaving
    <3>2. CASE /\ Goto(t, "check")
               /\ loc' = [loc EXCEPT ![t].at = NextStep(t), ![t].ans = "none",
                                     ![t].acted = FALSE]
      <4> DEFINE v == [loc[t] EXCEPT !.at = NextStep(t), !.ans = "none", !.acted = FALSE]
      <4>1. v \in Locals /\ v.op = loc[t].op /\ v.claim = loc[t].claim
        BY <1>0, <2>3 DEF Locals
      <4>2. loc' = [loc EXCEPT ![t] = v] /\ pc' = [pc EXCEPT ![t] = "check"]
        BY <3>2 DEF Goto
      <4>3. ThreadHolds("check", v, requests')
        BY <1>0, <2>1, <4>1 DEF ThreadHolds, OnStep, Accepting, Executing
      <4>4. QED BY <4>1, <4>2, <4>3 DEF ThreadMove, Labels
    <3>3. QED BY <1>6, <3>1, <3>2 DEF Settle
  <2>6. QED BY <1>0, <2>1, <2>2, <2>4, <2>5, ThreadStep
<1>7. CASE AskLook(t)
  <2>1. UNCHANGED <<run, requests, spent, doubt>> /\ UNCHANGED Rest
    BY <1>7 DEF AskLook, dbVars, bootVars, Rest
  <2>2. RowsStep
    BY <2>1, SameRows
  <2>3. /\ loc[t].at \in Steps
        /\ loc[t].op = "accept" => /\ loc[t].claim \in RequestIds
                                   /\ requests'[loc[t].claim].status # "none"
    BY <1>0, <1>7, <2>1 DEF AskLook, At, ThreadHolds, OnStep, Executing
  <2>4. ThreadMove(t)
    <3>1. CASE Goto(t, "ask_insert") /\ UNCHANGED loc
      <4>1. ThreadHolds("ask_insert", loc[t], requests')
        BY <2>3 DEF ThreadHolds, Accepting
      <4>2. QED BY <3>1, <4>1, Jump DEF Labels
    <3>2. ASSUME NEW r \in RequestIds, NEW l \in {"ask_write", "ask_insert"},
                 l = "ask_write" => requests[r].status = "pending",
                 Goto(t, l), loc' = [loc EXCEPT ![t].row = r]
          PROVE  ThreadMove(t)
      <4> DEFINE v == [loc[t] EXCEPT !.row = r]
      <4>1. /\ v \in Locals /\ v.at = loc[t].at /\ v.op = loc[t].op
            /\ v.claim = loc[t].claim /\ v.row = r
        BY <1>0 DEF Locals
      <4>2. loc' = [loc EXCEPT ![t] = v] /\ pc' = [pc EXCEPT ![t] = l]
        BY <3>2 DEF Goto
      <4>3. ThreadHolds(l, v, requests')
        BY <2>1, <2>3, <3>2, <4>1 DEF ThreadHolds, Accepting
      <4>4. QED BY <4>1, <4>2, <4>3 DEF ThreadMove, Labels
    <3>3. QED BY <1>7, <3>1, <3>2 DEF AskLook, OpenFor
  <2>5. QED BY <1>0, <2>1, <2>2, <2>4, ThreadStep
<1>8. CASE AskInsert(t)
  <2>1. UNCHANGED <<run, spent, doubt>> /\ UNCHANGED Rest
    BY <1>8 DEF AskInsert, bootVars, Rest
  <2>2. CASE Raise(t) /\ UNCHANGED requests
    <3>1. RowsStep
      BY <2>2, SameRows
    <3>2. QED BY <1>0, <2>1, <2>2, <3>1, Leaving, ThreadStep
  <2>3. ASSUME NEW new \in FreeIds,
               requests' = [r \in RequestIds |->
                   CASE r = new -> [step |-> loc[t].at, status |-> "pending"]
                     [] r = loc[t].row /\ requests[r].status = "resolving" ->
                           [requests[r] EXCEPT !.status = "resolved"]
                     [] OTHER -> requests[r]],
               loc' = [loc EXCEPT ![t].row = new], Goto(t, "ask_write")
        PROVE  TypeInv'
    <3>0. new \in RequestIds /\ new # loc[t].row
      BY DEF FreeIds
    <3>1. loc[t].at \in Steps
      BY <1>0, <1>8 DEF AskInsert, At, ThreadHolds, OnStep, Executing
    <3>2. ASSUME NEW r \in RequestIds
          PROVE  /\ requests'[r] \in Row
                 /\ requests'[r].status # "none" => requests'[r].step \in Steps
                 /\ requests[r].status # "none" => requests'[r].status # "none"
      <4>1. requests[r] \in Row /\ (requests[r].status # "none" => requests[r].step \in Steps)
        BY <1>0 DEF RowsHold
      <4>2. CASE r = new
        <5>1. ~(r = loc[t].row /\ requests[r].status = "resolving")
          BY <3>0, <4>2
        <5>2. requests'[r] = [step |-> loc[t].at, status |-> "pending"]
          BY <2>3, <4>2, <5>1
        <5>3. QED BY <3>1, <5>2, StepsAreIds DEF Row, RequestStatus, OpenRequest, Actionable
      <4>3. CASE r # new /\ r = loc[t].row /\ requests[r].status = "resolving"
        <5>1. requests'[r] = [requests[r] EXCEPT !.status = "resolved"]
          BY <2>3, <4>3
        <5>2. QED BY <4>1, <4>3, <5>1 DEF Row, RequestStatus, ClosedRequest
      <4>4. CASE r # new /\ ~(r = loc[t].row /\ requests[r].status = "resolving")
        <5>1. requests'[r] = requests[r]
          BY <2>3, <4>4
        <5>2. QED BY <4>1, <5>1
      <4>5. QED BY <4>2, <4>3, <4>4
    <3>3. RowsStep
      <4>1. requests' \in [RequestIds -> Row]
        <5>1. requests' = [r \in RequestIds |-> requests'[r]]
          BY <2>3
        <5>2. QED BY <3>2, <5>1
      <4>2. QED BY <3>2, <4>1 DEF RowsStep, RowsHold
    <3> DEFINE v == [loc[t] EXCEPT !.row = new]
    <3>4. /\ v \in Locals /\ v.at = loc[t].at /\ v.op = loc[t].op
          /\ v.claim = loc[t].claim /\ v.row = new
      BY <1>0, <3>0 DEF Locals
    <3>5. loc' = [loc EXCEPT ![t] = v] /\ pc' = [pc EXCEPT ![t] = "ask_write"]
      BY <2>3 DEF Goto
    <3>6. ThreadHolds("ask_write", v, requests')
      <4>1. requests'[new].status = "pending"
        BY <2>3, <3>0
      <4>2. QED BY <1>0, <3>0, <3>1, <3>3, <3>4, <4>1 DEF ThreadHolds, Accepting, RowsStep
    <3>7. ThreadMove(t)
      BY <3>4, <3>5, <3>6 DEF ThreadMove, Labels
    <3>8. QED BY <1>0, <2>1, <3>3, <3>7, ThreadStep
  <2>4. QED BY <1>8, <2>2, <2>3 DEF AskInsert, FreeIds
<1>9. CASE AskWrite(t)
  <2>1. UNCHANGED <<requests, loc, spent, doubt>> /\ UNCHANGED Rest
    BY <1>9 DEF AskWrite, bootVars, Rest
  <2>2. RowsStep
    BY <2>1, SameRows
  <2>3. pc[t] = "ask_write" /\ Goto(t, "ask_check")
    BY <1>9 DEF AskWrite, At
  <2>4. run' \in RunRow
    BY <1>0, <1>9, <2>3, StepsAreIds
    DEF AskWrite, UpdateRun, RunRow, RunStatus, ThreadHolds, OnStep, Executing
  <2>5. ThreadHolds("ask_check", loc[t], requests')
    BY <1>0, <2>1, <2>3 DEF ThreadHolds, OnStep, Accepting, Executing
  <2>6. ThreadMove(t)
    BY <2>1, <2>3, <2>5, Jump DEF Labels
  <2>7. QED BY <1>0, <2>1, <2>2, <2>4, <2>6, ThreadStep
<1>10. CASE AskCheck(t)
  <2>1. UNCHANGED <<run, spent, doubt>> /\ UNCHANGED Rest
    BY <1>10 DEF AskCheck, bootVars, Rest
  <2>2. loc[t].row \in RequestIds /\ requests[loc[t].row].status # "none"
    BY <1>0, <1>10 DEF AskCheck, At, ThreadHolds
  <2>3. RowsStep
    <3>1. CASE UNCHANGED requests
      BY <3>1, SameRows
    <3>2. CASE SetStatus(loc[t].row, "cancelled")
      BY <2>2, <3>2, StatusStep DEF RequestStatus, ClosedRequest
    <3>3. QED BY <1>10, <3>1, <3>2 DEF AskCheck
  <2>4. ThreadMove(t)
    BY <1>10, <2>3, Leaving DEF AskCheck
  <2>5. QED BY <1>0, <2>1, <2>3, <2>4, ThreadStep
<1>11. QED
  BY <1>1, <1>2, <1>3, <1>4, <1>5, <1>6, <1>7, <1>8, <1>9, <1>10 DEF Execute

(***************************************************************************)
(* The calls of clients preserve the type invariant.  A thread that serves *)
(* one moves to a label with its locals unchanged, takes new locals, or    *)
(* goes idle.                                                              *)
(***************************************************************************)
LEMMA ResumeType ==
  ASSUME TypeInv, NEW t \in Threads,
         Start(t) \/ ResumeRead(t) \/ ResumeWrite(t) \/ ResumeCheck(t)
  PROVE  TypeInv'
<1>0. /\ run \in RunRow /\ loc[t] \in Locals
      /\ ThreadHolds(pc[t], loc[t], requests)
      /\ spent \subseteq Steps /\ doubt \subseteq Steps
  BY Known
<1>1. UNCHANGED <<requests, spent, doubt>> /\ UNCHANGED Rest
  BY DEF Start, ResumeRead, ResumeWrite, ResumeCheck, dbVars, bootVars, Rest
<1>2. RowsStep
  BY <1>1, SameRows
<1>3. CASE Start(t)
  <2> DEFINE v == [loc[t] EXCEPT !.op = "start"]
  <2>1. v \in Locals /\ v.op = "start" /\ v.claim = loc[t].claim
    BY <1>0 DEF Locals, Ops
  <2>2. loc' = [loc EXCEPT ![t] = v] /\ pc' = [pc EXCEPT ![t] = "load"]
    BY <1>3 DEF Start, Goto
  <2>3. ThreadHolds("load", v, requests')
    BY <2>1 DEF ThreadHolds, OnStep, Accepting, Executing
  <2>4. ThreadMove(t)
    BY <2>1, <2>2, <2>3 DEF ThreadMove, Labels
  <2>5. run' \in RunRow
    BY <1>3, StepsAreIds DEF Start, RunRow, RunStatus, GraphAssumption
  <2>6. QED BY <1>0, <1>1, <1>2, <2>4, <2>5, ThreadStep
<1>4. CASE ResumeRead(t)
  <2> DEFINE v == [loc[t] EXCEPT !.op = "resume", !.ctx = run.ctx]
  <2>1. v \in Locals /\ v.op = "resume" /\ v.claim = loc[t].claim
    BY <1>0 DEF Locals, Ops, RunRow
  <2>2. loc' = [loc EXCEPT ![t] = v] /\ pc' = [pc EXCEPT ![t] = "resume_write"]
    BY <1>4 DEF ResumeRead, Goto
  <2>3. ThreadHolds("resume_write", v, requests')
    BY <2>1 DEF ThreadHolds, OnStep, Accepting, Executing
  <2>4. ThreadMove(t)
    BY <2>1, <2>2, <2>3 DEF ThreadMove, Labels
  <2>5. run' \in RunRow
    BY <1>0, <1>4 DEF ResumeRead, dbVars
  <2>6. QED BY <1>0, <1>1, <1>2, <2>4, <2>5, ThreadStep
<1>5. CASE ResumeWrite(t)
  <2>1. ThreadHolds("resume_check", loc[t], requests')
    BY <1>0, <1>1, <1>5 DEF ThreadHolds, OnStep, Accepting, Executing
  <2>2. ThreadMove(t)
    BY <1>5, <2>1, Jump DEF ResumeWrite, Labels
  <2>3. [run EXCEPT !.status = "running", !.ctx = loc[t].ctx] \in RunRow
    BY <1>0 DEF RunRow, RunStatus, Locals
  <2>4. run' \in RunRow
    BY <1>0, <1>5, <2>3 DEF ResumeWrite, UpdateRun
  <2>5. QED BY <1>0, <1>1, <1>2, <2>2, <2>4, ThreadStep
<1>6. CASE ResumeCheck(t)
  <2>1. ThreadHolds("load", loc[t], requests')
    BY <1>0, <1>1, <1>6 DEF ThreadHolds, OnStep, Accepting, Executing
  <2>2. ThreadMove(t)
    BY <1>6, <2>1, Jump, Ending DEF ResumeCheck, Labels
  <2>3. run' \in RunRow
    BY <1>0, <1>6 DEF ResumeCheck, dbVars
  <2>4. QED BY <1>0, <1>1, <1>2, <2>2, <2>3, ThreadStep
<1>7. QED BY <1>3, <1>4, <1>5, <1>6

LEMMA StopType ==
  ASSUME TypeInv, NEW t \in Threads,
         CancelCall(t) \/ CancelRead(t) \/ CancelWrite(t)
  PROVE  TypeInv'
<1>0. /\ run \in RunRow /\ loc[t] \in Locals
      /\ ThreadHolds(pc[t], loc[t], requests)
      /\ spent \subseteq Steps /\ doubt \subseteq Steps
  BY Known
<1>1. UNCHANGED <<requests, spent, doubt>> /\ UNCHANGED Rest
  BY DEF CancelCall, CancelRead, CancelWrite, dbVars, bootVars, Rest
<1>2. RowsStep
  BY <1>1, SameRows
<1>3. CASE CancelCall(t)
  <2> DEFINE v == [loc[t] EXCEPT !.op = "cancel"]
  <2>1. v \in Locals /\ v.op = "cancel"
    BY <1>0 DEF Locals, Ops
  <2>2. loc' = [loc EXCEPT ![t] = v] /\ pc' = [pc EXCEPT ![t] = "cancel_read"]
    BY <1>3 DEF CancelCall, Goto
  <2>3. ThreadHolds("cancel_read", v, requests')
    BY <2>1 DEF ThreadHolds, OnStep, Accepting, Executing
  <2>4. ThreadMove(t)
    BY <2>1, <2>2, <2>3 DEF ThreadMove, Labels
  <2>5. run' \in RunRow
    BY <1>0, <1>3 DEF CancelCall, dbVars
  <2>6. QED BY <1>0, <1>1, <1>2, <2>4, <2>5, ThreadStep
<1>4. CASE CancelRead(t)
  <2>1. ThreadHolds("cancel_write", loc[t], requests')
    BY <1>0, <1>1, <1>4 DEF ThreadHolds, OnStep, Accepting, Executing
  <2>2. ThreadMove(t)
    BY <1>4, <2>1, Jump, Ending DEF CancelRead, Labels
  <2>3. run' \in RunRow
    BY <1>0, <1>4 DEF CancelRead, dbVars
  <2>4. QED BY <1>0, <1>1, <1>2, <2>2, <2>3, ThreadStep
<1>5. CASE CancelWrite(t)
  <2>1. ThreadMove(t)
    BY <1>5, Ending DEF CancelWrite
  <2>2. run' \in RunRow
    BY <1>0, <1>5 DEF CancelWrite, UpdateRun, RunRow, RunStatus, TerminalRun
  <2>3. QED BY <1>0, <1>1, <1>2, <2>1, <2>2, ThreadStep
<1>6. QED BY <1>3, <1>4, <1>5

LEMMA ClaimType ==
  ASSUME TypeInv, NEW t \in Threads, ResolveRead(t) \/ Claim(t) \/ DeclineFinal(t)
  PROVE  TypeInv'
<1>0. /\ run \in RunRow /\ RowsHold(requests) /\ loc[t] \in Locals
      /\ ThreadHolds(pc[t], loc[t], requests)
      /\ spent \subseteq Steps /\ doubt \subseteq Steps
  BY Known
<1>1. /\ UNCHANGED <<run, spent>> /\ UNCHANGED Rest
      /\ doubt' \subseteq Steps
  BY <1>0 DEF ResolveRead, Claim, DeclineFinal, dbVars, bootVars, Rest
<1>2. CASE ResolveRead(t)
  <2>1. RowsStep
    BY <1>2, SameRows DEF ResolveRead, dbVars
  <2>2. PICK r \in RequestIds, action \in {"accept", "decline"} :
            /\ requests[r].status \in Actionable
            /\ loc' = [loc EXCEPT ![t].op = action, ![t].claim = r, ![t].ctx = run.ctx]
    BY <1>2 DEF ResolveRead
  <2> DEFINE v == [loc[t] EXCEPT !.op = action, !.claim = r, !.ctx = run.ctx]
  <2>3. v \in Locals /\ v.claim = r
    BY <1>0 DEF Locals, Ops, RunRow
  <2>4. loc' = [loc EXCEPT ![t] = v] /\ pc' = [pc EXCEPT ![t] = "claim"]
    <3>1. loc' = [loc EXCEPT ![t] = v]
      BY <2>2
    <3>2. QED BY <1>2, <3>1 DEF ResolveRead, Goto
  <2>5. requests'[r].status # "none"
    BY <1>2, <2>2 DEF ResolveRead, dbVars, Actionable
  <2>6. ThreadHolds("claim", v, requests')
    BY <2>3, <2>5 DEF ThreadHolds, OnStep, Accepting, Executing
  <2>7. ThreadMove(t)
    BY <2>3, <2>4, <2>6 DEF ThreadMove, Labels
  <2>8. QED BY <1>0, <1>1, <2>1, <2>7, ThreadStep
<1>3. CASE Claim(t)
  <2>1. loc[t].claim \in RequestIds /\ requests[loc[t].claim].status # "none"
    BY <1>0, <1>3 DEF Claim, At, ThreadHolds
  <2>2. CASE requests[loc[t].claim].status \in Actionable
    <3>1. RowsStep
      BY <1>3, <2>1, <2>2, StatusStep DEF Claim, RequestStatus, OpenRequest
    <3>2. PICK l \in {"accept_write", "decline_final"} :
              /\ Goto(t, l) /\ UNCHANGED loc
              /\ l = "accept_write" => loc[t].op = "accept"
      BY <1>3, <2>2 DEF Claim
    <3>3. ThreadHolds(l, loc[t], requests')
      BY <2>1, <3>1, <3>2 DEF ThreadHolds, RowsStep, OnStep, Accepting, Executing
    <3>4. ThreadMove(t)
      BY <3>2, <3>3, Jump DEF Labels
    <3>5. QED BY <1>0, <1>1, <3>1, <3>4, ThreadStep
  <2>3. CASE requests[loc[t].claim].status \notin Actionable
    <3>1. ThreadMove(t) /\ RowsStep
      BY <1>3, <2>3, Ending, SameRows DEF Claim
    <3>2. QED BY <1>0, <1>1, <3>1, ThreadStep
  <2>4. QED BY <2>2, <2>3
<1>4. CASE DeclineFinal(t)
  <2>1. loc[t].claim \in RequestIds /\ requests[loc[t].claim].status # "none"
    BY <1>0, <1>4 DEF DeclineFinal, At, ThreadHolds
  <2>2. RowsStep
    BY <1>4, <2>1, StatusStep DEF DeclineFinal, RequestStatus, ClosedRequest
  <2>3. ThreadHolds("cancel_read", loc[t], requests')
    BY <2>1, <2>2 DEF ThreadHolds, RowsStep, OnStep, Accepting, Executing
  <2>4. ThreadMove(t)
    BY <1>4, <2>3, Jump DEF DeclineFinal, Labels
  <2>5. QED BY <1>0, <1>1, <2>2, <2>4, ThreadStep
<1>5. QED BY <1>2, <1>3, <1>4

LEMMA AcceptType ==
  ASSUME TypeInv, NEW t \in Threads,
         \/ AcceptWrite(t) \/ AcceptCheck(t) \/ AcceptFinal(t)
         \/ AbortRelease(t) \/ AbortRead(t) \/ AbortWrite(t)
  PROVE  TypeInv'
<1>0. /\ run \in RunRow /\ RowsHold(requests) /\ requests \in [RequestIds -> Row]
      /\ loc[t] \in Locals /\ ThreadHolds(pc[t], loc[t], requests)
      /\ spent \subseteq Steps /\ doubt \subseteq Steps
  BY Known
<1>1. /\ UNCHANGED doubt /\ UNCHANGED Rest
      /\ spent' \subseteq Steps
      /\ pc[t] \in Accepting
  BY <1>0 DEF AcceptWrite, AcceptCheck, AcceptFinal, AbortRelease, AbortRead, AbortWrite,
              At, Accepting, dbVars, bootVars, Rest
<1>2. /\ loc[t].op = "accept" /\ loc[t].claim \in RequestIds
      /\ requests[loc[t].claim].status # "none"
      /\ requests[loc[t].claim].step \in Steps
  BY <1>0, <1>1 DEF ThreadHolds, RowsHold
<1>3. ASSUME NEW l \in {"accept_check", "abort_read", "abort_write", "load"}, RowsStep,
             Goto(t, l), UNCHANGED loc
      PROVE  ThreadMove(t)
  <2>1. ThreadHolds(l, loc[t], requests')
    BY <1>2, <1>3 DEF ThreadHolds, RowsStep, OnStep, Executing
  <2>2. QED BY <1>3, <2>1, Jump DEF Labels
<1>4. CASE AcceptWrite(t)
  <2>1. RowsStep
    BY <1>4, SameRows DEF AcceptWrite
  <2>2. [status |-> "running", step |-> requests[loc[t].claim].step,
         ctx |-> loc[t].ctx \cup {requests[loc[t].claim].step}] \in RunRow
    BY <1>0, <1>2, StepsAreIds DEF RunRow, RunStatus, Locals
  <2>3. run' \in RunRow
    BY <1>0, <1>4, <2>2 DEF AcceptWrite, UpdateRun
  <2>4. ThreadMove(t)
    BY <1>3, <1>4, <2>1 DEF AcceptWrite
  <2>5. QED BY <1>0, <1>1, <2>1, <2>3, <2>4, ThreadStep
<1>5. CASE AcceptCheck(t) \/ AcceptFinal(t)
  <2>1. RowsStep
    BY <1>2, <1>5, SameRows, StatusStep DEF AcceptCheck, AcceptFinal, RequestStatus, ClosedRequest
  <2>2. ThreadMove(t)
    BY <1>3, <1>5, <2>1, Ending DEF AcceptCheck, AcceptFinal
  <2>3. QED BY <1>0, <1>1, <1>5, <2>1, <2>2, ThreadStep DEF AcceptCheck, AcceptFinal
<1>6. CASE AbortRelease(t) \/ AbortRead(t)
  <2>1. RowsStep
    BY <1>2, <1>6, SameRows, StatusStep
    DEF AbortRelease, AbortRead, dbVars, RequestStatus, OpenRequest, Actionable
  <2>2. ThreadMove(t)
    BY <1>3, <1>6, <2>1, Ending DEF AbortRelease, AbortRead
  <2>3. QED BY <1>0, <1>1, <1>6, <2>1, <2>2, ThreadStep DEF AbortRelease, AbortRead, dbVars
<1>7. CASE AbortWrite(t)
  <2>1. RowsStep /\ ThreadMove(t)
    BY <1>7, SameRows, Ending DEF AbortWrite
  <2>2. run' \in RunRow
    BY <1>2, <1>7, RunStep, StepsAreIds DEF AbortWrite, RunStatus
  <2>3. QED BY <1>0, <1>1, <1>7, <2>1, <2>2, ThreadStep DEF AbortWrite
<1>8. QED BY <1>4, <1>5, <1>6, <1>7

(***************************************************************************)
(* Crash, recovery and the deletion of the template preserve it too.       *)
(***************************************************************************)
LEMMA SystemType ==
  ASSUME TypeInv, DeleteTemplate \/ Crash \/ Recover
  PROVE  TypeInv'
<1>0. /\ run \in RunRow /\ RowsHold(requests) /\ requests \in [RequestIds -> Row]
      /\ todo \subseteq RequestIds /\ crashes \in 0..MaxCrashes
      /\ fix \in [status : {"none", "waiting", "needs_reconciliation"}, step : StepIds]
  BY DEF TypeInv, TypeOK, RunRow, Row, RowsHold
<1>1. CASE DeleteTemplate
  BY <1>1 DEF DeleteTemplate, TypeInv, TypeOK, dbVars, bootVars
<1>2. CASE Crash
  <2>1. \A t \in Threads : ThreadHolds("idle", Fresh, requests')
    BY DEF ThreadHolds, Fresh, OnStep, Accepting, Executing
  <2>2. CutOff \subseteq Steps
    BY DEF CutOff, TypeInv, ThreadHolds, OnStep, Executing
  <2>3. TypeOK'
    <3>1. stranded' \in BOOLEAN
      BY <1>2, Zenon DEF Crash
    <3>2. QED BY <1>0, <1>2, <2>2, <3>1, FreshIsLocal, StepsAreIds
          DEF Crash, TypeInv, TypeOK, ClaimsLeft, NoFix, Labels, dbVars
  <2>4. QED BY <1>0, <1>2, <2>1, <2>3 DEF Crash, ClaimsLeft, TypeInv, RowsHold, dbVars
<1>3. ASSUME RowsStep, run' \in RunRow, todo' \subseteq todo,
             fix' \in [status : {"none", "waiting", "needs_reconciliation"}, step : StepIds],
             server' \in {"up", "recovering"},
             UNCHANGED <<template, pc, loc, crashes, stranded, spent, doubt>>
      PROVE  TypeInv'
  <2>1. TypeOK'
    BY <1>0, <1>3 DEF TypeInv, TypeOK, RunRow, RowsStep, RowsHold, Row
  <2>2. ASSUME NEW t \in Threads PROVE ThreadHolds(pc'[t], loc'[t], requests')
    BY <1>3 DEF TypeInv, RowsStep, ThreadHolds
  <2>3. \A r \in todo' : requests'[r].status # "none"
    BY <1>0, <1>3 DEF TypeInv, RowsStep
  <2>4. QED BY <1>3, <2>1, <2>2, <2>3 DEF TypeInv, RowsStep
<1>4. CASE RecoverRequest
  <2>1. PICK r \in todo, s \in {"cancelled", "resolved", "pending", "needs_reconciliation"} :
            /\ SetStatus(r, s)
            /\ todo' = todo \ {r}
            /\ \/ UNCHANGED fix
               \/ \E f \in {"waiting", "needs_reconciliation"} :
                     fix' = [status |-> f, step |-> requests[r].step]
    BY <1>4 DEF RecoverRequest
  <2>2. r \in RequestIds /\ requests[r].status # "none"
    BY <1>0 DEF TypeInv
  <2>3. RowsStep
    BY <2>1, <2>2, StatusStep DEF RequestStatus, ClosedRequest, OpenRequest, Actionable
  <2>4. requests[r].step \in StepIds
    BY <1>0, <2>2 DEF Row
  <2>5. fix' \in [status : {"none", "waiting", "needs_reconciliation"}, step : StepIds]
    BY <1>0, <2>1, <2>4
  <2>6. QED BY <1>0, <1>3, <1>4, <2>1, <2>3, <2>5 DEF RecoverRequest, TypeInv, TypeOK
<1>5. CASE RecoverRun
  <2>1. RowsStep
    BY <1>5, SameRows DEF RecoverRun
  <2>2. run' \in RunRow
    BY <1>0, <1>5, RunStep DEF RecoverRun, NoFix, RunStatus
  <2>3. QED BY <1>0, <1>3, <1>5, <2>1, <2>2, StepsAreIds DEF RecoverRun, NoFix, TypeInv, TypeOK
<1>6. CASE RecoverDone
  <2>1. RowsStep
    BY <1>6, SameRows DEF RecoverDone, dbVars
  <2>2. QED BY <1>0, <1>3, <1>6, <2>1 DEF RecoverDone, dbVars
<1>7. QED BY <1>1, <1>2, <1>4, <1>5, <1>6 DEF Recover

(***************************************************************************)
(* Every reachable state is well typed: the columns hold the statuses and  *)
(* step ids the engine writes, and every thread holds what its next        *)
(* statement uses.                                                         *)
(***************************************************************************)
LEMMA InitType == Init => TypeInv
<1> SUFFICES ASSUME Init PROVE TypeInv
  OBVIOUS
<1>1. \A t \in Threads : ThreadHolds(pc[t], loc[t], requests)
  BY DEF Init, ThreadHolds, Fresh, OnStep, Accepting, Executing
<1>2. TypeOK
  <2>1. stranded \in BOOLEAN
    BY Zenon DEF Init
  <2>2. QED BY <2>1, FreshIsLocal, StepsAreIds DEF Init, TypeOK, RunStatus, RequestStatus, Labels, NoFix
<1>3. QED BY <1>1, <1>2, StepsAreIds DEF Init, TypeInv, RowsHold, Row, RequestStatus

LEMMA NextType == TypeInv /\ [Next]_vars => TypeInv'
<1> SUFFICES ASSUME TypeInv, [Next]_vars PROVE TypeInv'
  OBVIOUS
<1>1. CASE \E t \in Threads : Call(t) \/ Continue(t)
  <2>1. PICK t \in Threads : Call(t) \/ Continue(t)
    BY <1>1
  <2>2. CASE Execute(t)
    BY <2>2, ExecuteType
  <2>3. CASE Start(t) \/ ResumeRead(t) \/ ResumeWrite(t) \/ ResumeCheck(t)
    BY <2>3, ResumeType
  <2>4. CASE CancelCall(t) \/ CancelRead(t) \/ CancelWrite(t)
    BY <2>4, StopType
  <2>5. CASE ResolveRead(t) \/ Claim(t) \/ DeclineFinal(t)
    BY <2>5, ClaimType
  <2>6. CASE \/ AcceptWrite(t) \/ AcceptCheck(t) \/ AcceptFinal(t)
             \/ AbortRelease(t) \/ AbortRead(t) \/ AbortWrite(t)
    BY <2>6, AcceptType
  <2>7. QED BY <2>1, <2>2, <2>3, <2>4, <2>5, <2>6 DEF Call, Continue
<1>2. CASE DeleteTemplate \/ Crash \/ Recover
  BY <1>2, SystemType
<1>3. CASE UNCHANGED vars
  BY <1>3 DEF vars, dbVars, bootVars, TypeInv, TypeOK, RowsHold, ThreadHolds
<1>4. QED BY <1>1, <1>2, <1>3 DEF Next

LEMMA TypeInvariant == Spec => []TypeInv
<1>1. QED BY InitType, NextType, PTL DEF Spec

\* Type correctness: every status, step id and local variable stays in the
\* domain the code gives it (store.py:60, the CREATE TABLE statements).
THEOREM TypeCorrect == Spec => []TypeOK
<1>1. TypeInv => TypeOK
  BY DEF TypeInv
<1>2. QED BY <1>1, TypeInvariant, PTL

(***************************************************************************)
(* Stop is final.  Every write of the run but the INSERT that creates it   *)
(* goes through update_workflow_run, whose WHERE clause spares a cancelled *)
(* row.                                                                    *)
(***************************************************************************)
LEMMA SealedStep == [Next]_vars => (run.status = "cancelled" => run' = run)
<1> SUFFICES ASSUME [Next]_vars, run.status = "cancelled" PROVE run' = run
  OBVIOUS
<1>1. ASSUME NEW t \in Threads, Execute(t) PROVE run' = run
  BY <1>1 DEF Execute, Load, Check, Dispatch, Recheck, Pop, Settle, AskLook, AskInsert,
              AskWrite, AskCheck, UpdateRun, dbVars
<1>2. ASSUME NEW t \in Threads, Call(t) PROVE run' = run
  BY <1>2 DEF Call, Start, ResumeRead, ResolveRead, CancelCall, dbVars
<1>3. ASSUME NEW t \in Threads, Continue(t) PROVE run' = run
  BY <1>1, <1>3 DEF Continue, ResumeWrite, ResumeCheck, Claim, AcceptWrite, AcceptCheck,
                    AcceptFinal, DeclineFinal, AbortRelease, AbortRead, AbortWrite,
                    CancelRead, CancelWrite, UpdateRun, dbVars
<1>4. CASE DeleteTemplate \/ Crash \/ Recover
  BY <1>4 DEF DeleteTemplate, Crash, Recover, RecoverRequest, RecoverRun, RecoverDone,
              UpdateRun, dbVars
<1>5. QED BY <1>2, <1>3, <1>4 DEF Next, vars

\* No executor, resume, answer or recovery changes a run whose cancellation is
\* committed (store.py:622, update_workflow_run).
THEOREM Sealed == Spec => CancelledIsSealed
<1>1. [Next]_vars => [run.status = "cancelled" => run' = run]_run
  BY SealedStep
<1>2. QED BY <1>1, PTL DEF Spec, CancelledIsSealed

(***************************************************************************)
(* The two invariants about request rows.  Neither is inductive alone:     *)
(* what startup recovery reopens must be a row that was left resolving,    *)
(* so ListIsFresh says what its list holds.                                *)
(***************************************************************************)
ListIsFresh ==
    /\ server = "up" => todo = {}
    /\ \A r \in todo : requests[r].status = "resolving"

RequestInv == TypeInv /\ ListIsFresh /\ OneOpenRequest /\ ClaimHasOwner

\* Rows open after a step were open before it, for the same workflow step.
OnlyCloses ==
    \A r \in RequestIds : requests'[r].status \in OpenRequest =>
        requests[r].status \in OpenRequest /\ requests'[r].step = requests[r].step

LEMMA Closing ==
  ASSUME OneOpenRequest, OnlyCloses
  PROVE  OneOpenRequest'
  BY DEF OneOpenRequest, OnlyCloses

LEMMA StatusCloses ==
  ASSUME TypeInv, NEW r \in RequestIds, NEW s \in RequestStatus, SetStatus(r, s),
         s \in OpenRequest => requests[r].status \in OpenRequest
  PROVE  OnlyCloses
  BY DEF TypeInv, RowsHold, Row, SetStatus, OnlyCloses

\* A step of thread t leaves every row that reads resolving with an owner if
\* the rows it still leaves so were t's before only when they are t's after.
LEMMA Owners ==
  ASSUME TypeInv, ClaimHasOwner, ListIsFresh, NEW t \in Threads,
         server = "up", UNCHANGED <<server, todo>>,
         NEW l, NEW v,
         pc' = [pc EXCEPT ![t] = l], loc' = [loc EXCEPT ![t] = v],
         \A r \in RequestIds : requests'[r].status = "resolving" =>
             \/ Owns(t, r)'
             \/ requests[r].status = "resolving" /\ ~Owns(t, r)
  PROVE  ClaimHasOwner' /\ ListIsFresh'
<1>1. \A u \in Threads : u # t => pc'[u] = pc[u] /\ loc'[u] = loc[u]
  BY DEF TypeInv, TypeOK
<1>2. \A u \in Threads, r \in RequestIds : u # t => (Owns(u, r)' <=> Owns(u, r))
  BY <1>1 DEF Owns
<1>3. ASSUME NEW r \in RequestIds, requests'[r].status = "resolving"
      PROVE  \E u \in Threads : Owns(u, r)'
  <2>1. CASE Owns(t, r)'
    BY <2>1
  <2>2. CASE requests[r].status = "resolving" /\ ~Owns(t, r)
    <3>1. PICK u \in Threads : Owns(u, r)
      BY <2>2 DEF ClaimHasOwner
    <3>2. QED BY <1>2, <2>2, <3>1
  <2>3. QED BY <1>3, <2>1, <2>2
<1>4. QED BY <1>3 DEF ClaimHasOwner, ListIsFresh

\* A step after which the thread still owns what it did and no row is newly
\* resolving.
LEMMA SameOwner ==
  ASSUME TypeInv, ClaimHasOwner, ListIsFresh, NEW t \in Threads,
         server = "up", UNCHANGED <<server, todo>>,
         \A r \in RequestIds : requests'[r].status = "resolving" => requests[r].status = "resolving",
         NEW l, NEW v,
         pc' = [pc EXCEPT ![t] = l], loc' = [loc EXCEPT ![t] = v],
         pc[t] # "decline_final",
         loc[t].op = "accept" => l \in Claiming /\ v.op = "accept" /\ v.claim = loc[t].claim
  PROVE  ClaimHasOwner' /\ ListIsFresh'
<1>1. pc'[t] = l /\ loc'[t] = v
  BY DEF TypeInv, TypeOK
<1>2. ASSUME NEW r \in RequestIds, Owns(t, r) PROVE Owns(t, r)'
  BY <1>1, <1>2 DEF Owns
<1>3. QED BY <1>2, Owners

\* The form every step of the executor has.
Keeps(t) ==
    \E l, v : /\ pc' = [pc EXCEPT ![t] = l]
              /\ loc' = [loc EXCEPT ![t] = v]
              /\ loc[t].op = "accept" =>
                    l \in Claiming /\ v.op = "accept" /\ v.claim = loc[t].claim

LEMMA LeavingKeeps ==
  ASSUME TypeInv, NEW t \in Threads, Return(t) \/ Raise(t)
  PROVE  Keeps(t)
<1>1. CASE loc[t].op = "accept"
  <2> DEFINE v == [Fresh EXCEPT !.op = "accept", !.claim = loc[t].claim]
  <2>1. v.op = "accept" /\ v.claim = loc[t].claim
    BY DEF Fresh
  <2>2. PICK l \in {"accept_final", "abort_release"} :
            pc' = [pc EXCEPT ![t] = l] /\ loc' = [loc EXCEPT ![t] = v]
    BY <1>1 DEF Return, Raise, Goto
  <2>3. QED BY <2>1, <2>2 DEF Keeps, Claiming
<1>2. CASE loc[t].op # "accept"
  BY <1>2 DEF Return, Raise, Finish, Goto, Keeps
<1>3. QED BY <1>1, <1>2

LEMMA GoingKeeps ==
  ASSUME TypeInv, NEW t \in Threads, NEW l \in Claiming, Goto(t, l),
         NEW v, loc' = [loc EXCEPT ![t] = v], v.op = loc[t].op, v.claim = loc[t].claim
  PROVE  Keeps(t)
  BY DEF Goto, Keeps

LEMMA ExecuteKeeps ==
  ASSUME TypeInv, NEW t \in Threads, Execute(t)
  PROVE  Keeps(t)
<1>0. loc \in [Threads -> Locals] /\ loc[t] \in Locals
  BY Known
<1>1. ASSUME NEW l \in Claiming, Goto(t, l), UNCHANGED loc PROVE Keeps(t)
  <2>1. loc' = [loc EXCEPT ![t] = loc[t]]
    BY <1>0, <1>1
  <2>2. QED BY <1>1, <2>1, GoingKeeps
<1>2. CASE Load(t)
  <2> DEFINE v == [loc[t] EXCEPT !.at = run.step, !.ctx = run.ctx]
  <2>1. v.op = loc[t].op /\ v.claim = loc[t].claim
    BY <1>0 DEF Locals
  <2>2. CASE Goto(t, "check") /\ loc' = [loc EXCEPT ![t].at = run.step, ![t].ctx = run.ctx]
    <3>1. loc' = [loc EXCEPT ![t] = v]
      BY <2>2
    <3>2. QED BY <2>1, <2>2, <3>1, GoingKeeps DEF Claiming, Executing
  <2>3. QED BY <1>2, <2>2, LeavingKeeps DEF Load
<1>3. CASE Check(t) \/ Recheck(t) \/ AskWrite(t) \/ AskCheck(t)
  <2>1. \/ Return(t)
        \/ UNCHANGED loc /\ \E l \in Claiming : Goto(t, l)
    BY <1>3 DEF Check, Recheck, AskWrite, AskCheck, Claiming, Executing
  <2>2. QED BY <1>1, <2>1, LeavingKeeps
<1>4. CASE Dispatch(t)
  <2>1. PICK out \in Outcomes(loc[t].at, loc[t].ctx) :
            loc' = [loc EXCEPT ![t] = [loc[t] EXCEPT !.acted = out.acted, !.ans = out.ans,
                                   !.late = loc[t].late \/ run.status = "cancelled"]]
    BY <1>4 DEF Dispatch
  <2> DEFINE v == [loc[t] EXCEPT !.acted = out.acted, !.ans = out.ans,
                                 !.late = loc[t].late \/ run.status = "cancelled"]
  <2>2. v.op = loc[t].op /\ v.claim = loc[t].claim
    BY <1>0 DEF Locals
  <2>3. loc' = [loc EXCEPT ![t] = v]
    BY <2>1
  <2>4. QED BY <1>4, <2>2, <2>3, GoingKeeps DEF Dispatch, Claiming, Executing
<1>5. CASE Pop(t)
  <2> DEFINE v == [loc[t] EXCEPT !.ctx = loc[t].ctx \ {loc[t].at}]
  <2>1. v.op = loc[t].op /\ v.claim = loc[t].claim
    BY <1>0 DEF Locals
  <2>2. loc' = [loc EXCEPT ![t] = v]
    BY <1>5 DEF Pop
  <2>3. QED BY <1>5, <2>1, <2>2, GoingKeeps DEF Pop, Claiming, Executing
<1>6. CASE Settle(t)
  <2> DEFINE v == [loc[t] EXCEPT !.at = NextStep(t), !.ans = "none", !.acted = FALSE]
  <2>1. v.op = loc[t].op /\ v.claim = loc[t].claim
    BY <1>0 DEF Locals
  <2>2. \/ Return(t)
        \/ /\ Goto(t, "check")
           /\ loc' = [loc EXCEPT ![t].at = NextStep(t), ![t].ans = "none", ![t].acted = FALSE]
    BY <1>6 DEF Settle
  <2>3. CASE /\ Goto(t, "check")
             /\ loc' = [loc EXCEPT ![t].at = NextStep(t), ![t].ans = "none", ![t].acted = FALSE]
    <3>1. loc' = [loc EXCEPT ![t] = v]
      BY <2>3
    <3>2. QED BY <2>1, <2>3, <3>1, GoingKeeps DEF Claiming, Executing
  <2>4. QED BY <2>2, <2>3, LeavingKeeps
<1>7. CASE AskLook(t) \/ AskInsert(t)
  <2>1. \/ Raise(t)
        \/ UNCHANGED loc /\ \E l \in Claiming : Goto(t, l)
        \/ \E r, l : /\ l \in Claiming /\ Goto(t, l)
                     /\ loc' = [loc EXCEPT ![t].row = r]
    <3>1. CASE AskLook(t)
      BY <3>1, Zenon DEF AskLook, Claiming, Executing
    <3>2. CASE AskInsert(t)
      <4>1. "ask_write" \in Claiming
        BY DEF Claiming, Executing
      <4>2. QED BY <3>2, <4>1, Zenon DEF AskInsert
    <3>3. QED BY <1>7, <3>1, <3>2
  <2>2. ASSUME NEW r, NEW l, l \in Claiming, Goto(t, l), loc' = [loc EXCEPT ![t].row = r]
        PROVE  Keeps(t)
    <3> DEFINE v == [loc[t] EXCEPT !.row = r]
    <3>1. v.op = loc[t].op /\ v.claim = loc[t].claim
      BY <1>0 DEF Locals
    <3>2. loc' = [loc EXCEPT ![t] = v]
      BY <2>2
    <3>3. QED BY <2>2, <3>1, <3>2, GoingKeeps
  <2>3. QED BY <1>1, <2>1, <2>2, LeavingKeeps
<1>8. QED BY <1>2, <1>3, <1>4, <1>5, <1>6, <1>7 DEF Execute

\* The INSERT of a new card: the only row of the step that was open is the one
\* the same transaction closes.
LEMMA InsertRequests ==
  ASSUME RequestInv, NEW t \in Threads, AskInsert(t)
  PROVE  /\ OneOpenRequest'
         /\ \A r \in RequestIds : requests'[r].status = "resolving" =>
                                  requests[r].status = "resolving"
<1>1. CASE UNCHANGED requests
  BY <1>1 DEF RequestInv, OneOpenRequest
<1>2. ASSUME Conflicts(t) = {}, NEW new \in FreeIds,
             requests' = [r \in RequestIds |->
                 CASE r = new -> [step |-> loc[t].at, status |-> "pending"]
                   [] r = loc[t].row /\ requests[r].status = "resolving" ->
                         [requests[r] EXCEPT !.status = "resolved"]
                   [] OTHER -> requests[r]]
      PROVE  /\ OneOpenRequest'
             /\ \A r \in RequestIds : requests'[r].status = "resolving" =>
                                      requests[r].status = "resolving"
  <2>1. new \in RequestIds /\ new # loc[t].row
    BY DEF FreeIds
  <2>2. requests'[new] = [step |-> loc[t].at, status |-> "pending"]
    BY <1>2, <2>1
  <2>3. ASSUME NEW r \in RequestIds, r # new
        PROVE  /\ requests'[r].status \in OpenRequest =>
                     /\ requests'[r] = requests[r]
                     /\ ~(r = loc[t].row /\ requests[r].status = "resolving")
               /\ requests'[r].status = "resolving" => requests[r].status = "resolving"
    <3>1. CASE r = loc[t].row /\ requests[r].status = "resolving"
      <4>1. requests'[r] = [requests[r] EXCEPT !.status = "resolved"]
        BY <1>2, <2>3, <3>1
      <4>2. requests[r] \in Row
        BY DEF RequestInv, TypeInv, RowsHold
      <4>3. requests'[r].status = "resolved"
        BY <4>1, <4>2 DEF Row
      <4>4. QED BY <4>3 DEF OpenRequest, Actionable
    <3>2. CASE ~(r = loc[t].row /\ requests[r].status = "resolving")
      <4>1. requests'[r] = requests[r]
        BY <1>2, <2>3, <3>2
      <4>2. QED BY <3>2, <4>1
    <3>3. QED BY <3>1, <3>2
  <2>4. ASSUME NEW r \in RequestIds, r # new, requests'[r].status \in OpenRequest
        PROVE  requests'[r].step # loc[t].at
    BY <1>2, <2>3, <2>4 DEF Conflicts, OpenFor
  <2>5. OneOpenRequest'
    BY <2>2, <2>3, <2>4 DEF OneOpenRequest, RequestInv
  <2>6. QED BY <2>2, <2>3, <2>5
<1>3. QED BY <1>1, <1>2 DEF AskInsert

LEMMA ExecuteRequests ==
  ASSUME RequestInv, NEW t \in Threads, Execute(t)
  PROVE  OneOpenRequest' /\ ClaimHasOwner' /\ ListIsFresh'
<1>1. /\ server = "up" /\ UNCHANGED <<server, todo>>
      /\ pc[t] # "decline_final"
  BY DEF Execute, Load, Check, Dispatch, Recheck, Pop, Settle, AskLook, AskInsert,
         AskWrite, AskCheck, At, bootVars
<1>2. PICK l, v : /\ pc' = [pc EXCEPT ![t] = l]
                  /\ loc' = [loc EXCEPT ![t] = v]
                  /\ loc[t].op = "accept" =>
                        l \in Claiming /\ v.op = "accept" /\ v.claim = loc[t].claim
  BY SMTT(60), ExecuteKeeps DEF Keeps, RequestInv
<1>3. /\ OneOpenRequest'
      /\ \A r \in RequestIds : requests'[r].status = "resolving" =>
                               requests[r].status = "resolving"
  <2>1. CASE UNCHANGED requests
    BY <2>1 DEF RequestInv, OneOpenRequest
  <2>2. CASE AskInsert(t)
    BY <2>2, InsertRequests
  <2>3. CASE AskCheck(t) /\ SetStatus(loc[t].row, "cancelled")
    <3>1. loc[t].row \in RequestIds
      BY <2>3, Known DEF AskCheck, At, ThreadHolds, RequestInv
    <3>2. OnlyCloses
      BY <2>3, <3>1, StatusCloses DEF RequestInv, RequestStatus, ClosedRequest, OpenRequest, Actionable
    <3>3. \A r \in RequestIds : requests'[r].status = "resolving" =>
                                requests[r].status = "resolving"
      BY <2>3, <3>1 DEF SetStatus, RequestInv, TypeInv, RowsHold, Row
    <3>4. QED BY <3>2, <3>3, Closing DEF RequestInv
  <2>4. QED
    BY <2>1, <2>2, <2>3
    DEF Execute, Load, Check, Dispatch, Recheck, Pop, Settle, AskLook, AskWrite, AskCheck, dbVars
<1>4. QED BY <1>1, <1>2, <1>3, SameOwner DEF RequestInv

\* Calls that touch no row and serve no claim.
LEMMA OtherRequests ==
  ASSUME RequestInv, TypeInv', NEW t \in Threads,
         \/ Call(t) \/ ResumeWrite(t) \/ ResumeCheck(t) \/ CancelRead(t) \/ CancelWrite(t)
         \/ AbortRead(t) \/ AbortWrite(t)
  PROVE  OneOpenRequest' /\ ClaimHasOwner' /\ ListIsFresh'
<1>1. /\ server = "up" /\ UNCHANGED <<server, todo, requests>>
      /\ pc[t] \notin Claiming \cup {"decline_final"}
  BY DEF Call, Start, ResumeRead, ResolveRead, CancelCall, ResumeWrite, ResumeCheck,
         CancelRead, CancelWrite, AbortRead, AbortWrite, At, dbVars, bootVars,
         Claiming, Executing
<1>2. \E l, v : pc' = [pc EXCEPT ![t] = l] /\ loc' = [loc EXCEPT ![t] = v]
  <2>1. loc = [loc EXCEPT ![t] = loc[t]]
    BY Known DEF RequestInv
  <2>2. CASE Call(t)
    <3>1. CASE Start(t)
      <4>1. loc' = [loc EXCEPT ![t] = [loc[t] EXCEPT !.op = "start"]]
        BY <3>1 DEF Start
      <4>2. QED BY <3>1, <4>1 DEF Start, Goto
    <3>2. CASE ResumeRead(t)
      <4>1. loc' = [loc EXCEPT ![t] = [loc[t] EXCEPT !.op = "resume", !.ctx = run.ctx]]
        BY <3>2 DEF ResumeRead
      <4>2. QED BY <3>2, <4>1 DEF ResumeRead, Goto
    <3>3. CASE ResolveRead(t)
      <4>1. PICK r, action :
                loc' = [loc EXCEPT ![t].op = action, ![t].claim = r, ![t].ctx = run.ctx]
        BY <3>3 DEF ResolveRead
      <4>2. loc' = [loc EXCEPT ![t] = [loc[t] EXCEPT !.op = action, !.claim = r,
                                                     !.ctx = run.ctx]]
        BY <4>1
      <4>3. QED BY <3>3, <4>2 DEF ResolveRead, Goto
    <3>4. CASE CancelCall(t)
      <4>1. loc' = [loc EXCEPT ![t] = [loc[t] EXCEPT !.op = "cancel"]]
        BY <3>4 DEF CancelCall
      <4>2. QED BY <3>4, <4>1 DEF CancelCall, Goto
    <3>5. QED BY <2>2, <3>1, <3>2, <3>3, <3>4 DEF Call
  <2>3. CASE ~Call(t)
    <3>1. \/ Finish(t)
          \/ UNCHANGED loc /\ \E l : Goto(t, l)
      BY <2>3 DEF ResumeWrite, ResumeCheck, CancelRead, CancelWrite, AbortRead, AbortWrite
    <3>2. QED BY <2>1, <3>1 DEF Finish, Goto
  <2>4. QED BY <2>2, <2>3
<1>3. \A r \in RequestIds : ~Owns(t, r)
  BY <1>1 DEF Owns
<1>4. ClaimHasOwner' /\ ListIsFresh'
  BY <1>1, <1>2, <1>3, Owners DEF RequestInv
<1>5. QED BY <1>1, <1>4 DEF RequestInv, OneOpenRequest

LEMMA ClaimRequests ==
  ASSUME RequestInv, NEW t \in Threads, Claim(t)
  PROVE  OneOpenRequest' /\ ClaimHasOwner' /\ ListIsFresh'
<1>1. /\ server = "up" /\ UNCHANGED <<server, todo>> /\ pc[t] = "claim"
      /\ loc[t].claim \in RequestIds
      /\ loc \in [Threads -> Locals] /\ pc \in [Threads -> Labels]
      /\ requests \in [RequestIds -> Row]
  BY Known DEF RequestInv, Claim, At, bootVars, ThreadHolds
<1>2. \A r \in RequestIds : ~Owns(t, r)
  BY <1>1 DEF Owns, Claiming, Executing
<1>3. CASE requests[loc[t].claim].status \in Actionable
  <2>1. SetStatus(loc[t].claim, "resolving") /\ UNCHANGED loc
    BY <1>3 DEF Claim
  <2>2. PICK l \in {"accept_write", "decline_final"} :
            /\ Goto(t, l)
            /\ l = "accept_write" => loc[t].op = "accept"
    BY <1>3 DEF Claim
  <2>3. OnlyCloses
    BY <1>1, <1>3, <2>1, StatusCloses DEF RequestInv, RequestStatus, OpenRequest
  <2>4. Owns(t, loc[t].claim)'
    BY <1>1, <2>1, <2>2 DEF Owns, Goto, Claiming
  <2>5. \A r \in RequestIds : r # loc[t].claim => requests'[r] = requests[r]
    BY <1>1, <2>1 DEF SetStatus
  <2>6. loc' = [loc EXCEPT ![t] = loc[t]]
    BY <1>1, <2>1
  <2>7. ClaimHasOwner' /\ ListIsFresh'
    BY <1>1, <1>2, <2>2, <2>4, <2>5, <2>6, Owners DEF RequestInv, Goto
  <2>8. QED BY <2>3, <2>7, Closing DEF RequestInv
<1>4. CASE requests[loc[t].claim].status \notin Actionable
  <2>1. Finish(t) /\ UNCHANGED requests
    BY <1>4 DEF Claim
  <2>2. ClaimHasOwner' /\ ListIsFresh'
    BY <1>1, <1>2, <2>1, Owners DEF RequestInv, Finish, Goto
  <2>3. QED BY <2>1, <2>2 DEF RequestInv, OneOpenRequest
<1>5. QED BY <1>3, <1>4

LEMMA AcceptRequests ==
  ASSUME RequestInv, NEW t \in Threads,
         \/ AcceptWrite(t) \/ AcceptCheck(t) \/ AcceptFinal(t)
         \/ DeclineFinal(t) \/ AbortRelease(t)
  PROVE  OneOpenRequest' /\ ClaimHasOwner' /\ ListIsFresh'
<1>1. /\ server = "up" /\ UNCHANGED <<server, todo>>
      /\ loc[t].claim \in RequestIds
      /\ loc \in [Threads -> Locals] /\ pc \in [Threads -> Labels]
      /\ requests \in [RequestIds -> Row]
  BY Known DEF RequestInv, AcceptWrite, AcceptCheck, AcceptFinal, DeclineFinal, AbortRelease,
               At, bootVars, ThreadHolds, Accepting
<1>2. loc = [loc EXCEPT ![t] = loc[t]]
  BY <1>1
<1>3. CASE \/ AcceptWrite(t)
           \/ AcceptCheck(t) /\ run.status = "running"
  <2>1. /\ UNCHANGED <<loc, requests>>
        /\ loc[t].op = "accept" /\ pc[t] # "decline_final"
        /\ \E l \in Claiming : Goto(t, l)
    BY <1>3, Known
    DEF RequestInv, AcceptWrite, AcceptCheck, At, ThreadHolds, Accepting, Claiming
  <2>2. ClaimHasOwner' /\ ListIsFresh'
    BY <1>1, <1>2, <2>1, SameOwner DEF RequestInv, Goto
  <2>3. QED BY <2>1, <2>2 DEF RequestInv, OneOpenRequest
<1>4. CASE \/ AcceptCheck(t) /\ run.status # "running"
           \/ AcceptFinal(t) \/ DeclineFinal(t) \/ AbortRelease(t)
  <2>1. /\ \/ \E s \in {"cancelled", "resolved"} : SetStatus(loc[t].claim, s)
           \/ SetStatus(loc[t].claim, "pending") /\ requests[loc[t].claim].status = "resolving"
           \/ UNCHANGED requests /\ requests[loc[t].claim].status # "resolving"
        /\ \/ Finish(t)
           \/ UNCHANGED loc /\ \E l : Goto(t, l)
    <3>1. CASE AcceptCheck(t) /\ run.status # "running"
      BY <3>1 DEF AcceptCheck
    <3>2. CASE AcceptFinal(t)
      BY <3>2 DEF AcceptFinal
    <3>3. CASE DeclineFinal(t)
      BY <3>3 DEF DeclineFinal
    <3>4. CASE AbortRelease(t)
      BY <3>4 DEF AbortRelease
    <3>5. QED BY <1>4, <3>1, <3>2, <3>3, <3>4
  <2>2. /\ requests'[loc[t].claim].status # "resolving"
        /\ \A r \in RequestIds : r # loc[t].claim => requests'[r] = requests[r]
    BY <1>1, <2>1 DEF SetStatus, Row
  <2>3. \A r \in RequestIds : r # loc[t].claim => ~Owns(t, r)
    BY DEF Owns
  <2>4. \E l, v : pc' = [pc EXCEPT ![t] = l] /\ loc' = [loc EXCEPT ![t] = v]
    BY <1>2, <2>1 DEF Finish, Goto
  <2>5. ClaimHasOwner' /\ ListIsFresh'
    <3>1. PICK l, v : pc' = [pc EXCEPT ![t] = l] /\ loc' = [loc EXCEPT ![t] = v]
      BY <2>4
    <3>2. \A r \in RequestIds : requests'[r].status = "resolving" =>
              requests[r].status = "resolving" /\ ~Owns(t, r)
      BY <2>2, <2>3
    <3>3. QED BY <1>1, <3>1, <3>2, Owners DEF RequestInv
  <2>6. OneOpenRequest'
    <3>1. CASE UNCHANGED requests
      BY <3>1 DEF RequestInv, OneOpenRequest
    <3>2. ASSUME NEW s \in {"cancelled", "resolved", "pending"}, SetStatus(loc[t].claim, s),
                 s = "pending" => requests[loc[t].claim].status = "resolving"
          PROVE  OneOpenRequest'
      <4>1. s \in RequestStatus
            /\ (s \in OpenRequest => requests[loc[t].claim].status \in OpenRequest)
        BY <3>2 DEF RequestStatus, ClosedRequest, OpenRequest, Actionable
      <4>2. OnlyCloses
        BY <1>1, <3>2, <4>1, StatusCloses DEF RequestInv
      <4>3. QED BY <4>2, Closing DEF RequestInv
    <3>3. QED BY <2>1, <3>1, <3>2
  <2>7. QED BY <2>5, <2>6
<1>5. QED BY <1>3, <1>4

\* A crash hands every claim to recovery; recovery gives back or closes the
\* rows of its list and no others.
LEMMA SystemRequests ==
  ASSUME RequestInv, DeleteTemplate \/ Crash \/ Recover
  PROVE  OneOpenRequest' /\ ClaimHasOwner' /\ ListIsFresh'
<1>1. CASE DeleteTemplate \/ Crash
  <2>1. OneOpenRequest'
    BY <1>1 DEF DeleteTemplate, Crash, dbVars, RequestInv, OneOpenRequest
  <2>2. CASE DeleteTemplate
    BY <2>1, <2>2 DEF DeleteTemplate, dbVars, bootVars, RequestInv, ClaimHasOwner, ListIsFresh, Owns
  <2>3. CASE Crash
    BY <2>1, <2>3 DEF Crash, ClaimsLeft, dbVars, ClaimHasOwner, ListIsFresh
  <2>4. QED BY <1>1, <2>2, <2>3
<1>2. CASE RecoverRequest
  <2>1. PICK r \in todo, s \in {"cancelled", "resolved", "pending", "needs_reconciliation"} :
            SetStatus(r, s) /\ todo' = todo \ {r}
    BY <1>2 DEF RecoverRequest
  <2>2. /\ r \in RequestIds /\ requests[r].status = "resolving"
        /\ requests \in [RequestIds -> Row]
    BY DEF RequestInv, ListIsFresh, TypeInv, TypeOK, RowsHold
  <2>3. OnlyCloses
    BY <2>1, <2>2, StatusCloses
    DEF RequestInv, RequestStatus, ClosedRequest, OpenRequest, Actionable
  <2>4. /\ requests'[r].status # "resolving"
        /\ \A q \in RequestIds : q # r => requests'[q] = requests[q]
    BY <2>1, <2>2 DEF SetStatus, Row
  <2>5. server = "recovering" /\ server' = "recovering"
    BY <1>2 DEF RecoverRequest
  <2>6. ClaimHasOwner'
    BY <2>1, <2>4, <2>5 DEF RequestInv, ClaimHasOwner
  <2>7. ListIsFresh'
    BY <2>1, <2>4, <2>5 DEF RequestInv, ListIsFresh, TypeInv, TypeOK
  <2>8. QED BY <2>3, <2>6, <2>7, Closing DEF RequestInv
<1>3. CASE RecoverRun
  BY <1>3 DEF RecoverRun, RequestInv, OneOpenRequest, ClaimHasOwner, ListIsFresh
<1>4. CASE RecoverDone
  BY <1>4 DEF RecoverDone, dbVars, RequestInv, OneOpenRequest, ClaimHasOwner, ListIsFresh
<1>5. QED BY <1>1, <1>2, <1>3, <1>4 DEF Recover

LEMMA RequestInvariant == Spec => []RequestInv
<1>1. Init => RequestInv
  <2>1. ASSUME Init PROVE OneOpenRequest /\ ClaimHasOwner /\ ListIsFresh
    BY <2>1 DEF Init, OneOpenRequest, ClaimHasOwner, ListIsFresh, OpenRequest, Actionable
  <2>2. QED BY <2>1, InitType DEF RequestInv
<1>2. RequestInv /\ [Next]_vars => RequestInv'
  <2> SUFFICES ASSUME RequestInv, [Next]_vars PROVE RequestInv'
    OBVIOUS
  <2>1. TypeInv'
    BY NextType DEF RequestInv
  <2>2. ASSUME NEW t \in Threads, Call(t) \/ Continue(t)
        PROVE  OneOpenRequest' /\ ClaimHasOwner' /\ ListIsFresh'
    <3>1. CASE Execute(t)
      BY <3>1, ExecuteRequests
    <3>2. CASE \/ Call(t) \/ ResumeWrite(t) \/ ResumeCheck(t) \/ CancelRead(t)
               \/ CancelWrite(t) \/ AbortRead(t) \/ AbortWrite(t)
      BY <2>1, <3>2, OtherRequests
    <3>3. CASE Claim(t)
      BY <3>3, ClaimRequests
    <3>4. CASE \/ AcceptWrite(t) \/ AcceptCheck(t) \/ AcceptFinal(t)
               \/ DeclineFinal(t) \/ AbortRelease(t)
      BY <3>4, AcceptRequests
    <3>5. QED BY <2>2, <3>1, <3>2, <3>3, <3>4 DEF Continue
  <2>3. CASE DeleteTemplate \/ Crash \/ Recover
    BY <2>1, <2>3, SystemRequests DEF RequestInv
  <2>4. CASE UNCHANGED vars
    <3>1. OneOpenRequest' /\ ListIsFresh'
      BY <2>4 DEF vars, dbVars, bootVars, RequestInv, OneOpenRequest, ListIsFresh
    <3>2. ClaimHasOwner'
      BY <2>4 DEF vars, dbVars, bootVars, RequestInv, ClaimHasOwner, Owns
    <3>3. QED BY <2>1, <3>1, <3>2 DEF RequestInv
  <2>5. QED BY <2>1, <2>2, <2>3, <2>4 DEF Next, RequestInv
<1>3. QED BY <1>1, <1>2, PTL DEF Spec

\* A step of a run never has two open request cards, whichever threads pause
\* on it, answer it or crash (store.py:786).
THEOREM OneOpen == Spec => []OneOpenRequest
<1>1. RequestInv => OneOpenRequest
  BY DEF RequestInv
<1>2. QED BY <1>1, RequestInvariant, PTL

\* No claim is ever lost: a row that reads "resolving" is held by a call that
\* will settle it or stands on the list of startup recovery (store.py:901,
\* request_recovery.py:28).
THEOREM ClaimOwner == Spec => []ClaimHasOwner
<1>1. RequestInv => ClaimHasOwner
  BY DEF RequestInv
<1>2. QED BY <1>1, RequestInvariant, PTL

(***************************************************************************)
(* The cards of a run that waits.  Two answers at once may leave it without *)
(* one; while calls about the run are served one after another (Stops may  *)
(* overlap them, and crashes cut them off) it keeps one.                    *)
(***************************************************************************)
Answering(l) == l \notin {"idle", "cancel_read", "cancel_write"}
Declines(l, v) == v.op = "decline" /\ l \in {"cancel_read", "cancel_write"}
Serves(l, v) == Answering(l) \/ Declines(l, v)
OneExecutor == \A t, u \in Threads : Serves(pc[t], loc[t]) /\ Serves(pc[u], loc[u]) => t = u

Waits(row) == row.status \in {"waiting", "needs_reconciliation"}
Card(reqs, s) == \E r \in RequestIds : reqs[r].step = s /\ reqs[r].status \in Actionable
OtherCard(reqs, s, c) == \E r \in RequestIds : r # c /\ reqs[r].step = s /\ reqs[r].status \in Actionable

\* Labels at which the run does not wait: it was started, resumed or answered.
Underway == {"resume_write", "resume_check", "accept_check", "abort_release", "abort_read",
             "abort_write", "load"} \cup (Executing \ {"ask_check"})

\* A thread at label l with locals v knows this of the run and the cards.
CardSeen(l, v, row, reqs) ==
    /\ l \in Underway => ~Waits(row)
    /\ l \in {"resume_write", "resume_check"} => v.op = "resume"
    /\ l = "claim" => (Waits(row) => Card(reqs, row.step))
    /\ l = "claim" => v.op \in {"accept", "decline"}
    /\ l = "decline_final" => v.op = "decline"
    /\ l \in {"accept_write", "decline_final"} =>
         /\ reqs[v.claim].status = "resolving"
         /\ Waits(row) => Card(reqs, row.step) \/ reqs[v.claim].step = row.step
    /\ l \in {"accept_check", "load", "abort_release"} \cup (Executing \ {"ask_write", "ask_check"})
          /\ v.op = "accept" => reqs[v.claim].status = "resolving"
    /\ l \in {"ask_write", "ask_check"} =>
         /\ reqs[v.row].step = v.at /\ reqs[v.row].status = "pending"
         /\ v.op = "accept" => v.row # v.claim
    /\ l = "ask_check" => (Waits(row) => row.step = v.at /\ row.status = "waiting")
    /\ l \in {"abort_read", "abort_write"} => reqs[v.claim].status = "pending"
    /\ l = "accept_final" => (Waits(row) => OtherCard(reqs, row.step, v.claim))

CardInv ==
    /\ server = "up" => \A t \in Threads : CardSeen(pc[t], loc[t], run, requests)
    /\ server = "up" /\ (\A t \in Threads : ~Serves(pc[t], loc[t])) /\ Waits(run) => Card(requests, run.step)
    /\ server = "recovering" =>
         /\ \A t \in Threads : pc[t] = "idle"
         /\ fix # NoFix => Card(requests, fix.step)
         /\ Waits(run) => Card(requests, run.step) \/ \E r \in todo : requests[r].step = run.step

\* A label at which no call about the run is served, and a run that has stopped waiting.
LEMMA NothingSeen ==
  ASSUME NEW l, ~Answering(l), NEW v, NEW row, NEW reqs
  PROVE  CardSeen(l, v, row, reqs)
BY DEF Answering, CardSeen, Underway, Executing

LEMMA StillSeen ==
  ASSUME NEW l, NEW v, NEW row, NEW reqs, CardSeen(l, v, row, reqs), NEW other, ~Waits(other)
  PROVE  CardSeen(l, v, other, reqs)
BY DEF CardSeen

\* A step of a thread that serves a call, before the step or after it.
LEMMA ServingStep ==
  ASSUME TypeInv, CardInv, OneExecutor, OneExecutor', server = "up", UNCHANGED server,
         NEW t \in Threads, NEW l, NEW v, pc' = [pc EXCEPT ![t] = l], loc' = [loc EXCEPT ![t] = v],
         Answering(pc[t]) \/ Answering(l),
         CardSeen(l, v, run', requests'),
         ~Answering(l) /\ ~Declines(l, v) /\ Waits(run') => Card(requests', run'.step)
  PROVE  CardInv'
<1>1. /\ pc'[t] = l /\ loc'[t] = v
      /\ \A u \in Threads : u # t => pc'[u] = pc[u] /\ loc'[u] = loc[u]
  BY DEF TypeInv, TypeOK
<1>2. ASSUME NEW u \in Threads, u # t PROVE ~Answering(pc'[u])
  BY <1>1, <1>2 DEF OneExecutor, Serves
<1>3. ASSUME NEW u \in Threads PROVE CardSeen(pc'[u], loc'[u], run', requests')
  <2>1. CASE u = t
    BY <1>1, <2>1
  <2>2. CASE u # t
    BY <1>2, <2>2, NothingSeen
  <2>3. QED BY <2>1, <2>2
<1>4. (\A u \in Threads : ~Serves(pc'[u], loc'[u])) /\ Waits(run') => Card(requests', run'.step)
  BY <1>1 DEF Serves
<1>5. QED BY <1>3, <1>4 DEF CardInv

\* A step of a thread that serves a Stop.
LEMMA StoppingStep ==
  ASSUME TypeInv, CardInv, server = "up", UNCHANGED <<server, requests>>,
         NEW t \in Threads, NEW l, NEW v, pc' = [pc EXCEPT ![t] = l], loc' = [loc EXCEPT ![t] = v],
         ~Answering(pc[t]), ~Answering(l), run' = run \/ ~Waits(run'),
         Declines(pc[t], loc[t]) /\ Waits(run') => Declines(l, v)
  PROVE  CardInv'
<1>1. /\ pc'[t] = l /\ loc'[t] = v
      /\ \A u \in Threads : u # t => pc'[u] = pc[u] /\ loc'[u] = loc[u]
  BY DEF TypeInv, TypeOK
<1>2. ASSUME NEW u \in Threads PROVE CardSeen(pc'[u], loc'[u], run', requests')
  <2>1. CASE u = t
    BY <1>1, <2>1, NothingSeen
  <2>2. CASE u # t
    <3>1. CardSeen(pc[u], loc[u], run, requests)
      BY DEF CardInv
    <3>2. QED BY <1>1, <2>2, <3>1, StillSeen
  <2>3. QED BY <2>1, <2>2
<1>3. (\A u \in Threads : ~Serves(pc'[u], loc'[u])) /\ Waits(run') => Card(requests', run'.step)
  <2>1. ASSUME \A u \in Threads : ~Serves(pc'[u], loc'[u]), Waits(run') PROVE Card(requests', run'.step)
    <3>1. \A u \in Threads : ~Serves(pc[u], loc[u])
      BY <1>1, <2>1 DEF Serves
    <3>2. QED BY <2>1, <3>1 DEF CardInv
  <2>2. QED BY <2>1
<1>4. QED BY <1>2, <1>3 DEF CardInv

\* What a thread that serves a call knows, in the form the steps use.
LEMMA Serving ==
  ASSUME RequestInv, CardInv, NEW t \in Threads, server = "up"
  PROVE  /\ CardSeen(pc[t], loc[t], run, requests) /\ ThreadHolds(pc[t], loc[t], requests)
         /\ TypeInv /\ requests \in [RequestIds -> Row] /\ run \in RunRow /\ loc \in [Threads -> Locals] /\ loc[t] \in Locals
         /\ pc \in [Threads -> Labels] /\ (loc' = loc => loc' = [loc EXCEPT ![t] = loc[t]])
BY Known DEF RequestInv, CardInv

\* A run that does not wait and is updated to a status that does not.
LEMMA NotWaiting ==
  ASSUME run \in RunRow, ~Waits(run), NEW new, UpdateRun(new), ~Waits(new)
  PROVE  ~Waits(run')
BY DEF UpdateRun

\* The executor returns or raises while the run does not wait.
LEMMA LeavingCards ==
  ASSUME RequestInv, CardInv, OneExecutor, OneExecutor', server = "up", UNCHANGED server,
         NEW t \in Threads, Answering(pc[t]), ~Waits(run'),
         \/ Return(t)
         \/ Raise(t) /\ (loc[t].op = "accept" => requests'[loc[t].claim].status = "resolving")
  PROVE  CardInv'
<1> DEFINE v == [Fresh EXCEPT !.op = "accept", !.claim = loc[t].claim]
<1>0. TypeInv
  BY DEF RequestInv
<1>1. CASE loc[t].op = "accept" /\ Return(t)
  <2>1. pc' = [pc EXCEPT ![t] = "accept_final"] /\ loc' = [loc EXCEPT ![t] = v]
    BY <1>1 DEF Return, Goto
  <2>2. CardSeen("accept_final", v, run', requests') /\ Answering("accept_final")
    BY DEF CardSeen, Underway, Executing, Answering
  <2> HIDE DEF v
  <2>3. QED BY <1>0, <2>1, <2>2, ServingStep
<1>2. CASE loc[t].op = "accept" /\ Raise(t) /\ requests'[loc[t].claim].status = "resolving"
  <2>1. pc' = [pc EXCEPT ![t] = "abort_release"] /\ loc' = [loc EXCEPT ![t] = v]
    BY <1>2 DEF Raise, Goto
  <2>2. v.claim = loc[t].claim
    BY DEF Fresh
  <2>3. CardSeen("abort_release", v, run', requests') /\ Answering("abort_release")
    BY <1>2, <2>2 DEF CardSeen, Underway, Executing, Answering
  <2> HIDE DEF v
  <2>4. QED BY <1>0, <2>1, <2>3, ServingStep
<1>3. CASE loc[t].op # "accept"
  <2>1. pc' = [pc EXCEPT ![t] = "idle"] /\ loc' = [loc EXCEPT ![t] = Fresh]
    BY <1>3 DEF Return, Raise, Finish, Goto
  <2>2. CardSeen("idle", Fresh, run', requests') /\ ~Answering("idle")
    BY NothingSeen DEF Answering
  <2>3. QED BY <1>0, <2>1, <2>2, ServingStep
<1>4. QED BY <1>1, <1>2, <1>3

\* The executor goes on while the run does not wait: its claim stays its own.
LEMMA GoingOn ==
  ASSUME RequestInv, CardInv, OneExecutor, OneExecutor', server = "up", UNCHANGED <<server, requests>>,
         NEW t \in Threads, pc[t] \in {"load"} \cup (Executing \ {"ask_write", "ask_check"}), ~Waits(run'),
         NEW l \in Executing \ {"ask_write", "ask_check"}, Goto(t, l),
         NEW v, loc' = [loc EXCEPT ![t] = v], v.op = loc[t].op, v.claim = loc[t].claim
  PROVE  CardInv'
<1>1. TypeInv /\ (loc[t].op = "accept" => requests[loc[t].claim].status = "resolving")
  BY Serving DEF CardSeen
<1>2. CardSeen(l, v, run', requests')
  BY <1>1 DEF CardSeen, Underway, Executing
<1>3. Answering(l)
  BY DEF Answering, Executing
<1>4. pc' = [pc EXCEPT ![t] = l]
  BY DEF Goto
<1>5. QED BY <1>1, <1>2, <1>3, <1>4, ServingStep

\* What the INSERT leaves in the new card's row.
LEMMA InsertedRow ==
  ASSUME NEW t \in Threads, NEW new \in RequestIds,
         requests' = [r \in RequestIds |->
             CASE r = new -> [step |-> loc[t].at, status |-> "pending"]
               [] r = loc[t].row /\ requests[r].status = "resolving" ->
                     [requests[r] EXCEPT !.status = "resolved"]
               [] OTHER -> requests[r]],
         new # loc[t].row
  PROVE  requests'[new] = [step |-> loc[t].at, status |-> "pending"]
OBVIOUS

(***************************************************************************)
(* The executor's steps                                                    *)
(***************************************************************************)
LEMMA ExecuteCards ==
  ASSUME RequestInv, CardInv, OneExecutor, OneExecutor', NEW t \in Threads, Execute(t)
  PROVE  CardInv'
<1>0. server = "up" /\ UNCHANGED server
  BY DEF Execute, Load, Check, Dispatch, Recheck, Pop, Settle, AskLook, AskInsert, AskWrite, AskCheck, At, bootVars
<1>a. /\ CardSeen(pc[t], loc[t], run, requests) /\ ThreadHolds(pc[t], loc[t], requests)
      /\ TypeInv /\ requests \in [RequestIds -> Row] /\ run \in RunRow /\ loc \in [Threads -> Locals] /\ loc[t] \in Locals
      /\ pc \in [Threads -> Labels] /\ (loc' = loc => loc' = [loc EXCEPT ![t] = loc[t]])
  BY <1>0, Serving
<1>b. /\ pc[t] \in {"load", "check", "exec", "recheck", "pop", "settle", "ask_look", "ask_insert", "ask_write"} =>
           Answering(pc[t]) /\ ~Waits(run)
      /\ pc[t] \in {"load", "check", "exec", "recheck", "pop", "settle", "ask_look", "ask_insert"} =>
           /\ pc[t] \in {"load"} \cup (Executing \ {"ask_write", "ask_check"})
           /\ (loc[t].op = "accept" => requests[loc[t].claim].status = "resolving")
  BY <1>a DEF CardSeen, Underway, Executing, Answering
<1>1. CASE Load(t)
  <2>1. UNCHANGED <<run, requests>> /\ pc[t] = "load"
    BY <1>1 DEF Load, dbVars, At
  <2>2. ~Waits(run')
    BY <1>b, <2>1
  <2>3. CASE Raise(t)
    BY <1>0, <1>b, <2>1, <2>2, <2>3, LeavingCards
  <2>4. CASE Goto(t, "check") /\ loc' = [loc EXCEPT ![t].at = run.step, ![t].ctx = run.ctx]
    <3> DEFINE v == [loc[t] EXCEPT !.at = run.step, !.ctx = run.ctx]
    <3>1. v.op = loc[t].op /\ v.claim = loc[t].claim /\ loc' = [loc EXCEPT ![t] = v]
      BY <1>a, <2>4 DEF Locals
    <3>2. "check" \in Executing \ {"ask_write", "ask_check"}
      BY DEF Executing
    <3> HIDE DEF v
    <3>3. QED BY <1>0, <1>b, <2>1, <2>2, <2>4, <3>1, <3>2, GoingOn
  <2>5. QED BY <1>1, <2>3, <2>4 DEF Load
<1>2. CASE Check(t)
  <2>1. UNCHANGED requests /\ pc[t] = "check"
    BY <1>2 DEF Check, At
  <2>2. ~Waits(run')
    <3>1. CASE UNCHANGED run
      BY <1>b, <2>1, <3>1
    <3>2. ASSUME NEW s \in {"completed", "failed"}, NEW at, UpdateRun([run EXCEPT !.status = s, !.step = at])
          PROVE  ~Waits(run')
      <4>1. [run EXCEPT !.status = s, !.step = at].status = s
        BY <1>a DEF RunRow
      <4>2. ~Waits([run EXCEPT !.status = s, !.step = at])
        BY <4>1 DEF Waits
      <4>3. QED BY <1>a, <1>b, <2>1, <3>2, <4>2, NotWaiting
    <3>3. QED BY <1>2, <3>1, <3>2 DEF Check
  <2>3. CASE Return(t)
    BY <1>0, <1>b, <2>1, <2>2, <2>3, LeavingCards
  <2>4. CASE Goto(t, "exec") /\ UNCHANGED loc
    <3>1. "exec" \in Executing \ {"ask_write", "ask_check"}
      BY DEF Executing
    <3>2. QED BY <1>0, <1>a, <1>b, <2>1, <2>2, <2>4, <3>1, GoingOn
  <2>5. QED BY <1>2, <2>3, <2>4 DEF Check
<1>3. CASE Dispatch(t)
  <2>1. UNCHANGED <<run, requests>> /\ pc[t] = "exec" /\ Goto(t, "recheck")
    BY <1>3 DEF Dispatch, dbVars, At
  <2>2. PICK out \in Outcomes(loc[t].at, loc[t].ctx) :
            loc' = [loc EXCEPT ![t] = [loc[t] EXCEPT !.acted = out.acted, !.ans = out.ans,
                                   !.late = loc[t].late \/ run.status = "cancelled"]]
    BY <1>3 DEF Dispatch
  <2> DEFINE v == [loc[t] EXCEPT !.acted = out.acted, !.ans = out.ans,
                                 !.late = loc[t].late \/ run.status = "cancelled"]
  <2>3. v.op = loc[t].op /\ v.claim = loc[t].claim
    BY <1>a DEF Locals
  <2>4. loc' = [loc EXCEPT ![t] = v]
    BY <2>2
  <2>5. "recheck" \in Executing \ {"ask_write", "ask_check"} /\ ~Waits(run')
    BY <1>b, <2>1 DEF Executing
  <2> HIDE DEF v
  <2>6. QED BY <1>0, <1>b, <2>1, <2>3, <2>4, <2>5, GoingOn
<1>4. CASE Recheck(t)
  <2>1. UNCHANGED <<run, requests>> /\ pc[t] = "recheck"
    BY <1>4 DEF Recheck, dbVars, At
  <2>2. ~Waits(run')
    BY <1>b, <2>1
  <2>3. CASE Return(t)
    BY <1>0, <1>b, <2>1, <2>2, <2>3, LeavingCards
  <2>4. ASSUME NEW l \in {"ask_look", "pop", "settle"}, Goto(t, l), UNCHANGED loc PROVE CardInv'
    <3>1. l \in Executing \ {"ask_write", "ask_check"}
      BY DEF Executing
    <3>2. QED BY <1>0, <1>a, <1>b, <2>1, <2>2, <2>4, <3>1, GoingOn
  <2>5. QED BY <1>4, <2>3, <2>4 DEF Recheck
<1>5. CASE Pop(t)
  <2> DEFINE v == [loc[t] EXCEPT !.ctx = loc[t].ctx \ {loc[t].at}]
             new == [run EXCEPT !.ctx = loc[t].ctx \ {loc[t].at}]
  <2>1. /\ UNCHANGED requests /\ pc[t] = "pop" /\ Goto(t, "settle")
        /\ loc' = [loc EXCEPT ![t] = v] /\ UpdateRun(new)
    BY <1>5 DEF Pop, At
  <2>2. v.op = loc[t].op /\ v.claim = loc[t].claim /\ new.status = run.status
    BY <1>a DEF Locals, RunRow
  <2> HIDE DEF v, new
  <2>3. ~Waits(new)
    BY <1>b, <2>1, <2>2 DEF Waits
  <2>4. "settle" \in Executing \ {"ask_write", "ask_check"} /\ ~Waits(run')
    BY <1>a, <1>b, <2>1, <2>3, NotWaiting DEF Executing
  <2>5. QED BY <1>0, <1>b, <2>1, <2>2, <2>4, GoingOn
<1>6. CASE Settle(t)
  <2>1. UNCHANGED requests /\ pc[t] = "settle"
    BY <1>6 DEF Settle, At
  <2>2. ~Waits(run')
    <3>1. ASSUME NEW s \in {"paused", "completed", "failed", "running"}, NEW at, UpdateRun([run EXCEPT !.status = s, !.step = at])
          PROVE  ~Waits(run')
      <4>1. [run EXCEPT !.status = s, !.step = at].status = s
        BY <1>a DEF RunRow
      <4>2. ~Waits([run EXCEPT !.status = s, !.step = at])
        BY <4>1 DEF Waits
      <4>3. QED BY <1>a, <1>b, <2>1, <3>1, <4>2, NotWaiting
    <3>2. QED BY <1>6, <3>1 DEF Settle
  <2>3. CASE Return(t)
    BY <1>0, <1>b, <2>1, <2>2, <2>3, LeavingCards
  <2>4. CASE /\ Goto(t, "check")
             /\ loc' = [loc EXCEPT ![t].at = NextStep(t), ![t].ans = "none", ![t].acted = FALSE]
    <3> DEFINE v == [loc[t] EXCEPT !.at = NextStep(t), !.ans = "none", !.acted = FALSE]
    <3>1. v.op = loc[t].op /\ v.claim = loc[t].claim /\ loc' = [loc EXCEPT ![t] = v]
      BY <1>a, <2>4 DEF Locals
    <3>2. "check" \in Executing \ {"ask_write", "ask_check"}
      BY DEF Executing
    <3> HIDE DEF v
    <3>3. QED BY <1>0, <1>b, <2>1, <2>2, <2>4, <3>1, <3>2, GoingOn
  <2>5. QED BY <1>6, <2>3, <2>4 DEF Settle
<1>7. CASE AskLook(t)
  <2> DEFINE found == {r \in OpenFor(loc[t].at) : requests[r].status # "needs_reconciliation"}
  <2>1. UNCHANGED <<run, requests>> /\ pc[t] = "ask_look"
    BY <1>7 DEF AskLook, dbVars, At
  <2>2. ~Waits(run')
    BY <1>b, <2>1
  <2>3. "ask_insert" \in Executing \ {"ask_write", "ask_check"}
    BY DEF Executing
  <2>4. CASE Goto(t, "ask_insert") /\ UNCHANGED loc
    BY <1>0, <1>a, <1>b, <2>1, <2>2, <2>3, <2>4, GoingOn
  <2>5. ASSUME NEW r \in found, Goto(t, IF requests[r].status = "pending" THEN "ask_write" ELSE "ask_insert"),
               loc' = [loc EXCEPT ![t].row = r]
        PROVE  CardInv'
    <3> DEFINE v == [loc[t] EXCEPT !.row = r]
    <3>1. r \in RequestIds /\ requests[r].step = loc[t].at
      BY DEF OpenFor
    <3>2. /\ v.op = loc[t].op /\ v.claim = loc[t].claim /\ v.at = loc[t].at /\ v.row = r
          /\ loc' = [loc EXCEPT ![t] = v]
      BY <1>a, <2>5 DEF Locals
    <3> HIDE DEF v
    <3>3. CASE requests[r].status = "pending"
      <4>1. pc' = [pc EXCEPT ![t] = "ask_write"]
        BY <2>5, <3>3 DEF Goto
      <4>2. v.op = "accept" => v.row # v.claim
        BY <1>b, <2>1, <3>2, <3>3
      <4>3. CardSeen("ask_write", v, run', requests') /\ Answering("ask_write")
        BY <2>1, <2>2, <3>1, <3>2, <3>3, <4>2 DEF CardSeen, Underway, Executing, Answering
      <4>4. QED BY <1>0, <1>a, <3>2, <4>1, <4>3, ServingStep
    <3>4. CASE requests[r].status # "pending"
      <4>1. Goto(t, "ask_insert")
        BY <2>5, <3>4
      <4>2. QED BY <1>0, <1>b, <2>1, <2>2, <2>3, <3>2, <4>1, GoingOn
    <3>5. QED BY <3>3, <3>4
  <2>6. QED BY <1>7, <2>4, <2>5, Zenon DEF AskLook
<1>8. CASE AskInsert(t)
  <2>1. UNCHANGED run /\ pc[t] = "ask_insert"
    BY <1>8 DEF AskInsert, At
  <2>2. ~Waits(run')
    BY <1>b, <2>1
  <2>3. CASE Raise(t) /\ UNCHANGED requests
    BY <1>0, <1>b, <2>1, <2>2, <2>3, LeavingCards
  <2>4. CASE Conflicts(t) = {} /\ ~(Raise(t) /\ UNCHANGED requests)
    <3>1. PICK new \in FreeIds :
            /\ requests' = [r \in RequestIds |->
                  CASE r = new -> [step |-> loc[t].at, status |-> "pending"]
                    [] r = loc[t].row /\ requests[r].status = "resolving" ->
                          [requests[r] EXCEPT !.status = "resolved"]
                    [] OTHER -> requests[r]]
            /\ loc' = [loc EXCEPT ![t].row = new]
      BY <1>8, <2>4, Zenon DEF AskInsert
    <3>2. pc' = [pc EXCEPT ![t] = "ask_write"]
      BY <1>8, <2>4 DEF AskInsert, Goto
    <3> DEFINE v == [loc[t] EXCEPT !.row = new]
    <3>3. new \in RequestIds /\ new # loc[t].claim /\ new # loc[t].row
      BY DEF FreeIds
    <3>4. /\ v.op = loc[t].op /\ v.claim = loc[t].claim /\ v.at = loc[t].at /\ v.row = new
          /\ loc' = [loc EXCEPT ![t] = v]
      BY <1>a, <3>1 DEF Locals
    <3> HIDE DEF v
    <3>5. requests'[new] = [step |-> loc[t].at, status |-> "pending"]
      BY <3>1, <3>3, InsertedRow, Zenon
    <3>6. requests'[new].step = loc[t].at /\ requests'[new].status = "pending"
      BY <3>5
    <3>7. CardSeen("ask_write", v, run', requests') /\ Answering("ask_write")
      BY <2>2, <3>3, <3>4, <3>6 DEF CardSeen, Underway, Executing, Answering
    <3>8. QED BY <1>0, <1>a, <3>2, <3>4, <3>7, ServingStep
  <2>5. QED BY <1>8, <2>3, <2>4 DEF AskInsert
<1>9. CASE AskWrite(t)
  <2>1. /\ UNCHANGED <<requests, loc>> /\ pc[t] = "ask_write" /\ pc' = [pc EXCEPT ![t] = "ask_check"]
        /\ UpdateRun([run EXCEPT !.status = "waiting", !.step = loc[t].at])
    BY <1>9 DEF AskWrite, At, Goto
  <2>2. Waits(run') => run'.step = loc[t].at /\ run'.status = "waiting"
    BY <1>a, <1>b, <2>1 DEF UpdateRun, RunRow
  <2>3. CardSeen("ask_check", loc[t], run', requests') /\ Answering("ask_check")
    BY <1>a, <2>1, <2>2 DEF CardSeen, Underway, Executing, Answering
  <2>4. QED BY <1>0, <1>a, <2>1, <2>3, ServingStep
<1>10. CASE AskCheck(t)
  <2> DEFINE r == loc[t].row
  <2>1. /\ UNCHANGED run /\ pc[t] = "ask_check" /\ Return(t)
        /\ IF run.status = "waiting" THEN UNCHANGED requests ELSE SetStatus(r, "cancelled")
    BY <1>10 DEF AskCheck, At
  <2>2. /\ r \in RequestIds /\ requests[r].step = loc[t].at /\ requests[r].status = "pending"
        /\ (loc[t].op = "accept" => r # loc[t].claim) /\ (Waits(run) => run.step = loc[t].at /\ run.status = "waiting")
    BY <1>a, <2>1 DEF CardSeen, ThreadHolds
  <2> HIDE DEF r
  <2>3. Waits(run') => requests'[r].step = loc[t].at /\ requests'[r].status \in Actionable
    BY <2>1, <2>2 DEF Actionable
  <2>4. /\ Waits(run') => Card(requests', run'.step)
        /\ Waits(run') /\ loc[t].op = "accept" => OtherCard(requests', run'.step, loc[t].claim)
    BY <2>1, <2>2, <2>3 DEF Card, OtherCard
  <2>5. CASE loc[t].op = "accept"
    <3> DEFINE v == [Fresh EXCEPT !.op = "accept", !.claim = loc[t].claim]
    <3>1. pc' = [pc EXCEPT ![t] = "accept_final"] /\ loc' = [loc EXCEPT ![t] = v] /\ v.claim = loc[t].claim
      BY <2>1, <2>5 DEF Return, Goto, Fresh
    <3> HIDE DEF v
    <3>2. CardSeen("accept_final", v, run', requests') /\ Answering("accept_final")
      BY <2>4, <2>5, <3>1 DEF CardSeen, Underway, Executing, Answering
    <3>3. QED BY <1>0, <1>a, <3>1, <3>2, ServingStep
  <2>6. CASE loc[t].op # "accept"
    <3>1. pc' = [pc EXCEPT ![t] = "idle"] /\ loc' = [loc EXCEPT ![t] = Fresh]
      BY <2>1, <2>6 DEF Return, Finish, Goto
    <3>2. CardSeen("idle", Fresh, run', requests') /\ ~Answering("idle") /\ Answering(pc[t])
      BY <2>1, NothingSeen DEF Answering
    <3>3. QED BY <1>0, <1>a, <2>4, <3>1, <3>2, ServingStep
  <2>7. QED BY <2>5, <2>6
<1>11. QED BY <1>1, <1>2, <1>3, <1>4, <1>5, <1>6, <1>7, <1>8, <1>9, <1>10 DEF Execute

(***************************************************************************)
(* The other calls                                                         *)
(***************************************************************************)

\* A call that is taken up finds the card of a run that waits: nobody serves another.
LEMMA QuietCard ==
  ASSUME TypeInv, CardInv, OneExecutor', server = "up",
         NEW t \in Threads, pc[t] = "idle", NEW l, Answering(l), pc' = [pc EXCEPT ![t] = l],
         NEW v, loc' = [loc EXCEPT ![t] = v], Waits(run)
  PROVE  Card(requests, run.step)
<1>1. pc'[t] = l /\ \A u \in Threads : u # t => pc'[u] = pc[u] /\ loc'[u] = loc[u]
  BY DEF TypeInv, TypeOK
<1>2. \A u \in Threads : u # t => ~Serves(pc[u], loc[u])
  BY <1>1 DEF OneExecutor, Serves
<1>3. ~Serves(pc[t], loc[t])
  BY DEF Serves, Declines, Answering
<1>4. QED BY <1>2, <1>3 DEF CardInv

LEMMA CallCards ==
  ASSUME RequestInv, CardInv, OneExecutor, OneExecutor', NEW t \in Threads, Call(t)
  PROVE  CardInv'
<1>0. server = "up" /\ UNCHANGED server /\ pc[t] = "idle"
  BY DEF Call, Start, ResumeRead, ResolveRead, CancelCall, At, bootVars
<1>a. /\ TypeInv /\ requests \in [RequestIds -> Row] /\ run \in RunRow /\ loc \in [Threads -> Locals] /\ loc[t] \in Locals
  BY <1>0, Serving
<1>1. CASE Start(t)
  <2> DEFINE v == [loc[t] EXCEPT !.op = "start"]
  <2>1. /\ pc' = [pc EXCEPT ![t] = "load"] /\ loc' = [loc EXCEPT ![t] = v] /\ run'.status = "running"
    BY <1>1 DEF Start, Goto
  <2>2. v.op = "start" /\ ~Waits(run')
    BY <1>a, <2>1 DEF Locals, Waits
  <2> HIDE DEF v
  <2>3. CardSeen("load", v, run', requests') /\ Answering("load")
    BY <2>2 DEF CardSeen, Underway, Executing, Answering
  <2>4. QED BY <1>0, <1>a, <2>1, <2>3, ServingStep
<1>2. CASE ResumeRead(t)
  <2> DEFINE v == [loc[t] EXCEPT !.op = "resume", !.ctx = run.ctx]
  <2>1. /\ pc' = [pc EXCEPT ![t] = "resume_write"] /\ loc' = [loc EXCEPT ![t] = v] /\ run' = run /\ run.status = "paused"
    BY <1>2 DEF ResumeRead, Goto, dbVars
  <2>2. v.op = "resume" /\ ~Waits(run')
    BY <1>a, <2>1 DEF Locals, Waits
  <2> HIDE DEF v
  <2>3. CardSeen("resume_write", v, run', requests') /\ Answering("resume_write")
    BY <2>2 DEF CardSeen, Underway, Executing, Answering
  <2>4. QED BY <1>0, <1>a, <2>1, <2>3, ServingStep
<1>3. CASE ResolveRead(t)
  <2>1. PICK r \in RequestIds, action \in {"accept", "decline"} :
            loc' = [loc EXCEPT ![t].op = action, ![t].claim = r, ![t].ctx = run.ctx]
    BY <1>3 DEF ResolveRead
  <2> DEFINE v == [loc[t] EXCEPT !.op = action, !.claim = r, !.ctx = run.ctx]
  <2>6. v.op \in {"accept", "decline"}
    BY <1>a DEF Locals
  <2>2. pc' = [pc EXCEPT ![t] = "claim"] /\ loc' = [loc EXCEPT ![t] = v] /\ run' = run /\ requests' = requests
    <3>1. pc' = [pc EXCEPT ![t] = "claim"] /\ run' = run /\ requests' = requests
      BY <1>3 DEF ResolveRead, Goto, dbVars
    <3>2. loc' = [loc EXCEPT ![t] = v]
      BY <2>1, <1>a
    <3>3. QED BY <3>1, <3>2
  <2> HIDE DEF v
  <2>3. Answering("claim")
    BY DEF Answering
  <2>4. Waits(run) => Card(requests, run.step)
    BY <1>0, <1>a, <2>2, <2>3, QuietCard
  <2>5. CardSeen("claim", v, run', requests')
    BY <2>2, <2>4, <2>6 DEF CardSeen, Underway, Executing
  <2>7. QED BY <1>0, <1>a, <2>2, <2>3, <2>5, ServingStep
<1>4. CASE CancelCall(t)
  <2> DEFINE v == [loc[t] EXCEPT !.op = "cancel"]
  <2>1. pc' = [pc EXCEPT ![t] = "cancel_read"] /\ loc' = [loc EXCEPT ![t] = v] /\ run' = run /\ requests' = requests
    BY <1>4 DEF CancelCall, Goto, dbVars
  <2> HIDE DEF v
  <2>2. ~Answering(pc[t]) /\ ~Answering("cancel_read") /\ ~Declines(pc[t], loc[t])
    BY <1>0 DEF Answering, Declines
  <2>3. QED BY <1>0, <1>a, <2>1, <2>2, StoppingStep
<1>5. QED BY <1>1, <1>2, <1>3, <1>4 DEF Call

LEMMA AnswerCards ==
  ASSUME RequestInv, CardInv, OneExecutor, OneExecutor', NEW t \in Threads,
         \/ ResumeWrite(t) \/ ResumeCheck(t) \/ Claim(t) \/ AcceptWrite(t) \/ AcceptCheck(t) \/ AcceptFinal(t)
         \/ DeclineFinal(t) \/ AbortRelease(t) \/ AbortRead(t) \/ AbortWrite(t)
  PROVE  CardInv'
<1>0. server = "up" /\ UNCHANGED server
  BY DEF ResumeWrite, ResumeCheck, Claim, AcceptWrite, AcceptCheck, AcceptFinal, DeclineFinal, AbortRelease,
         AbortRead, AbortWrite, At, bootVars
<1> DEFINE c == loc[t].claim
<1>a. /\ CardSeen(pc[t], loc[t], run, requests) /\ ThreadHolds(pc[t], loc[t], requests)
      /\ TypeInv /\ requests \in [RequestIds -> Row] /\ run \in RunRow /\ loc \in [Threads -> Locals] /\ loc[t] \in Locals
      /\ pc \in [Threads -> Labels] /\ (loc' = loc => loc' = [loc EXCEPT ![t] = loc[t]])
  BY <1>0, Serving
<1>b. /\ pc[t] \in {"resume_write", "resume_check", "accept_check", "abort_release", "abort_read", "abort_write"} => ~Waits(run)
      /\ pc[t] \in {"accept_write", "accept_check", "accept_final", "abort_release", "abort_read", "abort_write"} => loc[t].op = "accept"
      /\ pc[t] \in {"claim", "accept_write", "accept_check", "accept_final", "decline_final", "abort_release", "abort_read", "abort_write"} =>
            c \in RequestIds
  BY <1>a DEF CardSeen, ThreadHolds, Underway, Accepting
<1>c. ASSUME NEW s \in RequestStatus, SetStatus(c, s), c \in RequestIds
      PROVE  /\ requests'[c].status = s /\ requests'[c].step = requests[c].step
             /\ \A r \in RequestIds : r # c => requests'[r] = requests[r]
  BY <1>a, <1>c DEF SetStatus, Row
<1> HIDE DEF c
<1>d. ASSUME Finish(t), Answering(pc[t]), Waits(run') => Card(requests', run'.step) PROVE CardInv'
  <2>1. pc' = [pc EXCEPT ![t] = "idle"] /\ loc' = [loc EXCEPT ![t] = Fresh]
    BY <1>d DEF Finish, Goto
  <2>2. CardSeen("idle", Fresh, run', requests')
    BY NothingSeen DEF Answering
  <2>3. QED BY <1>0, <1>a, <1>d, <2>1, <2>2, ServingStep
<1>e. ASSUME NEW l, Goto(t, l), loc' = loc, Answering(pc[t]), CardSeen(l, loc[t], run', requests'),
             ~Answering(l) /\ ~Declines(l, loc[t]) /\ Waits(run') => Card(requests', run'.step)
      PROVE  CardInv'
  <2>1. pc' = [pc EXCEPT ![t] = l] /\ loc' = [loc EXCEPT ![t] = loc[t]]
    BY <1>a, <1>e DEF Goto
  <2>2. QED BY <1>0, <1>a, <1>e, <2>1, ServingStep
<1>1. CASE ResumeWrite(t)
  <2> DEFINE new == [run EXCEPT !.status = "running", !.ctx = loc[t].ctx]
  <2>1. UNCHANGED <<requests, loc>> /\ pc[t] = "resume_write" /\ Goto(t, "resume_check") /\ UpdateRun(new)
    BY <1>1 DEF ResumeWrite, At
  <2>2. new.status = "running"
    BY <1>a DEF RunRow
  <2> HIDE DEF new
  <2>3. ~Waits(run') /\ loc[t].op = "resume"
    BY <1>a, <1>b, <2>1, <2>2, NotWaiting DEF Waits, CardSeen
  <2>4. CardSeen("resume_check", loc[t], run', requests') /\ Answering("resume_check") /\ Answering(pc[t])
    BY <2>1, <2>3 DEF CardSeen, Underway, Executing, Answering
  <2>5. QED BY <1>e, <2>1, <2>4
<1>2. CASE ResumeCheck(t)
  <2>1. UNCHANGED <<run, requests>> /\ pc[t] = "resume_check" /\ ((Goto(t, "load") /\ UNCHANGED loc) \/ Finish(t))
    BY <1>2 DEF ResumeCheck, At, dbVars
  <2>2. ~Waits(run') /\ loc[t].op = "resume" /\ Answering(pc[t])
    BY <1>a, <1>b, <2>1 DEF CardSeen, Answering
  <2>3. CardSeen("load", loc[t], run', requests') /\ Answering("load")
    BY <2>2 DEF CardSeen, Underway, Executing, Answering
  <2>4. QED BY <1>d, <1>e, <2>1, <2>2, <2>3
<1>3. CASE Claim(t)
  <2>1. UNCHANGED run /\ pc[t] = "claim" /\ Answering(pc[t]) /\ c \in RequestIds /\ (Waits(run) => Card(requests, run.step))
    BY <1>a, <1>b, <1>3 DEF Claim, At, Answering, CardSeen
  <2>2. CASE Finish(t) /\ UNCHANGED requests
    BY <1>d, <2>1, <2>2
  <2>3. CASE SetStatus(c, "resolving") /\ UNCHANGED loc /\ Goto(t, IF loc[t].op = "accept" THEN "accept_write" ELSE "decline_final")
    <3>1. PICK l \in {"accept_write", "decline_final"} : Goto(t, l) /\ (l = "decline_final" => loc[t].op = "decline")
      BY <1>a, <2>1, <2>3 DEF CardSeen
    <3>2. /\ requests'[c].status = "resolving" /\ requests'[c].step = requests[c].step
          /\ \A r \in RequestIds : r # c => requests'[r] = requests[r]
      BY <1>c, <2>1, <2>3 DEF RequestStatus, OpenRequest
    <3>3. Waits(run') => Card(requests', run'.step) \/ requests'[c].step = run'.step
      BY <2>1, <3>2 DEF Card
    <3>4. CardSeen(l, loc[t], run', requests') /\ Answering(l)
      BY <3>1, <3>2, <3>3 DEF CardSeen, Underway, Executing, Answering, c
    <3>5. QED BY <1>e, <2>1, <2>3, <3>1, <3>4
  <2>4. QED BY <1>3, <2>2, <2>3 DEF Claim, c
<1>4. CASE AcceptWrite(t)
  <2> DEFINE s == requests[c].step
             new == [status |-> "running", step |-> s, ctx |-> loc[t].ctx \cup {s}]
  <2>1. UNCHANGED <<requests, loc>> /\ pc[t] = "accept_write" /\ Goto(t, "accept_check") /\ UpdateRun(new)
    BY <1>4 DEF AcceptWrite, At, c
  <2>2. ~Waits(run')
    BY <2>1 DEF UpdateRun, Waits
  <2> HIDE DEF new
  <2>3. CardSeen("accept_check", loc[t], run', requests') /\ Answering("accept_check") /\ Answering(pc[t])
    BY <1>a, <2>1, <2>2 DEF CardSeen, Underway, Executing, Answering
  <2>4. QED BY <1>e, <2>1, <2>3
<1>5. CASE AcceptCheck(t)
  <2>1. UNCHANGED run /\ pc[t] = "accept_check" /\ ((Goto(t, "load") /\ UNCHANGED <<requests, loc>>) \/ Finish(t))
    BY <1>5 DEF AcceptCheck, At
  <2>2. ~Waits(run') /\ Answering(pc[t])
    BY <1>b, <2>1 DEF Answering
  <2>3. UNCHANGED requests => CardSeen("load", loc[t], run', requests')
    BY <1>a, <1>b, <2>1, <2>2 DEF CardSeen, Underway, Executing
  <2>4. Answering("load")
    BY DEF Answering
  <2>5. QED BY <1>d, <1>e, <2>1, <2>2, <2>3, <2>4
<1>6. CASE AcceptFinal(t)
  <2>1. UNCHANGED run /\ pc[t] = "accept_final" /\ SetStatus(c, "resolved") /\ Finish(t) /\ Answering(pc[t]) /\ c \in RequestIds
    BY <1>b, <1>6 DEF AcceptFinal, At, Answering, c
  <2>2. Waits(run) => OtherCard(requests, run.step, c)
    BY <1>a, <2>1 DEF CardSeen, c
  <2>3. \A r \in RequestIds : r # c => requests'[r] = requests[r]
    BY <1>c, <2>1 DEF RequestStatus, ClosedRequest
  <2>4. Waits(run') => Card(requests', run'.step)
    BY <2>1, <2>2, <2>3 DEF Card, OtherCard
  <2>5. QED BY <1>d, <2>1, <2>4
<1>7. CASE DeclineFinal(t)
  <2>1. UNCHANGED <<run, loc>> /\ pc[t] = "decline_final" /\ Goto(t, "cancel_read") /\ Answering(pc[t])
    BY <1>7 DEF DeclineFinal, At, Answering
  <2>2. Declines("cancel_read", loc[t])
    BY <1>a, <2>1 DEF CardSeen, Declines
  <2>3. CardSeen("cancel_read", loc[t], run', requests')
    BY NothingSeen DEF Answering
  <2>4. QED BY <1>e, <2>1, <2>2, <2>3
<1>8. CASE AbortRelease(t)
  <2>1. /\ UNCHANGED <<run, loc>> /\ pc[t] = "abort_release" /\ Goto(t, "abort_read") /\ Answering(pc[t]) /\ c \in RequestIds
        /\ IF requests[c].status = "resolving" THEN SetStatus(c, "pending") ELSE UNCHANGED requests
    BY <1>b, <1>8 DEF AbortRelease, At, Answering, c
  <2>2. requests[c].status = "resolving" /\ ~Waits(run')
    BY <1>a, <1>b, <2>1 DEF CardSeen, c
  <2>3. requests'[c].status = "pending"
    BY <1>c, <2>1, <2>2 DEF RequestStatus, OpenRequest, Actionable
  <2>4. CardSeen("abort_read", loc[t], run', requests') /\ Answering("abort_read")
    BY <2>2, <2>3 DEF CardSeen, Underway, Executing, Answering, c
  <2>5. QED BY <1>e, <2>1, <2>4
<1>9. CASE AbortRead(t)
  <2>1. UNCHANGED <<run, requests>> /\ pc[t] = "abort_read" /\ ((Goto(t, "abort_write") /\ UNCHANGED loc) \/ Finish(t)) /\ Answering(pc[t])
    BY <1>9 DEF AbortRead, At, dbVars, Answering
  <2>2. ~Waits(run')
    BY <1>b, <2>1
  <2>3. CardSeen("abort_write", loc[t], run', requests') /\ Answering("abort_write")
    BY <1>a, <2>1, <2>2 DEF CardSeen, Underway, Executing, Answering
  <2>4. QED BY <1>d, <1>e, <2>1, <2>2, <2>3
<1>10. CASE AbortWrite(t)
  <2>1. /\ UNCHANGED requests /\ pc[t] = "abort_write" /\ Finish(t) /\ Answering(pc[t]) /\ c \in RequestIds
        /\ UpdateRun([run EXCEPT !.status = "waiting", !.step = requests[c].step])
    BY <1>b, <1>10 DEF AbortWrite, At, Answering, c
  <2>2. requests[c].status = "pending" /\ ~Waits(run)
    BY <1>a, <1>b, <2>1 DEF CardSeen, c
  <2>3. Waits(run') => run'.step = requests[c].step
    BY <1>a, <2>1, <2>2 DEF UpdateRun, RunRow
  <2>4. Waits(run') => Card(requests', run'.step)
    BY <2>1, <2>2, <2>3 DEF Card, Actionable
  <2>5. QED BY <1>d, <2>1, <2>4
<1>11. QED BY <1>1, <1>2, <1>3, <1>4, <1>5, <1>6, <1>7, <1>8, <1>9, <1>10

LEMMA StopCards ==
  ASSUME RequestInv, CardInv, NEW t \in Threads, CancelRead(t) \/ CancelWrite(t)
  PROVE  CardInv'
<1>1. server = "up" /\ UNCHANGED <<server, requests>> /\ ~Answering(pc[t])
  BY DEF CancelRead, CancelWrite, At, dbVars, bootVars, Answering
<1>2. TypeInv /\ run \in RunRow /\ (loc' = loc => loc' = [loc EXCEPT ![t] = loc[t]])
  BY <1>1, Serving
<1>3. run' = run \/ ~Waits(run')
  <2>1. CASE CancelRead(t)
    BY <2>1 DEF CancelRead, dbVars
  <2>2. CASE CancelWrite(t)
    <3>1. [run EXCEPT !.status = "cancelled"].status = "cancelled"
      BY <1>2 DEF RunRow
    <3>2. QED BY <2>2, <3>1 DEF CancelWrite, UpdateRun, Waits
  <2>3. QED BY <2>1, <2>2
<1>4. CASE Finish(t) /\ ~Waits(run')
  <2>1. pc' = [pc EXCEPT ![t] = "idle"] /\ loc' = [loc EXCEPT ![t] = Fresh] /\ ~Answering("idle")
    BY <1>4 DEF Finish, Goto, Answering
  <2>2. QED BY <1>1, <1>2, <1>3, <1>4, <2>1, StoppingStep
<1>5. CASE Goto(t, "cancel_write") /\ UNCHANGED loc
  <2>1. pc' = [pc EXCEPT ![t] = "cancel_write"] /\ loc' = [loc EXCEPT ![t] = loc[t]] /\ ~Answering("cancel_write")
    BY <1>2, <1>5 DEF Goto, Answering
  <2>2. Declines(pc[t], loc[t]) => Declines("cancel_write", loc[t])
    BY DEF Declines
  <2>3. QED BY <1>1, <1>2, <1>3, <2>1, <2>2, StoppingStep
<1>6. CASE CancelRead(t)
  <2>1. run.status \in TerminalRun => ~Waits(run')
    BY <1>6 DEF CancelRead, dbVars, TerminalRun, Waits
  <2>2. QED BY <1>4, <1>5, <1>6, <2>1 DEF CancelRead
<1>7. CASE CancelWrite(t)
  <2>1. [run EXCEPT !.status = "cancelled"].status = "cancelled"
    BY <1>2 DEF RunRow
  <2>2. ~Waits(run')
    BY <1>7, <2>1 DEF CancelWrite, UpdateRun, Waits
  <2>3. QED BY <1>4, <1>7, <2>2 DEF CancelWrite
<1>8. QED BY <1>6, <1>7

(***************************************************************************)
(* Crashes and recovery                                                    *)
(***************************************************************************)

\* Whoever else is cut off, the card of a run that waits is there or its row is on the
\* list startup recovery makes.
LEMMA CardOrClaim ==
  ASSUME RequestInv, CardInv, Waits(run), \A t \in Threads : ~Declining(t)
  PROVE  Card(requests, run.step) \/ \E r \in ClaimsLeft : requests[r].step = run.step
<1>1. CASE server = "up"
  <2>1. CASE \A t \in Threads : ~Answering(pc[t])
    BY <1>1, <2>1 DEF CardInv, Serves, Declines, Declining
  <2>2. ASSUME NEW t \in Threads, Answering(pc[t])
        PROVE  Card(requests, run.step) \/ \E r \in ClaimsLeft : requests[r].step = run.step
    <3>1. CardSeen(pc[t], loc[t], run, requests) /\ ThreadHolds(pc[t], loc[t], requests) /\ pc[t] \in Labels
      BY <1>1, Serving
    <3>2. pc[t] \in {"claim", "accept_write", "decline_final", "accept_final", "ask_check"}
      BY <2>2, <3>1 DEF CardSeen, Underway, Executing, Labels, Answering
    <3>3. CASE pc[t] = "claim"
      BY <3>1, <3>3 DEF CardSeen
    <3>4. CASE pc[t] \in {"accept_write", "decline_final"}
      <4>1. loc[t].claim \in RequestIds /\ requests[loc[t].claim].status = "resolving"
        BY <3>1, <3>4 DEF CardSeen, ThreadHolds, Accepting
      <4>2. Card(requests, run.step) \/ requests[loc[t].claim].step = run.step
        BY <3>1, <3>4 DEF CardSeen
      <4>3. QED BY <4>1, <4>2 DEF ClaimsLeft
    <3>5. CASE pc[t] = "accept_final"
      BY <3>1, <3>5 DEF CardSeen, OtherCard, Card
    <3>6. CASE pc[t] = "ask_check"
      <4>1. /\ loc[t].row \in RequestIds /\ requests[loc[t].row].status = "pending"
            /\ requests[loc[t].row].step = run.step
        BY <3>1, <3>6 DEF CardSeen, ThreadHolds
      <4>2. QED BY <4>1 DEF Card, Actionable
    <3>7. QED BY <3>2, <3>3, <3>4, <3>5, <3>6
  <2>3. QED BY <2>1, <2>2
<1>2. CASE server = "recovering"
  <2>1. todo \subseteq ClaimsLeft
    BY DEF RequestInv, TypeInv, TypeOK, ListIsFresh, ClaimsLeft
  <2>2. QED BY <1>2, <2>1 DEF CardInv
<1>3. QED BY <1>1, <1>2 DEF RequestInv, TypeInv, TypeOK

LEMMA SystemCards ==
  ASSUME RequestInv, CardInv, DeleteTemplate \/ Crash \/ Recover
  PROVE  stranded' \/ CardInv'
<1>1. CASE DeleteTemplate
  BY <1>1 DEF DeleteTemplate, dbVars, bootVars, CardInv
<1>2. CASE Crash
  <2>1. /\ server' = "recovering" /\ todo' = ClaimsLeft /\ fix' = NoFix /\ run' = run /\ requests' = requests
        /\ \A t \in Threads : pc'[t] = "idle"
    BY <1>2 DEF Crash, dbVars
  <2>2. CASE \E t \in Threads : Declining(t)
    BY <1>2, <2>2 DEF Crash
  <2>3. CASE \A t \in Threads : ~Declining(t)
    <3>1. Waits(run) => Card(requests, run.step) \/ \E r \in ClaimsLeft : requests[r].step = run.step
      BY <2>3, CardOrClaim
    <3>2. QED BY <2>1, <3>1 DEF CardInv
  <2>4. QED BY <2>2, <2>3
<1>3. CASE RecoverRequest
  <2>1. /\ server = "recovering" /\ server' = "recovering" /\ fix = NoFix /\ run' = run /\ pc' = pc
        /\ \A t \in Threads : pc[t] = "idle"
        /\ Waits(run) => Card(requests, run.step) \/ \E r \in todo : requests[r].step = run.step
    BY <1>3 DEF RecoverRequest, CardInv
  <2>2. PICK r \in todo : /\ todo' = todo \ {r}
                          /\ \/ /\ run.status \in TerminalRun
                                /\ SetStatus(r, IF run.status = "cancelled" THEN "cancelled" ELSE "resolved")
                                /\ UNCHANGED fix
                             \/ /\ run.status \notin TerminalRun /\ SafeToReplay(r)
                                /\ SetStatus(r, "pending")
                                /\ fix' = [status |-> "waiting", step |-> requests[r].step]
                             \/ /\ run.status \notin TerminalRun /\ ~SafeToReplay(r)
                                /\ SetStatus(r, "needs_reconciliation")
                                /\ fix' = [status |-> "needs_reconciliation", step |-> requests[r].step]
    BY <1>3 DEF RecoverRequest
  <2>3. r \in RequestIds /\ requests[r].status = "resolving" /\ requests \in [RequestIds -> Row] /\ todo \subseteq RequestIds
    BY DEF RequestInv, ListIsFresh, TypeInv, TypeOK, RowsHold
  <2>4. CASE run.status \in TerminalRun
    <3>1. ~Waits(run)
      BY <2>4 DEF TerminalRun, Waits
    <3>2. fix' = NoFix
      BY <2>1, <2>2, <2>4
    <3>3. QED BY <2>1, <3>1, <3>2 DEF CardInv
  <2>5. CASE run.status \notin TerminalRun
    <3>1. PICK s \in Actionable : SetStatus(r, s) /\ fix'.step = requests[r].step
      BY <2>2, <2>5 DEF Actionable
    <3>2. /\ requests'[r].status = s /\ requests'[r].step = requests[r].step
          /\ \A q \in RequestIds : q # r => requests'[q] = requests[q]
      BY <2>3, <3>1 DEF SetStatus, Row
    <3>3. Card(requests', fix'.step)
      BY <2>3, <3>1, <3>2 DEF Card
    <3>4. ASSUME Waits(run) PROVE Card(requests', run.step) \/ \E q \in todo' : requests'[q].step = run.step
      <4>1. CASE Card(requests, run.step)
        <5>1. PICK q \in RequestIds : requests[q].step = run.step /\ requests[q].status \in Actionable
          BY <4>1 DEF Card
        <5>2. q # r
          BY <2>3, <5>1 DEF Actionable
        <5>3. QED BY <3>2, <5>1, <5>2 DEF Card
      <4>2. ASSUME NEW q \in todo, requests[q].step = run.step
            PROVE  Card(requests', run.step) \/ \E p \in todo' : requests'[p].step = run.step
        <5>1. CASE q = r
          BY <2>3, <3>1, <3>2, <4>2, <5>1 DEF Card
        <5>2. CASE q # r
          BY <2>2, <2>3, <3>2, <4>2, <5>2
        <5>3. QED BY <5>1, <5>2
      <4>3. QED BY <2>1, <3>4, <4>1, <4>2
    <3>5. QED BY <2>1, <3>3, <3>4 DEF CardInv
  <2>6. QED BY <2>4, <2>5
<1>4. CASE RecoverRun
  <2>1. /\ server = "recovering" /\ server' = "recovering" /\ fix # NoFix /\ fix' = NoFix /\ pc' = pc /\ requests' = requests /\ todo' = todo
        /\ UpdateRun([run EXCEPT !.status = fix.status, !.step = fix.step])
        /\ (\A t \in Threads : pc[t] = "idle") /\ Card(requests, fix.step)
    BY <1>4 DEF RecoverRun, CardInv
  <2>2. run \in RunRow
    BY DEF RequestInv, TypeInv, TypeOK, RunRow
  <2>3. Waits(run') => run'.step = fix.step
    BY <2>1, <2>2 DEF UpdateRun, RunRow, Waits
  <2>4. QED BY <2>1, <2>3 DEF CardInv
<1>5. CASE RecoverDone
  <2>1. /\ server = "recovering" /\ server' = "up" /\ todo = {} /\ pc' = pc /\ loc' = loc /\ run' = run /\ requests' = requests
        /\ (\A t \in Threads : pc[t] = "idle") /\ (Waits(run) => Card(requests, run.step))
    BY <1>5 DEF RecoverDone, dbVars, CardInv
  <2>2. \A t \in Threads : CardSeen(pc[t], loc[t], run, requests)
    BY <2>1, NothingSeen DEF Answering
  <2>3. QED BY <2>1, <2>2 DEF CardInv
<1>6. QED BY <1>1, <1>2, <1>3, <1>4, <1>5 DEF Recover

LEMMA CardsStay ==
  ASSUME RequestInv, CardInv, OneExecutor, OneExecutor', [Next]_vars
  PROVE  stranded' \/ CardInv'
<1>1. ASSUME NEW t \in Threads, Call(t) \/ Continue(t) PROVE CardInv'
  <2>1. CASE Call(t)
    BY <2>1, CallCards
  <2>2. CASE Execute(t)
    BY <2>2, ExecuteCards
  <2>3. CASE \/ ResumeWrite(t) \/ ResumeCheck(t) \/ Claim(t) \/ AcceptWrite(t) \/ AcceptCheck(t) \/ AcceptFinal(t)
             \/ DeclineFinal(t) \/ AbortRelease(t) \/ AbortRead(t) \/ AbortWrite(t)
    BY <2>3, AnswerCards
  <2>4. CASE CancelRead(t) \/ CancelWrite(t)
    BY <2>4, StopCards
  <2>5. QED BY <1>1, <2>1, <2>2, <2>3, <2>4 DEF Continue
<1>2. CASE DeleteTemplate \/ Crash \/ Recover
  BY <1>2, SystemCards
<1>3. CASE UNCHANGED vars
  BY <1>3 DEF vars, dbVars, bootVars, CardInv
<1>4. QED BY <1>1, <1>2, <1>3 DEF Next

\* A decline that was cut off stays known.
LEMMA StrandedStays == stranded /\ [Next]_vars => stranded'
<1> SUFFICES ASSUME stranded, [Next]_vars PROVE stranded'
  OBVIOUS
<1>1. CASE UNCHANGED stranded
  BY <1>1
<1>2. CASE Crash
  BY <1>2 DEF Crash
<1>3. ASSUME NEW t \in Threads, Call(t) \/ Continue(t) PROVE UNCHANGED stranded
  <2>1. CASE Call(t)
    BY <2>1 DEF Call, Start, ResumeRead, ResolveRead, CancelCall, bootVars
  <2>2. CASE Execute(t)
    BY <2>2 DEF Execute, Load, Check, Dispatch, Recheck, Pop, Settle, AskLook, AskInsert, AskWrite, AskCheck, bootVars
  <2>3. CASE \/ ResumeWrite(t) \/ ResumeCheck(t) \/ Claim(t) \/ AcceptWrite(t) \/ AcceptCheck(t) \/ AcceptFinal(t)
             \/ DeclineFinal(t) \/ AbortRelease(t) \/ AbortRead(t) \/ AbortWrite(t) \/ CancelRead(t) \/ CancelWrite(t)
    BY <2>3 DEF ResumeWrite, ResumeCheck, Claim, AcceptWrite, AcceptCheck, AcceptFinal, DeclineFinal, AbortRelease,
                AbortRead, AbortWrite, CancelRead, CancelWrite, bootVars
  <2>4. QED BY <1>3, <2>1, <2>2, <2>3 DEF Continue
<1>4. CASE DeleteTemplate \/ Recover
  BY <1>4 DEF DeleteTemplate, Recover, RecoverRequest, RecoverRun, RecoverDone, bootVars
<1>5. CASE UNCHANGED vars
  BY <1>5 DEF vars, bootVars
<1>6. QED BY <1>1, <1>2, <1>3, <1>4, <1>5 DEF Next

\* While the calls that start, resume or answer a run are served one after another, with
\* any number of Stops beside them and crashes in the middle of any, a run that waits
\* for the user shows a card of its current step that can be answered, unless a crash
\* has cut a decline off between closing its card and stopping the run (store.py:786,
\* request_recovery.py:28, request_lifecycle.py:371).
THEOREM WaitingIsAnswerable == Spec /\ []OneExecutor => []WaitingHasCard
<1>1. Init => CardInv
  <2>1. ASSUME Init PROVE CardInv
    <3>1. /\ server = "up" /\ run.status = "none" /\ \A t \in Threads : pc[t] = "idle"
      BY <2>1 DEF Init
    <3>2. ~Waits(run)
      BY <3>1 DEF Waits
    <3>3. \A t \in Threads : CardSeen(pc[t], loc[t], run, requests)
      BY <3>1, NothingSeen DEF Answering
    <3>4. QED BY <3>1, <3>2, <3>3 DEF CardInv
  <2>2. QED BY <2>1
<1>2. stranded \/ CardInv => WaitingHasCard
  <2>1. ASSUME CardInv, server = "up", \A t \in Threads : pc[t] = "idle", run.status \in {"waiting", "needs_reconciliation"}
        PROVE  \E r \in RequestIds : requests[r].step = run.step /\ requests[r].status \in Actionable
    <3>1. Waits(run) /\ \A t \in Threads : ~Serves(pc[t], loc[t])
      BY <2>1 DEF Waits, Answering, Serves, Declines
    <3>2. Card(requests, run.step)
      BY <2>1, <3>1 DEF CardInv
    <3>3. QED BY <3>2 DEF Card
  <2>2. QED BY <2>1 DEF WaitingHasCard
<1>3. RequestInv /\ (stranded \/ CardInv) /\ OneExecutor /\ OneExecutor' /\ [Next]_vars => stranded' \/ CardInv'
  BY CardsStay, StrandedStays
<1>4. QED BY <1>1, <1>2, <1>3, RequestInvariant, PTL DEF Spec

(***************************************************************************)
(* Calls after a Stop.  A thread that has called a tool once the           *)
(* cancellation was committed is about to test it again.                   *)
(***************************************************************************)
LateInv == \A t \in Threads : loc[t].late => pc[t] = "recheck" /\ run.status = "cancelled"

\* A step of thread t to label l with locals v.
LEMMA LateStep ==
  ASSUME TypeInv, LateInv, NEW t \in Threads, NEW l, NEW v,
         pc' = [pc EXCEPT ![t] = l], loc' = [loc EXCEPT ![t] = v],
         run.status = "cancelled" => run' = run,
         v.late => l = "recheck" /\ run'.status = "cancelled"
  PROVE  LateInv'
<1>1. pc \in [Threads -> Labels] /\ loc \in [Threads -> Locals]
  BY DEF TypeInv, TypeOK
<1>2. ASSUME NEW u \in Threads, loc'[u].late PROVE pc'[u] = "recheck" /\ run'.status = "cancelled"
  <2>1. CASE u = t
    BY <1>1, <1>2, <2>1
  <2>2. CASE u # t
    <3>1. loc'[u] = loc[u] /\ pc'[u] = pc[u]
      BY <1>1, <2>2
    <3>2. QED BY <1>2, <3>1 DEF LateInv
  <2>3. QED BY <2>1, <2>2
<1>3. QED BY <1>2 DEF LateInv

\* A thread that returns, fails or answers forgets its call.
LEMMA LateLeaves ==
  ASSUME TypeInv, LateInv, NEW t \in Threads, run.status = "cancelled" => run' = run,
         Return(t) \/ Raise(t) \/ Finish(t)
  PROVE  LateInv'
<1> DEFINE v == [Fresh EXCEPT !.op = "accept", !.claim = loc[t].claim]
<1>1. ~Fresh.late /\ ~v.late
  BY DEF Fresh
<1>2. CASE Finish(t)
  BY <1>1, <1>2, LateStep DEF Finish, Goto
<1>3. CASE loc[t].op = "accept" /\ (Return(t) \/ Raise(t))
  <2>1. PICK l \in {"accept_final", "abort_release"} : pc' = [pc EXCEPT ![t] = l] /\ loc' = [loc EXCEPT ![t] = v]
    BY <1>3 DEF Return, Raise, Goto
  <2> HIDE DEF v
  <2>2. QED BY <1>1, <2>1, LateStep
<1>4. QED BY <1>2, <1>3 DEF Return, Raise

\* A thread that has made no late call, and makes none in this step.
LEMMA LateGoes ==
  ASSUME TypeInv, LateInv, NEW t \in Threads, pc[t] # "recheck", NEW l, Goto(t, l),
         run.status = "cancelled" => run' = run,
         NEW v, loc' = [loc EXCEPT ![t] = v], v.late = loc[t].late
  PROVE  LateInv'
<1>1. ~v.late
  BY DEF LateInv
<1>2. QED BY <1>1, LateStep DEF Goto

LEMMA LateMoves ==
  ASSUME TypeInv, LateInv, NEW t \in Threads, pc[t] # "recheck", NEW l, Goto(t, l), UNCHANGED loc,
         run.status = "cancelled" => run' = run
  PROVE  LateInv'
<1>1. loc' = [loc EXCEPT ![t] = loc[t]]
  BY DEF TypeInv, TypeOK
<1>2. QED BY <1>1, LateGoes

LEMMA ExecuteLate ==
  ASSUME TypeInv, LateInv, NEW t \in Threads, Execute(t), run.status = "cancelled" => run' = run
  PROVE  LateInv'
<1>0. loc[t] \in Locals /\ loc \in [Threads -> Locals]
  BY DEF TypeInv, TypeOK
<1>1. CASE Load(t)
  <2>1. CASE ~template
    BY <1>1, <2>1, LateLeaves DEF Load
  <2>2. CASE template
    <3> DEFINE v == [loc[t] EXCEPT !.at = run.step, !.ctx = run.ctx]
    <3>1. v.late = loc[t].late
      BY <1>0 DEF Locals
    <3>2. Goto(t, "check") /\ loc' = [loc EXCEPT ![t] = v] /\ pc[t] # "recheck"
      BY <1>0, <1>1, <2>2 DEF Load, At
    <3> HIDE DEF v
    <3>3. QED BY <3>1, <3>2, LateGoes
  <2>3. QED BY <2>1, <2>2
<1>2. CASE Check(t)
  <2>1. pc[t] # "recheck" /\ (Return(t) \/ (Goto(t, "exec") /\ UNCHANGED loc))
    BY <1>2 DEF Check, At
  <2>2. QED BY <2>1, LateLeaves, LateMoves
<1>3. CASE Dispatch(t)
  <2>1. PICK out \in Outcomes(loc[t].at, loc[t].ctx) :
          loc' = [loc EXCEPT ![t] = [loc[t] EXCEPT !.acted = out.acted, !.ans = out.ans,
                                    !.late = loc[t].late \/ run.status = "cancelled"]]
    BY <1>3 DEF Dispatch
  <2> DEFINE v == [loc[t] EXCEPT !.acted = out.acted, !.ans = out.ans,
                                 !.late = loc[t].late \/ run.status = "cancelled"]
  <2>2. ~loc[t].late /\ run' = run /\ pc' = [pc EXCEPT ![t] = "recheck"]
    BY <1>3 DEF Dispatch, At, LateInv, dbVars, Goto
  <2>3. v.late => run.status = "cancelled"
    BY <1>0, <2>2 DEF Locals
  <2> HIDE DEF v
  <2>4. loc' = [loc EXCEPT ![t] = v]
    BY <2>1 DEF v
  <2>5. QED BY <2>2, <2>3, <2>4, LateStep
<1>4. CASE Recheck(t)
  <2>1. CASE DurableCancelled
    BY <1>4, <2>1, LateLeaves DEF Recheck
  <2>2. CASE ~DurableCancelled
    <3>1. ~loc[t].late /\ run' = run /\ UNCHANGED loc
      BY <1>4, <2>2 DEF Recheck, DurableCancelled, LateInv, dbVars
    <3>2. PICK l : Goto(t, l)
      BY <1>4, <2>2 DEF Recheck
    <3>3. loc' = [loc EXCEPT ![t] = loc[t]]
      BY <1>0, <3>1
    <3>4. QED BY <3>1, <3>2, <3>3, LateStep DEF Goto
  <2>3. QED BY <2>1, <2>2
<1>5. CASE Pop(t)
  <2> DEFINE v == [loc[t] EXCEPT !.ctx = loc[t].ctx \ {loc[t].at}]
  <2>1. v.late = loc[t].late
    BY <1>0 DEF Locals
  <2>2. Goto(t, "settle") /\ loc' = [loc EXCEPT ![t] = v] /\ pc[t] # "recheck"
    BY <1>0, <1>5 DEF Pop, At
  <2> HIDE DEF v
  <2>3. QED BY <2>1, <2>2, LateGoes
<1>6. CASE Settle(t)
  <2>1. CASE Return(t)
    BY <2>1, LateLeaves
  <2>2. CASE ~Return(t)
    <3> DEFINE v == [loc[t] EXCEPT !.at = NextStep(t), !.ans = "none", !.acted = FALSE]
    <3>1. v.late = loc[t].late
      BY <1>0 DEF Locals
    <3>2. Goto(t, "check") /\ loc' = [loc EXCEPT ![t] = v] /\ pc[t] # "recheck"
      BY <1>0, <1>6, <2>2 DEF Settle, At
    <3> HIDE DEF v
    <3>3. QED BY <3>1, <3>2, LateGoes
  <2>3. QED BY <2>1, <2>2
<1>7. CASE AskLook(t)
  <2>1. pc[t] # "recheck"
    BY <1>7 DEF AskLook, At
  <2>2. CASE Goto(t, "ask_insert") /\ UNCHANGED loc
    BY <2>1, <2>2, LateMoves
  <2>3. ASSUME NEW r \in RequestIds, NEW l, Goto(t, l), loc' = [loc EXCEPT ![t].row = r] PROVE LateInv'
    <3> DEFINE v == [loc[t] EXCEPT !.row = r]
    <3>1. v.late = loc[t].late /\ loc' = [loc EXCEPT ![t] = v]
      BY <1>0, <2>3 DEF Locals
    <3> HIDE DEF v
    <3>2. QED BY <2>1, <2>3, <3>1, LateGoes
  <2>4. QED BY <1>7, <2>2, <2>3 DEF AskLook, OpenFor
<1>8. CASE AskInsert(t)
  <2>1. pc[t] # "recheck"
    BY <1>8 DEF AskInsert, At
  <2>2. CASE Raise(t)
    BY <2>2, LateLeaves
  <2>3. ASSUME NEW r \in RequestIds, Goto(t, "ask_write"), loc' = [loc EXCEPT ![t].row = r] PROVE LateInv'
    <3> DEFINE v == [loc[t] EXCEPT !.row = r]
    <3>1. v.late = loc[t].late /\ loc' = [loc EXCEPT ![t] = v]
      BY <1>0, <2>3 DEF Locals
    <3> HIDE DEF v
    <3>2. QED BY <2>1, <2>3, <3>1, LateGoes
  <2>4. QED BY <1>8, <2>2, <2>3 DEF AskInsert, FreeIds
<1>9. CASE AskWrite(t) \/ AskCheck(t)
  <2>1. pc[t] # "recheck" /\ (Return(t) \/ (Goto(t, "ask_check") /\ UNCHANGED loc))
    BY <1>9 DEF AskWrite, AskCheck, At
  <2>2. QED BY <2>1, LateLeaves, LateMoves
<1>10. QED BY <1>1, <1>2, <1>3, <1>4, <1>5, <1>6, <1>7, <1>8, <1>9 DEF Execute

LEMMA OtherLate ==
  ASSUME TypeInv, LateInv, NEW t \in Threads, run.status = "cancelled" => run' = run,
         \/ Call(t) \/ ResumeWrite(t) \/ ResumeCheck(t)
         \/ Claim(t) \/ AcceptWrite(t) \/ AcceptCheck(t) \/ AcceptFinal(t) \/ DeclineFinal(t)
         \/ AbortRelease(t) \/ AbortRead(t) \/ AbortWrite(t) \/ CancelRead(t) \/ CancelWrite(t)
  PROVE  LateInv'
<1>0. loc[t] \in Locals /\ loc \in [Threads -> Locals]
  BY DEF TypeInv, TypeOK
<1>1. CASE Call(t)
  <2>1. ~loc[t].late /\ pc[t] # "recheck"
    BY <1>1 DEF Call, Start, ResumeRead, ResolveRead, CancelCall, At, LateInv
  <2>2. ASSUME NEW o, NEW l, Goto(t, l), loc' = [loc EXCEPT ![t].op = o] PROVE LateInv'
    <3> DEFINE v == [loc[t] EXCEPT !.op = o]
    <3>1. v.late = loc[t].late /\ loc' = [loc EXCEPT ![t] = v]
      BY <1>0, <2>2 DEF Locals
    <3> HIDE DEF v
    <3>2. QED BY <2>1, <2>2, <3>1, LateGoes
  <2>3. CASE Start(t) \/ CancelCall(t)
    BY <2>2, <2>3 DEF Start, CancelCall
  <2>4. CASE ResumeRead(t)
    <3> DEFINE v == [loc[t] EXCEPT !.op = "resume", !.ctx = run.ctx]
    <3>1. v.late = loc[t].late /\ loc' = [loc EXCEPT ![t] = v] /\ Goto(t, "resume_write")
      BY <1>0, <2>4 DEF Locals, ResumeRead
    <3> HIDE DEF v
    <3>2. QED BY <2>1, <3>1, LateGoes
  <2>5. CASE ResolveRead(t)
    <3>1. PICK r \in RequestIds, action \in {"accept", "decline"} :
             loc' = [loc EXCEPT ![t].op = action, ![t].claim = r, ![t].ctx = run.ctx]
      BY <2>5 DEF ResolveRead
    <3> DEFINE v == [loc[t] EXCEPT !.op = action, !.claim = r, !.ctx = run.ctx]
    <3>2. v.late = loc[t].late /\ loc' = [loc EXCEPT ![t] = v] /\ Goto(t, "claim")
      BY <1>0, <2>5, <3>1 DEF Locals, ResolveRead
    <3> HIDE DEF v
    <3>3. QED BY <2>1, <3>2, LateGoes
  <2>6. QED BY <1>1, <2>3, <2>4, <2>5 DEF Call
<1>2. CASE \/ ResumeWrite(t) \/ ResumeCheck(t) \/ Claim(t) \/ AcceptWrite(t) \/ AcceptCheck(t)
           \/ AcceptFinal(t) \/ DeclineFinal(t)
  <2>1. pc[t] # "recheck" /\ (Finish(t) \/ \E l \in Labels : Goto(t, l) /\ UNCHANGED loc)
    BY <1>2 DEF ResumeWrite, ResumeCheck, Claim, AcceptWrite, AcceptCheck, AcceptFinal, DeclineFinal, At, Labels
  <2>2. QED BY <2>1, LateLeaves, LateMoves
<1>3. CASE AbortRelease(t) \/ AbortRead(t) \/ AbortWrite(t) \/ CancelRead(t) \/ CancelWrite(t)
  <2>1. pc[t] # "recheck" /\ (Finish(t) \/ \E l \in Labels : Goto(t, l) /\ UNCHANGED loc)
    BY <1>3 DEF AbortRelease, AbortRead, AbortWrite, CancelRead, CancelWrite, At, Labels
  <2>2. QED BY <2>1, LateLeaves, LateMoves
<1>4. QED BY <1>1, <1>2, <1>3

\* An executor that overlaps a Stop makes at most one more call: the one it was
\* about to make when the cancellation was committed (runtime.py:125).
THEOREM StopLeavesOneCall == Spec => OneLateCall
<1>1. Init => LateInv
  BY DEF Init, LateInv, Fresh
<1>2. TypeInv /\ LateInv /\ [Next]_vars => LateInv'
  <2> SUFFICES ASSUME TypeInv, LateInv, [Next]_vars PROVE LateInv'
    OBVIOUS
  <2>0. run.status = "cancelled" => run' = run
    BY SealedStep
  <2>1. ASSUME NEW t \in Threads, Call(t) \/ Continue(t) PROVE LateInv'
    BY <2>0, <2>1, ExecuteLate, OtherLate DEF Continue
  <2>2. CASE Crash
    BY <2>2 DEF Crash, LateInv, Fresh
  <2>3. CASE DeleteTemplate \/ Recover \/ UNCHANGED vars
    <3>1. UNCHANGED <<pc, loc>>
      BY <2>3 DEF DeleteTemplate, Recover, RecoverRequest, RecoverRun, RecoverDone, vars
    <3>2. QED BY <2>0, <3>1 DEF LateInv
  <2>4. QED BY <2>1, <2>2, <2>3 DEF Next
<1>3. LateInv => [\A t \in Threads : Calls(t) /\ run.status = "cancelled" => ~loc[t].late]_vars
  BY DEF LateInv, Calls, At
<1>4. QED BY <1>1, <1>2, <1>3, TypeInvariant, PTL DEF Spec, OneLateCall

=============================================================================
