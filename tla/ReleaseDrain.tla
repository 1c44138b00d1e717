----------------------------- MODULE ReleaseDrain -----------------------------
(***************************************************************************)
(* The backend's side of a release switch: admission of work               *)
(* (backend/app/core/release_runtime.py), the supervisor's control calls,  *)
(* and the one producer of work that needs no admission, the scheduler of  *)
(* workflow triggers (backend/app/application/workflows/triggers.py).      *)
(*                                                                         *)
(* control() runs without an await on the event loop, so no request is     *)
(* admitted or ended during it; agent runs, timers and trigger threads are *)
(* real threads.  The lock of each module makes its critical sections      *)
(* steps; a timer that has fired but waits for the lock cannot be          *)
(* cancelled any more.                                                     *)
(***************************************************************************)
EXTENDS Naturals, FiniteSets

CONSTANTS
    Triggers,       \* enabled rows of workflow_triggers
    Chains,         \* bound: timers and ticks alive at once
    NoChain,        \* _timer is None
    Agents,         \* bound: ids of agent runs
    RunIds,         \* bound: workflow runs of a trigger, a set of positive numbers
    MaxRequests,    \* bound: HTTP requests in progress
    MaxJobs,        \* bound: background processes running
    MaxFails        \* bound: calls that meet a locked database

ASSUME DrainAssumption ==
    /\ NoChain \notin Chains /\ Chains # {}
    /\ RunIds \subseteq Nat \ {0}
    /\ {MaxRequests, MaxJobs, MaxFails} \subseteq Nat

VARIABLES
    draining, admitted,     \* _draining, _admitted
    requests, agents,       \* _active_requests, _agent_runs
    jobs,                   \* what else _workflow_busy reads: background processes, the
                            \* telegram bot, runs that a request has left waiting
    running, ticking,       \* _running, _tick_in_progress
    handle,                 \* _timer: the chain whose timer it names
    active,                 \* _active_trigger_ids
    tick,                   \* each chain of timers and ticks
    worker,                 \* the thread of each trigger and the run it made
    due,                    \* whether the row's next_run_at has come
    last,                   \* last_run_id of each row (0: none)
    open,                   \* the runs of each trigger that have not ended
    ctl,                    \* the control call in progress and what it remembers
    up,                     \* whether the process runs
    quiet,                  \* history: drain has answered idle and nothing resumed since
    crossed,                \* history: the scheduler was started over a living chain
    fails                   \* how many calls have met a locked database

release == <<draining, admitted>>
work == <<requests, agents, jobs>>
scheduler == <<running, ticking, handle, active>>
rows == <<due, last, open>>
history == <<quiet, crossed, fails>>
vars == <<release, work, scheduler, tick, worker, rows, ctl, up, history>>

NoRun == 0
NoTick == [pc |-> "none", todo |-> {}, pick |-> {}]
NoWorker == [pc |-> "none", run |-> NoRun]
NoCtl == [at |-> "none", was |-> FALSE, busy |-> FALSE]

Idle == ctl.at = "none"
Unlocked == ctl.at \notin {"look", "decide"}    \* drain holds the release lock there
Alive == {c \in Chains : tick[c].pc # "none"}
InTick(c) == tick[c].pc \in {"list", "look", "claim"}

\* sqlite3.Error: the database is locked.
Locked == fails < MaxFails /\ fails' = fails + 1

---------------------------------------------------------------------------
(* Requests, agent runs and what they leave behind *)

\* The middleware: a request that is not admitted is answered 503.
BeginRequest ==
    /\ Idle /\ ~draining /\ requests < MaxRequests
    /\ requests' = requests + 1
    /\ UNCHANGED <<release, agents, jobs, scheduler, tick, worker, rows, ctl, up, history>>

EndRequest ==
    /\ Idle /\ requests > 0
    /\ requests' = requests - 1
    /\ UNCHANGED <<release, agents, jobs, scheduler, tick, worker, rows, ctl, up, history>>

\* Who begins agent runs and background processes: handlers of requests, agent
\* runs, steps of a trigger's run and (an agent run only) the telegram bot.
Producers == requests > 0 \/ agents # {} \/ \E t \in Triggers : worker[t].pc = "work"

BeginAgent(a) ==
    /\ a \notin agents /\ Unlocked
    /\ ~draining
    /\ Producers \/ jobs > 0
    /\ agents' = agents \cup {a}
    /\ UNCHANGED <<release, requests, jobs, scheduler, tick, worker, rows, ctl, up, history>>

EndAgent(a) ==
    /\ a \in agents /\ Unlocked
    /\ agents' = agents \ {a}
    /\ UNCHANGED <<release, requests, jobs, scheduler, tick, worker, rows, ctl, up, history>>

BeginJob ==
    /\ jobs < MaxJobs /\ Producers
    /\ jobs' = jobs + 1
    /\ UNCHANGED <<release, requests, agents, scheduler, tick, worker, rows, ctl, up, history>>

EndJob ==
    /\ jobs > 0
    /\ jobs' = jobs - 1
    /\ UNCHANGED <<release, requests, agents, scheduler, tick, worker, rows, ctl, up, history>>

\* A request cancels a run of a trigger, or resumes it to its end.
EndRun(t) ==
    /\ requests > 0
    /\ \E r \in open[t] : open' = [open EXCEPT ![t] = @ \ {r}]
    /\ UNCHANGED <<release, work, scheduler, tick, worker, due, last, ctl, up, history>>

---------------------------------------------------------------------------
(* The scheduler: chains of a timer, its tick and the next timer *)

Goto(c, pc) == tick' = [tick EXCEPT ![c].pc = pc]

Elapse(t) ==
    /\ ~due[t]
    /\ due' = [due EXCEPT ![t] = TRUE]
    /\ UNCHANGED <<release, work, scheduler, tick, worker, last, open, ctl, up, history>>

\* The timer calls _tick, which waits for the lock ...
Fire(c) ==
    /\ tick[c].pc = "armed"
    /\ Goto(c, "fired")
    /\ UNCHANGED <<release, work, scheduler, worker, rows, ctl, up, history>>

\* ... and returns if the scheduler has been stopped.
TickBegin(c) ==
    /\ tick[c].pc = "fired"
    /\ Goto(c, IF running THEN "list" ELSE "none")
    /\ ticking' = (ticking \/ running)
    /\ UNCHANGED <<release, work, running, handle, active, worker, rows, ctl, up, history>>

\* The rows that are due, as they are now: each names its last run.
Listed == {[id |-> t, prev |-> last[t]] : t \in {u \in Triggers : due[u]}}

List(c) ==
    /\ tick[c].pc = "list"
    /\ tick' = [tick EXCEPT ![c] = [pc |-> "look", todo |-> Listed, pick |-> {}]]
    /\ UNCHANGED <<release, work, scheduler, worker, rows, ctl, up, history>>

\* A row is passed over while the run it named has not ended.
Consider(c) ==
    /\ tick[c].pc = "look"
    /\ \E item \in tick[c].todo :
          LET rest == tick[c].todo \ {item} IN
          \/ /\ item.prev \in open[item.id]
             /\ tick' = [tick EXCEPT ![c] = [pc |-> "look", todo |-> rest, pick |-> {}]]
          \/ /\ item.prev \notin open[item.id]
             /\ tick' = [tick EXCEPT ![c] = [pc |-> "claim", todo |-> rest, pick |-> {item}]]
    /\ UNCHANGED <<release, work, scheduler, worker, rows, ctl, up, history>>

\* The claim moves next_run_at past the due_at of every tick under way, so what
\* they have listed of this row cannot be claimed any more.
Claimed(t, c) ==
    LET others(S) == {item \in S : item.id # t} IN
    [k \in Chains |-> [pc |-> IF k = c THEN "look" ELSE tick[k].pc,
                       todo |-> others(tick[k].todo), pick |-> others(tick[k].pick)]]

Claim(c) ==
    /\ tick[c].pc = "claim"
    /\ \/ \E item \in tick[c].pick :
            /\ item.id \notin active
            /\ active' = active \cup {item.id}
            /\ due' = [due EXCEPT ![item.id] = FALSE]
            /\ worker' = [worker EXCEPT ![item.id] = [pc |-> "start", run |-> NoRun]]
            /\ tick' = Claimed(item.id, c)
       \/ /\ \A item \in tick[c].pick : item.id \in active
          /\ tick' = [tick EXCEPT ![c] = [pc |-> "look", todo |-> tick[c].todo, pick |-> {}]]
          /\ UNCHANGED <<active, due, worker>>
    /\ UNCHANGED <<release, work, running, ticking, handle, last, open, ctl, up, history>>

\* Mutant of TickEnd: an exception ends the chain.
TickEndUncaught(c) ==
    /\ \/ tick[c].pc = "look" /\ tick[c].todo = {} /\ UNCHANGED fails
          /\ tick' = [tick EXCEPT ![c] = [NoTick EXCEPT !.pc = "rearm"]]
       \/ InTick(c) /\ Locked /\ tick' = [tick EXCEPT ![c] = NoTick]
    /\ ticking' = FALSE
    /\ UNCHANGED <<release, work, running, handle, active, worker, rows, ctl, up, quiet, crossed>>

\* The finally clause of _tick, reached by the end of the list or an exception.
TickEnd(c) ==
    /\ \/ tick[c].pc = "look" /\ tick[c].todo = {} /\ UNCHANGED fails
       \/ InTick(c) /\ Locked
    /\ ticking' = FALSE
    /\ tick' = [tick EXCEPT ![c] = [NoTick EXCEPT !.pc = "rearm"]]
    /\ UNCHANGED <<release, work, running, handle, active, worker, rows, ctl, up, quiet, crossed>>

Rearm(c) ==
    /\ tick[c].pc = "rearm"
    /\ Goto(c, IF running THEN "armed" ELSE "none")
    /\ handle' = IF running THEN c ELSE NoChain
    /\ UNCHANGED <<release, work, running, ticking, active, worker, rows, ctl, up, history>>

---------------------------------------------------------------------------
(* The thread of a claimed trigger *)

\* start_workflow_run creates the row of a new run, or raises before it.
StartRun(t) ==
    /\ worker[t].pc = "start"
    /\ \/ \E r \in RunIds \ (open[t] \cup {last[t]}) :
            /\ worker' = [worker EXCEPT ![t] = [pc |-> "work", run |-> r]]
            /\ open' = [open EXCEPT ![t] = @ \cup {r}]
       \/ worker' = [worker EXCEPT ![t].pc = "finish"] /\ UNCHANGED open
    /\ UNCHANGED <<release, work, scheduler, tick, due, last, ctl, up, history>>

\* The run ends, or waits for an answer.
Work(t) ==
    /\ worker[t].pc = "work"
    /\ worker' = [worker EXCEPT ![t].pc = "finish"]
    /\ UNCHANGED open \/ open' = [open EXCEPT ![t] = @ \ {worker[t].run}]
    /\ UNCHANGED <<release, work, scheduler, tick, due, last, ctl, up, history>>

FinishRun(t) ==
    /\ worker[t].pc = "finish"
    /\ worker' = [worker EXCEPT ![t].pc = "discard"]
    /\ \/ last' = [last EXCEPT ![t] = worker[t].run] /\ UNCHANGED fails
       \/ Locked /\ UNCHANGED last
    /\ UNCHANGED <<release, work, scheduler, tick, due, open, ctl, up, quiet, crossed>>

\* Mutant of Discard: the thread ends and the trigger stays active.
DiscardNothing(t) ==
    /\ worker[t].pc = "discard"
    /\ worker' = [worker EXCEPT ![t] = NoWorker]
    /\ UNCHANGED <<release, work, scheduler, tick, rows, ctl, up, history>>

Discard(t) ==
    /\ worker[t].pc = "discard"
    /\ worker' = [worker EXCEPT ![t] = NoWorker]
    /\ active' = active \ {t}
    /\ UNCHANGED <<release, work, running, ticking, handle, tick, rows, ctl, up, history>>

---------------------------------------------------------------------------
(* The control calls of the supervisor *)

\* drain: the scheduler is stopped; a timer that has fired is not cancelled.
StopScheduler ==
    /\ Idle
    /\ running' = FALSE
    /\ tick' = IF handle # NoChain /\ tick[handle].pc = "armed"
               THEN [tick EXCEPT ![handle] = NoTick] ELSE tick
    /\ handle' = NoChain
    /\ \/ ctl' = [ctl EXCEPT !.at = "freeze"] /\ UNCHANGED fails
       \/ Locked /\ UNCHANGED ctl           \* its status cannot be read: no answer
    /\ UNCHANGED <<release, work, ticking, active, worker, rows, up, quiet, crossed>>

\* Admission is closed if nothing admitted is left.
Freeze ==
    /\ ctl.at = "freeze"
    /\ IF requests = 0 /\ agents = {}
       THEN /\ draining' = TRUE
            /\ ctl' = [ctl EXCEPT !.at = "look", !.was = draining]
       ELSE UNCHANGED draining /\ ctl' = NoCtl
    /\ UNCHANGED <<admitted, work, scheduler, tick, worker, rows, up, history>>

\* Mutant of Look: a tick in progress is overlooked.
LookAtActive ==
    /\ ctl.at = "look"
    /\ \/ ctl' = [ctl EXCEPT !.at = "decide", !.busy = (active # {})] /\ UNCHANGED fails
       \/ Locked /\ ctl' = NoCtl
    /\ UNCHANGED <<release, work, scheduler, tick, worker, rows, up, quiet, crossed>>

\* scheduler_status; if it raises, drain does not answer and leaves admission closed.
Look ==
    /\ ctl.at = "look"
    /\ \/ /\ ctl' = [ctl EXCEPT !.at = "decide", !.busy = (active # {} \/ ticking)]
          /\ UNCHANGED fails
       \/ Locked /\ ctl' = NoCtl
    /\ UNCHANGED <<release, work, scheduler, tick, worker, rows, up, quiet, crossed>>

Busy == ctl.busy \/ jobs > 0 \/ \E t \in Triggers : open[t] # {}

\* Mutant of Decide: a postponed drain opens admission, of a staged backend too.
DecideOpens ==
    /\ ctl.at = "decide"
    /\ \E busy \in BOOLEAN :
          /\ IF busy = Busy THEN UNCHANGED fails ELSE busy /\ Locked
          /\ draining' = ~busy
          /\ quiet' = ~busy
    /\ ctl' = NoCtl
    /\ UNCHANGED <<admitted, work, scheduler, tick, worker, rows, up, crossed>>

\* drain answers; a busy backend is admitted again if it was before.
Decide ==
    /\ ctl.at = "decide"
    /\ \E busy \in BOOLEAN :
          /\ IF busy = Busy THEN UNCHANGED fails ELSE busy /\ Locked
          /\ draining' = IF busy THEN ctl.was ELSE draining
          /\ quiet' = ~busy
    /\ ctl' = NoCtl
    /\ UNCHANGED <<admitted, work, scheduler, tick, worker, rows, up, crossed>>

\* activate and resume.  (What the activation callback recovers is not part of
\* this state.)
Open ==
    /\ Idle
    /\ admitted' = TRUE /\ draining' = FALSE
    /\ quiet' = FALSE
    /\ ctl' = [ctl EXCEPT !.at = "start"]
    /\ UNCHANGED <<work, scheduler, tick, worker, rows, up, crossed, fails>>

StartScheduler ==
    /\ ctl.at = "start"
    /\ \/ running /\ UNCHANGED <<running, handle, tick, crossed>>
       \/ /\ ~running /\ running' = TRUE
          /\ \E c \in Chains \ Alive : handle' = c /\ Goto(c, "armed")
          /\ crossed' = (crossed \/ Alive # {})
    /\ ctl' = NoCtl
    /\ UNCHANGED <<release, work, ticking, active, worker, rows, up, quiet, fails>>

Shutdown ==
    /\ Idle
    /\ draining /\ requests = 0 /\ agents = {}
    /\ up' = FALSE
    /\ UNCHANGED <<release, work, scheduler, tick, worker, rows, ctl, history>>

---------------------------------------------------------------------------

\* A staged backend, or one started without a supervisor.
Init ==
    /\ admitted \in BOOLEAN /\ draining = ~admitted
    /\ requests = 0 /\ agents = {} /\ jobs = 0
    /\ running = admitted /\ ticking = FALSE /\ active = {}
    /\ \E c \in Chains :
          /\ handle = IF admitted THEN c ELSE NoChain
          /\ tick = [k \in Chains |-> IF admitted /\ k = c THEN [NoTick EXCEPT !.pc = "armed"]
                                                           ELSE NoTick]
    /\ worker = [t \in Triggers |-> NoWorker]
    /\ due = [t \in Triggers |-> FALSE] /\ last = [t \in Triggers |-> NoRun]
    /\ open = [t \in Triggers |-> {}]
    /\ ctl = NoCtl /\ up = TRUE
    /\ quiet = FALSE /\ crossed = FALSE /\ fails = 0

Requests ==
    \/ BeginRequest \/ EndRequest \/ BeginJob \/ EndJob
    \/ \E a \in Agents : BeginAgent(a) \/ EndAgent(a)
    \/ \E t \in Triggers : EndRun(t)

Chain(c) == \/ Fire(c) \/ TickBegin(c) \/ List(c) \/ Consider(c) \/ Claim(c)
            \/ TickEnd(c) \/ Rearm(c)

Thread(t) == StartRun(t) \/ Work(t) \/ FinishRun(t) \/ Discard(t)

Control == \/ StopScheduler \/ Freeze \/ Look \/ Decide \/ Open \/ StartScheduler
           \/ Shutdown

Next ==
    /\ up
    /\ \/ Requests \/ Control
       \/ \E c \in Chains : Chain(c)
       \/ \E t \in Triggers : Elapse(t) \/ Thread(t)

Spec == Init /\ [][Next]_vars

\* Timers fire, threads run, and a workflow run ends or comes to wait.
FairSpec ==
    /\ Spec
    /\ \A c \in Chains : WF_vars(up /\ Chain(c))
    /\ \A t \in Triggers : WF_vars(up /\ Thread(t))

---------------------------------------------------------------------------
(* Properties *)

Items == [id : Triggers, prev : RunIds \cup {NoRun}]
Places == {"none", "armed", "fired", "list", "look", "claim", "rearm"}
Ticks == [pc : Places, todo : SUBSET Items, pick : SUBSET Items]
Workers == [pc : {"none", "start", "work", "finish", "discard"}, run : RunIds \cup {NoRun}]
Calls == [at : {"none", "freeze", "look", "decide", "start"}, was : BOOLEAN, busy : BOOLEAN]

\* The variables keep their types; no request is counted out twice.
TypeOK ==
    /\ draining \in BOOLEAN /\ admitted \in BOOLEAN
    /\ requests \in 0..MaxRequests /\ agents \subseteq Agents /\ jobs \in 0..MaxJobs
    /\ running \in BOOLEAN /\ ticking \in BOOLEAN
    /\ handle \in Chains \cup {NoChain} /\ active \subseteq Triggers
    /\ tick \in [Chains -> Ticks] /\ worker \in [Triggers -> Workers]
    /\ due \in [Triggers -> BOOLEAN]
    /\ last \in [Triggers -> RunIds \cup {NoRun}] /\ open \in [Triggers -> SUBSET RunIds]
    /\ ctl \in Calls
    /\ up \in BOOLEAN /\ quiet \in BOOLEAN /\ crossed \in BOOLEAN /\ fails \in 0..MaxFails

\* While admission is closed no request and no agent run is in progress, and
\* until it has been activated a staged backend never admits one, whatever
\* drains it has answered.
AdmissionClosed ==
    /\ draining \/ ~admitted => requests = 0 /\ agents = {}
    /\ ~admitted => draining

Quiet ==
    /\ requests = 0 /\ agents = {} /\ jobs = 0
    /\ \A t \in Triggers : worker[t].pc = "none" /\ open[t] = {}

\* From the answer "idle" to the next resume nothing runs and nothing begins,
\* in the release that is about to be stopped and snapshotted.
DrainedIsQuiet == quiet => Quiet

\* The same, if the scheduler was never started over a living chain: two chains
\* share one _tick_in_progress.
DrainedIsQuietUncrossed == quiet /\ ~crossed => Quiet

\* A scheduler that says it runs has a chain, and the timer it would cancel is
\* of a living one.
SchedulerAlive ==
    /\ running => Alive # {}
    /\ running /\ ~crossed => handle \in Alive

\* A trigger that is due is claimed, unless the scheduler stops or an earlier
\* run of it waits for an answer.
DueIsClaimed ==
    \A t \in Triggers : due[t] ~> ~due[t] \/ ~running \/ open[t] # {} \/ ~up
=============================================================================
