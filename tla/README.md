# Elira AI: a TLA+ verification project

Elira is a local AI assistant: a Python backend (FastAPI, SQLite), a desktop shell with a React frontend,
and scripts that install, switch and serve its releases. This directory holds TLA+ models of the parts
whose correctness depends on the order in which threads, processes, messages and crashes act, the TLC
configurations that check them on small instances, and theorems that TLAPS checks for every size.

Paths are relative to the repository root; `workflows/` stands for `backend/app/application/workflows/`,
`code_agent/` for `backend/app/application/code_agent/`.

## 1. The system

### 1.1 Components, their state and their operations

| Component | State it keeps | Operations that change it | Talks to |
|---|---|---|---|
| Workflow engine (`workflows/`) | rows of `workflow_engine.db`: templates, runs, requests, triggers | start, resume, resolve a request, cancel, delete a template; the executor; startup recovery | agent loop and tools, release drain (its rows are counted) |
| Workflow triggers (`workflows/triggers.py`) | a timer, `_running`, `_tick_in_progress`, active triggers; trigger rows | tick, claim, execute, start and stop the scheduler | workflow engine, release drain |
| Release manager (`scripts/elira_release.py`) | `state.json`, receipts, `live.json`, snapshots, `state.lock` | prepare, verify, request, confirm, supervise (recover, launch, drain, switch, undo, close) | admission of the backend it starts |
| Release admission and drain (`backend/app/core/release_runtime.py`) | `_admitted`, `_draining`, counts of requests and agent runs | admit, begin and end a run, drain, resume, activate, shut down | release manager, triggers, run control |
| Live run control (`code_agent/run_control.py`, `tools/_shell.py`) | registries of live, prepared and finished runs, Stop intents, session tokens, process and response handles | prepare, claim, Stop with cleanup and retries, release | agent loop, routes, LLM provider |
| Agent loop, delivery sessions | session tokens, slices, the turn history, budgets, queued user inputs | slices of a long task, turns, tool batches, checkpoints, clarifications | LLM provider, tools, journal |
| Run journal (`code_agent/run_journal.py`) | `state.json`, `events.jsonl`, `model-history.json`, `user-inputs.json` per run; `agent.lock`, `run.lock` | acquire, append, checkpoint, take over, release | agent loop, other processes |
| Run evidence, command progress (`taskspec.py`, `task_outcomes.py`, `command_progress.py`, `answer_acceptance.py`) | verdicts of criteria, the published file's receipt, counts of repeated calls | observe a call, invalidate, restore, accept an answer | agent loop, journal |
| Composer control records (`workflows/composer*`) | a durable run with its cards for a chat run | ask, answer, cancel, finish, recover | run control, workflow store |
| Background jobs (`tools/_background_jobs.py`) | job journal, launch file, worker process, result file | start, look, stop, reconcile after a restart | tools |
| Terminal sessions (`terminal/sessions.py`) | a shell, its reader thread, a log, sockets | keys, run, mark seen, subscribe, close | tools, routes |
| Project corpus (`indexing.py`, `file_watcher.py`) | one SQLite index, debounce timers | index, publish, watch, remove | tools |
| MCP providers (`tool_providers/mcp_*`) | one client per start with its process and reader | start, stop, reconfigure, call | tools |
| Vault (`infrastructure/secrets/vault.py`) | an encrypted file, rows, a bundle, a key with a timer | put, revoke, recover, backup, restore, lock | IT operations, tools |
| Telegram bot (`skills/telegram/runtime.py`) | an offset, a receiver thread, one task per chat | poll, process, cancel, start and stop | agent loop |
| Foundation service (`scripts/foundation_service.py`) | receipts, a queue, `desired.json`, child processes | submit, serve, tick, restart | release manager |
| Chat client (`frontend/src/workspace/backgroundRuns.ts`) | the entry of a chat: run id, control state, transcript, saves | send, resume, stop until confirmed, steer, read the stream, reload | routes |
| Smart memory, event bus, sessions, planner, tool registry, library, persona, monitoring, drift, skills, views | SQLite rows, prompt text, pixels | single transactions, outside calls | routes |

`PROJECT.json` lists each with its files, whether it is modelled, and why not where it is not.

### 1.2 How they interact

* HTTP calls run on backend threads. A workflow call runs the executor on the thread that serves it, a
  trigger on a thread of its own; they share `workflow_engine.db`, whose transactions are the only
  synchronisation between executors.
* A chat run is a generator that the server's thread drives for its client. A Stop is another request,
  a message to the run a third; they meet in the registries of `run_control.py`, in files of the
  journal, and in the order in which flags are set. A tool call has a thread of its own that a Stop
  abandons and that goes on.
* The release supervisor is another process: HTTP to the backend it starts (`drain`, `resume`,
  `activate`, `shutdown`), files to the candidates; command line calls share `state.json` and
  `state.lock` with it. The Foundation service owns both and restarts them.
* Runs, jobs, bots and servers outlive a thread, a client or the backend through files and rows which
  the next start has to believe.

### 1.3 What is hard

* Statuses are read in one transaction and acted on in another (resume, cancel, pause, verify).
* A Stop is split over a token, a flag per generation, a marker for processes and a handle per response;
  streams, slices and Resumes of the same id come and go between.
* Two stores that describe one thing are written one after the other: a card and its run, a ciphertext
  and its row, an event and its checkpoint, a wish and a process.
* What a run holds to be verified outlives the state it was verified in.
* A release switch is a sequence of saves, copies and processes any of which may fail, with an except
  clause that decides what to put back from what it finds on the disk.

Each is a hazard in `PROJECT.json`, at the line where it bites, with the properties that cover it.

### 1.4 What makes each component correct

* Engine: one open card per step; a claim has an owner and is settled; Stop is final and ends every
  executor; an approval authorises one call; an uncertain call is not repeated silently.
* Release manager: no completed work is lost; only the selected release serves; a switch happens at once
  or not at all, and ends; what is installed is what was confirmed.
* Admission and triggers: *idle* means that nothing runs and nothing will.
* Run control: one generation at a time; an acknowledged Stop leaves no process and no open response; a
  Resume is cancelled only by a Stop meant for it; a stopped session starts no slice.
* Agent run: the next attempt is told of every call that ran; an accepted message is read once; a verdict
  is one of the project as it is; the run knows how often it repeated itself.
* Records: an acknowledged answer reaches the agent; a job that runs can be stopped; the index finds what
  the file holds; a secret and its row agree; a receipt says what happened; a lock file names its owner.
* Clients: a process has an owner; a run returns the output of its own command; *stopped* is true; a
  message sent twice is taken once.

## 2. The modules and the code

| Module | Models | State | Steps |
|---|---|---|---|
| `WorkflowEngine` | one run of a template: `workflows/runtime.py`, `request_lifecycle.py`, `request_recovery.py`, `store.py`, `step_executor.py` | the run's row, its cards, each thread's place and locals, what recovery has still to do | one per transaction or dispatched call; `Crash` |
| `ReleaseManager` | `scripts/elira_release.py`, legacy layout | `state.json`, receipts and trees, `state.lock`, the supervisor's place, the backend, databases and backup | one per effect another process can see; faults |
| `ReleaseSwitch` | what a switch promises | the selection, the confirmed release, the work done | `Approve`, `Reject`, `Install`, `Work` |
| `ReleaseDrain` | `release_runtime.py`, `triggers.py`, trigger rows | admission flags and counts, chains of timers, threads of triggers, the control call | one per critical section and per row transaction |
| `RunControl` | `run_control.py`, the session token of `loop_helpers.py`, `tools/_shell.py`, the handle of `openai_compatible.py`, `/stream`, `/resume`, `/cancel` | registries, tokens, each stream's place, each Stop's place and targets | one per critical section; the cleanup lock is a variable |
| `AgentRun` | `agent_loop.py`, `stream_code_agent`, the journal's files, what `delivery_session.py` restores | phase of the attempt, batch, messages, journal in memory and on disk, events, history file | one per write, yield or return |
| `SessionInputs` | `queue_session_input`, the ledger, the polls of the loop, the checkpoint | ledger, batch, dialogue, checkpoint, each sender | post, take, append, checkpoint, end |
| `RunLocks` | `agent.lock` and `run.lock` | files, leases, processes | one per call on the file system |
| `AgentLease` | what `agent.lock` promises | the holder, the runs inside, whether the promise has ended | `Take`, `Join`, `Leave`, `Perish` |
| `TaskVerdicts` | `CriteriaTracker`, `task_outcomes.py`, `answer_acceptance.py`, their rows in the journal | what the project meets, the attempt's mind, the journal's rows, the call under way | a call begins, lands, is observed; answers, Stops, Resumes |
| `CommandProgress` | `command_progress.py` and its snapshot | counts, the snapshot, history of calls and executions | before a dispatch, the call, its observation, Resume |
| `ComposerRun` | the control record of a chat run | record, cards, slots, stream, answering threads | one per SQL statement |
| `BackgroundJobs` | `run_server` of kind job, `_background_jobs.py`, `_job_worker.py` | journal, sidecar files, workers, handles, threads | one per journal section or file access; crash and boot |
| `ProjectCorpus` | `file_watcher.py`, `indexing.py` for one file | file, events, timers, the pass, manifest row, chunks | one per access to file or database |
| `McpServer` | one server of `mcp_runtime.py`, `mcp_client.py` | entry, clients with process and reader, the start under way, calls | one per access to the registry |
| `Vault` | `vault.py`, `it_ops/store.py` | file, rows, bundle, key, timers, the operation under way | one per write of a store |
| `TelegramBot` | `skills/telegram/runtime.py` | inbox and confirmed offset, receivers, tasks | poll, take, process, cancel, task, API call |
| `FoundationService` | `scripts/foundation_service.py` | receipts, queue, wish, children, the owner's place | submit, serve, tick, restart |
| `TerminalSessions` | `terminal/sessions.py`, `terminal_routes.py`, `_run_in_terminal` | shell, input, output, log, sockets, runs | one per locked section or chunk |
| `BackgroundRuns` | `backgroundRuns.ts`, `api/codeAgent.ts` | server, pipe, entry of the chat, transcript, saves | a call, an event read, a reload |
| `MC...` | instances for TLC | | |
| `...Proofs` | theorems | | |

**MC modules.** Components that share no state are checked side by side in one run: `MCServices` (the
agent run's records and the services), `MCClaims` (what a crash or a locked database may interrupt), `MCQuiet` (what a Stop, a drain or a lost client leaves behind),
`MCRaces` (two who act at once) and `MCFair` (liveness). A variable `part` names the component a
behaviour belongs to; the others keep their initial values, so TLC's `VIEW` shows the part's own
variables. The state space is the sum and not the product of the parts', and a property of a component
is checked of every behaviour of that component. Where one module is large it is split over two parts:
in `MCQuiet` triggers are checked without background processes, verdicts without publications and jobs, answers without criteria, Web calls
without the repeated command; in `MCServices` a chat with two runs and no messages, or with one run
and messages.

**WorkflowEngine.** Every SQL statement names one `run_id`, so one run is modelled. `pc[t]` is the place
of a thread between two transactions, `loc[t]` what it remembers across them. `UpdateRun` is the guarded
UPDATE of `update_workflow_run`, and where a caller tests the row it gets back, the second transaction
that reads it is a step of its own. `Crash` empties the threads; recovery has two transactions per claim.

**ReleaseManager** is implemented against **ReleaseSwitch** under the mapping `active`, `approved` <-
`state.active`, `state.pending`, and `work`, `ran` <- `Current`: the databases the next start will use,
which before admission is the backup that recovery would put back. A candidate's tree is a version
number, its receipt the version it was sealed with; databases are the number of tasks they hold and the
releases that migrated them; a copy in progress is `Torn`.

**RunLocks** is implemented against **AgentLease** under the mapping `holder` <- the process that has a
lease, `inside` <- the runs that have one, `void` <- `locksCrossed`: a process that took the fresh file of
a live one for a dead one's has ended the promise (section 6).

**ReleaseDrain.** `control()` has no await after the body is read, so one control call runs at a time and
no request is counted during it; agent runs, timers and trigger threads interleave with its steps. A
*chain* is a timer, its tick and the timer the tick starts; `Timer.cancel` stops one that is `armed`,
not one that has `fired`.

**RunControl.** A stream is one `/stream` or `/resume` with the run id; `underway` is its generation,
`stop[k].target` the generations a Stop met. The four tags of a crossing (`stale`) are the orders the
code does not exclude: a Stop that finds the session token of one slice and the flags of another, a
generation joined by a second Resume, an abandoned tool thread that starts a process afterwards, and a
handle that was retained because it would not close. Properties say what holds without them.

**AgentRun, SessionInputs, TaskVerdicts, CommandProgress** are four views of one agent run: what the next
attempt is told, which messages it has read, what it holds to be true of its task, and how often it
repeated itself. Each keeps of the loop the steps at which its own state changes; the yields, at which
the client may go away, and the journal's failing writes are steps of all four.

**The rest** follow one rule: a step is what the code does without letting go of a lock, a transaction
or the thread; history variables name the crossings and failures under which a promise does not hold, and each is set
where it happens, never by the property: `stranded` (a decline cut off by a crash), `stale`, `stray`,
`locksCrossed`, `contested` and `overwritten` (state.json set back by a second journal), `lossy` and
`givenUp` (a journal that knows it lost something, or gave up its last snapshot), `behind` (the last look
at a file failed, or a late removal undid it), `doubled` and `unheard` (a second Telegram receiver, and
what a crash took out of a hand), `unreported`, `outdated`, `cut`, `edited`, `gaveUp`. Section 6 lists what
happens then.

## 3. Runs

| Run | Question | Instance | Result |
|---|---|---|---|
| `claims` | Do claims and cards survive crashes? Is a due trigger claimed? | 1 thread, 3 steps, 4 rows, 2 crashes, fair threads; a trigger, 1 run, 2 chains, 1 locked database, fair timers | `ClaimHasOwner`, `WaitingHasCard`, `ClaimSettles`, `DueIsClaimed` hold |
| `races` | What can two concurrent callers break? | 2 threads, 2 steps, 4 rows; a tab with 2 runs, 1 socket, 1 Enter | `OneOpenRequest`, `CancelledIsSealed`, `TabsHold` hold |
| `rel_switch` | Is a switch atomic, does it keep work, does it end? | 2 releases (1 edited), 2 proposals, 1 task, 2 faults | `NoWorkLost`, `ServesSelected`, `SwitchAtomic`, `SwitchEnds` hold |
| `quiet` | What do a Stop, a drain and a lost client leave behind? | 2 streams, 2 Stops, 2 slices, 1 failing close; a request, an agent run, a process, a trigger, 2 chains; 2 criteria, 2 changes, 2 tries; 7 Web calls, 3 executions, 1 break | `OneGeneration`, `AckMeansClean`, `ResumeIsFreshUncrossed`, `StopEndsSessionUnsplit`, `AdmissionClosed`, `DrainedIsQuietUncrossed`, `SchedulerAlive`, `VerdictsHold`, `RepeatsHold` hold |
| `fair` | Does what must happen happen? | 2 executors and a call that retries for ever; 2 streams and a Stop; 3 messages, 3 sessions | `StopQuiesces`, `OneLateCall`, `StopTerminates`, `QueuedIsRead` hold |
| `services` | Do files, rows, locks, processes and transcripts agree? | 3 messages; 3 calls, 3 attempts, 2 failing writes; 3 processes, 2 runs; 2 cards, 2 answering threads, 3 answers; 1 job, 2 threads, 2 crashes; 3 edits, 1 pass of the project; 2 clients, 2 saves; 1 secret; 2 updates, 2 receivers, 2 API threads (one only starts the bot, until a crash); 2 requests, 2 restarts; 2 chat runs, 1 mishap | `InputsHold`, `RunRemembers`, `OneNamedWriter`, `CardsWork`, `JobsAreHonest`, `InSync`, `ClientsAreOwned`, `SecretsHold`, `MessagesHold`, `ReceiptsAreTrue`, `ClosedStaysClosed`, `StopIsTrue`, `ChatHolds`, `LeaseIsExclusive` hold |
| `eng_replay` | Is an uncertain call repeated without a warning? | 1 thread, 2 steps, 1 crash | violated: finding 1 |
| `eng_approval` | Does an approval authorise one call? | 2 threads, 2 steps | violated: finding 2 |
| `rel_confirm` | Is what is installed what was confirmed? | 1 release edited once | violated: finding 3 |
| `rel_resume` | `rel_switch` when a staged backend may be busy | 2 releases, 1 task, 1 fault | violated: finding 4 |
| `drain_crossed` | Does *idle* mean idle after a restart of the scheduler during a tick? | as the drain part of `quiet` | violated: finding 5 |
| `corpus_kept` | Does a failing git leave the corpus as it was? | a file edited once | violated: finding 6 |

`QuietTypeOK` (in `quiet`) and `ServicesTypeOK` (in `services`) are the type invariants of the parts.

Why the bounds are enough. Two threads are what every race of the engine needs: each test and the write
that relies on it are separated by at most one other call. Four rows let a step be asked, answered and
asked again. The second crash falls into the recovery from the first. Two releases give an old and a
new one, two proposals one that is installed and one refused after it, two faults a failure of the
switch and one of its undoing. Two streams are a generation and the one that joins or follows it; two
Stops the one that holds the cleanup lock and the one that waits; two slices a boundary. One trigger, whose run ends or waits, meets two chains and a thread that
fails to start its next run. Two changes leave one before and one after a check. Seven Web calls pass the limit on one call, return after a
break and reach it again. Three messages against a queue of two reach its limit. Three calls in batches
of one or two leave a batch cut with one receipt and a batch after it; the third attempt resumes one
that was itself resumed. Three processes are an owner that dies and two that take over. Three edits
give a timer that fired, one that replaced it and one that comes during a pass. Every bound is a
CONSTANT marked `bound:` where it is declared. Where a theorem of section 5 states the property, the
bound matters to the run only.

`CHECK_DEADLOCK FALSE` is set where the system may stop: a run that has ended with every call answered, a
backend that was shut down, parts that have used up their bounds. Only `rel_switch` checks for deadlock.

Every property has a mutant in `PROJECT.json`: a plausible bug in one definition of the model under which
its run finds a violation.

## 4. Fairness

* Engine (`claims`, `fair`): weak fairness of every thread inside a call and of startup recovery, none
  of clients, answers or crashes. The threads are operating system threads that wait only for a
  transaction or a dispatched call; a dispatched call is assumed to return.
* Release manager (`rel_switch`): weak fairness of the supervisor's own steps, of the end of a call that
  holds the lock, of the end of a task, and of opening the application again. The last two are
  assumptions about the user. Faults are bounded, so they stop.
* Triggers (`claims`): weak fairness of each chain and each trigger thread. `Elapse` and the
  control calls are not fair: nothing promises that a trigger comes due or that a resume arrives.
* Run control (`fair`): weak fairness of what each stream owes, `Obliged` (its ends and handovers, not the
  model's answers nor further slices), of each Stop, and of a Stop's step at the session token, which
  waits for a lock that is held for a few statements.
* Messages (`fair`): weak fairness of the loop's own steps; senders, failing writes and clients that go
  away are free.

In `MCClaims` and `MCFair` the fairness of a part is asked of behaviours of that part only: a thread that belongs to
another part is never enabled.
## 5. Proofs

TLAPS checks each theorem below for every value of the constants, under the named assumptions of the
modules, which ask no more than that a bound is a natural number (where the code needs it, positive) and
that the value that stands for *none* is not one of the things it is not. The sets of threads, releases,
triggers, streams, criteria, secrets, cards and chats may be infinite; the runs check them with one to
three.

Every proof has the same form. The property is not inductive: from a state that satisfies it and that the
code never reaches, a step may break it. So an invariant is stated that says what the code relies on at
each place; TLC checks it on the run's instance; then three lemmas, that it holds initially, that each
action preserves it (one step per action, and under it one per conjunct the action can disturb), and that
it implies the property, give the theorem by temporal logic.

| Module | Theorem | Says | The invariant and why it is needed |
|---|---|---|---|
| `WorkflowEngineProofs` | `TypeCorrect`, `Sealed` | `TypeOK`; `CancelledIsSealed`: no write unseals a cancelled run | `TypeInv`, and that each guarded UPDATE excludes "cancelled" |
| | `OneOpen`, `ClaimOwner` | `OneOpenRequest`, `ClaimHasOwner` | `RequestInv`: what a thread holds about the row it read (`ThreadHolds`), what the rows hold about each other (`RowsHold`), and that a thread's list of open cards is no older than its claim (`ListIsFresh`) |
| | `WaitingIsAnswerable` | while one call at a time starts, resumes or answers the run (Stops and crashes beside it are unrestricted): `WaitingHasCard`, which ends only with a decline that a crash cut off | `CardInv`: what each place knows of the card it claims, closes or inserts (`CardSeen`), that a closed card means a run about to be stopped, and that recovery still has the row of a waiting run on its list |
| | `StopLeavesOneCall` | `OneLateCall` | `LateInv`: who has called since the Stop is about to read the status again, and the status is still "cancelled" |
| `ReleaseManagerProofs` | `TypeCorrect` | `TypeOK` | the counts of faults and proposals |
| | `OnlySelectedServes`, `WorkKept` | unless a staged backend can be busy (finding 4): `ServesSelected`, `NoWorkLost` | `Safe`: who holds `state.lock` (`LockInv`), what the supervisor's place says of `state.json` (`PhaseInv`), of the backend (`ServerInv`, `BackendInv`), of the copies (`CopyInv`) and of the databases (`DataInv`) |
| | `SwitchesAtOnce` | `SwitchAtomic`: the manager implements `ReleaseSwitch`; every step is one of its steps or a stutter | `Safe` again: an undo puts back what was selected, since `CopyInv` says what the backup holds |
| | `InstalledIsConfirmed` | while no verify that has begun is still to reseal the release that is to be installed (finding 3 is a run in which one is): `InstalledAsConfirmed`; a staged backend may be busy | `ConsentInv`: from the test in `apply_pending` to the selection the pending release, the supervisor's memory and the receipt agree, and from the lock on they agree with the last confirmation |
| `ReleaseDrainProofs` | `TypeCorrect`, `ClosedAdmitsNothing`, `IdleStaysQuiet`, `RunningHasChain` | `TypeOK`, `AdmissionClosed`, `DrainedIsQuietUncrossed`, `SchedulerAlive` | `DrainInv` (what the control call knows at each place), `ThreadsActive` (a live thread is counted), `OneChain` (until a crossing, at most one chain of timers) |
| | `QuietTypeCorrect` | `QuietTypeOK` of the composition `MCQuiet` | a part that is not the one a behaviour belongs to keeps its state, which is a stutter of its specification; so the theorems of the parts hold of the composition (lemma `QuietPartsRun`) |
| `RunControlProofs` | `ControlTypeCorrect`, `OneAtATime`, `Acknowledged` | `ControlTypeOK`, `OneGeneration`, `AckMeansClean` | `ControlInv`: a process, a handle and a registry entry have an owner (`Owned`), a prepared generation belongs to a stream that waits (`Prepared`), the cleanup lock to one Stop (`CleanupLocked`), a stopped generation was met by one (`MetOnce`) |
| | `Fresh`, `SessionEnds` | `ResumeIsFreshUncrossed`, `StopEndsSessionUnsplit` | without a crossing also `Uncrossed` and `Stopped`: what each Stop has reached by each of its steps |
| | `TerminalTypeCorrect`, `TabsAlwaysHold` | `TerminalTypeOK`, `TabsHold` | `TabsInv`: one line at a time is in input, shell and pipe, with the ^C and the redrawn prompt that may follow it (`Serves`, `OneLine`), who is about to type has the tab to himself (`EnterFits`, `OneEnters`), who waits is served (`WaitFits`), a chunk is handed to those who listen (`HandedFits`); what Elira is told of the user's work is the newest of it |
| `EvidenceProofs` | `VerdictsTypeCorrect`, `VerdictsAlwaysHold` | `VerdictsTypeOK`, `VerdictsHold` | `VerdictsInv`: what holds while a call is under way (`CallTold`), what was confirmed once (`PastTold`), that the attempt's and the journal's verdicts are the project's (`MindTold`, `JournalTold`), and what an accepted answer rests on (`CompletedTold`, `AnswerTold`) |
| | `ProgressTypeCorrect`, `RepeatsAlwaysHold` | `ProgressTypeOK`, `RepeatsHold` | the snapshot lags behind the attempt by the call under way (`CountsFit`, `SeenFits`), the last six calls are those asked for (`SequenceFits`), a hint has as many executions as it counts (`HintsFit`); the lemmas on `Streak` and `LastSix` carry what the window of six shows over to the whole history |
| `ProvidersProofs` | `VaultTypeCorrect`, `VaultKeepsSecrets` | `VaultTypeOK`, `SecretsHold` | `VaultInv`: the key is within its age (`KeyFresh`), a backup agrees with itself (`BundleAgrees`), and how far an operation has come says which record is the odd one (`StepAgrees`) |
| | `McpTypeCorrect`, `ProcessesAreOwned` | `McpTypeOK`, `ClientsAreOwned` | `StarterKnows`: while a server starts nothing is published, so publishing forgets nobody |
| | `FoundationTypeCorrect`, `ReceiptsTrue`, `ClosedIsClosed` | `FoundationTypeOK`, `ReceiptsAreTrue`, `ClosedStaysClosed` | `QueueHolds`, `OwnerHolds`, `EffectsHold` (a request takes effect once, between *running* and its receipt), `WishHolds` (the wish is on disk before anything is stopped) |
| | `ServicesTypeCorrect` | `ServicesTypeOK` of the composition `MCServices` | as for `QuietTypeCorrect` |
| `RunProofs` | `LocksTypeCorrect`, `OneWriter` | `LocksTypeOK`, `OneNamedWriter` | who writes `agent.lock` created it (`WriterOwns`), who acquires or holds a lease is alive (`AliveActs`); a copy grows old only when a second live process has the run open, and then both are in `contested` (`OutdatedIsContested`, `BothContest`) |
| | `LockImplemented` | `LeaseIsExclusive`: the files implement `AgentLease`; every step is one of its steps or a stutter | `OneNamedWriter` again, so that every lease is one process's; `OwnAcquires`: who creates `agent.lock` wants it for a run that nobody delegated |
| | `RunTypeCorrect`, `RunAlwaysRemembers` | `RunTypeOK`, `RunRemembers` | `JournalTells`: at every moment, and not only at an attempt's end, history, pending batch and receipts since together tell of every call that ran; `ReceiptsFit`: those receipts belong to the pending batch, so that saying some were cut excuses no other call; with `BatchFits`, `StatusFits`, `HistoryNamed`, `MessagesTell`. All but the first two are claimed only until a snapshot was given up |
| | `InputsTypeCorrect`, `InputsAlwaysHold` | `InputsTypeOK`, `InputsHold` | an accepted message is in exactly one of queue, batch, dialogue, checkpoint (`AppliedIsRead`, `CheckpointIsPart`), the queue is bounded (`QueueBounded`), and the last look is the last (`LastLook`, `OverIsOver`) |
| | `JobsTypeCorrect`, `JobsStayHonest` | `JobsTypeOK`, `JobsAreHonest` | a worker whose job was not given up is in the journal, with its pid once it is called running (`RecordFits`); whoever has not registered it yet is the only one that starts it (`HandleFits`, `OneStarter`, `ThreadFits`) |
| `RecordsProofs` | `BotTypeCorrect`, `BotKeepsMessages` | `BotTypeOK`, `MessagesHold` | what is behind a receiver's place is handled, in some receiver's hand or unheard (`Known`, with `MailFits`, `BatchIsMail`, `SeenBehind`); a receiver that is alone has handled what it confirms (`AloneSeesAll`); until a crossing one receiver stands right after what it took (`OneReceiver`, `BegunOnce`, `EarlyIsWanted`) |
| | `ComposerTypeCorrect`, `ComposerCardsWork` | `ComposerTypeOK`, `CardsWork` | one card is open (`AskFits`, `QuietFits`), one thread holds it (`HoldersFit`), what it was answered has arrived or is on its way (`ToldArrives`, `SolverArrives`, `PopFits`), and somebody will wake the agent (`WaitFits`) |
| | `CorpusTypeCorrect`, `CorpusInSync` | `CorpusTypeOK`, `InSync` | a change of the file that the index lacks is owed a look by a timer or by the pass under way (`Owed`), or the last look has failed (`behind`); what a pass commits is the file or somebody knows better (`CommitIsLive`), what a listing did not show has not come back unnoticed (`ListingFits`), and with nothing owed the index has the file or the pass under way brings it (`IndexSettled`) |
| | `ChatTypeCorrect`, `StopsAreTrue`, `ChatAlwaysHolds` | `BackgroundTypeOK`, `StopIsTrue`, `ChatHolds` | a stream ends once, and with a done after the answer (`PipeFits`); an unanswered Resume has the chat's reader and no Stop is posted against it (`AwaitFits`); what was read is shown, in the pipe, or nobody will see it (`ReadFits`); messages are told apart by their ids (`LettersFit`) |

Lemmas about the operators the models are built from (the rows an UPDATE leaves, the field a step of
a record changes, what `Settle`, `Kept`, `Moves`, `Since` return) are stated once, at the head of each
part, and cited by name.

What the proofs taught about the model. The invariant of the Telegram bot could not be proved at
`AfterUpdate`: the model left the receiver in "cancel" after a cancelled update, where the code goes on to
the next of the batch. With two updates no instance distinguished the two; the model was wrong and was
corrected. That of the chat failed twice. `SteerOnce`, checked with two request ids, was false with three:
`backgroundRuns.ts` 546–551 keeps one `pendingInput`, so a message of uncertain fate in one run, then a
message to another, then the first again in the first run resumed, gets a new id and may be queued twice; the property now
excepts the runs whose pending message was replaced (`steering.lost`). And a refused Resume, whose stream
has ended, was counted as attending the generation that was still alive (`StreamEnded`). The proof of `OneGeneration` needed no bound on the Stops, and that of `AckMeansClean` showed
which crossings it does not need to exclude. That of `InstalledAsConfirmed` needs nothing of faults, edits or
busy backends, so finding 3's overlap is the only way it fails. `NoWorkLost` and `ServesSelected` need that a staged backend
does not answer *busy*: without it they fail at the step finding 4 names.

What stays with TLC is liveness (`ClaimSettles`, `StopQuiesces`, `StopTerminates`, `QueuedIsRead`,
`SwitchEnds`, `DueIsClaimed`): the fairness conditions are about ENABLED, which the prover does not reason
about. Every other property of a passing run is the subject of a theorem, four of them under a condition
the table names and a run that expects a violation, or section 6, shows to be needed.



## 6. Findings, and disagreements without a run

Each finding is a trace TLC finds in the model of the code and a sentence of the repository it
contradicts, quoted in `PROJECT.json`.

1. `eng_replay`: recovery takes a claim whose template step is a request for safe to replay, though its
   executor may have gone on to later tool calls, which are then repeated without a warning.
2. `eng_approval`: two concurrent resumes both read `paused` and both execute the gated step with one
   approval.
3. `rel_confirm`: a `verify` that tested the selection early may reseal the receipt during the switch, so
   bytes nobody confirmed are installed.
4. `rel_resume`: recovery sends `resume` to a backend that was never activated if it answers `drain` with
   busy; it then serves, and its work is restored over.
5. `drain_crossed`: a resume during a tick starts a second chain of timers; the two share
   `_tick_in_progress`, so a later drain can answer idle while a tick is about to start a workflow.
6. `corpus_kept`: a git that cannot list the files while an edited file is looked at takes that file out
   of the index, though `index_project` fails closed for just that case.

Further behaviours were met while modelling and proving. The properties name them (a history variable
excuses them) and no run is spent on them:

* **Workflow engine.** A pause inserts its card before it writes the run as waiting (`request_lifecycle.py`
  85–105) and `resolve_request` does not ask whether the run waits: an answer that arrives in between
  runs the next steps, and then the pause writes *waiting* over it. The run waits and no card is left.
  `WaitingHasCard` fails so with two threads (21 states); the theorem asks that calls do not overlap.
  `resolve_request` does not ask whether the run has ended either: after a crash a card may be left over,
  and accepting it restarts a run that has completed. A gated step whose call fails keeps its approval
  (`runtime.py` 240 consumes it on success alone), so a template that comes back to the step calls again
  without asking.
* **Run control.** Two Resumes that share one prepared generation: the second returns early at
  `run_control.py:75`, and a Stop that is acknowledged before either starts stops only the first; the
  other runs. A Stop split over session token and flags. A Stop that waits for the cleanup lock and
  cancels the generation resumed meanwhile. An abandoned tool thread that starts its process after a
  Resume.
* **Task verdicts.** An edit abandoned by a Stop still lands, and Resume restores "confirmed"; a
  clarification and a lost client likewise (`run_observations.py:90` says that it changes the inputs);
  `run_bash` reports no change of state, so edits by a shell invalidate nothing (`agent_loop.py:409`: a
  mutation makes older receipts stale); a redirected job is forgotten at Resume; criteria that are all
  conditional are confirmed vacuously; `TaskOutcome.verify_answer` returns `{}`, so the retry in
  `answer_acceptance.py` 221–233 is never taken.
* **Command progress.** New input clears the counts in memory only, and a Resume after a lost client
  brings them back (`command_progress.py:147`); a call whose client goes away is not counted; after a
  refusal the rest of the batch is still dispatched.
* **Terminal.** `_run.py` 186–187 says that what the user ran comes with every result. `recent` cuts it at
  2,500 characters (`sessions.py` 228–238), and `mark_seen` marks the cut blocks, and those that came
  since, as seen: they are never shown. `TabsHold` says what is left of it: Elira is told of the newest
  blocks, and none is cut but for newer ones. Busy is tested before a wait of up to four seconds
  and not after; a line half typed becomes part of Elira's command; a socket that subscribes after the
  end is never told.
* **Chat client.** A reload after a Resume forgets the Resume; after a start error or a broken stream a Stop
  is sent without waiting for the Resume's headers; saves may be lost or overtaken; a message of uncertain
  fate loses its id when one is sent to another run in between (one `pendingInput`, 546–551).
* **Workflow decline.** A crash between closing a declined card and stopping its run
  (`request_lifecycle.py` 375–393) leaves a run that waits for a card nobody can answer: recovery looks
  at claims, and there is none (`stranded`).
* **Refused and unlucky journals.** A journal that was refused `run.lock` appends its terminal event and
  writes `state.json` all the same (`agent_loop.py` 1817–1829), although `run_journal.py` 780–784 calls
  `append_event` a writer that holds the lock: the owner's state may be set back (`overwritten`). `_flush_state` gives up in silence after five attempts (871–878), though 872 says
  that the last snapshot must not be lost (`givenUp`). A killed process leaves its `run.lock`; nothing
  removes it.
* **Corpus.** A locked database, or a file whose stat fails, ends a timer's look for good (`file_watcher.py`
  144–150): nothing retries it, and the index stays behind until the next event (`behind`, also after
  finding 6).
* **Telegram.** The offset moves before the message is handled (`runtime.py` 730, 735). With one receiver
  that is harmless, since the next poll comes after; with two, one confirms what the other has in hand,
  and a crash then loses the message (`unheard`).
* **Journals and records.** Two processes that take over one `agent.lock` at once (`run_journal.py:530`);
  a file that is removed by an unindex that comes late (`file_watcher.py:127`); a revocation cut off
  between file and row leaves a row that resolve refuses; a kill that fails in `activate` is followed by
  a discard although an unkillable process "must stay tracked" (`_run.py` 933, 1132); Resume never looks
  at `model_history_error`; `save_servers` compares the file with the new entry and not with what runs.

## 7. What is not modelled, and why

Assumed: a kill that is sent ends its process (`_shell.py` 133–134 and `mcp_client.py` 286–294 go on when
it raises). The count of equal results of a command (`CommandProgress`) is that of one tool and of jobs
that end; a job that was cancelled counts as one that never ends.

* Engine: editing templates, events, metrics, payloads; runs other than one. Composer: schemas, attempts.
* Release manager: the protected layout, `prepare`, retention, progress records, the window as such. Drain:
  trigger rows that are edited or deleted, telegram as more than something that runs, the time between
  ticks, a thread that cannot be started.
* Agent run: what the model says, budgets, repair prompts, which text is a criterion and which output
  proves it, redaction, recovery of command logs, a crash that leaves "running" behind.
* Jobs: servers, remote jobs, retention. Corpus: discovery, chunking, embeddings, the cleanup of another
  process. MCP: the HTTP transport. Vault: ciphers, the migration from the Windows store. Telegram:
  pairing, voice, limits. Foundation: the pipe and the protected storage layout.
* Terminal: the limit on tabs, rendering, resize. Chat client: text and meters, re-seeding an idle chat.
* The components `PROJECT.json` lists as `not_modelled`, with the reason for each: single transactions,
  text classification, prompt assembly, views and network providers have no order of steps to check.

## 8. Plan

What is left, in the order of its weight:

1. Release manager: progress records and retention (`elira_release.py` 1019–1167, 1348–1384), the window of
   the desktop shell while a switch is under way.
2. Smart memory: compare and set of a profile against a consolidation that runs beside it. Event bus:
   subscriptions and pruning (`prune` names a table the schema does not have, though `runtime.py:64` says that
   it bounds the journal).
3. MCP over HTTP; servers (`run_server` of kind *server*) and SSH jobs with their remote cleanup.
4. Sessions and chat folders, the library's store, persona evolution, the task planner's rows.
