---------------------------- MODULE BackgroundJobs ----------------------------
(***************************************************************************)
(* Durable background jobs: run_server(kind = "job") of tools/_run.py, the *)
(* journal and the sidecar files of _background_jobs.py, and the worker    *)
(* process of _job_worker.py that outlives the backend.  The jobs here     *)
(* belong to one run.                                                      *)
(*                                                                         *)
(* A thread of the backend starts a job, looks at the jobs, stops one      *)
(* (run_server stop) or all of the run's (Workflow Stop); _JOURNAL_LOCK    *)
(* makes a write of the journal, and a reconciliation, one critical        *)
(* section; the workers do not take it.  The look at all jobs that begins  *)
(* every call of run_server is Watch, which any thread may do at any time. *)
(***************************************************************************)
EXTENDS Naturals, FiniteSets

CONSTANTS
    Jobs,           \* job ids, in one run
    JobThreads,     \* threads of the backend
    NoJob, NoThread,
    MaxCrashes,     \* bound: crashes of the backend
    MaxJobFails     \* bound: kills and journal writes that fail

ASSUME JobsAssumption ==
    /\ NoJob \notin Jobs /\ NoThread \notin JobThreads
    /\ MaxCrashes \in Nat /\ MaxJobFails \in Nat

VARIABLES
    jobsBackend,    \* "down", "boot" (recover_background_jobs of main.py) or "up"
    jobRecord,  \* the journal: status of each job's record
    located,    \* the records that name a pid and its identity
    spec,       \* the jobs whose spec file is there
    launch,     \* the jobs whose launch file is there
    result,     \* status in the result file
    jobWorker,     \* the worker process
    jobHandle,     \* _LIVE_SERVERS: the status the job's handle shows
    restored,   \* the handles that recover_background_jobs made
    thread,     \* what each thread does, where, for which job, and what is left
    lockedBy,   \* the reconciliation under way,
    read,       \* and the files it has read
    gaveUp,     \* history: jobs given up while their worker may run
    crashes, jobFails

jobVars == <<jobsBackend, jobRecord, located, spec, launch, result, jobWorker, jobHandle,
             restored, thread, lockedBy, read, gaveUp, crashes, jobFails>>
processVars == <<spec, launch, result, jobWorker>>
journalVars == <<jobRecord, located>>

Outcomes == {"completed", "failed"}
JobTerminal == {"completed", "failed", "cancelled"}
NoWork == [does |-> "nothing", at |-> "idle", job |-> NoJob, todo |-> {}]
NothingRead == [launch |-> {}, result |-> [j \in Jobs |-> "none"]]
JobAlive(j) == jobWorker[j] \notin {"none", "gone"}
JournalFree == lockedBy = NoThread
At(t, does, at) == thread[t].does \in does /\ thread[t].at = at
ThreadTo(t, at) == thread' = [thread EXCEPT ![t].at = at]
Ends(t) == thread' = [thread EXCEPT ![t] = NoWork]
Begins(t, work) == thread[t] = NoWork /\ jobsBackend = "up" /\ thread' = [thread EXCEPT ![t] = work]

---------------------------------------------------------------------------
(* The worker process *)

\* The spec is read, pid and identity are published, then the command runs;
\* without a spec the worker exits.
Launch(j) ==
    /\ jobWorker[j] = "born"
    /\ IF j \in spec
       THEN jobWorker' = [jobWorker EXCEPT ![j] = "runs"] /\ launch' = launch \cup {j} /\ spec' = spec \ {j}
       ELSE jobWorker' = [jobWorker EXCEPT ![j] = "gone"] /\ UNCHANGED <<launch, spec>>
    /\ UNCHANGED <<jobsBackend, journalVars, result, jobHandle, restored, thread, lockedBy, read, gaveUp, crashes, jobFails>>

\* The command ends and its result is written, ...
WriteResult(j) ==
    /\ jobWorker[j] = "runs"
    /\ \E o \in Outcomes : result' = [result EXCEPT ![j] = o]
    /\ jobWorker' = [jobWorker EXCEPT ![j] = "wrote"]
    /\ UNCHANGED <<jobsBackend, journalVars, spec, launch, jobHandle, restored, thread, lockedBy, read, gaveUp, crashes, jobFails>>

\* ... and the worker exits.
Exit(j) ==
    /\ jobWorker[j] = "wrote"
    /\ jobWorker' = [jobWorker EXCEPT ![j] = "gone"]
    /\ UNCHANGED <<jobsBackend, journalVars, spec, launch, result, jobHandle, restored, thread, lockedBy, read, gaveUp, crashes, jobFails>>

---------------------------------------------------------------------------
(* reconcile_job_records *)

\* The results and launch files are read under the lock, ...
LookAtJob(t) ==
    /\ thread[t].at \in {"look", "relook"} /\ JournalFree
    /\ lockedBy' = t
    /\ read' = [launch |-> launch, result |-> result]
    /\ UNCHANGED <<jobsBackend, journalVars, processVars, jobHandle, restored, thread, gaveUp, crashes, jobFails>>

\* ... the process itself a moment later.  A result overrides even a final status.
Reconciled(j) ==
    LET launched == IF jobRecord[j] # "starting" THEN jobRecord[j]
                    ELSE IF j \in read.launch THEN "running" ELSE "failed"
    IN IF jobRecord[j] = "none" THEN "none"
       ELSE IF read.result[j] # "none" THEN read.result[j]
       ELSE IF launched = "running" /\ ~JobAlive(j) THEN "failed" ELSE launched

\* Mutant of Shown: recovery makes no handle for a process of an earlier backend.
ShownLive(t, status, known) ==
    [j \in Jobs |-> IF jobHandle[j] # "none" /\ status[j] # "none" /\ (thread[t].job \in {NoJob, j})
                    THEN status[j] ELSE jobHandle[j]]

\* Which handles show the new records: recovery makes the missing ones, a look at
\* the jobs refreshes all, a single thread its own.
Shown(t, status, known) ==
    [j \in Jobs |-> IF \/ thread[t].does \in {"boot", "stopRun"} /\ thread[t].job = NoJob /\ j \in known
                       \/ thread[t].does = "watch" /\ thread[t].job = NoJob /\ jobHandle[j] # "none" /\ status[j] # "none"
                       \/ thread[t].job = j /\ jobHandle[j] # "none" /\ status[j] # "none"
                    THEN status[j] ELSE jobHandle[j]]

NextStep(t) ==
    CASE thread[t].does = "stopRun" /\ thread[t].job = NoJob -> "list"
      [] thread[t].does = "stopRun" /\ thread[t].job # NoJob -> "kill"
      [] thread[t].does = "stopJob" -> IF thread[t].at = "look" THEN "poll" ELSE "mark"
      [] OTHER -> "end"

DecideJob(t) ==
    /\ lockedBy = t
    /\ LET status == [j \in Jobs |-> Reconciled(j)]
           known == located \cup {j \in read.launch : jobRecord[j] = "starting"}
           here == Shown(t, status, known)
       IN /\ jobRecord' = status /\ located' = known
          /\ jobHandle' = here
          /\ restored' = restored \cup {j \in Jobs : jobHandle[j] = "none" /\ here[j] # "none"}
          /\ gaveUp' = gaveUp \cup {j \in Jobs : jobRecord[j] = "starting" /\ status[j] = "failed"}
    /\ thread' = IF NextStep(t) = "end" THEN [thread EXCEPT ![t] = NoWork] ELSE [thread EXCEPT ![t].at = NextStep(t)]
    /\ jobsBackend' = IF thread[t].does = "boot" THEN "up" ELSE jobsBackend
    /\ lockedBy' = NoThread /\ read' = NothingRead
    /\ UNCHANGED <<processVars, crashes, jobFails>>

\* Recovery first waits for the launch files of what is starting, five seconds.
Wait(t) ==
    /\ At(t, {"boot", "stopRun"}, "wait")
    /\ ThreadTo(t, "look")
    /\ UNCHANGED <<jobsBackend, journalVars, processVars, jobHandle, restored, lockedBy, read, gaveUp, crashes, jobFails>>

---------------------------------------------------------------------------
(* run_server(action = "start", kind = "job") *)

\* prepare_job: the spec, then the record.
Prepare(t, j) ==
    /\ Begins(t, [does |-> "start", at |-> "spawn", job |-> j, todo |-> {}])
    /\ JournalFree /\ jobRecord[j] = "none" /\ jobWorker[j] = "none"
    /\ \A u \in JobThreads : thread[u].does = "start" => thread[u].job # j
    /\ spec' = spec \cup {j}
    /\ jobRecord' = [jobRecord EXCEPT ![j] = "starting"]
    /\ UNCHANGED <<jobsBackend, located, launch, result, jobWorker, jobHandle, restored, lockedBy, read, gaveUp, crashes, jobFails>>

\* Popen of the worker.
SpawnWorker(t) ==
    /\ At(t, {"start"}, "spawn")
    /\ jobWorker' = [jobWorker EXCEPT ![thread[t].job] = "born"]
    /\ ThreadTo(t, "activate")
    /\ UNCHANGED <<jobsBackend, journalVars, spec, launch, result, jobHandle, restored, lockedBy, read, gaveUp, crashes, jobFails>>

\* activate_job: the record is running, whatever has become of it.
Activate(t) ==
    /\ At(t, {"start"}, "activate") /\ JournalFree
    /\ jobRecord' = [jobRecord EXCEPT ![thread[t].job] = "running"]
    /\ located' = located \cup {thread[t].job}
    /\ gaveUp' = gaveUp \ {thread[t].job}
    /\ ThreadTo(t, "register")
    /\ UNCHANGED <<jobsBackend, processVars, jobHandle, restored, lockedBy, read, crashes, jobFails>>

\* A worker that has gone has no identity, and the journal may not be writable:
\* the worker is killed, which may fail, and the job discarded, its record only if
\* the journal is writable by then.
DiscardJob(t) ==
    /\ At(t, {"start"}, "activate") /\ JournalFree
    /\ LET j == thread[t].job
       IN /\ \/ jobWorker' = [jobWorker EXCEPT ![j] = "gone"] /\ UNCHANGED gaveUp
             \/ JobAlive(j) /\ gaveUp' = gaveUp \cup {j} /\ UNCHANGED jobWorker
          /\ spec' = spec \ {j} /\ launch' = launch \ {j} /\ result' = [result EXCEPT ![j] = "none"]
          /\ \/ /\ jobRecord' = [jobRecord EXCEPT ![j] = "none"] /\ located' = located \ {j}
                /\ jobFails' = IF JobAlive(j) THEN jobFails + 1 ELSE jobFails
             \/ jobFails' = jobFails + 1 /\ UNCHANGED journalVars
    /\ jobFails' <= MaxJobFails
    /\ Ends(t)
    /\ UNCHANGED <<jobsBackend, jobHandle, restored, lockedBy, read, crashes>>

\* The handle, and a first look.
RegisterJob(t) ==
    /\ At(t, {"start"}, "register")
    /\ jobHandle' = [jobHandle EXCEPT ![thread[t].job] = "running"]
    /\ restored' = restored \ {thread[t].job}
    /\ ThreadTo(t, "look")
    /\ UNCHANGED <<jobsBackend, journalVars, processVars, lockedBy, read, gaveUp, crashes, jobFails>>

---------------------------------------------------------------------------
(* Looking and stopping *)

\* _reap_dead_servers of every list, log and status call.
Watch(t) ==
    /\ Begins(t, [does |-> "watch", at |-> "look", job |-> NoJob, todo |-> {}])
    /\ \E j \in Jobs : jobHandle[j] # "none"
    /\ UNCHANGED <<jobsBackend, journalVars, processVars, jobHandle, restored, lockedBy, read, gaveUp, crashes, jobFails>>

\* run_server(action = "stop"), and stop_run_servers.
StopJob(t, j) ==
    /\ Begins(t, [does |-> "stopJob", at |-> "look", job |-> j, todo |-> {}])
    /\ jobHandle[j] # "none"
    /\ UNCHANGED <<jobsBackend, journalVars, processVars, jobHandle, restored, lockedBy, read, gaveUp, crashes, jobFails>>

StopRun(t) ==
    /\ Begins(t, [does |-> "stopRun", at |-> "wait", job |-> NoJob, todo |-> {}])
    /\ UNCHANGED <<jobsBackend, journalVars, processVars, jobHandle, restored, lockedBy, read, gaveUp, crashes, jobFails>>

\* The handles the run owns after the recovery.
ListJobs(t) ==
    /\ At(t, {"stopRun"}, "list")
    /\ thread' = [thread EXCEPT ![t].at = "next", ![t].todo = {j \in Jobs : jobHandle[j] # "none"}]
    /\ UNCHANGED <<jobsBackend, journalVars, processVars, jobHandle, restored, lockedBy, read, gaveUp, crashes, jobFails>>

\* poll() of a Popen asks the process, of a recovered one the result file first.
SeemsAlive(j) == JobAlive(j) /\ (j \in restored => result[j] = "none")

\* The next of them: one that has ended leaves the registry, one that lives is
\* refreshed and then killed.
NextOwned(t) ==
    /\ At(t, {"stopRun"}, "next")
    /\ IF thread[t].todo = {} THEN Ends(t) /\ UNCHANGED jobHandle
       ELSE \E j \in thread[t].todo :
              IF SeemsAlive(j)
              THEN /\ thread' = [thread EXCEPT ![t].at = "relook", ![t].job = j, ![t].todo = @ \ {j}]
                   /\ UNCHANGED jobHandle
              ELSE /\ thread' = [thread EXCEPT ![t].todo = @ \ {j}]
                   /\ jobHandle' = [jobHandle EXCEPT ![j] = "none"]
    /\ UNCHANGED <<jobsBackend, journalVars, processVars, restored, lockedBy, read, gaveUp, crashes, jobFails>>

\* run_server(stop): a job that is over is left as it is; one that has just ended is
\* looked at again.
PollJob(t) ==
    /\ At(t, {"stopJob"}, "poll")
    /\ \/ jobHandle[thread[t].job] # "running" /\ Ends(t)
       \/ jobHandle[thread[t].job] = "running" /\ SeemsAlive(thread[t].job) /\ ThreadTo(t, "kill")
       \/ /\ jobHandle[thread[t].job] = "running" /\ ~SeemsAlive(thread[t].job)
          /\ thread' = [thread EXCEPT ![t].does = "watch", ![t].at = "look"]
    /\ UNCHANGED <<jobsBackend, journalVars, processVars, jobHandle, restored, lockedBy, read, gaveUp, crashes, jobFails>>

Back(t) == IF thread[t].does = "stopRun" THEN [thread[t] EXCEPT !.at = "next", !.job = NoJob] ELSE NoWork

\* _kill_proc_tree; what survives it stays tracked.
Kill(t) ==
    /\ At(t, {"stopRun", "stopJob"}, "kill")
    /\ LET j == thread[t].job
       IN \/ /\ jobWorker' = [jobWorker EXCEPT ![j] = "gone"]
             /\ ThreadTo(t, IF thread[t].does = "stopRun" THEN "mark" ELSE "relook")
             /\ UNCHANGED jobFails
          \/ /\ JobAlive(j) /\ jobFails < MaxJobFails
             /\ jobFails' = jobFails + 1
             /\ thread' = [thread EXCEPT ![t] = Back(t)]
             /\ UNCHANGED jobWorker
    /\ UNCHANGED <<jobsBackend, journalVars, spec, launch, result, jobHandle, restored, lockedBy, read, gaveUp, crashes>>

\* _mark_job_cancelled: the result file, ...
Mark(t) ==
    /\ At(t, {"stopRun", "stopJob"}, "mark")
    /\ IF thread[t].does = "stopJob" /\ jobHandle[thread[t].job] \in Outcomes /\ result[thread[t].job] \in Outcomes
       THEN Ends(t) /\ UNCHANGED result
       ELSE result' = [result EXCEPT ![thread[t].job] = "cancelled"] /\ ThreadTo(t, "save")
    /\ UNCHANGED <<jobsBackend, journalVars, spec, launch, jobWorker, jobHandle, restored, lockedBy, read, gaveUp, crashes, jobFails>>

\* ... and the journal, if the job is still in it.
SaveMark(t) ==
    /\ At(t, {"stopRun", "stopJob"}, "save") /\ JournalFree
    /\ LET j == thread[t].job
       IN /\ jobRecord' = IF jobRecord[j] = "none" THEN jobRecord ELSE [jobRecord EXCEPT ![j] = "cancelled"]
          /\ jobHandle' = IF jobHandle[j] = "none" THEN jobHandle ELSE [jobHandle EXCEPT ![j] = "cancelled"]
    /\ thread' = [thread EXCEPT ![t] = Back(t)]
    /\ UNCHANGED <<jobsBackend, located, processVars, restored, lockedBy, read, gaveUp, crashes, jobFails>>

---------------------------------------------------------------------------
(* Crash and restart of the backend; the workers run on *)

Crash ==
    /\ jobsBackend # "down" /\ crashes < MaxCrashes
    /\ crashes' = crashes + 1
    /\ jobsBackend' = "down"
    /\ jobHandle' = [j \in Jobs |-> "none"] /\ restored' = {}
    /\ thread' = [t \in JobThreads |-> NoWork]
    /\ lockedBy' = NoThread /\ read' = NothingRead
    /\ UNCHANGED <<journalVars, processVars, gaveUp, jobFails>>

Boot(t) ==
    /\ jobsBackend = "down"
    /\ jobsBackend' = "boot"
    /\ thread' = [thread EXCEPT ![t] = [does |-> "boot", at |-> "wait", job |-> NoJob, todo |-> {}]]
    /\ UNCHANGED <<journalVars, processVars, jobHandle, restored, lockedBy, read, gaveUp, crashes, jobFails>>

---------------------------------------------------------------------------
JobsInit ==
    /\ jobsBackend = "up"
    /\ jobRecord = [j \in Jobs |-> "none"] /\ located = {}
    /\ spec = {} /\ launch = {} /\ result = [j \in Jobs |-> "none"]
    /\ jobWorker = [j \in Jobs |-> "none"]
    /\ jobHandle = [j \in Jobs |-> "none"] /\ restored = {}
    /\ thread = [t \in JobThreads |-> NoWork]
    /\ lockedBy = NoThread /\ read = NothingRead
    /\ gaveUp = {} /\ crashes = 0 /\ jobFails = 0

WorkerSteps(j) == Launch(j) \/ WriteResult(j) \/ Exit(j)

ThreadSteps(t) ==
    \/ LookAtJob(t) \/ DecideJob(t) \/ Wait(t)
    \/ SpawnWorker(t) \/ Activate(t) \/ DiscardJob(t) \/ RegisterJob(t)
    \/ Watch(t) \/ StopRun(t) \/ ListJobs(t) \/ NextOwned(t) \/ PollJob(t) \/ Kill(t) \/ Mark(t) \/ SaveMark(t)
    \/ Boot(t)

JobsNext ==
    \/ \E j \in Jobs : WorkerSteps(j)
    \/ \E t \in JobThreads : ThreadSteps(t) \/ \E j \in Jobs : Prepare(t, j) \/ StopJob(t, j)
    \/ Crash

JobsSpec == JobsInit /\ [][JobsNext]_jobVars

---------------------------------------------------------------------------
(* Properties *)

\* Every record, file, process and thread has its type.
JobsTypeOK ==
    /\ jobsBackend \in {"down", "boot", "up"}
    /\ jobRecord \in [Jobs -> {"none", "starting", "running"} \cup JobTerminal]
    /\ located \subseteq Jobs /\ spec \subseteq Jobs /\ launch \subseteq Jobs
    /\ result \in [Jobs -> {"none"} \cup JobTerminal]
    /\ jobWorker \in [Jobs -> {"none", "born", "runs", "wrote", "gone"}]
    /\ jobHandle \in [Jobs -> {"none", "starting", "running"} \cup JobTerminal]
    /\ restored \subseteq Jobs /\ gaveUp \subseteq Jobs
    /\ thread \in [JobThreads -> [does : {"nothing", "boot", "start", "watch", "stopJob", "stopRun"},
                                  at : {"idle", "wait", "look", "relook", "list", "next", "poll", "kill", "mark",
                                        "save", "spawn", "activate", "register"},
                                  job : Jobs \cup {NoJob}, todo : SUBSET Jobs]]
    /\ lockedBy \in JobThreads \cup {NoThread}
    /\ read \in [launch : SUBSET Jobs, result : [Jobs -> {"none"} \cup JobTerminal]]
    /\ crashes \in 0..MaxCrashes /\ jobFails \in 0..MaxJobFails

\* A command that runs is never lost from sight: once the backend has recovered,
\* whatever crashed, failed to die or was stopped on the way, its handle says so
\* and Stop can reach it; except for a worker that was given up as never launched.
RunningIsTracked ==
    jobsBackend = "up" =>
        \A j \in Jobs \ gaveUp :
            jobWorker[j] = "runs" /\ (\A t \in JobThreads : thread[t].does # "start" \/ thread[t].job # j)
                => jobHandle[j] = "running"

\* A job that is reported as over does not run: neither a result read too late nor
\* a kill that failed makes a record final under a live command.
OverDoesNotRun ==
    \A j \in located \ gaveUp : jobRecord[j] \in JobTerminal => jobWorker[j] # "runs"

\* A job's process is never out of reach while it runs, and one that is reported as
\* over does not run.
JobsAreHonest == RunningIsTracked /\ OverDoesNotRun

=============================================================================
