------------------------------- MODULE RunProofs -------------------------------
(********************************************************************************)
(* One run of the agent, for every value of the constants: who may write its    *)
(* journal and that its lock files are one lock, what each attempt remembers,   *)
(* and what becomes of the user's inputs and of background jobs.                *)
(********************************************************************************)
EXTENDS RunLocks, AgentRun, WellFoundedInduction, SessionInputs, FiniteSetTheorems, BackgroundJobs, TLAPS

-------------------------------------------------------------------------------
(***************************************************************************)
(* What the two lock files of a run guarantee for every number of          *)
(* processes and runs and every tree of delegated runs.  That agent.lock   *)
(* names every lease is not inductive alone: a process that has created    *)
(* the file and not yet written it must still find its own (WriterOwns),   *)
(* and only a live process holds anything (AliveActs).                     *)
(***************************************************************************)

\* The types of the lock files and of who holds them.
LocksTyped ==
    /\ alive \subseteq Processes
    /\ agentLock \in [pid : Processes \cup {NoProcess}, run : Runs \cup {NoRunId}, written : BOOLEAN]
    /\ runLock \in [Runs -> Processes \cup {NoProcess}]
    /\ acquiring \in [Processes -> [at : AcquireSteps, run : Runs \cup {NoRunId}, again : BOOLEAN]]
    /\ lease \in [Processes -> [Runs -> Runs \cup {NoRunId}]]
    /\ held \in [Processes -> SUBSET Runs]
    /\ locksCrossed \in BOOLEAN

LocksNamed == LeaseIsNamed /\ OneWriterOfRun

\* Unless a process has unlinked another's fresh lock, the file a process is
\* about to write is the one it created.
WriterOwns ==
    ~locksCrossed => \A p \in Processes :
        acquiring[p].at = "write" => agentLock = [pid |-> p, run |-> acquiring[p].run, written |-> FALSE]

\* A process that is acquiring, or holds a lease, is alive; what it acquires is a run.
AliveActs ==
    \A p \in Processes :
        /\ acquiring[p].at # "idle" => p \in alive /\ acquiring[p].run \in Runs
        /\ \A r \in Runs : lease[p][r] # NoRunId => p \in alive

LocksInv == LocksTyped /\ LocksNamed /\ WriterOwns /\ AliveActs

USE LocksAssumption

\* A file that is written names no process that is still about to write it, and
\* the absence of a file names nobody.
LEMMA FilesDiffer ==
  ASSUME NEW p \in Processes, NEW o
  PROVE  /\ LeaseFile(p, o) # NoLock
         /\ \A q, r : LeaseFile(p, o) # [pid |-> q, run |-> r, written |-> FALSE]
         /\ \A q, r : LeaseFile(q, r) = LeaseFile(p, o) => q = p /\ r = o
         /\ \A r, w : [pid |-> p, run |-> r, written |-> w] # NoLock
  BY DEF LeaseFile, NoLock

LEMMA LocksInitial == LocksInit => LocksInv
<1> SUFFICES ASSUME LocksInit PROVE LocksInv
  OBVIOUS
<1>1. LocksTyped
  BY DEF LocksInit, LocksTyped, NoLock, NotAcquiring, AcquireSteps
<1>2. LocksNamed /\ WriterOwns /\ AliveActs
  BY DEF LocksInit, LocksNamed, LeaseIsNamed, OneWriterOfRun, WriterOwns, AliveActs, NotAcquiring
<1>3. QED BY <1>1, <1>2 DEF LocksInv

(***************************************************************************)
(* acquire()                                                               *)
(***************************************************************************)

\* The last holder of a lease removes its file and leaves everyone else's.
LEMMA Dropping ==
  ASSUME LocksInv, NEW p \in Processes, NEW r \in Runs, DropLease(p, r)
  PROVE  /\ agentLock' \in [pid : Processes \cup {NoProcess}, run : Runs \cup {NoRunId}, written : BOOLEAN]
         /\ lease' \in [Processes -> [Runs -> Runs \cup {NoRunId}]]
         /\ agentLock' # agentLock => agentLock.written
         /\ \A q \in Processes, o \in Runs : lease'[q][o] # NoRunId => lease'[q][o] = lease[q][o]
         /\ ~locksCrossed => \A q \in Processes, o \in Runs :
                lease'[q][o] # NoRunId => agentLock' = LeaseFile(q, lease'[q][o])
<1>1. /\ lease \in [Processes -> [Runs -> Runs \cup {NoRunId}]]
      /\ agentLock \in [pid : Processes \cup {NoProcess}, run : Runs \cup {NoRunId}, written : BOOLEAN]
  BY DEF LocksInv, LocksTyped
<1>2. lease' = [lease EXCEPT ![p][r] = NoRunId]
  BY DEF DropLease
<1>3. /\ lease' \in [Processes -> [Runs -> Runs \cup {NoRunId}]]
      /\ lease'[p][r] = NoRunId
      /\ \A q \in Processes, o \in Runs : ~(q = p /\ o = r) => lease'[q][o] = lease[q][o]
  BY <1>1, <1>2
<1>4. /\ agentLock' \in [pid : Processes \cup {NoProcess}, run : Runs \cup {NoRunId}, written : BOOLEAN]
      /\ agentLock' # agentLock => agentLock.written
  BY <1>1 DEF DropLease, NoLock, LeaseFile
<1>5. ASSUME ~locksCrossed, NEW q \in Processes, NEW o \in Runs, lease'[q][o] # NoRunId
      PROVE  agentLock' = LeaseFile(q, lease'[q][o])
  <2>1. ~(q = p /\ o = r) /\ lease'[q][o] = lease[q][o]
    BY <1>3, <1>5
  <2>2. agentLock = LeaseFile(q, lease[q][o])
    BY <1>5, <2>1 DEF LocksInv, LocksNamed, LeaseIsNamed
  <2>3. CASE agentLock = LeaseFile(p, lease[p][r]) /\ LeaseHolders(p, lease[p][r]) = {r}
    <3>1. q = p /\ lease[q][o] = lease[p][r]
      BY ZenonT(60), <2>2, <2>3, FilesDiffer
    <3>2. o \in LeaseHolders(p, lease[p][r])
      BY <3>1 DEF LeaseHolders
    <3>3. QED BY <2>1, <2>3, <3>1, <3>2
  <2>4. CASE ~(agentLock = LeaseFile(p, lease[p][r]) /\ LeaseHolders(p, lease[p][r]) = {r})
    BY <2>1, <2>2, <2>4 DEF DropLease
  <2>5. QED BY <2>3, <2>4
<1>6. QED BY <1>3, <1>4, <1>5

\* A step that keeps the leases, the files and the locks of the runs.
LEMMA OnlyActs ==
  ASSUME LocksInv, NEW p \in Processes, NEW a \in [at : AcquireSteps, run : Runs \cup {NoRunId}, again : BOOLEAN],
         acquiring' = [acquiring EXCEPT ![p] = a],
         a.at # "write", a.at # "idle" => p \in alive /\ a.run \in Runs,
         UNCHANGED <<alive, agentLock, runLock, lease, held, locksCrossed>>
  PROVE  LocksInv'
<1>1. LocksTyped'
  BY DEF LocksInv, LocksTyped
<1>2. LocksNamed'
  BY DEF LocksInv, LocksNamed, LeaseIsNamed, OneWriterOfRun
<1>3. WriterOwns' /\ AliveActs'
  BY DEF LocksInv, LocksTyped, WriterOwns, AliveActs
<1>4. QED BY <1>1, <1>2, <1>3 DEF LocksInv

\* run.lock is taken while nobody has it.
LEMMA HoldKeeps ==
  ASSUME LocksInv, NEW p \in Processes, NEW r \in Runs, runLock[r] = NoProcess, Hold(p, r),
         UNCHANGED <<alive, lease, agentLock, locksCrossed>>
  PROVE  LocksInv'
<1>1. /\ acquiring' = [acquiring EXCEPT ![p] = NotAcquiring]
      /\ runLock' = [runLock EXCEPT ![r] = p]
      /\ held' = [held EXCEPT ![p] = held[p] \cup {r}]
      /\ LocksTyped
  BY DEF Hold, LocksInv
<1>2. LocksTyped'
  BY <1>1 DEF LocksTyped, NotAcquiring, AcquireSteps
<1>3. LocksNamed'
  BY <1>1 DEF LocksTyped, LocksInv, LocksNamed, LeaseIsNamed, OneWriterOfRun
<1>4. WriterOwns' /\ AliveActs'
  BY <1>1 DEF LocksTyped, LocksInv, WriterOwns, AliveActs, NotAcquiring
<1>5. QED BY <1>2, <1>3, <1>4 DEF LocksInv

\* A journal that got no lock is given up.
LEMMA GivingUp ==
  ASSUME LocksInv, NEW p \in Processes, LeaveAcquire(p),
         UNCHANGED <<alive, agentLock, runLock, lease, held, locksCrossed>>
  PROVE  LocksInv'
<1>1. acquiring' = [acquiring EXCEPT ![p] = NotAcquiring]
  BY DEF LeaveAcquire
<1>2. NotAcquiring \in [at : AcquireSteps, run : Runs \cup {NoRunId}, again : BOOLEAN] /\ NotAcquiring.at = "idle"
  BY DEF NotAcquiring, AcquireSteps
<1>3. QED BY <1>1, <1>2, OnlyActs

LEMMA AcquireKeeps ==
  ASSUME LocksInv, NEW p \in Processes, Acquire(p)
  PROVE  LocksInv'
<1>0. /\ LocksTyped /\ acquiring[p] \in [at : AcquireSteps, run : Runs \cup {NoRunId}, again : BOOLEAN]
      /\ acquiring[p].at # "idle" => p \in alive /\ acquiring[p].run \in Runs
  BY DEF LocksInv, LocksTyped, AliveActs
<1>1. CASE CreateLock(p)
  <2>1. acquiring[p].at = "create" /\ acquiring[p].run \in Runs /\ p \in alive
    BY <1>0, <1>1 DEF CreateLock
  <2>2. CASE agentLock = NoLock
    <3>1. /\ agentLock' = [pid |-> p, run |-> acquiring[p].run, written |-> FALSE]
          /\ acquiring' = [acquiring EXCEPT ![p].at = "write"]
          /\ UNCHANGED <<alive, runLock, lease, held, locksCrossed>>
      BY <1>1, <2>2 DEF CreateLock, GoTo
    <3>2. ~locksCrossed => \A q \in Processes :
              acquiring[q].at # "write" /\ \A r \in Runs : lease[q][r] = NoRunId
      BY <2>2, FilesDiffer DEF LocksInv, WriterOwns, LocksNamed, LeaseIsNamed
    <3>3. LocksTyped'
      BY <1>0, <2>1, <3>1 DEF LocksTyped, AcquireSteps
    <3>4. LocksNamed'
      BY <3>1, <3>2 DEF LocksInv, LocksNamed, LeaseIsNamed, OneWriterOfRun
    <3>5. WriterOwns' /\ AliveActs'
      BY <1>0, <2>1, <3>1, <3>2 DEF LocksInv, LocksTyped, WriterOwns, AliveActs
    <3>6. QED BY <3>3, <3>4, <3>5 DEF LocksInv
  <2>3. CASE agentLock # NoLock
    <3>1. acquiring' = [acquiring EXCEPT ![p] = [acquiring[p] EXCEPT !.at = "read"]]
      BY <1>1, <2>3 DEF CreateLock, GoTo
    <3>2. [acquiring[p] EXCEPT !.at = "read"] \in [at : AcquireSteps, run : Runs \cup {NoRunId}, again : BOOLEAN]
      BY <1>0 DEF AcquireSteps
    <3>3. QED BY <1>0, <1>1, <2>1, <2>3, <3>1, <3>2, OnlyActs DEF CreateLock
  <2>4. QED BY <2>2, <2>3
<1>2. CASE Read(p)
  <2>1. acquiring[p].run \in Runs /\ p \in alive
    BY <1>0, <1>2 DEF Read
  <2>2. PICK step \in {"unlink", "refused"} : acquiring' = [acquiring EXCEPT ![p] = [acquiring[p] EXCEPT !.at = step]]
    BY <1>2 DEF Read, GoTo
  <2>3. /\ [acquiring[p] EXCEPT !.at = step] \in [at : AcquireSteps, run : Runs \cup {NoRunId}, again : BOOLEAN]
        /\ [acquiring[p] EXCEPT !.at = step].at = step
        /\ [acquiring[p] EXCEPT !.at = step].run = acquiring[p].run
    BY <1>0 DEF AcquireSteps
  <2>4. UNCHANGED <<alive, agentLock, runLock, lease, held, locksCrossed>>
    BY <1>2 DEF Read
  <2>5. QED BY <2>1, <2>2, <2>3, <2>4, OnlyActs
<1>3. CASE Unlink(p)
  <2>1. acquiring[p].at = "unlink" /\ acquiring[p].run \in Runs /\ p \in alive
    BY <1>0, <1>3 DEF Unlink
  <2>2. CASE GoTo(p, "refused") /\ UNCHANGED <<agentLock, locksCrossed>>
    <3>1. acquiring' = [acquiring EXCEPT ![p] = [acquiring[p] EXCEPT !.at = "refused"]]
      BY <2>2 DEF GoTo
    <3>2. [acquiring[p] EXCEPT !.at = "refused"] \in [at : AcquireSteps, run : Runs \cup {NoRunId}, again : BOOLEAN]
      BY <1>0 DEF AcquireSteps
    <3>3. QED BY <1>0, <1>3, <2>1, <2>2, <3>1, <3>2, OnlyActs DEF Unlink
  <2>3. CASE /\ agentLock' = NoLock
             /\ locksCrossed' = (locksCrossed \/ agentLock.pid \in alive)
             /\ acquiring' = [acquiring EXCEPT ![p].at = "create", ![p].again = TRUE]
    <3>1. UNCHANGED <<alive, runLock, lease, held>>
      BY <1>3 DEF Unlink
    <3>2. LocksTyped'
      BY <1>0, <2>3, <3>1 DEF LocksTyped, AcquireSteps, NoLock
    <3>3. ~locksCrossed' => \A q \in Processes :
              acquiring[q].at # "write" /\ \A r \in Runs : lease[q][r] = NoRunId
      <4> SUFFICES ASSUME ~locksCrossed', NEW q \in Processes
                   PROVE  acquiring[q].at # "write" /\ \A r \in Runs : lease[q][r] = NoRunId
        OBVIOUS
      <4>1. ~locksCrossed /\ agentLock.pid \notin alive
        BY <2>3, <1>0 DEF LocksTyped
      <4>2. QED BY <4>1 DEF LocksInv, WriterOwns, LocksNamed, LeaseIsNamed, LeaseFile, AliveActs
    <3>4. LocksNamed'
      BY <3>1, <3>3 DEF LocksInv, LocksNamed, LeaseIsNamed, OneWriterOfRun
    <3>5. WriterOwns' /\ AliveActs'
      BY <1>0, <2>1, <2>3, <3>1, <3>3 DEF LocksInv, LocksTyped, WriterOwns, AliveActs
    <3>6. QED BY <3>2, <3>4, <3>5 DEF LocksInv
  <2>4. QED BY <1>3, <2>2, <2>3 DEF Unlink
<1>4. CASE Write(p)
  <2> DEFINE r == acquiring[p].run
  <2>1. acquiring[p].at = "write" /\ r \in Runs /\ p \in alive
    BY <1>0, <1>4 DEF Write
  <2>2. /\ lease' = [lease EXCEPT ![p][r] = r]
        /\ agentLock' = IF agentLock = [pid |-> p, run |-> r, written |-> FALSE]
                        THEN LeaseFile(p, r) ELSE agentLock
        /\ acquiring' = [acquiring EXCEPT ![p].at = "runLock"]
        /\ UNCHANGED <<alive, runLock, held, locksCrossed>>
    BY <1>4 DEF Write, GoTo
  <2>3. LocksTyped'
    BY <1>0, <2>1, <2>2 DEF LocksTyped, AcquireSteps, LeaseFile
  <2>4. ~locksCrossed => /\ agentLock = [pid |-> p, run |-> r, written |-> FALSE]
                         /\ agentLock' = LeaseFile(p, r)
    BY <2>1, <2>2 DEF LocksInv, WriterOwns
  <2>5. ~locksCrossed => \A q \in Processes :
            /\ q # p => acquiring[q].at # "write"
            /\ \A o \in Runs : lease[q][o] = NoRunId
    <3> SUFFICES ASSUME ~locksCrossed, NEW q \in Processes
                 PROVE  /\ q # p => acquiring[q].at # "write"
                        /\ \A o \in Runs : lease[q][o] = NoRunId
      OBVIOUS
    <3>1. q # p => acquiring[q].at # "write"
      BY <2>4 DEF LocksInv, WriterOwns
    <3>2. \A o \in Runs : lease[q][o] = NoRunId
      BY <2>4, FilesDiffer DEF LocksInv, LocksNamed, LeaseIsNamed
    <3>3. QED BY <3>1, <3>2
  <2>6. LocksNamed'
    <3>1. OneWriterOfRun'
      BY <2>2 DEF LocksInv, LocksNamed, OneWriterOfRun
    <3>2. ASSUME ~locksCrossed, NEW q \in Processes, NEW o \in Runs, lease'[q][o] # NoRunId
          PROVE  agentLock' = LeaseFile(q, lease'[q][o])
      <4>1. lease \in [Processes -> [Runs -> Runs \cup {NoRunId}]]
        BY <1>0 DEF LocksTyped
      <4>2. lease'[q][o] = IF q = p /\ o = r THEN r ELSE lease[q][o]
        BY <2>1, <2>2, <4>1
      <4>3. q = p /\ o = r
        BY <2>5, <3>2, <4>2
      <4>4. QED BY <2>4, <3>2, <4>2, <4>3
    <3>3. QED BY <2>2, <3>1, <3>2 DEF LocksNamed, LeaseIsNamed
  <2>7. WriterOwns'
    BY <1>0, <2>1, <2>2, <2>5 DEF LocksInv, LocksTyped, WriterOwns
  <2>8. AliveActs'
    BY <1>0, <2>1, <2>2 DEF LocksInv, LocksTyped, AliveActs
  <2>9. QED BY <2>3, <2>6, <2>7, <2>8 DEF LocksInv
<1>5. CASE TakeRunLock(p)
  <2> DEFINE r == acquiring[p].run
  <2>1. acquiring[p].at = "runLock" /\ r \in Runs /\ p \in alive
    BY <1>0, <1>5 DEF TakeRunLock
  <2>2. UNCHANGED <<alive, locksCrossed>>
    BY <1>5 DEF TakeRunLock
  <2>3. CASE runLock[r] = NoProcess
    BY <1>5, <2>1, <2>2, <2>3, HoldKeeps DEF TakeRunLock
  <2>4. CASE runLock[r] # NoProcess
    <3>1. /\ DropLease(p, r) /\ UNCHANGED <<runLock, held>>
          /\ acquiring' = [acquiring EXCEPT ![p].at = "refused"]
      BY <1>5, <2>4 DEF TakeRunLock, GoTo
    <3>2. acquiring' \in [Processes -> [at : AcquireSteps, run : Runs \cup {NoRunId}, again : BOOLEAN]]
      BY <1>0, <3>1 DEF LocksTyped, AcquireSteps
    <3>3. LocksTyped'
      BY <1>0, <2>1, <2>2, <3>1, <3>2, Dropping DEF LocksTyped
    <3>4. LocksNamed'
      BY <2>1, <2>2, <3>1, Dropping DEF LocksInv, LocksNamed, LeaseIsNamed, OneWriterOfRun
    <3>5. WriterOwns'
      <4>1. \A q \in Processes : acquiring'[q].at = "write" => acquiring[q].at = "write" /\ acquiring'[q] = acquiring[q]
        BY <1>0, <3>1 DEF LocksTyped
      <4>2. agentLock' # agentLock => agentLock.written
        BY <2>1, <3>1, Dropping
      <4>3. QED BY <2>2, <4>1, <4>2 DEF LocksInv, WriterOwns
    <3>6. AliveActs'
      BY <1>0, <2>1, <2>2, <3>1, Dropping DEF LocksTyped, LocksInv, AliveActs
    <3>7. QED BY <3>3, <3>4, <3>5, <3>6 DEF LocksInv
  <2>5. QED BY <2>3, <2>4
<1>6. CASE WriteUnlocked(p)
  BY <1>6, GivingUp DEF WriteUnlocked
<1>7. CASE LockForTerminal(p)
  <2>1. acquiring[p].run \in Runs /\ p \in alive /\ acquiring[p].at # "write"
    BY <1>0, <1>7 DEF LockForTerminal
  <2>2. CASE runLock[acquiring[p].run] = NoProcess
    BY <1>7, <2>1, <2>2, HoldKeeps DEF LockForTerminal
  <2>3. CASE runLock[acquiring[p].run] # NoProcess
    BY <1>7, <2>3, GivingUp DEF LockForTerminal
  <2>4. QED BY <2>2, <2>3
<1>8. QED BY <1>1, <1>2, <1>3, <1>4, <1>5, <1>6, <1>7 DEF Acquire

LEMMA BeginKeeps ==
  ASSUME LocksInv, NEW p \in Processes, NEW r \in Runs,
         AcquireOwn(p, r) \/ AcquireShared(p, r) \/ LoadForTerminal(p, r)
  PROVE  LocksInv'
<1>0. LocksTyped
  BY DEF LocksInv
<1>a. ASSUME NEW step \in AcquireSteps, step \notin {"idle", "write"}, Open(p, r, step), p \in alive,
             UNCHANGED <<alive, agentLock, runLock, lease, held, locksCrossed>>
      PROVE  LocksInv'
  <2>1. acquiring' = [acquiring EXCEPT ![p] = [at |-> step, run |-> r, again |-> FALSE]]
    BY <1>a DEF Open
  <2>2. [at |-> step, run |-> r, again |-> FALSE] \in [at : AcquireSteps, run : Runs \cup {NoRunId}, again : BOOLEAN]
    OBVIOUS
  <2>3. QED BY <1>a, <2>1, <2>2, OnlyActs
<1>b. "create" \in AcquireSteps /\ "refused" \in AcquireSteps /\ "terminal" \in AcquireSteps
  BY DEF AcquireSteps
<1>1. CASE AcquireOwn(p, r)
  BY <1>a, <1>b, <1>1 DEF AcquireOwn
<1>2. CASE AcquireShared(p, r)
  <2>1. p \in alive /\ UNCHANGED <<alive, agentLock, runLock, held, locksCrossed>>
    BY <1>2 DEF AcquireShared
  <2>2. ParentOf[r] \in Runs
    BY <1>2 DEF AcquireShared
  <2>3. CASE OwnsLiveLease(p, ParentOf[r])
    <3>1. /\ lease' = [lease EXCEPT ![p][r] = lease[p][ParentOf[r]]]
          /\ acquiring' = [acquiring EXCEPT ![p] = [at |-> "runLock", run |-> r, again |-> FALSE]]
      BY <1>2, <2>3 DEF AcquireShared, Open
    <3>2. agentLock = LeaseFile(p, lease[p][ParentOf[r]])
      BY <2>3 DEF OwnsLiveLease
    <3>3. LocksTyped'
      BY <1>0, <2>1, <2>2, <3>1 DEF LocksTyped, AcquireSteps
    <3>4. LocksNamed'
      BY <1>0, <2>1, <3>1, <3>2 DEF LocksTyped, LocksInv, LocksNamed, LeaseIsNamed, OneWriterOfRun
    <3>5. WriterOwns' /\ AliveActs'
      BY <1>0, <2>1, <3>1 DEF LocksTyped, LocksInv, WriterOwns, AliveActs
    <3>6. QED BY <3>3, <3>4, <3>5 DEF LocksInv
  <2>4. CASE ~OwnsLiveLease(p, ParentOf[r])
    BY <1>a, <1>b, <1>2, <2>1, <2>4 DEF AcquireShared
  <2>5. QED BY <2>3, <2>4
<1>3. CASE LoadForTerminal(p, r)
  BY <1>a, <1>b, <1>3 DEF LoadForTerminal
<1>4. QED BY <1>1, <1>2, <1>3

(***************************************************************************)
(* The ends                                                                *)
(***************************************************************************)
LEMMA ReleaseKeeps ==
  ASSUME LocksInv, NEW p \in Processes, NEW r \in Runs, Release(p, r)
  PROVE  LocksInv'
<1>1. /\ DropLease(p, r) /\ r \in held[p]
      /\ runLock' = [runLock EXCEPT ![r] = NoProcess]
      /\ held' = [held EXCEPT ![p] = held[p] \ {r}]
      /\ UNCHANGED <<alive, acquiring, locksCrossed>>
      /\ LocksTyped
  BY DEF Release, LocksInv
<1>2. LocksTyped'
  BY <1>1, Dropping DEF LocksTyped
<1>3. OneWriterOfRun'
  BY <1>1 DEF LocksTyped, LocksInv, LocksNamed, OneWriterOfRun
<1>4. LeaseIsNamed'
  BY <1>1, Dropping DEF LeaseIsNamed
<1>5. WriterOwns'
  <2>1. agentLock' # agentLock => agentLock.written
    BY <1>1, Dropping
  <2>2. QED BY <1>1, <2>1 DEF LocksInv, WriterOwns
<1>6. AliveActs'
  BY <1>1, Dropping DEF LocksInv, AliveActs
<1>7. QED BY <1>2, <1>3, <1>4, <1>5, <1>6 DEF LocksInv, LocksNamed

LEMMA DieKeeps ==
  ASSUME LocksInv, NEW p \in Processes, Die(p)
  PROVE  LocksInv'
<1>1. /\ alive' = alive \ {p}
      /\ acquiring' = [acquiring EXCEPT ![p] = NotAcquiring]
      /\ lease' = [lease EXCEPT ![p] = [r \in Runs |-> NoRunId]]
      /\ held' = [held EXCEPT ![p] = {}]
      /\ UNCHANGED <<agentLock, runLock, locksCrossed>>
      /\ LocksTyped
  BY DEF Die, LeaveAcquire, LocksInv
<1>2. LocksTyped'
  BY <1>1 DEF LocksTyped, NotAcquiring, AcquireSteps
<1>3. LocksNamed'
  BY <1>1 DEF LocksTyped, LocksInv, LocksNamed, LeaseIsNamed, OneWriterOfRun
<1>4. WriterOwns' /\ AliveActs'
  BY <1>1 DEF LocksTyped, LocksInv, WriterOwns, AliveActs, NotAcquiring
<1>5. QED BY <1>2, <1>3, <1>4 DEF LocksInv

LEMMA LocksInvariant == LocksSpec => []LocksInv
<1>1. LocksInv /\ [LocksNext]_lockVars => LocksInv'
  <2> SUFFICES ASSUME LocksInv, [LocksNext]_lockVars PROVE LocksInv'
    OBVIOUS
  <2>1. ASSUME NEW p \in Processes, Acquire(p) PROVE LocksInv'
    BY <2>1, AcquireKeeps
  <2>2. ASSUME NEW p \in Processes, NEW r \in Runs,
               AcquireOwn(p, r) \/ AcquireShared(p, r) \/ LoadForTerminal(p, r)
        PROVE  LocksInv'
    BY <2>2, BeginKeeps
  <2>3. ASSUME NEW p \in Processes, NEW r \in Runs, Release(p, r) PROVE LocksInv'
    BY <2>3, ReleaseKeeps
  <2>4. ASSUME NEW p \in Processes, Die(p) PROVE LocksInv'
    BY <2>4, DieKeeps
  <2>5. CASE UNCHANGED lockVars
    BY <2>5 DEF lockVars, LocksInv, LocksTyped, LocksNamed, LeaseIsNamed, OneWriterOfRun,
                WriterOwns, AliveActs
  <2>6. QED BY <2>1, <2>2, <2>3, <2>4, <2>5 DEF LocksNext
<1>2. QED BY LocksInitial, <1>1, PTL DEF LocksSpec

(***************************************************************************)
(* What the lock does not cover.  A journal out of date belongs to a run   *)
(* that two processes had open, because whoever makes it so had the run    *)
(* open too (BothContest).                                                 *)
(***************************************************************************)

RecordTyped ==
    /\ saved \subseteq Runs /\ contested \subseteq Runs /\ overwritten \subseteq Runs
    /\ opened \in [Processes -> {"none", "fresh", "current", "outdated"}]

\* A journal that is out of date is still being acquired, for a contested run.
OutdatedIsContested ==
    \A p \in Processes : opened[p] = "outdated" => acquiring[p].at # "idle" /\ acquiring[p].run \in contested

\* A run that one process opens while another does, or holds it, is contested.
BothContest ==
    \A p, q \in Processes, r \in Runs :
        p # q /\ Opens(p, r) /\ (Opens(q, r) \/ r \in held[q]) => r \in contested

RecordInv == RecordTyped /\ OverwrittenIsContested /\ OutdatedIsContested /\ BothContest

LEMMA RecordInitial == LocksInit => RecordInv
  BY DEF LocksInit, RecordInv, RecordTyped, OverwrittenIsContested, OutdatedIsContested, BothContest,
         Opens, NotAcquiring

\* A journal is made or loaded, by a process that does not hold the run.
LEMMA OpenRecord ==
  ASSUME LocksInv, RecordInv, NEW p \in Processes, NEW r \in Runs, NEW step, step # "idle",
         acquiring[p] = NotAcquiring, r \notin held[p], Open(p, r, step), held' = held
  PROVE  RecordInv'
<1>0. /\ acquiring \in [Processes -> [at : AcquireSteps, run : Runs \cup {NoRunId}, again : BOOLEAN]]
      /\ acquiring' = [acquiring EXCEPT ![p] = [at |-> step, run |-> r, again |-> FALSE]]
      /\ opened' = [opened EXCEPT ![p] = IF \E q \in Processes : r \in held[q] THEN "outdated"
                                         ELSE IF r \in saved THEN "current" ELSE "fresh"]
      /\ contested' = contested \cup {o \in {r} : \E q \in Processes \ {p} : r \in held[q] \/ Opens(q, r)}
      /\ UNCHANGED <<saved, overwritten>>
  BY DEF Open, LocksInv, LocksTyped
<1>1. RecordTyped'
  BY <1>0 DEF RecordInv, RecordTyped
<1>2. OverwrittenIsContested'
  BY <1>0 DEF RecordInv, OverwrittenIsContested
<1>3. \A q \in Processes : q # p => acquiring'[q] = acquiring[q] /\ opened'[q] = opened[q]
  BY <1>0 DEF RecordInv, RecordTyped
<1>4. /\ acquiring'[p].at # "idle" /\ acquiring'[p].run = r
      /\ opened'[p] = "outdated" => \E q \in Processes : r \in held[q]
  BY <1>0 DEF RecordInv, RecordTyped
<1>5. OutdatedIsContested'
  <2> SUFFICES ASSUME NEW q \in Processes, opened'[q] = "outdated"
               PROVE  acquiring'[q].at # "idle" /\ acquiring'[q].run \in contested'
    BY DEF OutdatedIsContested
  <2>1. CASE q = p
    BY <1>0, <1>4, <2>1
  <2>2. CASE q # p
    BY <1>0, <1>3, <2>2 DEF RecordInv, OutdatedIsContested
  <2>3. QED BY <2>1, <2>2
<1>6. BothContest'
  <2> SUFFICES ASSUME NEW q \in Processes, NEW o \in Processes, NEW u \in Runs, q # o,
                      acquiring'[q].at # "idle", acquiring'[q].run = u,
                      (acquiring'[o].at # "idle" /\ acquiring'[o].run = u) \/ u \in held[o]
               PROVE  u \in contested'
    BY <1>0 DEF BothContest, Opens
  <2>1. CASE q = p
    BY <1>0, <1>3, <1>4, <2>1 DEF Opens
  <2>2. CASE q # p /\ o = p /\ u \notin held[o]
    BY <1>0, <1>3, <1>4, <2>2 DEF Opens
  <2>3. CASE q # p /\ (o # p \/ u \in held[o])
    BY <1>0, <1>3, <2>3 DEF Opens, RecordInv, BothContest
  <2>4. QED BY <2>1, <2>2, <2>3
<1>7. QED BY <1>1, <1>2, <1>5, <1>6 DEF RecordInv

\* A process goes on acquiring, or has stopped, and holds no more runs than before.
LEMMA MoveRecord ==
  ASSUME RecordInv, NEW p \in Processes,
         acquiring'[p].at = "idle" \/ (acquiring[p].at # "idle" /\ acquiring'[p].run = acquiring[p].run),
         \A q \in Processes : q # p => acquiring'[q] = acquiring[q],
         \A q \in Processes : held'[q] \subseteq held[q],
         \/ opened' = opened /\ acquiring'[p].at # "idle"
         \/ opened' = [opened EXCEPT ![p] = "none"],
         contested' = contested, overwritten' \subseteq contested, saved' = saved
  PROVE  RecordInv'
<1>0. \A q \in Processes : opened'[q] = opened[q] \/ (q = p /\ opened'[q] = "none")
  BY DEF RecordInv, RecordTyped
<1>1. RecordTyped'
  BY DEF RecordInv, RecordTyped
<1>2. OverwrittenIsContested'
  BY DEF OverwrittenIsContested
<1>3. OutdatedIsContested'
  <2> SUFFICES ASSUME NEW q \in Processes, opened'[q] = "outdated"
               PROVE  acquiring'[q].at # "idle" /\ acquiring'[q].run \in contested
    BY DEF OutdatedIsContested
  <2>1. opened[q] = "outdated"
    BY <1>0
  <2>2. acquiring[q].at # "idle" /\ acquiring[q].run \in contested
    BY <2>1 DEF RecordInv, OutdatedIsContested
  <2>3. q = p => acquiring'[p].at # "idle"
    BY DEF RecordInv, RecordTyped
  <2>4. QED BY <2>2, <2>3
<1>4. BothContest'
  <2>1. \A q \in Processes, r \in Runs :
            (acquiring'[q].at # "idle" /\ acquiring'[q].run = r) => Opens(q, r)
    BY DEF Opens
  <2>2. QED BY <2>1 DEF RecordInv, BothContest, Opens
<1>5. QED BY <1>1, <1>2, <1>3, <1>4 DEF RecordInv

\* The journal that a process writes is out of date only for a contested run.
LEMMA WriteRecord ==
  ASSUME RecordInv, NEW p \in Processes, Overwrites(p, acquiring[p].run)
  PROVE  overwritten' \subseteq contested
  BY DEF Overwrites, RecordInv, OverwrittenIsContested, OutdatedIsContested

\* run.lock is taken: whoever else has the run open is out of date.
LEMMA HoldRecord ==
  ASSUME LocksInv, RecordInv, NEW p \in Processes, NEW r \in Runs, Opens(p, r), Hold(p, r)
  PROVE  RecordInv'
<1>0. /\ acquiring \in [Processes -> [at : AcquireSteps, run : Runs \cup {NoRunId}, again : BOOLEAN]]
      /\ held \in [Processes -> SUBSET Runs]
      /\ acquiring' = [acquiring EXCEPT ![p] = NotAcquiring]
      /\ held' = [held EXCEPT ![p] = held[p] \cup {r}]
      /\ saved' = saved \cup {r}
      /\ opened' = [q \in Processes |-> IF q = p THEN "none" ELSE IF Opens(q, r) THEN "outdated" ELSE opened[q]]
      /\ contested' = contested
  BY DEF Hold, LocksInv, LocksTyped
<1>1. overwritten' \subseteq contested
  BY WriteRecord DEF Hold, Opens
<1>2. RecordTyped'
  BY <1>0, <1>1 DEF RecordInv, RecordTyped
<1>3. OverwrittenIsContested'
  BY <1>0, <1>1 DEF OverwrittenIsContested
<1>4. /\ acquiring'[p].at = "idle"
      /\ \A q \in Processes : q # p => acquiring'[q] = acquiring[q] /\ held'[q] = held[q]
  BY <1>0 DEF NotAcquiring
<1>5. OutdatedIsContested'
  <2> SUFFICES ASSUME NEW q \in Processes, opened'[q] = "outdated"
               PROVE  acquiring'[q].at # "idle" /\ acquiring'[q].run \in contested
    BY <1>0 DEF OutdatedIsContested
  <2>1. q # p
    BY <1>0
  <2>2. CASE Opens(q, r)
    <3>1. r \in contested
      BY <2>1, <2>2 DEF RecordInv, BothContest
    <3>2. QED BY <1>4, <2>1, <2>2, <3>1 DEF Opens
  <2>3. CASE ~Opens(q, r)
    <3>1. opened[q] = "outdated"
      BY <1>0, <2>1, <2>3
    <3>2. QED BY <1>4, <2>1, <3>1 DEF RecordInv, OutdatedIsContested
  <2>4. QED BY <2>2, <2>3
<1>6. BothContest'
  <2> SUFFICES ASSUME NEW q \in Processes, NEW o \in Processes, NEW u \in Runs, q # o,
                      acquiring'[q].at # "idle", acquiring'[q].run = u,
                      (acquiring'[o].at # "idle" /\ acquiring'[o].run = u) \/ u \in held'[o]
               PROVE  u \in contested
    BY <1>0 DEF BothContest, Opens
  <2>1. q # p /\ Opens(q, u)
    BY <1>4 DEF Opens
  <2>2. CASE o # p
    BY <1>4, <2>1, <2>2 DEF Opens, RecordInv, BothContest
  <2>3. CASE o = p
    <3>1. u \in held[p] \/ u = r
      BY <1>0, <1>4, <2>3
    <3>2. QED BY <2>1, <2>3, <3>1 DEF RecordInv, BothContest
  <2>4. QED BY <2>2, <2>3
<1>7. QED BY <1>2, <1>3, <1>5, <1>6 DEF RecordInv

LEMMA AcquireRecord ==
  ASSUME LocksInv, RecordInv, NEW p \in Processes, Acquire(p)
  PROVE  RecordInv'
<1>0. /\ acquiring \in [Processes -> [at : AcquireSteps, run : Runs \cup {NoRunId}, again : BOOLEAN]]
      /\ acquiring[p].at # "idle" => acquiring[p].run \in Runs
  BY DEF LocksInv, LocksTyped, AliveActs
<1>1. ASSUME NEW step, step # "idle", acquiring[p].at # "idle", GoTo(p, step), UNCHANGED <<held, recordVars>>
      PROVE  RecordInv'
  <2>1. /\ acquiring'[p].at = step /\ acquiring'[p].run = acquiring[p].run
        /\ \A q \in Processes : q # p => acquiring'[q] = acquiring[q]
    BY <1>0, <1>1 DEF GoTo
  <2>2. QED BY <1>1, <2>1, MoveRecord DEF recordVars, RecordInv, OverwrittenIsContested
<1>2. CASE CreateLock(p) \/ Read(p) \/ Write(p)
  BY <1>1, <1>2 DEF CreateLock, Read, Write
<1>3. CASE Unlink(p)
  <2>1. CASE acquiring' = [acquiring EXCEPT ![p].at = "create", ![p].again = TRUE]
    <3>1. /\ acquiring'[p].at = "create" /\ acquiring'[p].run = acquiring[p].run
          /\ \A q \in Processes : q # p => acquiring'[q] = acquiring[q]
      BY <1>0, <2>1
    <3>2. acquiring[p].at # "idle" /\ UNCHANGED <<held, recordVars>>
      BY <1>3 DEF Unlink
    <3>3. QED BY <3>1, <3>2, MoveRecord DEF recordVars, RecordInv, OverwrittenIsContested
  <2>2. QED BY <1>1, <1>3, <2>1 DEF Unlink
<1>4. CASE TakeRunLock(p)
  <2>1. acquiring[p].at # "idle" /\ acquiring[p].run \in Runs
    BY <1>0, <1>4 DEF TakeRunLock
  <2>2. CASE Hold(p, acquiring[p].run)
    BY <2>1, <2>2, HoldRecord DEF Opens
  <2>3. CASE GoTo(p, "refused") /\ UNCHANGED <<held, recordVars>>
    BY <1>1, <2>1, <2>3
  <2>4. QED BY <1>4, <2>2, <2>3 DEF TakeRunLock
<1>5. ASSUME LeaveAcquire(p), UNCHANGED <<held, saved, contested>>, overwritten' \subseteq contested
      PROVE  RecordInv'
  <2>1. /\ acquiring'[p].at = "idle" /\ opened' = [opened EXCEPT ![p] = "none"]
        /\ \A q \in Processes : q # p => acquiring'[q] = acquiring[q]
    BY <1>0, <1>5 DEF LeaveAcquire, NotAcquiring
  <2>2. QED BY <1>5, <2>1, MoveRecord
<1>6. CASE WriteUnlocked(p)
  BY <1>5, <1>6, WriteRecord DEF WriteUnlocked
<1>7. CASE LockForTerminal(p)
  <2>1. acquiring[p].at # "idle" /\ acquiring[p].run \in Runs
    BY <1>0, <1>7 DEF LockForTerminal
  <2>2. CASE Hold(p, acquiring[p].run)
    BY <2>1, <2>2, HoldRecord DEF Opens
  <2>3. CASE LeaveAcquire(p) /\ UNCHANGED <<held, saved, contested, overwritten>>
    BY <1>5, <2>3 DEF RecordInv, OverwrittenIsContested
  <2>4. QED BY <1>7, <2>2, <2>3 DEF LockForTerminal
<1>8. QED BY <1>2, <1>3, <1>4, <1>6, <1>7 DEF Acquire

LEMMA EndRecord ==
  ASSUME LocksInv, RecordInv, NEW p \in Processes, (\E r \in Runs : Release(p, r)) \/ Die(p)
  PROVE  RecordInv'
<1>0. /\ acquiring \in [Processes -> [at : AcquireSteps, run : Runs \cup {NoRunId}, again : BOOLEAN]]
      /\ held \in [Processes -> SUBSET Runs]
  BY DEF LocksInv, LocksTyped
<1>1. CASE \E r \in Runs : Release(p, r)
  <2>1. UNCHANGED <<acquiring, recordVars>> /\ \A q \in Processes : held'[q] \subseteq held[q]
    BY <1>0, <1>1 DEF Release
  <2>2. QED BY <2>1 DEF recordVars, RecordInv, RecordTyped, OverwrittenIsContested, OutdatedIsContested,
                        BothContest, Opens
<1>2. CASE Die(p)
  <2>1. /\ acquiring'[p].at = "idle" /\ opened' = [opened EXCEPT ![p] = "none"]
        /\ \A q \in Processes : q # p => acquiring'[q] = acquiring[q]
        /\ \A q \in Processes : held'[q] \subseteq held[q]
        /\ UNCHANGED <<saved, contested, overwritten>>
    BY <1>0, <1>2 DEF Die, LeaveAcquire, NotAcquiring
  <2>2. QED BY <2>1, MoveRecord DEF RecordInv, OverwrittenIsContested
<1>3. QED BY <1>1, <1>2

LEMMA RecordInvariant == LocksSpec => []RecordInv
<1>1. LocksInv /\ RecordInv /\ [LocksNext]_lockVars => RecordInv'
  <2> SUFFICES ASSUME LocksInv, RecordInv, [LocksNext]_lockVars PROVE RecordInv'
    OBVIOUS
  <2>1. ASSUME NEW p \in Processes, Acquire(p) PROVE RecordInv'
    BY <2>1, AcquireRecord
  <2>2. ASSUME NEW p \in Processes, NEW r \in Runs,
               AcquireOwn(p, r) \/ AcquireShared(p, r) \/ LoadForTerminal(p, r)
        PROVE  RecordInv'
    <3>1. /\ acquiring[p] = NotAcquiring /\ r \notin held[p] /\ held' = held
          /\ \E step \in {"create", "runLock", "refused", "terminal"} : Open(p, r, step)
      BY <2>2 DEF AcquireOwn, AcquireShared, LoadForTerminal
    <3>2. QED BY <3>1, OpenRecord
  <2>3. ASSUME NEW p \in Processes, (\E r \in Runs : Release(p, r)) \/ Die(p) PROVE RecordInv'
    BY <2>3, EndRecord
  <2>4. CASE UNCHANGED lockVars
    BY <2>4 DEF lockVars, recordVars, RecordInv, RecordTyped, OverwrittenIsContested, OutdatedIsContested,
                BothContest, Opens
  <2>5. QED BY <2>1, <2>2, <2>3, <2>4 DEF LocksNext
<1>2. QED BY RecordInitial, LocksInvariant, <1>1, PTL DEF LocksSpec

\* Locks, leases, places and journals have the types the code gives them, for any
\* number of processes and runs (run_journal.py:476, RunJournal).
THEOREM LocksTypeCorrect == LocksSpec => []LocksTypeOK
<1>1. LocksInv /\ RecordInv => LocksTypeOK
  BY DEF LocksInv, LocksTyped, RecordInv, RecordTyped, LocksTypeOK
<1>2. QED BY <1>1, LocksInvariant, RecordInvariant, PTL

\* One process at a time holds a run, whichever processes die and however runs
\* are delegated; unless a takeover has crossed another's creation, agent.lock
\* names the holder of every lease; and a run's record is set back to an older
\* copy, by a journal that was refused or that was loaded before it was locked,
\* only where two processes had that run open at once (run_journal.py:476,
\* agent_loop.py:1817).
THEOREM OneWriter == LocksSpec => []OneNamedWriter
<1>1. LocksInv /\ RecordInv => OneNamedWriter
  BY DEF LocksInv, LocksNamed, RecordInv, OneNamedWriter
<1>2. QED BY <1>1, LocksInvariant, RecordInvariant, PTL
(***************************************************************************)
(* The files as one lock: RunLocks implements AgentLease.                  *)
(***************************************************************************)

\* The processes that hold a lease are at most one, and their choice is it.
LEMMA ChosenHolder ==
  ASSUME NEW l, NEW p \in Processes, \E r \in Runs : l[p][r] # NoRunId,
         \A q \in Processes : (\E r \in Runs : l[q][r] # NoRunId) => q = p
  PROVE  (CHOOSE q \in Processes : \E r \in Runs : l[q][r] # NoRunId) = p
OBVIOUS

\* Whoever holds a lease is alone.
LEMMA HolderAlone ==
  ASSUME LocksInv, ~locksCrossed, NEW p \in Processes, NEW r \in Runs, lease[p][r] # NoRunId,
         NEW q \in Processes, NEW o \in Runs, lease[q][o] # NoRunId
  PROVE  p = q
<1>1. agentLock = LeaseFile(p, lease[p][r]) /\ agentLock = LeaseFile(q, lease[q][o])
  BY DEF LocksInv, LocksNamed, LeaseIsNamed
<1>2. QED BY <1>1, FilesDiffer

LeaseInside == IF locksCrossed THEN {} ELSE {r \in Runs : \E p \in Processes : lease[p][r] # NoRunId}

LEMMA HolderOf ==
  ASSUME LocksInv, ~locksCrossed, NEW p \in Processes, NEW r \in Runs, lease[p][r] # NoRunId
  PROVE  LeaseHolder = p /\ LeaseInside = {o \in Runs : lease[p][o] # NoRunId}
<1>1. \A q \in Processes : (\E o \in Runs : lease[q][o] # NoRunId) => q = p
  BY HolderAlone
<1>2. (CHOOSE q \in Processes : \E o \in Runs : lease[q][o] # NoRunId) = p
  BY <1>1, ChosenHolder
<1>3. QED BY <1>1, <1>2 DEF LeaseHolder, Leased, LeaseInside

\* The same, seen after a step: one process has leases, or none has.
LEMMA HolderAfter ==
  ASSUME ~locksCrossed', NEW p \in Processes,
         \A q \in Processes, o \in Runs : lease'[q][o] # NoRunId => q = p
  PROVE  /\ LeaseInside' = {o \in Runs : lease'[p][o] # NoRunId}
         /\ LeaseHolder' = IF \E o \in Runs : lease'[p][o] # NoRunId THEN p ELSE NoProcess
<1>1. LeaseInside' = {o \in Runs : lease'[p][o] # NoRunId}
  BY DEF LeaseInside
<1>2. CASE \E o \in Runs : lease'[p][o] # NoRunId
  <2>1. (CHOOSE q \in Processes : \E o \in Runs : lease'[q][o] # NoRunId) = p
    BY <1>2, ChosenHolder
  <2>2. QED BY <1>1, <1>2, <2>1 DEF LeaseHolder, Leased
<1>3. CASE ~\E o \in Runs : lease'[p][o] # NoRunId
  BY <1>1, <1>3 DEF LeaseHolder, Leased
<1>4. QED BY <1>2, <1>3

\* What a step shows of the lock: nothing, or one of its steps.
LockSame == LeaseHolder' = LeaseHolder /\ LeaseInside' = LeaseInside /\ locksCrossed' = locksCrossed
LockTaken(p, r) == /\ LeaseHolder = NoProcess /\ ParentOf[r] = NoRunId
                   /\ LeaseHolder' = p /\ LeaseInside' = {r}
LockJoined(r) == ParentOf[r] \in LeaseInside /\ LeaseInside' = LeaseInside \cup {r} /\ LeaseHolder' = LeaseHolder
LockLeft(r) == /\ r \in LeaseInside /\ LeaseInside' = LeaseInside \ {r}
               /\ LeaseHolder' = IF LeaseInside' = {} THEN NoProcess ELSE LeaseHolder
LockPerished == LeaseHolder' = NoProcess /\ LeaseInside' = {}
LockSeen == \/ LockSame
            \/ /\ ~locksCrossed /\ ~locksCrossed'
               /\ \/ \E p \in Processes, r \in Runs : LockTaken(p, r)
                  \/ \E r \in Runs : LockJoined(r) \/ LockLeft(r)
                  \/ LockPerished
            \/ ~locksCrossed /\ locksCrossed' /\ LockPerished

LEMMA StillCrossed ==
  ASSUME locksCrossed, locksCrossed' PROVE LockSeen
  BY DEF LockSeen, LockSame, LeaseHolder, LeaseInside

LEMMA LeasesKept ==
  ASSUME lease' = lease, locksCrossed' = locksCrossed PROVE LockSeen
<1>1. LockSame
  BY DEF LockSame, LeaseHolder, LeaseInside, Leased
<1>2. QED BY <1>1 DEF LockSeen

\* A run gives its lease back.
LEMMA DropSeen ==
  ASSUME LocksInv, NEW p \in Processes, NEW r \in Runs, DropLease(p, r), locksCrossed' = locksCrossed
  PROVE  LockSeen
<1>1. lease \in [Processes -> [Runs -> Runs \cup {NoRunId}]]
  BY DEF LocksInv, LocksTyped
<1>2. lease' = [lease EXCEPT ![p][r] = NoRunId]
  BY DEF DropLease
<1>3. /\ lease'[p][r] = NoRunId
      /\ \A q \in Processes, o \in Runs : ~(q = p /\ o = r) => lease'[q][o] = lease[q][o]
  BY <1>1, <1>2
<1>4. CASE locksCrossed
  BY <1>4, StillCrossed
<1>5. CASE lease[p][r] = NoRunId
  <2>1. lease' = lease
    BY <1>1, <1>2, <1>5
  <2>2. QED BY <2>1, LeasesKept
<1>6. CASE ~locksCrossed /\ lease[p][r] # NoRunId
  <2>1. LeaseHolder = p /\ LeaseInside = {o \in Runs : lease[p][o] # NoRunId}
    BY <1>6, HolderOf
  <2>2. \A q \in Processes, o \in Runs : lease'[q][o] # NoRunId => q = p
    BY <1>3, <1>6, HolderAlone
  <2>3. /\ LeaseInside' = {o \in Runs : lease'[p][o] # NoRunId}
        /\ LeaseHolder' = IF \E o \in Runs : lease'[p][o] # NoRunId THEN p ELSE NoProcess
    BY <1>6, <2>2, HolderAfter
  <2>4. LeaseInside' = LeaseInside \ {r} /\ r \in LeaseInside
    BY <1>3, <1>6, <2>1, <2>3
  <2>5. LeaseHolder' = IF LeaseInside' = {} THEN NoProcess ELSE LeaseHolder
    BY <2>1, <2>3
  <2>6. QED BY <1>6, <2>4, <2>5 DEF LockSeen, LockLeft
<1>7. QED BY <1>4, <1>5, <1>6

\* Who is about to create agent.lock wants it for a run that nobody delegated.
OwnAcquires ==
    \A p \in Processes : acquiring[p].at \in {"create", "read", "unlink", "write"} =>
                            ParentOf[acquiring[p].run] = NoRunId

LEMMA OwnStays == LocksInv /\ OwnAcquires /\ [LocksNext]_lockVars => OwnAcquires'
<1> SUFFICES ASSUME LocksInv, OwnAcquires, [LocksNext]_lockVars PROVE OwnAcquires'
  OBVIOUS
<1>0. acquiring \in [Processes -> [at : AcquireSteps, run : Runs \cup {NoRunId}, again : BOOLEAN]]
  BY DEF LocksInv, LocksTyped
<1>1. ASSUME NEW p \in Processes, NEW a, acquiring' = [acquiring EXCEPT ![p] = a],
             a.at \in {"create", "read", "unlink", "write"} => ParentOf[a.run] = NoRunId
      PROVE  OwnAcquires'
  BY <1>0, <1>1 DEF OwnAcquires
<1>2. ASSUME NEW p \in Processes, LeaveAcquire(p) PROVE OwnAcquires'
  BY <1>0, <1>2 DEF OwnAcquires, LeaveAcquire, NotAcquiring
<1>3. ASSUME NEW p \in Processes, Acquire(p) PROVE OwnAcquires'
  <2>0. acquiring[p] \in [at : AcquireSteps, run : Runs \cup {NoRunId}, again : BOOLEAN]
    BY <1>0
  <2>1. CASE TakeRunLock(p) \/ WriteUnlocked(p) \/ LockForTerminal(p)
    <3>1. CASE acquiring' = [acquiring EXCEPT ![p] = NotAcquiring]
      BY <1>1, <3>1 DEF NotAcquiring
    <3>2. CASE GoTo(p, "refused") /\ acquiring[p].at = "runLock"
      BY <1>0, <3>2 DEF OwnAcquires, GoTo
    <3>3. QED BY <2>1, <3>1, <3>2 DEF TakeRunLock, WriteUnlocked, LockForTerminal, LeaveAcquire, Hold
  <2>2. CASE CreateLock(p) \/ Read(p) \/ Unlink(p) \/ Write(p)
    <3>1. CASE LeaveAcquire(p)
      BY <1>2, <3>1
    <3>2. ASSUME NEW step, GoTo(p, step) PROVE OwnAcquires'
      BY <1>0, <2>2, <3>2 DEF OwnAcquires, GoTo, CreateLock, Read, Unlink, Write
    <3>3. ASSUME acquiring' = [acquiring EXCEPT ![p].at = "create", ![p].again = TRUE] PROVE OwnAcquires'
      BY <1>0, <2>2, <3>3 DEF OwnAcquires, CreateLock, Read, Unlink, Write
    <3>4. QED BY <2>2, <3>1, <3>2, <3>3 DEF CreateLock, Read, Unlink, Write
  <2>3. QED BY <1>3, <2>1, <2>2 DEF Acquire
<1>4. ASSUME NEW p \in Processes, NEW r \in Runs, AcquireOwn(p, r) PROVE OwnAcquires'
  BY <1>1, <1>4 DEF AcquireOwn, Open
<1>5. ASSUME NEW p \in Processes, NEW r \in Runs, AcquireShared(p, r) \/ LoadForTerminal(p, r) PROVE OwnAcquires'
  <2>1. ASSUME NEW step \in {"runLock", "refused", "terminal"},
               acquiring' = [acquiring EXCEPT ![p] = [at |-> step, run |-> r, again |-> FALSE]]
        PROVE  OwnAcquires'
    BY <1>0, <2>1 DEF OwnAcquires
  <2>2. QED BY <1>5, <2>1 DEF AcquireShared, LoadForTerminal, Open
<1>6. ASSUME NEW p \in Processes, NEW r \in Runs, Release(p, r) PROVE OwnAcquires'
  BY <1>6 DEF Release, OwnAcquires
<1>7. ASSUME NEW p \in Processes, Die(p) PROVE OwnAcquires'
  BY <1>2, <1>7 DEF Die
<1>8. CASE UNCHANGED lockVars
  BY <1>8 DEF lockVars, OwnAcquires
<1>9. QED BY <1>3, <1>4, <1>5, <1>6, <1>7, <1>8 DEF LocksNext

LEMMA AcquireSeen ==
  ASSUME LocksInv, OwnAcquires, NEW p \in Processes, Acquire(p)
  PROVE  LockSeen
<1>1. CASE CreateLock(p) \/ Read(p) \/ WriteUnlocked(p) \/ LockForTerminal(p)
  BY <1>1, LeasesKept DEF CreateLock, Read, WriteUnlocked, LockForTerminal
<1>2. CASE Unlink(p)
  <2>1. lease' = lease /\ (locksCrossed' = locksCrossed \/ locksCrossed' = TRUE)
    <3>1. locksCrossed \in BOOLEAN
      BY DEF LocksInv, LocksTyped
    <3>2. lease' = lease /\ (locksCrossed' = locksCrossed \/ locksCrossed' = (locksCrossed \/ agentLock.pid \in alive))
      BY <1>2 DEF Unlink
    <3>3. QED BY <3>1, <3>2
  <2>2. CASE locksCrossed' = locksCrossed
    BY <2>1, <2>2, LeasesKept
  <2>3. CASE ~locksCrossed /\ locksCrossed'
    <3>1. LockPerished
      BY <2>3 DEF LockPerished, LeaseHolder, LeaseInside
    <3>2. QED BY <2>3, <3>1 DEF LockSeen
  <2>4. CASE locksCrossed /\ locksCrossed'
    BY <2>4, StillCrossed
  <2>5. QED BY <2>1, <2>2, <2>3, <2>4
<1>3. CASE Write(p)
  <2> DEFINE r == acquiring[p].run
  <2>1. /\ acquiring[p].at = "write" /\ locksCrossed' = locksCrossed
        /\ lease' = [lease EXCEPT ![p][r] = r]
    BY <1>3 DEF Write
  <2>2. r \in Runs
    BY <2>1 DEF LocksInv, AliveActs
  <2>3. CASE locksCrossed
    BY <2>1, <2>3, StillCrossed
  <2>4. CASE ~locksCrossed
    <3>1. agentLock = [pid |-> p, run |-> r, written |-> FALSE]
      BY <2>1, <2>4 DEF LocksInv, WriterOwns
    <3>2. \A q \in Processes, o \in Runs : lease[q][o] = NoRunId
      BY <2>4, <3>1, FilesDiffer DEF LocksInv, LocksNamed, LeaseIsNamed
    <3>3. lease \in [Processes -> [Runs -> Runs \cup {NoRunId}]]
      BY DEF LocksInv, LocksTyped
    <3>4. \A q \in Processes, o \in Runs : lease'[q][o] = IF q = p /\ o = r THEN r ELSE NoRunId
      BY <2>1, <2>2, <3>2, <3>3
    <3>5. r # NoRunId
      BY <2>2 DEF LocksAssumption
    <3>6. LeaseHolder' = p /\ LeaseInside' = {r}
      BY <2>1, <2>2, <2>4, <3>4, <3>5, HolderAfter
    <3>7. LeaseHolder = NoProcess
      BY <3>2 DEF LeaseHolder, Leased
    <3>8. ParentOf[r] = NoRunId
      BY <2>1 DEF OwnAcquires
    <3>9. QED BY <2>1, <2>2, <2>4, <3>6, <3>7, <3>8 DEF LockSeen, LockTaken
  <2>5. QED BY <2>3, <2>4
<1>4. CASE TakeRunLock(p)
  <2>1. acquiring[p].at = "runLock" /\ locksCrossed' = locksCrossed
    BY <1>4 DEF TakeRunLock
  <2>2. acquiring[p].run \in Runs
    BY <2>1 DEF LocksInv, AliveActs
  <2>3. lease' = lease \/ DropLease(p, acquiring[p].run)
    BY <1>4 DEF TakeRunLock
  <2>4. QED BY <2>1, <2>2, <2>3, LeasesKept, DropSeen
<1>5. QED BY <1>1, <1>2, <1>3, <1>4 DEF Acquire

LEMMA ShareSeen ==
  ASSUME LocksInv, NEW p \in Processes, NEW r \in Runs, AcquireShared(p, r)
  PROVE  LockSeen
<1>1. locksCrossed' = locksCrossed /\ ParentOf[r] \in Runs
  BY DEF AcquireShared
<1>2. CASE locksCrossed
  BY <1>1, <1>2, StillCrossed
<1>3. CASE lease' = lease
  BY <1>1, <1>3, LeasesKept
<1>4. CASE ~locksCrossed /\ lease' # lease
  <2>1. /\ lease' = [lease EXCEPT ![p][r] = lease[p][ParentOf[r]]]
        /\ lease[p][ParentOf[r]] # NoRunId
    BY <1>4 DEF AcquireShared, OwnsLiveLease
  <2>2. lease \in [Processes -> [Runs -> Runs \cup {NoRunId}]]
    BY DEF LocksInv, LocksTyped
  <2>3. LeaseHolder = p /\ LeaseInside = {o \in Runs : lease[p][o] # NoRunId}
    BY <1>1, <1>4, <2>1, HolderOf
  <2>4. /\ lease'[p][r] # NoRunId
        /\ \A q \in Processes, o \in Runs : ~(q = p /\ o = r) => lease'[q][o] = lease[q][o]
    BY <2>1, <2>2
  <2>5. \A q \in Processes, o \in Runs : lease'[q][o] # NoRunId => q = p
    BY <1>1, <1>4, <2>1, <2>4, HolderAlone
  <2>6. LeaseInside' = {o \in Runs : lease'[p][o] # NoRunId} /\ LeaseHolder' = p
    BY <1>1, <1>4, <2>4, <2>5, HolderAfter
  <2>7. ParentOf[r] \in LeaseInside /\ LeaseInside' = LeaseInside \cup {r}
    BY <1>1, <2>1, <2>3, <2>4, <2>6
  <2>8. QED BY <1>1, <1>4, <2>3, <2>6, <2>7 DEF LockSeen, LockJoined
<1>5. QED BY <1>2, <1>3, <1>4

\* The death of the holder frees the lock; that of another process does not touch it.
LEMMA DieSeen ==
  ASSUME LocksInv, NEW p \in Processes, Die(p)
  PROVE  LockSeen
<1>1. locksCrossed' = locksCrossed /\ lease' = [lease EXCEPT ![p] = [r \in Runs |-> NoRunId]]
  BY DEF Die
<1>2. lease \in [Processes -> [Runs -> Runs \cup {NoRunId}]]
  BY DEF LocksInv, LocksTyped
<1>3. \A q \in Processes, o \in Runs : lease'[q][o] = IF q = p THEN NoRunId ELSE lease[q][o]
  BY <1>1, <1>2
<1>4. CASE locksCrossed
  BY <1>1, <1>4, StillCrossed
<1>5. CASE ~locksCrossed /\ \E r \in Runs : lease[p][r] # NoRunId
  <2>1. \A q \in Processes, o \in Runs : lease'[q][o] = NoRunId
    BY <1>3, <1>5, HolderAlone
  <2>2. LeaseHolder' = NoProcess /\ LeaseInside' = {}
    BY <1>1, <1>5, <2>1 DEF LeaseHolder, Leased, LeaseInside
  <2>3. QED BY <1>1, <1>5, <2>2 DEF LockSeen, LockPerished
<1>6. CASE ~\E r \in Runs : lease[p][r] # NoRunId
  <2>1. lease' = lease
    BY <1>1, <1>2, <1>6
  <2>2. QED BY <1>1, <2>1, LeasesKept
<1>7. QED BY <1>4, <1>5, <1>6

\* The calls on agent.lock implement a lock that one process takes, that delegated
\* runs join, and that the last of them gives back, for any number of processes and
\* any tree of runs, until a takeover crosses a creation (run_journal.py:500, 836).
THEOREM LockImplemented == LocksSpec => LeaseIsExclusive
<1>1. LocksInit => LeaseKept!LeaseInit
  BY DEF LocksInit, LeaseKept!LeaseInit, LeaseHolder, Leased
<1>2. LocksInit => OwnAcquires
  BY DEF LocksInit, OwnAcquires, NotAcquiring
<1>3. LocksInv /\ OwnAcquires /\ [LocksNext]_lockVars => LockSeen
  <2> SUFFICES ASSUME LocksInv, OwnAcquires, [LocksNext]_lockVars PROVE LockSeen
    OBVIOUS
  <2>1. ASSUME NEW p \in Processes, Acquire(p) PROVE LockSeen
    BY <2>1, AcquireSeen
  <2>2. ASSUME NEW p \in Processes, Die(p) PROVE LockSeen
    BY <2>2, DieSeen
  <2>3. ASSUME NEW p \in Processes, NEW r \in Runs, AcquireShared(p, r) PROVE LockSeen
    BY <2>3, ShareSeen
  <2>4. ASSUME NEW p \in Processes, NEW r \in Runs, Release(p, r) PROVE LockSeen
    BY <2>4, DropSeen DEF Release
  <2>5. ASSUME NEW p \in Processes, NEW r \in Runs, AcquireOwn(p, r) \/ LoadForTerminal(p, r) PROVE LockSeen
    BY <2>5, LeasesKept DEF AcquireOwn, LoadForTerminal
  <2>6. CASE UNCHANGED lockVars
    BY <2>6, LeasesKept DEF lockVars
  <2>7. QED BY <2>1, <2>2, <2>3, <2>4, <2>5, <2>6 DEF LocksNext
<1>4. LocksInv /\ LocksInv' /\ LockSeen => [LeaseKept!LeaseNext]_(LeaseKept!leaseVars)
  <2> SUFFICES ASSUME LocksInv, LocksInv', LockSeen PROVE [LeaseKept!LeaseNext]_(LeaseKept!leaseVars)
    OBVIOUS
  <2>0. locksCrossed \in BOOLEAN /\ locksCrossed' \in BOOLEAN
    BY DEF LocksInv, LocksTyped
  <2>1. CASE LockSame
    BY <2>1 DEF LockSame, LeaseInside, LeaseKept!leaseVars
  <2>2. ASSUME ~locksCrossed, ~locksCrossed', NEW p \in Processes, NEW r \in Runs, LockTaken(p, r)
        PROVE  LeaseKept!LeaseNext
    BY <2>0, <2>2 DEF LockTaken, LeaseInside, LeaseKept!LeaseNext, LeaseKept!Take
  <2>3. ASSUME ~locksCrossed, ~locksCrossed', NEW r \in Runs, LockJoined(r)
        PROVE  LeaseKept!LeaseNext
    BY <2>0, <2>3 DEF LockJoined, LeaseInside, LeaseKept!LeaseNext, LeaseKept!Join
  <2>4. ASSUME ~locksCrossed, ~locksCrossed', NEW r \in Runs, LockLeft(r)
        PROVE  LeaseKept!LeaseNext
    BY <2>0, <2>4 DEF LockLeft, LeaseInside, LeaseKept!LeaseNext, LeaseKept!Leave
  <2>5. ASSUME ~locksCrossed, LockPerished
        PROVE  LeaseKept!LeaseNext
    BY <2>0, <2>5 DEF LockPerished, LeaseInside, LeaseKept!LeaseNext, LeaseKept!Perish
  <2>6. QED BY <2>1, <2>2, <2>3, <2>4, <2>5 DEF LockSeen
<1>5. QED BY <1>1, <1>2, <1>3, <1>4, LocksInvariant, OwnStays, PTL DEF LocksSpec, LeaseIsExclusive, LeaseKept!LeaseSpec

HIDE LocksAssumption

-------------------------------------------------------------------------------
(****************************************************************************)
(* One run through its attempts.  What the next attempt is told can be      *)
(* rebuilt at every moment of this one, not only where it ends: from the    *)
(* history the journal names, the pending batch, and the receipts published *)
(* since that batch began (JournalTells).                                   *)
(****************************************************************************)

InBatch == {"call", "running", "published"}

\* Where an attempt has a batch, and what its journal calls the run meanwhile.
BatchFits ==
    /\ phase \in {"off", "over", "step", "answered"} => batch = NoBatch
    /\ phase \in InBatch => batch.done # batch.calls /\ memory.pending.calls = batch.calls
    /\ batch # NoBatch => batch.calls # {}
    /\ batch.done = batch.calls => batch.calls = {}
    /\ batch.calls \subseteq 1..asked

\* What the journal calls the run while an attempt works, and after it.
StatusFits ==
    /\ phase \notin {"off", "over", "dead"} => attempt > 0 /\ memory.status = "running"
    /\ attempt = 0 => /\ phase = "off" /\ ran = {} /\ events = <<>>
                      /\ modelHistory = NothingKnown /\ snapshot = NoState
    /\ phase = "off" /\ attempt > 0 => memory.status # "running" /\ (~givenUp => snapshot = memory)
    /\ phase \in {"off", "over"} /\ memory.status \in {"interrupted", "cancelled", "workflow_request"} =>
          memory.resumable

\* The history file is the one the journal names, and the pending batch the attempt's.
HistoryNamed ==
    /\ phase # "dead" /\ ~memory.error => modelHistory = memory.sha
    /\ memory.pending.offset <= Len(events) /\ memory.pending.calls \subseteq 1..asked
    /\ memory.pending.calls = batch.calls => memory.pending.done \subseteq batch.done
    /\ phase = "checkpoint" /\ batch.calls # {} /\ ~memory.error =>
          memory.pending = NoPending \/ memory.pending.calls = batch.calls
    /\ memory.pending.calls = {} => memory.pending = NoPending

\* The attempt's own messages tell of all the run did, but for the batch under way.
MessagesTell ==
    phase \notin {"off", "over", "dead"} /\ ~lossy =>
        /\ ran \subseteq messages.named \cup batch.calls
        /\ Published \subseteq messages.known \cup messages.cut \cup batch.done \cup (IF phase = "published" THEN {Call} ELSE {})

\* At every moment, and not only where an attempt ends, what the journal holds in
\* memory tells of all the run did: in the history it names, in the pending batch,
\* or among the receipts published since that batch began.
SinceBatch == IF memory.pending = NoPending THEN {} ELSE Since(memory.pending.offset)

JournalTells ==
    ~memory.error /\ ~lossy =>
        /\ ran \subseteq memory.sha.named \cup memory.pending.calls
        /\ Published \subseteq memory.sha.known \cup memory.sha.cut \cup memory.pending.done \cup SinceBatch

\* What is published while a batch is pending belongs to it: to say that receipts of
\* the batch are missing excuses nothing else.
ReceiptsFit == SinceBatch \subseteq memory.pending.calls

RunInv ==
    /\ RunTypeOK /\ BatchFits /\ StatusFits
    /\ ~givenUp => HistoryNamed /\ MessagesTell /\ JournalTells /\ ReceiptsFit

USE AgentRunAssumption

Pendings == [calls : SUBSET CallNumbers, done : SUBSET CallNumbers, offset : Nat]

(***************************************************************************)
(* The operators of the model                                              *)
(***************************************************************************)

LEMMA StateFields ==
  ASSUME NEW s \in States
  PROVE  /\ s.status \in Statuses /\ s.resumable \in BOOLEAN /\ s.error \in BOOLEAN
         /\ s.sha \in Knowledge /\ s.pending \in Pendings
  BY DEF States, Pendings

LEMMA EmptyTyped ==
  /\ NothingKnown \in Knowledge /\ NoPending \in Pendings /\ NoBatch \in Batches /\ NoState \in States
  /\ NothingKnown.named = {} /\ NothingKnown.known = {} /\ NothingKnown.cut = {} /\ NoBatch.calls = {} /\ NoBatch.done = {}
  /\ NoPending.calls = {} /\ NoPending.done = {} /\ NoPending.offset = 0
<1>1. NothingKnown \in Knowledge /\ NoPending \in Pendings /\ NoBatch \in Batches
  BY DEF NothingKnown, Knowledge, NoPending, Pendings, NoBatch, Batches
<1>2. NoState \in States
  BY <1>1 DEF NoState, States, Statuses, Pendings
<1>3. QED BY <1>1, <1>2 DEF NothingKnown, NoPending, NoBatch

\* The next call of an open batch is one of its calls: a set of numbers has a least.
LEMMA CallIsOpen ==
  ASSUME batch \in Batches, batch.done \subseteq batch.calls, batch.done # batch.calls
  PROVE  Call \in batch.calls \ batch.done /\ Call \in CallNumbers
<1> DEFINE T == batch.calls \ batch.done
<1>1. T # {} /\ T \subseteq Nat /\ T \subseteq CallNumbers
  BY DEF Batches, CallNumbers
<1>2. PICK c \in T : \A d \in T : ~(<<d, c>> \in OpToRel(<, Nat))
  BY <1>1, NatLessThanWellFounded, WFMin
<1>3. \A d \in T : c <= d
  <2>1. SUFFICES ASSUME NEW d \in T PROVE c <= d
    OBVIOUS
  <2>2. c \in Nat /\ d \in Nat
    BY <1>1
  <2>3. d < c => <<d, c>> \in OpToRel(<, Nat)
    BY <2>2 DEF OpToRel
  <2>4. ~(d < c)
    BY <1>2, <2>3, Zenon
  <2>5. QED BY <2>2, <2>4
<1>4. QED BY <1>1, <1>3 DEF Call

LEMMA PlainFacts ==
  ASSUME RunTypeOK
  PROVE  /\ memory.pending \in Pendings /\ memory.pending.offset \in Nat /\ Len(events) \in Nat /\ asked \in Nat
         /\ batch.done \subseteq batch.calls /\ (batch.calls = {} => batch = NoBatch)
<1>1. memory.pending \in Pendings /\ memory.pending.offset \in Nat
  BY StateFields DEF RunTypeOK, Pendings
<1>2. batch.calls = {} => batch = NoBatch
  BY DEF RunTypeOK, Batches, NoBatch
<1>3. QED BY <1>1, <1>2 DEF RunTypeOK

LEMMA EventsGrow ==
  ASSUME events \in Seq(CallNumbers), NEW c \in CallNumbers, events' = Append(events, c)
  PROVE  /\ events' \in Seq(CallNumbers) /\ Len(events') = Len(events) + 1
         /\ Published' = Published \cup {c}
         /\ \A o \in Nat : o <= Len(events) => Since(o)' = Since(o) \cup {c}
<1>1. /\ events' \in Seq(CallNumbers) /\ Len(events') = Len(events) + 1 /\ Len(events) \in Nat
      /\ events'[Len(events) + 1] = c /\ \A i \in 1..Len(events) : events'[i] = events[i]
  OBVIOUS
<1>2. Published' = Published \cup {c}
  BY <1>1 DEF Published
<1>3. ASSUME NEW o \in Nat, o <= Len(events)
      PROVE  Since(o)' = Since(o) \cup {c}
  BY <1>1, <1>3 DEF Since, ReceiptsIn
<1>4. QED BY <1>1, <1>2, <1>3

LEMMA EventsStay ==
  ASSUME events' = events
  PROVE  Published' = Published /\ \A o \in Nat : Since(o)' = Since(o)
  BY DEF Published, Since, ReceiptsIn

LEMMA SinceTyped ==
  ASSUME events \in Seq(CallNumbers), NEW o \in Nat
  PROVE  Since(o) \subseteq CallNumbers /\ \A n \in 0..Len(events) : ReceiptsIn(o, n) \subseteq CallNumbers
  BY DEF Since, ReceiptsIn

LEMMA SinceEnd ==
  ASSUME events \in Seq(CallNumbers)
  PROVE  Since(Len(events)) = {}
<1>1. Len(events) \in Nat
  OBVIOUS
<1>2. (Len(events) + 1)..Len(events) = {}
  BY <1>1
<1>3. QED BY <1>2 DEF Since, ReceiptsIn

LEMMA SaveShape ==
  ASSUME RunTypeOK, NEW state \in States, Save(state)
  PROVE  memory' = state /\ snapshot' \in States /\ saveFails' \in 0..MaxFailures
  BY DEF Save, ReplaceFails, RunTypeOK

LEMMA WriteShape ==
  ASSUME RunTypeOK, NEW said \in Knowledge, WriteHistory(said)
  PROVE  /\ memory' \in States /\ snapshot' \in States /\ modelHistory' \in Knowledge /\ saveFails' \in 0..MaxFailures
         /\ memory'.status = memory.status /\ memory'.resumable = memory.resumable
         /\ memory'.pending \in {NoPending, memory.pending}
         /\ ~memory'.error => memory'.sha = said /\ memory'.pending = NoPending
         /\ (~memory.error => modelHistory = memory.sha) /\ ~memory'.error => modelHistory' = said
<1>1. memory \in States /\ snapshot \in States /\ modelHistory \in Knowledge /\ saveFails \in 0..MaxFailures
  BY DEF RunTypeOK
<1>2. CASE said = memory.sha /\ memory.pending = NoPending /\ ~memory.error
           /\ UNCHANGED <<memory, snapshot, modelHistory, saveFails>>
  BY <1>1, <1>2
<1>3. CASE modelHistory' = said /\ Save([memory EXCEPT !.sha = said, !.pending = NoPending, !.error = FALSE])
  <2> DEFINE s == [memory EXCEPT !.sha = said, !.pending = NoPending, !.error = FALSE]
  <2>1. /\ s \in States /\ s.status = memory.status /\ s.resumable = memory.resumable
        /\ s.sha = said /\ s.pending = NoPending
    BY <1>1, EmptyTyped DEF States, Pendings
  <2> HIDE DEF s
  <2>2. memory' = s /\ snapshot' \in States /\ saveFails' \in 0..MaxFailures
    BY <1>3, <2>1, SaveShape DEF s
  <2>3. QED BY <1>3, <2>1, <2>2
<1>4. CASE ReplaceFails /\ memory' = [memory EXCEPT !.error = TRUE] /\ snapshot' \in {memory', snapshot} /\ UNCHANGED modelHistory
  <2> DEFINE s == [memory EXCEPT !.error = TRUE]
  <2>1. s \in States /\ s.status = memory.status /\ s.resumable = memory.resumable /\ s.pending = memory.pending /\ s.error = TRUE
    BY <1>1 DEF States
  <2> HIDE DEF s
  <2>2. memory' = s /\ snapshot' \in {s, snapshot} /\ modelHistory' = modelHistory /\ saveFails' \in 0..MaxFailures
    BY <1>1, <1>4 DEF ReplaceFails, s
  <2>3. QED BY <1>1, <2>1, <2>2
<1>5. QED BY <1>2, <1>3, <1>4 DEF WriteHistory

LEMMA AnsweredShape ==
  ASSUME RunTypeOK, BatchFits, phase \in InBatch \cup {"published"}, NEW c \in batch.calls, Answered(c)
  PROVE  /\ messages' \in Knowledge /\ batch' \in Batches /\ batch'.done \subseteq batch'.calls
         /\ batch'.done = batch'.calls => batch' = NoBatch
         /\ batch' # NoBatch => batch'.calls # {}
         /\ batch'.calls \subseteq batch.calls
         /\ batch'.calls = {} \/ (batch'.calls = batch.calls /\ batch.done \subseteq batch'.done /\ messages' = messages)
         /\ messages.named \cup batch.calls \subseteq messages'.named \cup batch'.calls
         /\ messages.known \cup messages.cut \cup batch.done \cup {c} \subseteq messages'.known \cup messages'.cut \cup batch'.done
<1>1. messages \in Knowledge /\ batch \in Batches /\ batch.done \subseteq batch.calls /\ batch.calls # {}
  BY DEF RunTypeOK
<1>2. CASE batch.done \cup {c} = batch.calls
  <2>1. messages' = [messages EXCEPT !.named = @ \cup batch.calls, !.known = @ \cup batch.calls]
        /\ batch' = NoBatch
    BY <1>2 DEF Answered
  <2>2. /\ messages' \in Knowledge /\ messages'.cut = messages.cut
        /\ messages'.named = messages.named \cup batch.calls /\ messages'.known = messages.known \cup batch.calls
    BY <1>1, <2>1 DEF Knowledge, Batches
  <2>3. QED BY <1>1, <2>1, <2>2, EmptyTyped
<1>3. CASE batch.done \cup {c} # batch.calls
  <2>1. batch' = [batch EXCEPT !.done = @ \cup {c}] /\ messages' = messages
    BY <1>3 DEF Answered
  <2>2. batch' \in Batches /\ batch'.calls = batch.calls /\ batch'.done = batch.done \cup {c}
    BY <1>1, <2>1 DEF Batches
  <2>3. QED BY <1>1, <1>3, <2>1, <2>2
<1>4. QED BY <1>2, <1>3

LEMMA PendingShape ==
  ASSUME RunTypeOK, NEW b \in Batches, Save([memory EXCEPT !.pending = Pending(b)])
  PROVE  /\ memory' \in States /\ snapshot' \in States /\ saveFails' \in 0..MaxFailures
         /\ memory'.status = memory.status /\ memory'.resumable = memory.resumable
         /\ memory'.sha = memory.sha /\ memory'.error = memory.error
         /\ memory'.pending.calls = b.calls /\ memory'.pending.done = b.done
         /\ memory'.pending.offset = IF memory.pending.calls = b.calls THEN memory.pending.offset ELSE Len(events)
         /\ memory'.pending.offset \in Nat
<1>1. /\ memory \in States /\ memory.pending \in Pendings /\ Len(events) \in Nat
  BY StateFields DEF RunTypeOK
<1> DEFINE p == Pending(b)
           s == [memory EXCEPT !.pending = p]
<1>2. /\ p \in Pendings /\ p.calls = b.calls /\ p.done = b.done
      /\ p.offset = IF memory.pending.calls = b.calls THEN memory.pending.offset ELSE Len(events)
      /\ p.offset \in Nat
  BY <1>1 DEF Pending, Pendings, Batches
<1> HIDE DEF p
<1>3. /\ s \in States /\ s.status = memory.status /\ s.resumable = memory.resumable /\ s.sha = memory.sha
      /\ s.error = memory.error /\ s.pending = p
  BY <1>1, <1>2 DEF States, Pendings
<1> HIDE DEF s
<1>4. memory' = s /\ snapshot' \in States /\ saveFails' \in 0..MaxFailures
  BY <1>3, SaveShape DEF s, p
<1>5. QED BY <1>2, <1>3, <1>4

LEMMA RestoredTyped ==
  ASSUME RunTypeOK, NEW s \in States, NEW n \in ReadTo(s)
  PROVE  Restored(s, n) \in Knowledge
<1>1. s.pending \in Pendings /\ modelHistory \in Knowledge /\ events \in Seq(CallNumbers) /\ n \in 0..Len(events)
  BY StateFields DEF RunTypeOK, ReadTo
<1>2. ReceiptsIn(s.pending.offset, n) \subseteq CallNumbers
  BY <1>1, SinceTyped DEF Pendings
<1>3. QED BY <1>1, <1>2, EmptyTyped DEF Restored, Knowledge, Pendings

\* However much of the receipts is read: all of them, or the batch is said to be cut.
LEMMA RestoredTells ==
  ASSUME RunTypeOK, JournalTells, ReceiptsFit, ~memory.error, ~lossy, modelHistory = memory.sha, NEW n \in ReadTo(memory)
  PROVE  /\ ran \subseteq Restored(memory, n).named
         /\ Published \subseteq Restored(memory, n).known \cup Restored(memory, n).cut
<1>1. /\ ran \subseteq memory.sha.named \cup memory.pending.calls
      /\ Published \subseteq memory.sha.known \cup memory.sha.cut \cup memory.pending.done \cup SinceBatch
      /\ SinceBatch \subseteq memory.pending.calls
  BY DEF JournalTells, ReceiptsFit
<1> DEFINE told == Restored(memory, n)
           seen == memory.pending # NoPending
<1>2. /\ told.named = memory.sha.named \cup memory.pending.calls
      /\ told.known = memory.sha.known \cup memory.pending.done
                        \cup IF seen THEN ReceiptsIn(memory.pending.offset, n) ELSE {}
      /\ told.cut = memory.sha.cut \cup IF seen /\ n < Len(events) THEN memory.pending.calls ELSE {}
  BY DEF Restored
<1>3. n \in 0..Len(events) /\ Len(events) \in Nat
  BY DEF ReadTo, RunTypeOK
<1>4. SinceBatch \subseteq told.known \cup told.cut
  <2>1. CASE ~seen
    BY <2>1 DEF SinceBatch
  <2>2. CASE seen /\ n < Len(events)
    BY <1>1, <1>2, <2>2
  <2>3. CASE seen /\ ~(n < Len(events))
    <3>1. n = Len(events)
      BY <1>3, <2>3
    <3>2. QED BY <1>2, <2>3, <3>1 DEF SinceBatch, Since
  <2>4. QED BY <2>1, <2>2, <2>3
<1> HIDE DEF told, seen
<1>5. ran \subseteq told.named /\ Published \subseteq told.known \cup told.cut
  BY <1>1, <1>2, <1>4
<1>6. QED BY <1>5 DEF told

LEMMA RunStep ==
  ASSUME RunInv, RunNext
  PROVE  RunInv'
<1>0. /\ RunTypeOK /\ BatchFits /\ StatusFits
      /\ ~givenUp => HistoryNamed /\ MessagesTell /\ JournalTells /\ ReceiptsFit
  BY DEF RunInv
<1>a. /\ memory.pending \in Pendings /\ memory.pending.offset \in Nat /\ Len(events) \in Nat /\ asked \in Nat
      /\ batch.done \subseteq batch.calls /\ (batch.calls = {} => batch = NoBatch)
  BY <1>0, PlainFacts
<1>b. ~givenUp /\ phase # "dead" => (~memory.error => modelHistory = memory.sha)
  BY <1>0 DEF HistoryNamed
<1>1. CASE StartAttempt
  <2>0. /\ phase = "off" /\ attempt = 0 /\ attempt' = 1 /\ phase' = "step"
        /\ memory' \in States /\ memory'.status = "running" /\ memory'.resumable = FALSE /\ memory'.sha = NothingKnown /\ memory'.pending = NoPending /\ memory'.error = FALSE
        /\ snapshot' \in States /\ saveFails' \in 0..MaxFailures
        /\ UNCHANGED <<modelHistory, events, messages, batch, ran, asked, lossy, givenUp>>
        /\ Published' = Published /\ (\A o \in Nat : Since(o)' = Since(o))
    <3>1. /\ phase = "off" /\ attempt = 0 /\ attempt' = 1 /\ phase' = "step"
          /\ Save([status |-> "running", resumable |-> FALSE, sha |-> NothingKnown, pending |-> NoPending, error |-> FALSE])
          /\ UNCHANGED <<modelHistory, events, messages, batch, ran, asked, lossy, givenUp>>
      BY <1>1 DEF StartAttempt, To
    <3> DEFINE s == [status |-> "running", resumable |-> FALSE, sha |-> NothingKnown, pending |-> NoPending, error |-> FALSE]
    <3>2. s \in States
      BY EmptyTyped DEF States, Statuses, Pendings
    <3>3. memory' = s /\ snapshot' \in States /\ saveFails' \in 0..MaxFailures
      BY <1>0, <3>1, <3>2, SaveShape
    <3>4. QED BY <3>1, <3>2, <3>3, EventsStay
  <2>1. RunTypeOK'
    BY <1>0, <2>0, <1>a, EmptyTyped DEF RunTypeOK, Phases
  <2>2. BatchFits'
    BY <1>0, <2>0, <1>a, EmptyTyped DEF BatchFits, InBatch
  <2>3. StatusFits'
    BY <1>0, <2>0, <1>a, EmptyTyped DEF StatusFits, InBatch
  <2>4. ~givenUp' => HistoryNamed'
    <3>1. modelHistory = NothingKnown /\ events = <<>> /\ batch = NoBatch
      BY <1>0, <2>0 DEF StatusFits, BatchFits
    <3>2. QED BY <2>0, <3>1, EmptyTyped DEF HistoryNamed, InBatch
  <2>5. ~givenUp' => MessagesTell'
    <3>1. ran = {} /\ events = <<>>
      BY <1>0, <2>0 DEF StatusFits
    <3>2. Published = {}
      BY <3>1 DEF Published
    <3>3. QED BY <2>0, <3>1, <3>2 DEF MessagesTell
  <2>6. ~givenUp' => JournalTells'
    BY <1>0, <2>0, <1>a, EmptyTyped DEF JournalTells, SinceBatch, HistoryNamed, MessagesTell, BatchFits, InBatch
  <2>7. ~givenUp' => ReceiptsFit'
    BY <1>0, <2>0, <1>a, EmptyTyped DEF ReceiptsFit, SinceBatch, HistoryNamed, BatchFits, InBatch
  <2>8. QED BY <2>1, <2>2, <2>3, <2>4, <2>5, <2>6, <2>7 DEF RunInv
<1>2. CASE ContinueRun
  <2>0. /\ phase = "off" /\ attempt \in 1..(MaxAttempts - 1) /\ attempt' = attempt + 1 /\ phase' = "step"
        /\ memory' \in States /\ memory'.status = "running" /\ memory'.resumable = FALSE
        /\ snapshot' \in States /\ saveFails' \in 0..MaxFailures
        /\ messages' \in Knowledge /\ lossy' \in BOOLEAN
        /\ UNCHANGED <<modelHistory, events, batch, ran, asked, givenUp>>
        /\ Published' = Published /\ (\A o \in Nat : Since(o)' = Since(o))
        /\ (~givenUp => /\ memory'.sha = memory.sha /\ memory'.pending = memory.pending /\ memory'.error = memory.error
                        /\ lossy' = (lossy \/ memory.error)
                        /\ ~memory.error /\ ~lossy => /\ ran \subseteq messages'.named
                                                      /\ Published \subseteq messages'.known \cup messages'.cut)
    <3>1. /\ phase = "off" /\ attempt \in 1..(MaxAttempts - 1) /\ attempt' = attempt + 1 /\ phase' = "step"
          /\ lossy' = (lossy \/ snapshot.error)
          /\ Save([snapshot EXCEPT !.status = "running", !.resumable = FALSE])
          /\ UNCHANGED <<modelHistory, events, batch, ran, asked, givenUp>>
      BY <1>2 DEF ContinueRun, To
    <3>2. PICK last \in ReadTo(snapshot) : messages' = Restored(snapshot, last)
      BY <1>2 DEF ContinueRun
    <3>3. snapshot \in States /\ snapshot.error \in BOOLEAN /\ lossy \in BOOLEAN
      BY <1>0, StateFields DEF RunTypeOK
    <3> DEFINE s == [snapshot EXCEPT !.status = "running", !.resumable = FALSE]
    <3>4. /\ s \in States /\ s.status = "running" /\ s.resumable = FALSE /\ s.sha = snapshot.sha
          /\ s.pending = snapshot.pending /\ s.error = snapshot.error
      BY <3>3 DEF States, Statuses
    <3> HIDE DEF s
    <3>5. memory' = s /\ snapshot' \in States /\ saveFails' \in 0..MaxFailures
      BY <1>0, <3>1, <3>4, SaveShape DEF s
    <3>6. messages' \in Knowledge /\ lossy' \in BOOLEAN
      BY <1>0, <3>1, <3>2, <3>3, RestoredTyped
    <3>7. ASSUME ~givenUp, ~memory.error, ~lossy
          PROVE  ran \subseteq messages'.named /\ Published \subseteq messages'.known \cup messages'.cut
      <4>1. snapshot = memory /\ modelHistory = memory.sha
        BY <1>0, <1>b, <3>1, <3>7 DEF StatusFits
      <4>2. JournalTells /\ ReceiptsFit /\ last \in ReadTo(memory) /\ messages' = Restored(memory, last)
        BY <1>0, <3>2, <3>7, <4>1
      <4>3. QED BY <1>0, <3>7, <4>1, <4>2, RestoredTells
    <3>8. ~givenUp => snapshot = memory
      BY <1>0, <3>1 DEF StatusFits
    <3>9. QED BY <3>1, <3>4, <3>5, <3>6, <3>7, <3>8, EventsStay
  <2>1. RunTypeOK'
    BY <1>0, <2>0, <1>a, EmptyTyped DEF RunTypeOK, Phases
  <2>2. BatchFits'
    BY <1>0, <2>0, <1>a, EmptyTyped DEF BatchFits, InBatch
  <2>3. StatusFits'
    BY <1>0, <2>0, <1>a, EmptyTyped DEF StatusFits, InBatch
  <2>4. ~givenUp' => HistoryNamed'
    BY <1>0, <2>0, <1>a, EmptyTyped DEF HistoryNamed, BatchFits, InBatch
  <2>5. ~givenUp' => MessagesTell'
    BY <1>0, <2>0 DEF MessagesTell, JournalTells
  <2>6. ~givenUp' => JournalTells'
    BY <1>0, <2>0, <1>a, EmptyTyped DEF JournalTells, SinceBatch, HistoryNamed, MessagesTell, BatchFits, InBatch
  <2>7. ~givenUp' => ReceiptsFit'
    BY <1>0, <2>0, <1>a, EmptyTyped DEF ReceiptsFit, SinceBatch, HistoryNamed, BatchFits, InBatch
  <2>8. QED BY <2>1, <2>2, <2>3, <2>4, <2>5, <2>6, <2>7 DEF RunInv
<1>3. CASE Again
  <2>0. /\ phase = "step" /\ memory' = memory
        /\ snapshot' \in States /\ saveFails' \in 0..MaxFailures
        /\ UNCHANGED <<phase, modelHistory, events, messages, batch, ran, asked, attempt, lossy, givenUp>>
        /\ Published' = Published /\ (\A o \in Nat : Since(o)' = Since(o))
    <3>1. memory \in States
      BY <1>0 DEF RunTypeOK
    <3>2. QED BY <1>0, <1>3, <3>1, SaveShape, EventsStay DEF Again
  <2>1. RunTypeOK'
    BY <1>0, <2>0, <1>a, EmptyTyped DEF RunTypeOK, Phases
  <2>2. BatchFits'
    BY <1>0, <2>0, <1>a, EmptyTyped DEF BatchFits, InBatch
  <2>3. StatusFits'
    BY <1>0, <2>0, <1>a, EmptyTyped DEF StatusFits, InBatch
  <2>4. ~givenUp' => HistoryNamed'
    BY <1>0, <2>0, <1>a, EmptyTyped DEF HistoryNamed, BatchFits, InBatch
  <2>5. ~givenUp' => MessagesTell'
    BY <1>0, <2>0, <1>a, EmptyTyped DEF MessagesTell, BatchFits, InBatch
  <2>6. ~givenUp' => JournalTells'
    BY <1>0, <2>0, <1>a, EmptyTyped DEF JournalTells, SinceBatch, HistoryNamed, MessagesTell, BatchFits, InBatch
  <2>7. ~givenUp' => ReceiptsFit'
    BY <1>0, <2>0, <1>a, EmptyTyped DEF ReceiptsFit, SinceBatch, HistoryNamed, BatchFits, InBatch
  <2>8. QED BY <2>1, <2>2, <2>3, <2>4, <2>5, <2>6, <2>7 DEF RunInv
<1>4. CASE Propose
  <2>0. /\ phase = "step" /\ phase' = "checkpoint" /\ asked' \in 0..MaxCalls /\ asked < asked' /\ asked \in Nat
        /\ batch' \in Batches /\ batch'.calls # {} /\ batch'.done = {} /\ batch'.calls \subseteq (asked + 1)..asked' /\ batch.calls = {}
        /\ memory' \in States /\ snapshot' \in States /\ modelHistory' \in Knowledge /\ saveFails' \in 0..MaxFailures
        /\ memory'.status = memory.status /\ memory'.resumable = memory.resumable
        /\ memory'.pending \in {NoPending, memory.pending} /\ memory.pending \in Pendings
        /\ (~memory'.error => memory'.sha = messages /\ memory'.pending = NoPending)
        /\ (~givenUp /\ ~memory'.error => modelHistory' = messages)
        /\ UNCHANGED <<events, messages, ran, attempt, lossy, givenUp>>
        /\ Published' = Published /\ (\A o \in Nat : Since(o)' = Since(o))
    <3>1. /\ phase = "step" /\ phase' = "checkpoint" /\ WriteHistory(messages) /\ UNCHANGED <<events, messages, ran, attempt, lossy, givenUp>>
      BY <1>4 DEF Propose, To
    <3>2. PICK n \in BatchSizes : /\ asked + n <= MaxCalls /\ asked' = asked + n
                                  /\ batch' = [calls |-> (asked + 1)..(asked + n), done |-> {}]
      BY <1>4 DEF Propose
    <3>3. n \in Nat \ {0} /\ asked \in 0..MaxCalls /\ messages \in Knowledge /\ memory.pending \in Pendings
      BY <1>0, StateFields DEF RunTypeOK
    <3>4. /\ batch' \in Batches /\ batch'.calls # {} /\ batch'.done = {} /\ batch'.calls \subseteq (asked + 1)..asked'
          /\ asked' \in 0..MaxCalls /\ asked < asked' /\ asked \in Nat
      <4>1. asked + 1 \in (asked + 1)..(asked + n) /\ (asked + 1)..(asked + n) \subseteq CallNumbers
        BY <3>2, <3>3 DEF CallNumbers
      <4>2. batch' \in Batches /\ batch'.calls = (asked + 1)..(asked + n) /\ batch'.done = {}
        BY <3>2, <4>1 DEF Batches
      <4>3. asked' \in 0..MaxCalls /\ asked < asked' /\ asked \in Nat
        BY <3>2, <3>3
      <4>4. QED BY <3>2, <4>1, <4>2, <4>3
    <3>5. batch.calls = {}
      BY <1>0, <3>1, EmptyTyped DEF BatchFits
    <3>6. QED BY <1>0, <1>b, <3>1, <3>3, <3>4, <3>5, WriteShape, EventsStay
  <2>1. RunTypeOK'
    BY <1>0, <2>0, <1>a, EmptyTyped DEF RunTypeOK, Phases
  <2>2. BatchFits'
    BY <1>0, <2>0, <1>a, EmptyTyped DEF BatchFits, InBatch
  <2>3. StatusFits'
    BY <1>0, <2>0, <1>a, EmptyTyped DEF StatusFits, InBatch
  <2>4. ~givenUp' => HistoryNamed'
    BY SMTT(60), <1>0, <2>0, <1>a, EmptyTyped DEF HistoryNamed, BatchFits, InBatch
  <2>5. ~givenUp' => MessagesTell'
    BY <1>0, <2>0, <1>a, EmptyTyped DEF MessagesTell, BatchFits, InBatch
  <2>6. ~givenUp' => JournalTells'
    BY <1>0, <2>0, <1>a, EmptyTyped DEF JournalTells, SinceBatch, HistoryNamed, MessagesTell, BatchFits, InBatch
  <2>7. ~givenUp' => ReceiptsFit'
    BY <1>0, <2>0, <1>a, EmptyTyped DEF ReceiptsFit, SinceBatch, HistoryNamed, BatchFits, InBatch
  <2>8. QED BY <2>1, <2>2, <2>3, <2>4, <2>5, <2>6, <2>7 DEF RunInv
<1>5. CASE Note /\ BatchOpen
  <2>0. /\ phase = "checkpoint" /\ phase' = "call" /\ batch.calls # {}
        /\ memory' \in States /\ snapshot' \in States /\ saveFails' \in 0..MaxFailures
        /\ memory'.status = memory.status /\ memory'.resumable = memory.resumable
        /\ memory'.sha = memory.sha /\ memory'.error = memory.error
        /\ memory'.pending.calls = batch.calls /\ memory'.pending.done = batch.done
        /\ memory'.pending.offset = (IF memory.pending.calls = batch.calls THEN memory.pending.offset ELSE Len(events))
        /\ memory'.pending.offset \in Nat
        /\ UNCHANGED <<modelHistory, events, messages, batch, ran, asked, attempt, lossy, givenUp>>
        /\ Published' = Published /\ (\A o \in Nat : Since(o)' = Since(o))
    <3>1. /\ phase = "checkpoint" /\ phase' = "call" /\ batch.calls # {} /\ Save([memory EXCEPT !.pending = Pending(batch)])
          /\ UNCHANGED <<modelHistory, events, messages, batch, ran, asked, attempt, lossy, givenUp>>
      BY <1>5 DEF Note, BatchOpen, Checkpoint, To
    <3>2. batch \in Batches
      BY <1>0 DEF RunTypeOK
    <3>3. QED BY <1>0, <3>1, <3>2, PendingShape, EventsStay
  <2>1. RunTypeOK'
    BY <1>0, <2>0, <1>a, EmptyTyped DEF RunTypeOK, Phases
  <2>2. BatchFits'
    BY <1>0, <2>0, <1>a, EmptyTyped DEF BatchFits, InBatch
  <2>3. StatusFits'
    BY <1>0, <2>0, <1>a, EmptyTyped DEF StatusFits, InBatch
  <2>4. ~givenUp' => HistoryNamed'
    BY <1>0, <2>0, <1>a, EmptyTyped DEF HistoryNamed, BatchFits, InBatch
  <2>5. ~givenUp' => MessagesTell'
    BY <1>0, <2>0, <1>a, EmptyTyped DEF MessagesTell, BatchFits, InBatch
  <2>6. ~givenUp' => JournalTells'
    BY <1>0, <2>0, <1>a, EmptyTyped DEF JournalTells, SinceBatch, HistoryNamed, MessagesTell, BatchFits, InBatch
  <2>7. ~givenUp' => ReceiptsFit'
    BY <1>0, <2>0, <1>a, SinceEnd, EmptyTyped DEF ReceiptsFit, SinceBatch, RunTypeOK
  <2>8. QED BY <2>1, <2>2, <2>3, <2>4, <2>5, <2>6, <2>7 DEF RunInv
<1>6. CASE Note /\ ~BatchOpen
  <2>0. /\ phase = "checkpoint" /\ phase' = "step" /\ batch.calls = {}
        /\ memory' \in States /\ snapshot' \in States /\ modelHistory' \in Knowledge /\ saveFails' \in 0..MaxFailures
        /\ memory'.status = memory.status /\ memory'.resumable = memory.resumable
        /\ memory'.pending \in {NoPending, memory.pending} /\ memory.pending \in Pendings
        /\ (~memory'.error => memory'.sha = messages /\ memory'.pending = NoPending)
        /\ (~givenUp /\ ~memory'.error => modelHistory' = messages)
        /\ UNCHANGED <<events, messages, batch, ran, asked, attempt, lossy, givenUp>>
        /\ Published' = Published /\ (\A o \in Nat : Since(o)' = Since(o))
    <3>1. /\ phase = "checkpoint" /\ phase' = "step" /\ batch.calls = {} /\ WriteHistory(messages)
          /\ UNCHANGED <<events, messages, batch, ran, asked, attempt, lossy, givenUp>>
      BY <1>6 DEF Note, BatchOpen, Checkpoint, To
    <3>2. messages \in Knowledge /\ memory.pending \in Pendings
      BY <1>0, StateFields DEF RunTypeOK
    <3>3. QED BY <1>0, <1>b, <3>1, <3>2, WriteShape, EventsStay
  <2>1. RunTypeOK'
    BY <1>0, <2>0, <1>a, EmptyTyped DEF RunTypeOK, Phases
  <2>2. BatchFits'
    BY <1>0, <2>0, <1>a, EmptyTyped DEF BatchFits, InBatch
  <2>3. StatusFits'
    BY <1>0, <2>0, <1>a, EmptyTyped DEF StatusFits, InBatch
  <2>4. ~givenUp' => HistoryNamed'
    BY <1>0, <2>0, <1>a, EmptyTyped DEF HistoryNamed, BatchFits, InBatch
  <2>5. ~givenUp' => MessagesTell'
    BY <1>0, <2>0, <1>a, EmptyTyped DEF MessagesTell, BatchFits, InBatch
  <2>6. ~givenUp' => JournalTells'
    BY <1>0, <2>0, <1>a, EmptyTyped DEF JournalTells, SinceBatch, HistoryNamed, MessagesTell, BatchFits, InBatch
  <2>7. ~givenUp' => ReceiptsFit'
    BY <1>0, <2>0, <1>a, EmptyTyped DEF ReceiptsFit, SinceBatch, HistoryNamed, BatchFits, InBatch
  <2>8. QED BY <2>1, <2>2, <2>3, <2>4, <2>5, <2>6, <2>7 DEF RunInv
<1>7. CASE Reject
  <2>0. /\ phase = "call" /\ phase' = "checkpoint" /\ memory' = memory
        /\ snapshot' \in States /\ saveFails' \in 0..MaxFailures
        /\ Call \in batch.calls \ batch.done /\ Call \in CallNumbers
        /\ events' \in Seq(CallNumbers) /\ Len(events') = Len(events) + 1 /\ Published' = Published \cup {Call}
        /\ (\A o \in Nat : o <= Len(events) => Since(o)' = Since(o) \cup {Call})
        /\ messages' \in Knowledge /\ batch' \in Batches /\ batch'.done \subseteq batch'.calls
        /\ (batch'.done = batch'.calls => batch' = NoBatch) /\ (batch' # NoBatch => batch'.calls # {})
        /\ batch'.calls \subseteq batch.calls
        /\ batch'.calls = {} \/ (batch'.calls = batch.calls /\ batch.done \subseteq batch'.done /\ messages' = messages)
        /\ messages.named \cup batch.calls \subseteq messages'.named \cup batch'.calls
        /\ messages.known \cup messages.cut \cup batch.done \cup {Call} \subseteq messages'.known \cup messages'.cut \cup batch'.done
        /\ UNCHANGED <<modelHistory, ran, asked, attempt, lossy, givenUp>>
    <3>1. Call \in batch.calls \ batch.done /\ Call \in CallNumbers
      BY <1>0, <1>7, CallIsOpen DEF Reject, BatchFits, RunTypeOK, InBatch
    <3>2. /\ phase = "call" /\ phase' = "checkpoint" /\ Answered(Call) /\ events' = Append(events, Call) /\ Save(memory)
          /\ UNCHANGED <<modelHistory, ran, asked, attempt, lossy, givenUp>> /\ memory \in States /\ events \in Seq(CallNumbers)
      BY <1>0, <1>7 DEF Reject, To, RunTypeOK
    <3> DEFINE c == Call
    <3>3. memory' = memory /\ snapshot' \in States /\ saveFails' \in 0..MaxFailures
      BY <1>0, <3>2, SaveShape
    <3> HIDE DEF c
    <3>4. c \in batch.calls \ batch.done /\ c \in CallNumbers /\ Answered(c) /\ events' = Append(events, c)
      BY <3>1, <3>2 DEF c
    <3>5. /\ events' \in Seq(CallNumbers) /\ Len(events') = Len(events) + 1 /\ Published' = Published \cup {c}
          /\ (\A o \in Nat : o <= Len(events) => Since(o)' = Since(o) \cup {c})
      BY <3>2, <3>4, EventsGrow
    <3>6. /\ messages' \in Knowledge /\ batch' \in Batches /\ batch'.done \subseteq batch'.calls
          /\ (batch'.done = batch'.calls => batch' = NoBatch) /\ (batch' # NoBatch => batch'.calls # {})
          /\ batch'.calls \subseteq batch.calls
          /\ batch'.calls = {} \/ (batch'.calls = batch.calls /\ batch.done \subseteq batch'.done /\ messages' = messages)
          /\ messages.named \cup batch.calls \subseteq messages'.named \cup batch'.calls
          /\ messages.known \cup messages.cut \cup batch.done \cup {c} \subseteq messages'.known \cup messages'.cut \cup batch'.done
      BY <1>0, <3>2, <3>4, AnsweredShape DEF InBatch
    <3>7. QED BY <3>1, <3>2, <3>3, <3>5, <3>6 DEF c
  <2>1. RunTypeOK'
    BY <1>0, <2>0, <1>a, EmptyTyped DEF RunTypeOK, Phases
  <2>2. BatchFits'
    BY <1>0, <2>0, <1>a, EmptyTyped DEF BatchFits, InBatch
  <2>3. StatusFits'
    BY <1>0, <2>0, <1>a, EmptyTyped DEF StatusFits, InBatch
  <2>4. ~givenUp' => HistoryNamed'
    BY SMTT(60), <1>0, <2>0, <1>a, EmptyTyped DEF HistoryNamed, BatchFits, InBatch
  <2>5. ~givenUp' => MessagesTell'
    BY <1>0, <2>0, <1>a, EmptyTyped DEF MessagesTell, BatchFits, InBatch
  <2>6. ~givenUp' => JournalTells'
    BY SMTT(60), <1>0, <2>0, <1>a, EmptyTyped DEF JournalTells, SinceBatch, HistoryNamed, MessagesTell, BatchFits, InBatch
  <2>7. ~givenUp' => ReceiptsFit'
    BY <1>0, <2>0, <1>a, EmptyTyped DEF ReceiptsFit, SinceBatch, HistoryNamed, BatchFits, InBatch
  <2>8. QED BY <2>1, <2>2, <2>3, <2>4, <2>5, <2>6, <2>7 DEF RunInv
<1>8. CASE DispatchTool
  <2>0. /\ phase = "call" /\ phase' = "running" /\ memory' = memory
        /\ snapshot' \in States /\ saveFails' \in 0..MaxFailures
        /\ ran' = ran \cup {Call} /\ Call \in batch.calls \ batch.done /\ Call \in CallNumbers
        /\ UNCHANGED <<modelHistory, events, messages, batch, asked, attempt, lossy, givenUp>>
        /\ Published' = Published /\ (\A o \in Nat : Since(o)' = Since(o))
    <3>1. Call \in batch.calls \ batch.done /\ Call \in CallNumbers
      BY <1>0, <1>8, CallIsOpen DEF DispatchTool, BatchFits, RunTypeOK, InBatch
    <3>2. memory \in States
      BY <1>0 DEF RunTypeOK
    <3>3. QED BY <1>0, <1>8, <3>1, <3>2, SaveShape, EventsStay DEF DispatchTool, To
  <2>1. RunTypeOK'
    BY <1>0, <2>0, <1>a, EmptyTyped DEF RunTypeOK, Phases
  <2>2. BatchFits'
    BY <1>0, <2>0, <1>a, EmptyTyped DEF BatchFits, InBatch
  <2>3. StatusFits'
    BY <1>0, <2>0, <1>a, EmptyTyped DEF StatusFits, InBatch
  <2>4. ~givenUp' => HistoryNamed'
    BY <1>0, <2>0, <1>a, EmptyTyped DEF HistoryNamed, BatchFits, InBatch
  <2>5. ~givenUp' => MessagesTell'
    BY <1>0, <2>0, <1>a, EmptyTyped DEF MessagesTell, BatchFits, InBatch
  <2>6. ~givenUp' => JournalTells'
    BY <1>0, <2>0, <1>a, EmptyTyped DEF JournalTells, SinceBatch, HistoryNamed, MessagesTell, BatchFits, InBatch
  <2>7. ~givenUp' => ReceiptsFit'
    BY <1>0, <2>0, <1>a, EmptyTyped DEF ReceiptsFit, SinceBatch, HistoryNamed, BatchFits, InBatch
  <2>8. QED BY <2>1, <2>2, <2>3, <2>4, <2>5, <2>6, <2>7 DEF RunInv
<1>9. CASE PublishEvent
  <2>0. /\ phase = "running" /\ phase' = "published" /\ memory' = memory /\ Call' = Call
        /\ snapshot' \in States /\ saveFails' \in 0..MaxFailures
        /\ Call \in batch.calls \ batch.done /\ Call \in CallNumbers
        /\ events' \in Seq(CallNumbers) /\ Len(events') = Len(events) + 1 /\ Published' = Published \cup {Call}
        /\ (\A o \in Nat : o <= Len(events) => Since(o)' = Since(o) \cup {Call})
        /\ UNCHANGED <<modelHistory, messages, batch, ran, asked, attempt, lossy, givenUp>>
    <3>1. Call \in batch.calls \ batch.done /\ Call \in CallNumbers
      BY <1>0, <1>9, CallIsOpen DEF PublishEvent, BatchFits, RunTypeOK, InBatch
    <3>2. /\ phase = "running" /\ phase' = "published" /\ events' = Append(events, Call) /\ Save(memory)
          /\ UNCHANGED <<modelHistory, messages, batch, ran, asked, attempt, lossy, givenUp>> /\ memory \in States /\ events \in Seq(CallNumbers)
      BY <1>0, <1>9 DEF PublishEvent, To, RunTypeOK
    <3>3. Call' = Call
      BY <3>2 DEF Call
    <3>4. QED BY <1>0, <3>1, <3>2, <3>3, SaveShape, EventsGrow
  <2>1. RunTypeOK'
    BY <1>0, <2>0, <1>a, EmptyTyped DEF RunTypeOK, Phases
  <2>2. BatchFits'
    BY <1>0, <2>0, <1>a, EmptyTyped DEF BatchFits, InBatch
  <2>3. StatusFits'
    BY <1>0, <2>0, <1>a, EmptyTyped DEF StatusFits, InBatch
  <2>4. ~givenUp' => HistoryNamed'
    BY <1>0, <2>0, <1>a, EmptyTyped DEF HistoryNamed, BatchFits, InBatch
  <2>5. ~givenUp' => MessagesTell'
    BY <1>0, <2>0, <1>a, EmptyTyped DEF MessagesTell, BatchFits, InBatch
  <2>6. ~givenUp' => JournalTells'
    BY SMTT(60), <1>0, <2>0, <1>a, EmptyTyped DEF JournalTells, SinceBatch, HistoryNamed, MessagesTell, BatchFits, InBatch
  <2>7. ~givenUp' => ReceiptsFit'
    BY <1>0, <2>0, <1>a, EmptyTyped DEF ReceiptsFit, SinceBatch, HistoryNamed, BatchFits, InBatch
  <2>8. QED BY <2>1, <2>2, <2>3, <2>4, <2>5, <2>6, <2>7 DEF RunInv
<1>10. CASE Receive
  <2>0. /\ phase = "published" /\ phase' = "checkpoint" /\ Call \in batch.calls \ batch.done
        /\ messages' \in Knowledge /\ batch' \in Batches /\ batch'.done \subseteq batch'.calls
        /\ (batch'.done = batch'.calls => batch' = NoBatch) /\ (batch' # NoBatch => batch'.calls # {})
        /\ batch'.calls \subseteq batch.calls
        /\ batch'.calls = {} \/ (batch'.calls = batch.calls /\ batch.done \subseteq batch'.done /\ messages' = messages)
        /\ messages.named \cup batch.calls \subseteq messages'.named \cup batch'.calls
        /\ messages.known \cup messages.cut \cup batch.done \cup {Call} \subseteq messages'.known \cup messages'.cut \cup batch'.done
        /\ UNCHANGED <<memory, snapshot, modelHistory, events, ran, asked, attempt, saveFails, lossy, givenUp>>
        /\ Published' = Published /\ (\A o \in Nat : Since(o)' = Since(o))
    <3>1. Call \in batch.calls \ batch.done /\ Call \in CallNumbers
      BY <1>0, <1>10, CallIsOpen DEF Receive, BatchFits, RunTypeOK, InBatch
    <3>2. /\ phase = "published" /\ phase' = "checkpoint" /\ Answered(Call)
          /\ UNCHANGED <<memory, snapshot, modelHistory, events, ran, asked, attempt, saveFails, lossy, givenUp>>
      BY <1>10 DEF Receive, To, journal
    <3>3. QED BY <1>0, <3>1, <3>2, AnsweredShape, EventsStay
  <2>1. RunTypeOK'
    BY <1>0, <2>0, <1>a, EmptyTyped DEF RunTypeOK, Phases
  <2>2. BatchFits'
    BY <1>0, <2>0, <1>a, EmptyTyped DEF BatchFits, InBatch
  <2>3. StatusFits'
    BY <1>0, <2>0, <1>a, EmptyTyped DEF StatusFits, InBatch
  <2>4. ~givenUp' => HistoryNamed'
    BY <1>0, <2>0, <1>a, EmptyTyped DEF HistoryNamed, BatchFits, InBatch
  <2>5. ~givenUp' => MessagesTell'
    BY <1>0, <2>0, <1>a, EmptyTyped DEF MessagesTell, BatchFits, InBatch
  <2>6. ~givenUp' => JournalTells'
    BY <1>0, <2>0, <1>a, EmptyTyped DEF JournalTells, SinceBatch, HistoryNamed, MessagesTell, BatchFits, InBatch
  <2>7. ~givenUp' => ReceiptsFit'
    BY <1>0, <2>0, <1>a, EmptyTyped DEF ReceiptsFit, SinceBatch, HistoryNamed, BatchFits, InBatch
  <2>8. QED BY <2>1, <2>2, <2>3, <2>4, <2>5, <2>6, <2>7 DEF RunInv
<1>11. CASE Pause /\ batch'.calls # {}
  <2>0. /\ phase = "call" /\ phase' = "paused"
        /\ Call \in batch.calls \ batch.done /\ Call \in CallNumbers
        /\ events' \in Seq(CallNumbers) /\ Len(events') = Len(events) + 1 /\ Published' = Published \cup {Call}
        /\ (\A o \in Nat : o <= Len(events) => Since(o)' = Since(o) \cup {Call})
        /\ messages' \in Knowledge /\ batch' \in Batches /\ batch'.done \subseteq batch'.calls
        /\ (batch'.done = batch'.calls => batch' = NoBatch) /\ (batch' # NoBatch => batch'.calls # {})
        /\ batch'.calls \subseteq batch.calls
        /\ batch'.calls = {} \/ (batch'.calls = batch.calls /\ batch.done \subseteq batch'.done /\ messages' = messages)
        /\ messages.named \cup batch.calls \subseteq messages'.named \cup batch'.calls
        /\ messages.known \cup messages.cut \cup batch.done \cup {Call} \subseteq messages'.known \cup messages'.cut \cup batch'.done
        /\ UNCHANGED <<ran, asked, attempt, lossy, givenUp>>
        /\ memory' \in States /\ snapshot' \in States /\ saveFails' \in 0..MaxFailures /\ modelHistory' = modelHistory
        /\ memory'.status = memory.status /\ memory'.resumable = memory.resumable
        /\ memory'.sha = memory.sha /\ memory'.error = memory.error
        /\ batch'.calls = batch.calls /\ memory'.pending.calls = batch'.calls /\ memory'.pending.done = batch'.done
        /\ memory'.pending.offset = memory.pending.offset /\ memory'.pending.offset \in Nat
    <3>1. Call \in batch.calls \ batch.done /\ Call \in CallNumbers
      BY <1>0, <1>11, CallIsOpen DEF Pause, BatchFits, RunTypeOK, InBatch
    <3>2. /\ phase = "call" /\ phase' = "paused" /\ Answered(Call) /\ events' = Append(events, Call) /\ Checkpoint(batch', messages')
          /\ UNCHANGED <<ran, asked, attempt, lossy, givenUp>> /\ events \in Seq(CallNumbers)
      BY <1>0, <1>11 DEF Pause, To, RunTypeOK
    <3> DEFINE c == Call
    <3> HIDE DEF c
    <3>3. c \in batch.calls \ batch.done /\ c \in CallNumbers /\ Answered(c) /\ events' = Append(events, c)
      BY <3>1, <3>2 DEF c
    <3>4. /\ events' \in Seq(CallNumbers) /\ Len(events') = Len(events) + 1 /\ Published' = Published \cup {c}
          /\ (\A o \in Nat : o <= Len(events) => Since(o)' = Since(o) \cup {c})
      BY <3>2, <3>3, EventsGrow
    <3>5. /\ messages' \in Knowledge /\ batch' \in Batches /\ batch'.done \subseteq batch'.calls
          /\ (batch'.done = batch'.calls => batch' = NoBatch) /\ (batch' # NoBatch => batch'.calls # {})
          /\ batch'.calls \subseteq batch.calls
          /\ batch'.calls = {} \/ (batch'.calls = batch.calls /\ batch.done \subseteq batch'.done /\ messages' = messages)
          /\ messages.named \cup batch.calls \subseteq messages'.named \cup batch'.calls
          /\ messages.known \cup messages.cut \cup batch.done \cup {c} \subseteq messages'.known \cup messages'.cut \cup batch'.done
      BY <1>0, <3>2, <3>3, AnsweredShape DEF InBatch
    <3>6. Save([memory EXCEPT !.pending = Pending(batch')]) /\ modelHistory' = modelHistory
      BY <1>11, <3>2 DEF Checkpoint
    <3>7. memory.pending.calls = batch.calls /\ batch'.calls = batch.calls
      BY <1>0, <1>11, <3>2, <3>5 DEF BatchFits, InBatch
    <3>8. /\ memory' \in States /\ snapshot' \in States /\ saveFails' \in 0..MaxFailures
          /\ memory'.status = memory.status /\ memory'.resumable = memory.resumable
          /\ memory'.sha = memory.sha /\ memory'.error = memory.error
          /\ memory'.pending.calls = batch'.calls /\ memory'.pending.done = batch'.done
          /\ memory'.pending.offset = memory.pending.offset /\ memory'.pending.offset \in Nat
      BY <1>0, <3>5, <3>6, <3>7, PendingShape
    <3>9. QED BY <3>1, <3>2, <3>4, <3>5, <3>6, <3>7, <3>8 DEF c
  <2>1. RunTypeOK'
    BY <1>0, <2>0, <1>a, EmptyTyped DEF RunTypeOK, Phases
  <2>2. BatchFits'
    BY <1>0, <2>0, <1>a, EmptyTyped DEF BatchFits, InBatch
  <2>3. StatusFits'
    BY <1>0, <2>0, <1>a, EmptyTyped DEF StatusFits, InBatch
  <2>4. ~givenUp' => HistoryNamed'
    BY <1>0, <2>0, <1>a, EmptyTyped DEF HistoryNamed, BatchFits, InBatch
  <2>5. ~givenUp' => MessagesTell'
    BY <1>0, <2>0, <1>a, EmptyTyped DEF MessagesTell, BatchFits, InBatch
  <2>6. ~givenUp' => JournalTells'
    BY SMTT(60), <1>0, <2>0, <1>a, EmptyTyped DEF JournalTells, SinceBatch, HistoryNamed, MessagesTell, BatchFits, InBatch
  <2>7. ~givenUp' => ReceiptsFit'
    BY <1>0, <2>0, <1>a, EmptyTyped DEF ReceiptsFit, SinceBatch, HistoryNamed, BatchFits, InBatch
  <2>8. QED BY <2>1, <2>2, <2>3, <2>4, <2>5, <2>6, <2>7 DEF RunInv
<1>12. CASE Pause /\ batch'.calls = {}
  <2>0. /\ phase = "call" /\ phase' = "paused"
        /\ Call \in batch.calls \ batch.done /\ Call \in CallNumbers
        /\ events' \in Seq(CallNumbers) /\ Len(events') = Len(events) + 1 /\ Published' = Published \cup {Call}
        /\ (\A o \in Nat : o <= Len(events) => Since(o)' = Since(o) \cup {Call})
        /\ messages' \in Knowledge /\ batch' \in Batches /\ batch'.done \subseteq batch'.calls
        /\ (batch'.done = batch'.calls => batch' = NoBatch) /\ (batch' # NoBatch => batch'.calls # {})
        /\ batch'.calls \subseteq batch.calls
        /\ batch'.calls = {} \/ (batch'.calls = batch.calls /\ batch.done \subseteq batch'.done /\ messages' = messages)
        /\ messages.named \cup batch.calls \subseteq messages'.named \cup batch'.calls
        /\ messages.known \cup messages.cut \cup batch.done \cup {Call} \subseteq messages'.known \cup messages'.cut \cup batch'.done
        /\ UNCHANGED <<ran, asked, attempt, lossy, givenUp>>
        /\ batch' = NoBatch /\ batch.calls \subseteq messages'.named
        /\ memory' \in States /\ snapshot' \in States /\ modelHistory' \in Knowledge /\ saveFails' \in 0..MaxFailures
        /\ memory'.status = memory.status /\ memory'.resumable = memory.resumable
        /\ memory'.pending \in {NoPending, memory.pending} /\ memory.pending \in Pendings
        /\ (~memory'.error => memory'.sha = messages' /\ memory'.pending = NoPending)
        /\ (~givenUp /\ ~memory'.error => modelHistory' = messages')
    <3>1. Call \in batch.calls \ batch.done /\ Call \in CallNumbers
      BY <1>0, <1>12, CallIsOpen DEF Pause, BatchFits, RunTypeOK, InBatch
    <3>2. /\ phase = "call" /\ phase' = "paused" /\ Answered(Call) /\ events' = Append(events, Call) /\ Checkpoint(batch', messages')
          /\ UNCHANGED <<ran, asked, attempt, lossy, givenUp>> /\ events \in Seq(CallNumbers)
      BY <1>0, <1>12 DEF Pause, To, RunTypeOK
    <3> DEFINE c == Call
    <3> HIDE DEF c
    <3>3. c \in batch.calls \ batch.done /\ c \in CallNumbers /\ Answered(c) /\ events' = Append(events, c)
      BY <3>1, <3>2 DEF c
    <3>4. /\ events' \in Seq(CallNumbers) /\ Len(events') = Len(events) + 1 /\ Published' = Published \cup {c}
          /\ (\A o \in Nat : o <= Len(events) => Since(o)' = Since(o) \cup {c})
      BY <3>2, <3>3, EventsGrow
    <3>5. /\ messages' \in Knowledge /\ batch' \in Batches /\ batch'.done \subseteq batch'.calls
          /\ (batch'.done = batch'.calls => batch' = NoBatch) /\ (batch' # NoBatch => batch'.calls # {})
          /\ batch'.calls \subseteq batch.calls
          /\ batch'.calls = {} \/ (batch'.calls = batch.calls /\ batch.done \subseteq batch'.done /\ messages' = messages)
          /\ messages.named \cup batch.calls \subseteq messages'.named \cup batch'.calls
          /\ messages.known \cup messages.cut \cup batch.done \cup {c} \subseteq messages'.known \cup messages'.cut \cup batch'.done
      BY <1>0, <3>2, <3>3, AnsweredShape DEF InBatch
    <3>6. WriteHistory(messages') /\ batch' = NoBatch
      BY <1>12, <3>2, <3>5 DEF Checkpoint
    <3>7. memory.pending \in Pendings /\ batch.calls \subseteq messages'.named
      BY <1>0, <1>12, <3>5, StateFields DEF RunTypeOK
    <3> DEFINE m == messages'
    <3>8. m \in Knowledge /\ WriteHistory(m)
      BY <3>5, <3>6
    <3> HIDE DEF m
    <3>9. /\ memory' \in States /\ snapshot' \in States /\ modelHistory' \in Knowledge /\ saveFails' \in 0..MaxFailures
          /\ memory'.status = memory.status /\ memory'.resumable = memory.resumable
          /\ memory'.pending \in {NoPending, memory.pending} /\ memory.pending \in Pendings
          /\ (~memory'.error => memory'.sha = m /\ memory'.pending = NoPending)
          /\ (~givenUp /\ ~memory'.error => modelHistory' = m)
      BY <1>0, <1>b, <3>2, <3>7, <3>8, WriteShape
    <3>10. QED BY <3>1, <3>2, <3>4, <3>5, <3>6, <3>7, <3>9 DEF c, m
  <2>1. RunTypeOK'
    BY <1>0, <2>0, <1>a, EmptyTyped DEF RunTypeOK, Phases
  <2>2. BatchFits'
    BY <1>0, <2>0, <1>a, EmptyTyped DEF BatchFits, InBatch
  <2>3. StatusFits'
    BY <1>0, <2>0, <1>a, EmptyTyped DEF StatusFits, InBatch
  <2>4. ~givenUp' => HistoryNamed'
    BY SMTT(60), <1>0, <2>0, <1>a, EmptyTyped DEF HistoryNamed, BatchFits, InBatch
  <2>5. ~givenUp' => MessagesTell'
    BY <1>0, <2>0, <1>a, EmptyTyped DEF MessagesTell, BatchFits, InBatch
  <2>6. ~givenUp' => JournalTells'
    BY <1>0, <2>0, <1>a, EmptyTyped DEF JournalTells, SinceBatch, HistoryNamed, MessagesTell, BatchFits, InBatch
  <2>7. ~givenUp' => ReceiptsFit'
    BY <1>0, <2>0, <1>a, EmptyTyped DEF ReceiptsFit, SinceBatch, HistoryNamed, BatchFits, InBatch
  <2>8. QED BY <2>1, <2>2, <2>3, <2>4, <2>5, <2>6, <2>7 DEF RunInv
<1>13. CASE ModelAnswers
  <2>0. /\ phase = "step" /\ phase' = "answered"
        /\ memory' \in States /\ snapshot' \in States /\ modelHistory' \in Knowledge /\ saveFails' \in 0..MaxFailures
        /\ memory'.status = memory.status /\ memory'.resumable = memory.resumable
        /\ memory'.pending \in {NoPending, memory.pending} /\ memory.pending \in Pendings
        /\ (~memory'.error => memory'.sha = messages /\ memory'.pending = NoPending)
        /\ (~givenUp /\ ~memory'.error => modelHistory' = messages)
        /\ UNCHANGED <<events, messages, batch, ran, asked, attempt, lossy, givenUp>>
        /\ Published' = Published /\ (\A o \in Nat : Since(o)' = Since(o))
    <3>1. /\ phase = "step" /\ phase' = "answered" /\ WriteHistory(messages)
          /\ UNCHANGED <<events, messages, batch, ran, asked, attempt, lossy, givenUp>>
      BY <1>13 DEF ModelAnswers, To
    <3>2. messages \in Knowledge /\ memory.pending \in Pendings
      BY <1>0, StateFields DEF RunTypeOK
    <3>3. QED BY <1>0, <1>b, <3>1, <3>2, WriteShape, EventsStay
  <2>1. RunTypeOK'
    BY <1>0, <2>0, <1>a, EmptyTyped DEF RunTypeOK, Phases
  <2>2. BatchFits'
    BY <1>0, <2>0, <1>a, EmptyTyped DEF BatchFits, InBatch
  <2>3. StatusFits'
    BY <1>0, <2>0, <1>a, EmptyTyped DEF StatusFits, InBatch
  <2>4. ~givenUp' => HistoryNamed'
    BY <1>0, <2>0, <1>a, EmptyTyped DEF HistoryNamed, BatchFits, InBatch
  <2>5. ~givenUp' => MessagesTell'
    BY <1>0, <2>0, <1>a, EmptyTyped DEF MessagesTell, BatchFits, InBatch
  <2>6. ~givenUp' => JournalTells'
    BY <1>0, <2>0, <1>a, EmptyTyped DEF JournalTells, SinceBatch, HistoryNamed, MessagesTell, BatchFits, InBatch
  <2>7. ~givenUp' => ReceiptsFit'
    BY <1>0, <2>0, <1>a, EmptyTyped DEF ReceiptsFit, SinceBatch, HistoryNamed, BatchFits, InBatch
  <2>8. QED BY <2>1, <2>2, <2>3, <2>4, <2>5, <2>6, <2>7 DEF RunInv
<1>14. CASE Accept \/ Halt \/ HaltInBatch
  <2>0. /\ phase \notin {"off", "over", "dead"} /\ phase' = "over" /\ memory' \in States
        /\ (memory'.status \in {"interrupted", "cancelled", "workflow_request"} => memory'.resumable)
        /\ memory'.sha = memory.sha /\ memory'.pending = memory.pending /\ memory'.error = memory.error
        /\ snapshot' \in States /\ saveFails' \in 0..MaxFailures
        /\ batch' = NoBatch /\ messages' = NothingKnown /\ UNCHANGED <<modelHistory, events, ran, asked, attempt, lossy, givenUp>>
        /\ Published' = Published /\ (\A o \in Nat : Since(o)' = Since(o))
    <3>1. PICK status \in {"completed", "answer", "cancelled", "context_limit", "error", "workflow_request"}, again \in {TRUE, FALSE} :
             /\ Done(status, again) /\ phase \notin {"off", "over", "dead"}
             /\ status \in {"cancelled", "workflow_request"} => again
      BY <1>14 DEF Accept, Halt, HaltInBatch
    <3> DEFINE s == [memory EXCEPT !.status = status, !.resumable = again]
    <3>2. /\ s \in States /\ s.status = status /\ s.resumable = again /\ s.sha = memory.sha
          /\ s.pending = memory.pending /\ s.error = memory.error
      BY <1>0 DEF RunTypeOK, States, Statuses
    <3> HIDE DEF s
    <3>3. /\ Save(s) /\ batch' = NoBatch /\ messages' = NothingKnown /\ phase' = "over"
          /\ UNCHANGED <<modelHistory, events, ran, asked, attempt, lossy, givenUp>>
      BY <3>1 DEF Done, To, s
    <3>4. QED BY <1>0, <3>1, <3>2, <3>3, SaveShape, EventsStay
  <2>1. RunTypeOK'
    BY <1>0, <2>0, <1>a, EmptyTyped DEF RunTypeOK, Phases
  <2>2. BatchFits'
    BY <1>0, <2>0, <1>a, EmptyTyped DEF BatchFits, InBatch
  <2>3. StatusFits'
    BY <1>0, <2>0, <1>a, EmptyTyped DEF StatusFits, InBatch
  <2>4. ~givenUp' => HistoryNamed'
    BY <1>0, <2>0, <1>a, EmptyTyped DEF HistoryNamed, BatchFits, InBatch
  <2>5. ~givenUp' => MessagesTell'
    BY <1>0, <2>0, <1>a, EmptyTyped DEF MessagesTell, BatchFits, InBatch
  <2>6. ~givenUp' => JournalTells'
    BY <1>0, <2>0, <1>a, EmptyTyped DEF JournalTells, SinceBatch, HistoryNamed, MessagesTell, BatchFits, InBatch
  <2>7. ~givenUp' => ReceiptsFit'
    BY <1>0, <2>0, <1>a, EmptyTyped DEF ReceiptsFit, SinceBatch, HistoryNamed, BatchFits, InBatch
  <2>8. QED BY <2>1, <2>2, <2>3, <2>4, <2>5, <2>6, <2>7 DEF RunInv
<1>15. CASE Close
  <2>0. /\ phase \notin {"off", "over", "dead"} /\ phase' = "over" /\ batch' = NoBatch /\ messages' = NothingKnown
        /\ UNCHANGED <<memory, snapshot, modelHistory, events, ran, asked, attempt, saveFails, lossy, givenUp>>
        /\ Published' = Published /\ (\A o \in Nat : Since(o)' = Since(o))
    BY <1>15, EventsStay DEF Close, To, journal
  <2>1. RunTypeOK'
    BY <1>0, <2>0, <1>a, EmptyTyped DEF RunTypeOK, Phases
  <2>2. BatchFits'
    BY <1>0, <2>0, <1>a, EmptyTyped DEF BatchFits, InBatch
  <2>3. StatusFits'
    BY <1>0, <2>0, <1>a, EmptyTyped DEF StatusFits, InBatch
  <2>4. ~givenUp' => HistoryNamed'
    BY <1>0, <2>0, <1>a, EmptyTyped DEF HistoryNamed, BatchFits, InBatch
  <2>5. ~givenUp' => MessagesTell'
    BY <1>0, <2>0, <1>a, EmptyTyped DEF MessagesTell, BatchFits, InBatch
  <2>6. ~givenUp' => JournalTells'
    BY <1>0, <2>0, <1>a, EmptyTyped DEF JournalTells, SinceBatch, HistoryNamed, MessagesTell, BatchFits, InBatch
  <2>7. ~givenUp' => ReceiptsFit'
    BY <1>0, <2>0, <1>a, EmptyTyped DEF ReceiptsFit, SinceBatch, HistoryNamed, BatchFits, InBatch
  <2>8. QED BY <2>1, <2>2, <2>3, <2>4, <2>5, <2>6, <2>7 DEF RunInv
<1>16. CASE FinishAttempt
  <2>0. /\ phase = "over" /\ phase' = "off" /\ memory' \in States /\ memory'.status # "running"
        /\ snapshot' \in States /\ saveFails' \in 0..MaxFailures /\ givenUp' \in BOOLEAN
        /\ (~givenUp' => ~givenUp /\ snapshot' = memory')
        /\ (memory'.status \in {"interrupted", "cancelled", "workflow_request"} => memory'.resumable)
        /\ memory'.sha = memory.sha /\ memory'.pending = memory.pending /\ memory'.error = memory.error
        /\ UNCHANGED <<modelHistory, events, messages, batch, ran, asked, attempt, lossy>>
        /\ Published' = Published /\ (\A o \in Nat : Since(o)' = Since(o))
    <3>1. /\ phase = "over" /\ phase' = "off"
          /\ memory' = IF memory.status = "running"
                       THEN [memory EXCEPT !.status = "interrupted", !.resumable = TRUE] ELSE memory
          /\ UNCHANGED <<modelHistory, events, messages, batch, ran, asked, attempt, lossy>>
      BY <1>16 DEF FinishAttempt, To
    <3>2. memory \in States /\ snapshot \in States /\ saveFails \in 0..MaxFailures /\ givenUp \in BOOLEAN
      BY <1>0 DEF RunTypeOK
    <3>3. /\ memory' \in States /\ memory'.status # "running"
          /\ (memory'.status \in {"interrupted", "cancelled", "workflow_request"} => memory'.resumable)
          /\ memory'.sha = memory.sha /\ memory'.pending = memory.pending /\ memory'.error = memory.error
      <4>1. CASE memory.status = "running"
        BY <3>1, <3>2, <4>1 DEF States, Statuses
      <4>2. CASE memory.status # "running"
        BY <1>0, <3>1, <3>2, <4>2 DEF StatusFits
      <4>3. QED BY <4>1, <4>2
    <3>4. CASE snapshot' = memory' /\ UNCHANGED <<saveFails, givenUp>>
      BY <3>1, <3>2, <3>3, <3>4, EventsStay
    <3>5. CASE ReplaceFails /\ givenUp' = TRUE /\ UNCHANGED snapshot
      BY <3>1, <3>2, <3>3, <3>5, EventsStay DEF ReplaceFails
    <3>6. QED BY <1>16, <3>4, <3>5 DEF FinishAttempt
  <2>1. RunTypeOK'
    BY <1>0, <2>0, <1>a, EmptyTyped DEF RunTypeOK, Phases
  <2>2. BatchFits'
    BY <1>0, <2>0, <1>a, EmptyTyped DEF BatchFits, InBatch
  <2>3. StatusFits'
    BY <1>0, <2>0, <1>a, EmptyTyped DEF StatusFits, InBatch
  <2>4. ~givenUp' => HistoryNamed'
    BY <1>0, <2>0, <1>a, EmptyTyped DEF HistoryNamed, BatchFits, InBatch
  <2>5. ~givenUp' => MessagesTell'
    BY <1>0, <2>0, <1>a, EmptyTyped DEF MessagesTell, BatchFits, InBatch
  <2>6. ~givenUp' => JournalTells'
    BY <1>0, <2>0, <1>a, EmptyTyped DEF JournalTells, SinceBatch, HistoryNamed, MessagesTell, BatchFits, InBatch
  <2>7. ~givenUp' => ReceiptsFit'
    BY <1>0, <2>0, <1>a, EmptyTyped DEF ReceiptsFit, SinceBatch, HistoryNamed, BatchFits, InBatch
  <2>8. QED BY <2>1, <2>2, <2>3, <2>4, <2>5, <2>6, <2>7 DEF RunInv
<1>17. CASE ProcessKilled
  <2>0. /\ phase' = "dead" /\ phase # "off" /\ batch' = NoBatch /\ messages' = NothingKnown /\ modelHistory' \in Knowledge
        /\ UNCHANGED <<memory, snapshot, events, ran, asked, attempt, saveFails, lossy, givenUp>>
        /\ Published' = Published /\ (\A o \in Nat : Since(o)' = Since(o))
    <3>1. modelHistory \in Knowledge /\ messages \in Knowledge
      BY <1>0 DEF RunTypeOK
    <3>2. QED BY <1>17, <3>1, EventsStay DEF ProcessKilled, To
  <2>1. RunTypeOK'
    BY <1>0, <2>0, <1>a, EmptyTyped DEF RunTypeOK, Phases
  <2>2. BatchFits'
    BY <1>0, <2>0, <1>a, EmptyTyped DEF BatchFits, InBatch
  <2>3. StatusFits'
    BY <1>0, <2>0, <1>a, EmptyTyped DEF StatusFits, InBatch
  <2>4. ~givenUp' => HistoryNamed'
    BY <1>0, <2>0, <1>a, EmptyTyped DEF HistoryNamed, BatchFits, InBatch
  <2>5. ~givenUp' => MessagesTell'
    BY <1>0, <2>0, <1>a, EmptyTyped DEF MessagesTell, BatchFits, InBatch
  <2>6. ~givenUp' => JournalTells'
    BY <1>0, <2>0, <1>a, EmptyTyped DEF JournalTells, SinceBatch, HistoryNamed, MessagesTell, BatchFits, InBatch
  <2>7. ~givenUp' => ReceiptsFit'
    BY <1>0, <2>0, <1>a, EmptyTyped DEF ReceiptsFit, SinceBatch, HistoryNamed, BatchFits, InBatch
  <2>8. QED BY <2>1, <2>2, <2>3, <2>4, <2>5, <2>6, <2>7 DEF RunInv
<1>18. QED BY <1>1, <1>2, <1>3, <1>4, <1>5, <1>6, <1>7, <1>8, <1>9, <1>10, <1>11, <1>12, <1>13, <1>14, <1>15, <1>16, <1>17
            DEF RunNext

(***************************************************************************)
(* The theorems                                                            *)
(***************************************************************************)

LEMMA RunInitial == RunInit => RunInv
<1> SUFFICES ASSUME RunInit PROVE RunInv
  OBVIOUS
<1>1. /\ phase = "off" /\ attempt = 0 /\ memory = NoState /\ snapshot = NoState /\ modelHistory = NothingKnown
      /\ events = <<>> /\ messages = NothingKnown /\ batch = NoBatch
      /\ ran = {} /\ asked = 0 /\ saveFails = 0 /\ lossy = FALSE /\ givenUp = FALSE
  BY DEF RunInit
<1>2. /\ memory.status = "none" /\ memory.sha = NothingKnown /\ memory.pending = NoPending /\ memory.resumable = FALSE
      /\ memory.error = FALSE
  BY <1>1 DEF NoState
<1>3. Published = {} /\ Len(events) = 0
  BY <1>1 DEF Published
<1>4. RunTypeOK
  <2>1. attempt \in 0..MaxAttempts /\ asked \in 0..MaxCalls /\ saveFails \in 0..MaxFailures
    BY <1>1
  <2>2. phase \in Phases /\ events \in Seq(CallNumbers)
    BY <1>1 DEF Phases
  <2>3. QED BY <1>1, <2>1, <2>2, EmptyTyped DEF RunTypeOK
<1>5. BatchFits /\ StatusFits /\ HistoryNamed
  BY <1>1, <1>2, <1>3, EmptyTyped DEF BatchFits, StatusFits, HistoryNamed, InBatch
<1>6. MessagesTell /\ JournalTells /\ ReceiptsFit
  BY <1>1, <1>2, <1>3 DEF MessagesTell, JournalTells, ReceiptsFit, SinceBatch
<1>7. QED BY <1>4, <1>5, <1>6 DEF RunInv

LEMMA RunInductive == RunInv /\ [RunNext]_runVars => RunInv'
<1>1. RunInv /\ RunNext => RunInv'
  BY RunStep
<1>2. RunInv /\ UNCHANGED runVars => RunInv'
  <2> SUFFICES ASSUME RunInv, UNCHANGED runVars PROVE RunInv'
    OBVIOUS
  <2>1. UNCHANGED <<phase, memory, snapshot, modelHistory, events, messages, batch, ran, asked, attempt, saveFails, lossy, givenUp>>
    BY DEF runVars
  <2>2. RunTypeOK' /\ BatchFits' /\ StatusFits' /\ (HistoryNamed => HistoryNamed')
    BY <2>1 DEF RunInv, RunTypeOK, BatchFits, StatusFits, HistoryNamed
  <2>3. Published' = Published /\ SinceBatch' = SinceBatch /\ Call' = Call
    BY <2>1 DEF Published, SinceBatch, Since, ReceiptsIn, Call
  <2>4. (MessagesTell => MessagesTell') /\ (JournalTells => JournalTells') /\ (ReceiptsFit => ReceiptsFit')
    BY <2>1, <2>3 DEF MessagesTell, JournalTells, ReceiptsFit
  <2>5. QED BY <2>1, <2>2, <2>4 DEF RunInv
<1>3. QED BY <1>1, <1>2

\* Between two attempts state.json is the journal's memory and names the history file,
\* so what the next attempt is told is all that memory tells; where the process was
\* killed it is when its last snapshot was written.
LEMMA RestKeepsAll == RunInv => RunRemembers
<1> SUFFICES ASSUME RunInv PROVE RunRemembers
  OBVIOUS
<1>0. /\ RunTypeOK /\ StatusFits
      /\ ~givenUp => HistoryNamed /\ JournalTells /\ ReceiptsFit
  BY DEF RunInv
<1>1. OverIsRecorded
  BY <1>0 DEF StatusFits, OverIsRecorded
<1>2. ASSUME ~snapshot.error, ~lossy, ~givenUp,
             \/ phase = "off" /\ snapshot.resumable
             \/ phase = "dead" /\ snapshot = memory /\ modelHistory = snapshot.sha
      PROVE  FilesTell
  <2>1. snapshot = memory /\ modelHistory = memory.sha
    <3>1. CASE phase = "off" /\ snapshot.resumable
      <4>1. attempt # 0
        BY <1>0, <3>1 DEF StatusFits, NoState
      <4>2. attempt > 0
        BY <1>0, <4>1 DEF RunTypeOK
      <4>3. snapshot = memory
        BY <1>0, <1>2, <3>1, <4>2 DEF StatusFits
      <4>4. QED BY <1>0, <1>2, <3>1, <4>3 DEF HistoryNamed
    <3>2. CASE phase = "dead" /\ snapshot = memory /\ modelHistory = snapshot.sha
      BY <3>2
    <3>3. QED BY <1>2, <3>1, <3>2
  <2>2. JournalTells /\ ReceiptsFit /\ ~memory.error
    BY <1>0, <1>2, <2>1
  <2>3. ASSUME NEW n \in ReadTo(memory)
        PROVE  /\ ran \subseteq Restored(memory, n).named
               /\ Published \subseteq Restored(memory, n).known \cup Restored(memory, n).cut
    BY <1>0, <1>2, <2>1, <2>2, RestoredTells
  <2>4. QED BY <2>1, <2>3 DEF FilesTell
<1>3. NothingForgotten
  BY <1>2 DEF NothingForgotten
<1>4. QED BY <1>1, <1>3 DEF RunRemembers

LEMMA RunInvariant == RunSpec => []RunInv
<1>1. QED BY RunInitial, RunInductive, PTL DEF RunSpec

\* Every part of a run keeps its type: phases, journal, snapshot, history, events
\* and the batch under way.
THEOREM RunTypeCorrect == RunSpec => []RunTypeOK
<1>1. RunInv => RunTypeOK
  BY DEF RunInv
<1>2. QED BY <1>1, RunInvariant, PTL

\* Whatever ends an attempt (an answer, a Stop, a closed stream, an exception, files
\* that cannot be replaced for a while), the journal it leaves records the end, and the
\* model of the next attempt is told of every tool started and of every receipt
\* published, or that receipts of that batch are missing; the files of a killed run
\* tell as much when its last snapshot was written.
THEOREM RunAlwaysRemembers == RunSpec => []RunRemembers
<1>1. QED BY RestKeepsAll, RunInvariant, PTL

HIDE AgentRunAssumption

-------------------------------------------------------------------------------
(****************************************************************************)
(* The inputs of a session.  An accepted input is in exactly one of four    *)
(* places: the queue, the batch being read, the dialogue or the checkpoint. *)
(****************************************************************************)

Counts == [InputIds -> Nat]
Ledgers == [InputIds -> {"none", "queued", "applied"}]

\* The type invariant without the queue's limit, which needs finite sets.
InputsTyped ==
    /\ ledger \in Ledgers
    /\ sessionLive \in BOOLEAN /\ accepting \in BOOLEAN /\ stopped \in BOOLEAN
    /\ at \in {"off", "step", "append", "think", "answered", "answer", "final"}
    /\ taken \subseteq InputIds
    /\ dialogue \in Counts
    /\ ckpt \in [some : BOOLEAN, told : Counts, ids : SUBSET InputIds]
    /\ sender \in [InputIds -> {"new", "refused", "accepted"}]
    /\ outcome \in {"none", "broken", "stopped", "finished"}
    /\ sessions \in 0..MaxSessions /\ inputFails \in 0..MaxInputFails

QueueBounded ==
    IsFiniteSet(InputsIn("queued")) /\ Cardinality(InputsIn("queued")) <= MaxQueued

\* A session that is over holds nothing; one that works has not ended yet.
OverIsOver ==
    IF sessionLive THEN outcome = "none" /\ at # "off"
    ELSE at = "off" /\ taken = {} /\ ~accepting

\* What the file calls applied is among the messages, or on its way there, once.
AppliedIsRead ==
    /\ at # "append" => taken = {}
    /\ taken \cap Seen(dialogue) = {}
    /\ sessionLive => InputsIn("applied") = Seen(dialogue) \cup taken
    /\ \A i \in InputIds : dialogue[i] <= 1

\* The checkpoint claims what it contains, once, and nothing that was not applied.
CheckpointIsPart ==
    /\ ckpt.ids = Seen(ckpt.told) /\ ckpt.ids \subseteq InputsIn("applied")
    /\ \A i \in InputIds : ckpt.told[i] <= 1

\* After the last look an unstopped session has an empty queue and takes no more.
LastLook ==
    /\ at = "final" => stopped \/ (InputsIn("queued") = {} /\ ~accepting)
    /\ outcome = "finished" => ~sessionLive /\ (stopped \/ InputsIn("queued") = {})

InputsInv ==
    InputsTyped /\ QueueBounded /\ AcceptedIsKept /\ OverIsOver /\ AppliedIsRead /\ CheckpointIsPart /\ LastLook

USE InputsAssumption

(***************************************************************************)
(* Counts of messages, and the sets of the ledger                          *)
(***************************************************************************)

LEMMA WithSeen ==
  ASSUME NEW count \in Counts, NEW S \in SUBSET InputIds
  PROVE  /\ With(count, S) \in Counts
         /\ Seen(With(count, S)) = Seen(count) \cup S
         /\ \A i \in InputIds : With(count, S)[i] = IF i \in S THEN count[i] + 1 ELSE count[i]
<1>1. With(count, S) = [i \in InputIds |-> IF i \in S THEN count[i] + 1 ELSE count[i]]
  BY DEF With
<1>2. \A i \in InputIds : count[i] \in Nat
  BY DEF Counts
<1>3. \A i \in InputIds : With(count, S)[i] = IF i \in S THEN count[i] + 1 ELSE count[i]
  BY <1>1
<1>4. With(count, S) \in Counts
  BY <1>1, <1>2 DEF Counts
<1>5. Seen(With(count, S)) = Seen(count) \cup S
  BY <1>2, <1>3 DEF Seen
<1>6. QED BY <1>3, <1>4, <1>5

LEMMA NoMessagesSeen ==
  NoMessages \in Counts /\ Seen(NoMessages) = {} /\ \A i \in InputIds : NoMessages[i] = 0
  BY DEF NoMessages, Counts, Seen

LEMMA AcceptShape ==
  ASSUME InputsTyped, NEW i \in InputIds, AcceptInput(i)
  PROVE  /\ ledger' \in Ledgers /\ ledger'[i] = "queued"
         /\ \A j \in InputIds : j # i => ledger'[j] = ledger[j]
         /\ InputsIn("queued")' = InputsIn("queued") \cup {i} /\ i \notin InputsIn("queued")
         /\ InputsIn("applied")' = InputsIn("applied")
         /\ sessionLive /\ accepting /\ ~stopped /\ Cardinality(InputsIn("queued")) < MaxQueued
<1>1. /\ ledger \in Ledgers /\ ledger[i] = "none" /\ ledger' = [ledger EXCEPT ![i] = "queued"]
      /\ sessionLive /\ accepting /\ ~stopped /\ Cardinality(InputsIn("queued")) < MaxQueued
  BY DEF AcceptInput, InputsTyped
<1>2. ledger' \in Ledgers /\ ledger'[i] = "queued" /\ \A j \in InputIds : j # i => ledger'[j] = ledger[j]
  BY <1>1 DEF Ledgers
<1>3. QED BY <1>1, <1>2 DEF InputsIn

LEMMA ApplyShape ==
  ASSUME InputsTyped, Apply
  PROVE  /\ ledger' \in Ledgers
         /\ Taken \subseteq InputIds /\ Taken \cap InputsIn("applied") = {}
         /\ \A j \in InputIds : ledger[j] # "none" => ledger'[j] # "none"
         /\ InputsIn("queued")' = IF stopped THEN InputsIn("queued") ELSE {}
         /\ InputsIn("applied")' = InputsIn("applied") \cup Taken
         /\ ~stopped /\ Taken = {} => InputsIn("queued") = {}
<1>1. /\ ledger \in Ledgers /\ ledger' = [i \in InputIds |-> IF i \in Taken THEN "applied" ELSE ledger[i]]
  BY DEF Apply, InputsTyped
<1>2. Taken \subseteq InputIds /\ Taken \cap InputsIn("applied") = {}
  BY DEF Taken, InputsIn
<1>3. \A j \in InputIds : ledger'[j] = IF j \in Taken THEN "applied" ELSE ledger[j]
  BY <1>1
<1>4. ledger' \in Ledgers
  BY <1>1 DEF Ledgers
<1>5. InputsIn("applied")' = InputsIn("applied") \cup Taken
  BY <1>2, <1>3 DEF InputsIn
<1>6. InputsIn("queued")' = IF stopped THEN InputsIn("queued") ELSE {}
  BY <1>3 DEF InputsIn, Taken
<1>7. QED BY <1>2, <1>3, <1>4, <1>5, <1>6 DEF Taken

LEMMA RestoredShape ==
  ASSUME InputsTyped, CheckpointIsPart
  PROVE  /\ RestoredInputs \in Counts
         /\ Seen(RestoredInputs) = InputsIn("applied")
         /\ \A i \in InputIds : RestoredInputs[i] <= 1
<1>0. ckpt.told \in Counts /\ InputsIn("applied") \in SUBSET InputIds
  BY DEF InputsTyped, InputsIn
<1>1. CASE ckpt.some
  <2> DEFINE S == InputsIn("applied") \ ckpt.ids
  <2>1. RestoredInputs = With(ckpt.told, S)
    BY <1>1 DEF RestoredInputs
  <2>2. S \in SUBSET InputIds /\ \A i \in S : i \notin Seen(ckpt.told)
    BY <1>0 DEF CheckpointIsPart
  <2>3. Seen(ckpt.told) \cup S = InputsIn("applied")
    BY DEF CheckpointIsPart
  <2>4. \A i \in S : ckpt.told[i] = 0
    BY <1>0, <2>2 DEF Seen, Counts
  <2> HIDE DEF S
  <2>5. \A i \in InputIds : With(ckpt.told, S)[i] = IF i \in S THEN ckpt.told[i] + 1 ELSE ckpt.told[i]
    BY <1>0, <2>2, WithSeen
  <2>6. \A i \in InputIds : RestoredInputs[i] <= 1
    BY <1>0, <2>1, <2>2, <2>4, <2>5 DEF CheckpointIsPart, Counts
  <2>7. RestoredInputs \in Counts /\ Seen(RestoredInputs) = InputsIn("applied")
    BY <1>0, <2>1, <2>2, <2>3, WithSeen
  <2>8. QED BY <2>6, <2>7
<1>2. CASE ~ckpt.some
  <2>1. RestoredInputs = With(NoMessages, InputsIn("applied"))
    BY <1>2 DEF RestoredInputs
  <2>2. NoMessages \in Counts /\ Seen(NoMessages) = {} /\ \A i \in InputIds : NoMessages[i] = 0
    BY NoMessagesSeen
  <2>3. RestoredInputs \in Counts /\ Seen(RestoredInputs) = InputsIn("applied")
    BY <1>0, <2>1, <2>2, WithSeen
  <2>4. \A i \in InputIds : RestoredInputs[i] <= 1
    <3>1. \A i \in InputIds :
             RestoredInputs[i] = IF i \in InputsIn("applied") THEN NoMessages[i] + 1 ELSE NoMessages[i]
      BY <1>0, <2>1, <2>2, WithSeen
    <3>2. QED BY <2>2, <3>1
  <2>5. QED BY <2>3, <2>4
<1>3. QED BY <1>1, <1>2

LEMMA InputsStep ==
  ASSUME InputsInv, InputsNext
  PROVE  InputsTyped' /\ QueueBounded' /\ AcceptedIsKept' /\ OverIsOver' /\ AppliedIsRead' /\ CheckpointIsPart' /\ LastLook'
<1>0. InputsTyped /\ QueueBounded /\ AcceptedIsKept /\ OverIsOver /\ AppliedIsRead /\ CheckpointIsPart /\ LastLook
  BY DEF InputsInv
<1>1. ASSUME NEW i \in InputIds, Post(i), AcceptInput(i), ledger[i] = "none" PROVE InputsTyped' /\ QueueBounded' /\ AcceptedIsKept' /\ OverIsOver' /\ AppliedIsRead' /\ CheckpointIsPart' /\ LastLook'
  <2>0. /\ UNCHANGED <<sessionLive, accepting, stopped, at, taken, dialogue, ckpt, outcome, sessions>> /\ inputFails' \in 0..MaxInputFails
        /\ sender' \in [InputIds -> {"new", "refused", "accepted"}]
        /\ (\A j \in InputIds : sender'[j] = "accepted" => sender[j] = "accepted" \/ j = i)
        /\ ledger' \in Ledgers /\ ledger'[i] = "queued" /\ (\A j \in InputIds : j # i => ledger'[j] = ledger[j])
        /\ InputsIn("queued")' = InputsIn("queued") \cup {i} /\ i \notin InputsIn("queued")
        /\ InputsIn("applied")' = InputsIn("applied") /\ Seen(dialogue)' = Seen(dialogue) /\ Seen(ckpt.told)' = Seen(ckpt.told)
        /\ sessionLive /\ accepting /\ ~stopped /\ Cardinality(InputsIn("queued")) < MaxQueued
    <3>1. /\ \/ Told(i, "accepted") /\ UNCHANGED inputFails
             \/ Fail /\ UNCHANGED sender
          /\ UNCHANGED <<sessionLive, accepting, stopped, at, taken, dialogue, ckpt, outcome, sessions>>
      <4>1. sessionLive /\ accepting /\ ~stopped
        BY <1>1 DEF AcceptInput
      <4>2. QED BY <1>1, <4>1 DEF Post, sessionVars, loop
    <3>2. QED BY <1>0, <1>1, <3>1, AcceptShape DEF InputsTyped, Told, Fail, Seen
  <2>1. InputsTyped'
    BY <1>0, <2>0 DEF InputsTyped
  <2>2. QueueBounded'
    <3>1. /\ IsFiniteSet(InputsIn("queued") \cup {i})
          /\ Cardinality(InputsIn("queued") \cup {i}) = Cardinality(InputsIn("queued")) + 1
          /\ Cardinality(InputsIn("queued")) \in Nat
      BY <1>0, <2>0, FS_AddElement, FS_CardinalityType DEF QueueBounded
    <3>2. QED BY <2>0, <3>1 DEF QueueBounded
  <2>3. AcceptedIsKept'
    BY <1>0, <2>0 DEF AcceptedIsKept, InputsTyped
  <2>4. OverIsOver'
    BY <1>0, <2>0 DEF OverIsOver
  <2>5. AppliedIsRead'
    BY <1>0, <2>0 DEF AppliedIsRead, OverIsOver
  <2>6. CheckpointIsPart'
    BY <1>0, <2>0 DEF CheckpointIsPart, AppliedIsRead, InputsTyped
  <2>7. LastLook'
    BY <1>0, <2>0 DEF LastLook, OverIsOver, AppliedIsRead
  <2>8. QED BY <2>1, <2>2, <2>3, <2>4, <2>5, <2>6, <2>7
<1>2. ASSUME NEW i \in InputIds, Post(i), ledger[i] # "none" \/ ~AcceptInput(i) PROVE InputsTyped' /\ QueueBounded' /\ AcceptedIsKept' /\ OverIsOver' /\ AppliedIsRead' /\ CheckpointIsPart' /\ LastLook'
  <2>0. /\ UNCHANGED <<sessionLive, accepting, stopped, at, taken, dialogue, ckpt, outcome, sessions>> /\ ledger' = ledger /\ inputFails' = inputFails
        /\ sender' \in [InputIds -> {"new", "refused", "accepted"}]
        /\ (\A j \in InputIds : sender'[j] = "accepted" => sender[j] = "accepted" \/ ledger[j] # "none")
        /\ InputsIn("queued")' = InputsIn("queued") /\ InputsIn("applied")' = InputsIn("applied") /\ Seen(dialogue)' = Seen(dialogue) /\ Seen(ckpt.told)' = Seen(ckpt.told)
    <3>1. /\ \/ ledger[i] # "none" /\ Told(i, "accepted")
             \/ Told(i, "refused")
          /\ ledger' = ledger /\ inputFails' = inputFails /\ UNCHANGED <<sessionLive, accepting, stopped, at, taken, dialogue, ckpt, outcome, sessions>>
      BY <1>2 DEF Post, sessionVars, loop, AcceptInput
    <3>2. QED BY <1>0, <1>2, <3>1 DEF InputsTyped, Told, Seen, InputsIn
  <2>1. InputsTyped'
    BY <1>0, <2>0 DEF InputsTyped
  <2>2. QueueBounded'
    BY <1>0, <2>0 DEF QueueBounded
  <2>3. AcceptedIsKept'
    BY <1>0, <2>0 DEF AcceptedIsKept, InputsTyped
  <2>4. OverIsOver'
    BY <1>0, <2>0 DEF OverIsOver
  <2>5. AppliedIsRead'
    BY <1>0, <2>0 DEF AppliedIsRead, OverIsOver
  <2>6. CheckpointIsPart'
    BY <1>0, <2>0 DEF CheckpointIsPart, AppliedIsRead, InputsTyped
  <2>7. LastLook'
    BY <1>0, <2>0 DEF LastLook, OverIsOver, AppliedIsRead
  <2>8. QED BY <2>1, <2>2, <2>3, <2>4, <2>5, <2>6, <2>7
<1>3. ASSUME NEW i \in InputIds, Retry(i) PROVE InputsTyped' /\ QueueBounded' /\ AcceptedIsKept' /\ OverIsOver' /\ AppliedIsRead' /\ CheckpointIsPart' /\ LastLook'
  <2>0. /\ UNCHANGED <<sessionLive, accepting, stopped, at, taken, dialogue, ckpt, outcome, sessions>> /\ ledger' = ledger /\ inputFails' = inputFails
        /\ sender' \in [InputIds -> {"new", "refused", "accepted"}]
        /\ (\A j \in InputIds : sender'[j] = "accepted" => sender[j] = "accepted" \/ ledger[j] # "none")
        /\ InputsIn("queued")' = InputsIn("queued") /\ InputsIn("applied")' = InputsIn("applied") /\ Seen(dialogue)' = Seen(dialogue) /\ Seen(ckpt.told)' = Seen(ckpt.told)
    BY <1>0, <1>3 DEF Retry, InputsTyped, Told, sessionVars, loop, Seen, InputsIn
  <2>1. InputsTyped'
    BY <1>0, <2>0 DEF InputsTyped
  <2>2. QueueBounded'
    BY <1>0, <2>0 DEF QueueBounded
  <2>3. AcceptedIsKept'
    BY <1>0, <2>0 DEF AcceptedIsKept, InputsTyped
  <2>4. OverIsOver'
    BY <1>0, <2>0 DEF OverIsOver
  <2>5. AppliedIsRead'
    BY <1>0, <2>0 DEF AppliedIsRead, OverIsOver
  <2>6. CheckpointIsPart'
    BY <1>0, <2>0 DEF CheckpointIsPart, AppliedIsRead, InputsTyped
  <2>7. LastLook'
    BY <1>0, <2>0 DEF LastLook, OverIsOver, AppliedIsRead
  <2>8. QED BY <2>1, <2>2, <2>3, <2>4, <2>5, <2>6, <2>7
<1>4. CASE BeginSession
  <2>0. /\ ~sessionLive /\ sessionLive' = TRUE /\ accepting' = TRUE /\ stopped' = FALSE /\ at' = "step" /\ taken' = {}
        /\ dialogue' \in Counts /\ Seen(dialogue)' = InputsIn("applied") /\ (\A j \in InputIds : dialogue'[j] <= 1)
        /\ outcome' = "none" /\ sessions' \in 0..MaxSessions /\ UNCHANGED <<ledger, ckpt, sender, inputFails>>
        /\ InputsIn("queued")' = InputsIn("queued") /\ InputsIn("applied")' = InputsIn("applied") /\ Seen(ckpt.told)' = Seen(ckpt.told)
    <3>1. /\ ~sessionLive /\ sessionLive' = TRUE /\ accepting' = TRUE /\ stopped' = FALSE /\ at' = "step" /\ taken' = {}
          /\ dialogue' = RestoredInputs /\ outcome' = "none" /\ sessions < MaxSessions /\ sessions' = sessions + 1
          /\ UNCHANGED <<ledger, ckpt, sender, inputFails>>
      BY <1>4 DEF BeginSession
    <3>2. Seen(dialogue)' = Seen(RestoredInputs)
      BY <3>1 DEF Seen
    <3>3. QED BY <1>0, <3>1, <3>2, RestoredShape DEF InputsTyped, InputsIn, Seen
  <2>1. InputsTyped'
    BY <1>0, <2>0 DEF InputsTyped
  <2>2. QueueBounded'
    BY <1>0, <2>0 DEF QueueBounded
  <2>3. AcceptedIsKept'
    BY <1>0, <2>0 DEF AcceptedIsKept, InputsTyped
  <2>4. OverIsOver'
    BY <1>0, <2>0 DEF OverIsOver
  <2>5. AppliedIsRead'
    BY <1>0, <2>0 DEF AppliedIsRead, OverIsOver
  <2>6. CheckpointIsPart'
    BY <1>0, <2>0 DEF CheckpointIsPart, AppliedIsRead, InputsTyped
  <2>7. LastLook'
    BY <1>0, <2>0 DEF LastLook, OverIsOver, AppliedIsRead
  <2>8. QED BY <2>1, <2>2, <2>3, <2>4, <2>5, <2>6, <2>7
<1>5. CASE StopSession
  <2>0. /\ stopped' = TRUE /\ UNCHANGED <<ledger, sessionLive, accepting, at, taken, dialogue, ckpt, sender, outcome, sessions, inputFails>>
        /\ InputsIn("queued")' = InputsIn("queued") /\ InputsIn("applied")' = InputsIn("applied") /\ Seen(dialogue)' = Seen(dialogue) /\ Seen(ckpt.told)' = Seen(ckpt.told)
    BY <1>5 DEF StopSession, loop, Seen, InputsIn
  <2>1. InputsTyped'
    BY <1>0, <2>0 DEF InputsTyped
  <2>2. QueueBounded'
    BY <1>0, <2>0 DEF QueueBounded
  <2>3. AcceptedIsKept'
    BY <1>0, <2>0 DEF AcceptedIsKept, InputsTyped
  <2>4. OverIsOver'
    BY <1>0, <2>0 DEF OverIsOver
  <2>5. AppliedIsRead'
    BY <1>0, <2>0 DEF AppliedIsRead, OverIsOver
  <2>6. CheckpointIsPart'
    BY <1>0, <2>0 DEF CheckpointIsPart, AppliedIsRead, InputsTyped
  <2>7. LastLook'
    BY <1>0, <2>0 DEF LastLook, OverIsOver, AppliedIsRead
  <2>8. QED BY <2>1, <2>2, <2>3, <2>4, <2>5, <2>6, <2>7
<1>6. CASE Break \/ (at \in {"step", "answered", "answer", "think"} /\ (\E how \in {"broken", "stopped"} : SessionOver(how)) /\ (Fail \/ UNCHANGED inputFails))
  <2>0. /\ sessionLive /\ UNCHANGED <<stopped, ledger, ckpt, sender, sessions>> /\ inputFails' \in 0..MaxInputFails
        /\ sessionLive' = FALSE /\ accepting' = FALSE /\ at' = "off" /\ taken' = {} /\ dialogue' \in Counts
        /\ Seen(dialogue)' = {} /\ (\A j \in InputIds : dialogue'[j] = 0) /\ outcome' \in {"broken", "stopped"}
        /\ InputsIn("queued")' = InputsIn("queued") /\ InputsIn("applied")' = InputsIn("applied")
        /\ Seen(ckpt.told)' = Seen(ckpt.told)
    <3>1. PICK how \in {"broken", "stopped"} : SessionOver(how) /\ sessionLive /\ (Fail \/ UNCHANGED inputFails)
      BY <1>0, <1>6 DEF Break, OverIsOver
    <3>2. Seen(dialogue)' = Seen(NoMessages) /\ dialogue' = NoMessages
      BY <3>1 DEF SessionOver, Seen
    <3>3. QED BY <1>0, <3>1, <3>2, NoMessagesSeen DEF SessionOver, Fail, InputsTyped, InputsIn, Seen
  <2>1. InputsTyped'
    BY <1>0, <2>0 DEF InputsTyped
  <2>2. QueueBounded'
    BY <1>0, <2>0 DEF QueueBounded
  <2>3. AcceptedIsKept'
    BY <1>0, <2>0 DEF AcceptedIsKept, InputsTyped
  <2>4. OverIsOver'
    BY <1>0, <2>0 DEF OverIsOver
  <2>5. AppliedIsRead'
    BY <1>0, <2>0 DEF AppliedIsRead, OverIsOver
  <2>6. CheckpointIsPart'
    BY <1>0, <2>0 DEF CheckpointIsPart, AppliedIsRead, InputsTyped
  <2>7. LastLook'
    BY <1>0, <2>0 DEF LastLook, OverIsOver, AppliedIsRead
  <2>8. QED BY <2>1, <2>2, <2>3, <2>4, <2>5, <2>6, <2>7
<1>7. CASE TakeInputs /\ Apply /\ taken' = Taken
  <2>0. /\ Apply /\ taken' = Taken /\ taken = {} /\ UNCHANGED <<sessionLive, stopped, dialogue, ckpt, sender, outcome, sessions, inputFails>>
        /\ at' = IF Taken # {} THEN "append" ELSE IF at = "step" THEN "think" ELSE "answer"
        /\ at \in {"step", "answered"} /\ accepting' = accepting
        /\ Seen(dialogue)' = Seen(dialogue) /\ Seen(ckpt.told)' = Seen(ckpt.told)
        /\ ledger' \in Ledgers /\ Taken \subseteq InputIds /\ Taken \cap InputsIn("applied") = {}
        /\ (\A j \in InputIds : ledger[j] # "none" => ledger'[j] # "none")
        /\ InputsIn("queued")' = (IF stopped THEN InputsIn("queued") ELSE {})
        /\ InputsIn("applied")' = InputsIn("applied") \cup Taken
        /\ (~stopped /\ Taken = {} => InputsIn("queued") = {})
    <3>1. /\ at \in {"step", "answered"} /\ taken = {}
          /\ at' = IF Taken # {} THEN "append" ELSE IF at = "step" THEN "think" ELSE "answer"
          /\ UNCHANGED <<sessionLive, accepting, stopped, dialogue, ckpt, sender, outcome, sessions, inputFails>>
      BY <1>0, <1>7 DEF TakeInputs, SessionOver, sessionVars, OverIsOver
    <3>2. QED BY <1>0, <1>7, <3>1, ApplyShape DEF InputsTyped, Seen
  <2>1. InputsTyped'
    BY <1>0, <2>0 DEF InputsTyped
  <2>2. QueueBounded'
    <3>1. CASE stopped
      BY <1>0, <2>0, <3>1 DEF QueueBounded
    <3>2. CASE ~stopped
      BY <1>0, <2>0, <3>2, FS_EmptySet DEF QueueBounded
    <3>3. QED BY <3>1, <3>2
  <2>3. AcceptedIsKept'
    BY <1>0, <2>0 DEF AcceptedIsKept, InputsTyped
  <2>4. OverIsOver'
    BY <1>0, <2>0 DEF OverIsOver
  <2>5. AppliedIsRead'
    BY <1>0, <2>0 DEF AppliedIsRead, OverIsOver
  <2>6. CheckpointIsPart'
    BY <1>0, <2>0 DEF CheckpointIsPart, AppliedIsRead, InputsTyped
  <2>7. LastLook'
    BY <1>0, <2>0 DEF LastLook, OverIsOver, AppliedIsRead
  <2>8. QED BY <2>1, <2>2, <2>3, <2>4, <2>5, <2>6, <2>7
<1>8. CASE TakeFinal /\ Apply /\ taken' = Taken
  <2>0. /\ Apply /\ taken' = Taken /\ taken = {} /\ UNCHANGED <<sessionLive, stopped, dialogue, ckpt, sender, outcome, sessions, inputFails>>
        /\ at' = IF Taken # {} THEN "append" ELSE "final"
        /\ at \in {"answer"} /\ accepting' = (accepting /\ (stopped \/ Taken # {}))
        /\ Seen(dialogue)' = Seen(dialogue) /\ Seen(ckpt.told)' = Seen(ckpt.told)
        /\ ledger' \in Ledgers /\ Taken \subseteq InputIds /\ Taken \cap InputsIn("applied") = {}
        /\ (\A j \in InputIds : ledger[j] # "none" => ledger'[j] # "none")
        /\ InputsIn("queued")' = (IF stopped THEN InputsIn("queued") ELSE {})
        /\ InputsIn("applied")' = InputsIn("applied") \cup Taken
        /\ (~stopped /\ Taken = {} => InputsIn("queued") = {})
    <3>1. /\ at = "answer" /\ taken = {} /\ accepting' = (accepting /\ (stopped \/ Taken # {}))
          /\ at' = IF Taken # {} THEN "append" ELSE "final"
          /\ UNCHANGED <<sessionLive, stopped, dialogue, ckpt, sender, outcome, sessions, inputFails>>
      BY <1>0, <1>8 DEF TakeFinal, SessionOver, OverIsOver
    <3>2. QED BY <1>0, <1>8, <3>1, ApplyShape DEF InputsTyped, Seen
  <2>1. InputsTyped'
    BY <1>0, <2>0 DEF InputsTyped
  <2>2. QueueBounded'
    <3>1. CASE stopped
      BY <1>0, <2>0, <3>1 DEF QueueBounded
    <3>2. CASE ~stopped
      BY <1>0, <2>0, <3>2, FS_EmptySet DEF QueueBounded
    <3>3. QED BY <3>1, <3>2
  <2>3. AcceptedIsKept'
    BY <1>0, <2>0 DEF AcceptedIsKept, InputsTyped
  <2>4. OverIsOver'
    BY <1>0, <2>0 DEF OverIsOver
  <2>5. AppliedIsRead'
    BY <1>0, <2>0 DEF AppliedIsRead, OverIsOver
  <2>6. CheckpointIsPart'
    BY <1>0, <2>0 DEF CheckpointIsPart, AppliedIsRead, InputsTyped
  <2>7. LastLook'
    BY <1>0, <2>0 DEF LastLook, OverIsOver, AppliedIsRead
  <2>8. QED BY <2>1, <2>2, <2>3, <2>4, <2>5, <2>6, <2>7
<1>9. CASE AppendInput
  <2>0. /\ at = "append" /\ UNCHANGED <<ledger, sessionLive, accepting, stopped, ckpt, sender, outcome, sessions, inputFails>>
        /\ at' \in {"think", "append"} /\ (at' = "think" => taken' = {}) /\ taken' \subseteq InputIds /\ dialogue' \in Counts
        /\ taken' \cap Seen(dialogue)' = {} /\ Seen(dialogue)' \cup taken' = Seen(dialogue) \cup taken
        /\ (\A j \in InputIds : dialogue'[j] <= 1)
        /\ InputsIn("queued")' = InputsIn("queued") /\ InputsIn("applied")' = InputsIn("applied") /\ Seen(ckpt.told)' = Seen(ckpt.told)
    <3>1. PICK i \in taken : /\ dialogue' = With(dialogue, {i}) /\ taken' = taken \ {i}
                            /\ at' = IF taken = {i} THEN "think" ELSE "append"
      BY <1>9 DEF AppendInput
    <3>2. at = "append" /\ UNCHANGED <<ledger, sessionLive, accepting, stopped, ckpt, sender, outcome, sessions, inputFails>>
      BY <1>9 DEF AppendInput, sessionVars
    <3>3. /\ dialogue \in Counts /\ i \in InputIds /\ taken \subseteq InputIds /\ taken \cap Seen(dialogue) = {}
          /\ \A j \in InputIds : dialogue[j] <= 1
      BY <1>0, <3>1 DEF InputsTyped, AppliedIsRead
    <3>4. dialogue' \in Counts /\ Seen(dialogue') = Seen(dialogue) \cup {i}
      BY <3>1, <3>3, WithSeen
    <3>5. Seen(dialogue)' = Seen(dialogue) \cup {i}
      BY <3>4 DEF Seen
    <3>6. \A j \in InputIds : dialogue'[j] = IF j \in {i} THEN dialogue[j] + 1 ELSE dialogue[j]
      BY <3>1, <3>3, WithSeen
    <3>7. dialogue[i] = 0
      BY <3>1, <3>3 DEF Seen, Counts
    <3>8. \A j \in InputIds : dialogue'[j] <= 1
      BY <3>3, <3>6, <3>7
    <3>9. taken' \cap Seen(dialogue)' = {} /\ Seen(dialogue)' \cup taken' = Seen(dialogue) \cup taken
      BY <3>1, <3>3, <3>5
    <3>10. InputsIn("queued")' = InputsIn("queued") /\ InputsIn("applied")' = InputsIn("applied")
           /\ Seen(ckpt.told)' = Seen(ckpt.told)
      BY <3>2 DEF InputsIn, Seen
    <3>11. at' \in {"think", "append"} /\ (at' = "think" => taken' = {}) /\ taken' \subseteq InputIds
      BY <3>1, <3>3
    <3>12. QED BY <3>2, <3>4, <3>8, <3>9, <3>10, <3>11
  <2>1. InputsTyped'
    BY <1>0, <2>0 DEF InputsTyped
  <2>2. QueueBounded'
    BY <1>0, <2>0 DEF QueueBounded
  <2>3. AcceptedIsKept'
    BY <1>0, <2>0 DEF AcceptedIsKept, InputsTyped
  <2>4. OverIsOver'
    BY <1>0, <2>0 DEF OverIsOver
  <2>5. AppliedIsRead'
    BY <1>0, <2>0 DEF AppliedIsRead, OverIsOver
  <2>6. CheckpointIsPart'
    BY <1>0, <2>0 DEF CheckpointIsPart, AppliedIsRead, InputsTyped
  <2>7. LastLook'
    BY <1>0, <2>0 DEF LastLook, OverIsOver, AppliedIsRead
  <2>8. QED BY <2>1, <2>2, <2>3, <2>4, <2>5, <2>6, <2>7
<1>10. CASE Think /\ ~stopped
  <2>0. /\ at = "think" /\ at' = "answered"
        /\ UNCHANGED <<ledger, sessionLive, accepting, stopped, taken, dialogue, ckpt, sender, outcome, sessions, inputFails>>
        /\ InputsIn("queued")' = InputsIn("queued") /\ InputsIn("applied")' = InputsIn("applied") /\ Seen(dialogue)' = Seen(dialogue) /\ Seen(ckpt.told)' = Seen(ckpt.told)
    BY <1>10 DEF Think, sessionVars, InputsIn, Seen
  <2>1. InputsTyped'
    BY <1>0, <2>0 DEF InputsTyped
  <2>2. QueueBounded'
    BY <1>0, <2>0 DEF QueueBounded
  <2>3. AcceptedIsKept'
    BY <1>0, <2>0 DEF AcceptedIsKept, InputsTyped
  <2>4. OverIsOver'
    BY <1>0, <2>0 DEF OverIsOver
  <2>5. AppliedIsRead'
    BY <1>0, <2>0 DEF AppliedIsRead, OverIsOver
  <2>6. CheckpointIsPart'
    BY <1>0, <2>0 DEF CheckpointIsPart, AppliedIsRead, InputsTyped
  <2>7. LastLook'
    BY <1>0, <2>0 DEF LastLook, OverIsOver, AppliedIsRead
  <2>8. QED BY <2>1, <2>2, <2>3, <2>4, <2>5, <2>6, <2>7
<1>11. CASE Tools
  <2>0. /\ UNCHANGED <<ledger, taken, sender, stopped, sessions>> /\ inputFails' \in 0..MaxInputFails
        /\ taken = {} /\ sessionLive
        /\ ckpt' = [some |-> TRUE, told |-> dialogue, ids |-> InputsIn("applied")] \/ ckpt' = ckpt
        /\ InputsIn("queued")' = InputsIn("queued") /\ InputsIn("applied")' = InputsIn("applied")
        /\ Seen(dialogue) = InputsIn("applied")
        /\ at = "answer" /\ at' = "step" /\ UNCHANGED <<sessionLive, accepting, dialogue, outcome>> /\ Seen(dialogue)' = Seen(dialogue)
    <3>1. /\ at = "answer" /\ at' = "step" /\ CheckpointInputs
          /\ UNCHANGED <<ledger, sessionLive, accepting, stopped, taken, dialogue, sender, outcome, sessions>>
      BY <1>11 DEF Tools, sessionVars
    <3>2. sessionLive /\ taken = {}
      BY <1>0, <3>1 DEF OverIsOver, AppliedIsRead
    <3>3. InputsIn("applied") = Seen(dialogue)
      BY <1>0, <3>2 DEF AppliedIsRead
    <3>4. InputsIn("queued")' = InputsIn("queued") /\ InputsIn("applied")' = InputsIn("applied") /\ Seen(dialogue)' = Seen(dialogue)
      BY <3>1 DEF InputsIn, Seen
    <3>5. QED BY <1>0, <3>1, <3>2, <3>3, <3>4 DEF CheckpointInputs, Fail, InputsTyped
  <2>1. InputsTyped'
    <3>1. ckpt' \in [some : BOOLEAN, told : Counts, ids : SUBSET InputIds]
      <4>1. dialogue \in Counts /\ InputsIn("applied") \subseteq InputIds
        BY <1>0 DEF InputsTyped, InputsIn
      <4>2. [some |-> TRUE, told |-> dialogue, ids |-> InputsIn("applied")]
               \in [some : BOOLEAN, told : Counts, ids : SUBSET InputIds]
        BY <4>1
      <4>3. ckpt \in [some : BOOLEAN, told : Counts, ids : SUBSET InputIds]
        BY <1>0 DEF InputsTyped
      <4>4. QED BY <2>0, <4>2, <4>3
    <3>2. QED BY <1>0, <2>0, <3>1, NoMessagesSeen DEF InputsTyped
  <2>2. QueueBounded'
    BY <1>0, <2>0 DEF QueueBounded
  <2>3. AcceptedIsKept'
    BY <1>0, <2>0 DEF AcceptedIsKept, InputsTyped
  <2>4. OverIsOver'
    BY <1>0, <2>0 DEF OverIsOver
  <2>5. AppliedIsRead'
    BY <1>0, <2>0 DEF AppliedIsRead, OverIsOver
  <2>6. CheckpointIsPart'
    <3>1. CASE ckpt' = ckpt
      BY <1>0, <2>0, <3>1 DEF CheckpointIsPart, Seen
    <3>2. CASE ckpt' = [some |-> TRUE, told |-> dialogue, ids |-> InputsIn("applied")]
      <4>1. ckpt'.told = dialogue /\ ckpt'.ids = InputsIn("applied")
        BY <3>2
      <4>2. Seen(ckpt.told)' = Seen(dialogue)
        BY <4>1 DEF Seen
      <4>3. QED BY <1>0, <2>0, <4>1, <4>2 DEF CheckpointIsPart, AppliedIsRead
    <3>3. QED BY <2>0, <3>1, <3>2
  <2>7. LastLook'
    BY <1>0, <2>0 DEF LastLook, OverIsOver, AppliedIsRead
  <2>8. QED BY <2>1, <2>2, <2>3, <2>4, <2>5, <2>6, <2>7
<1>12. CASE FinishSession
  <2>0. /\ UNCHANGED <<ledger, taken, sender, stopped, sessions>> /\ inputFails' \in 0..MaxInputFails
        /\ taken = {} /\ sessionLive
        /\ ckpt' = [some |-> TRUE, told |-> dialogue, ids |-> InputsIn("applied")] \/ ckpt' = ckpt
        /\ InputsIn("queued")' = InputsIn("queued") /\ InputsIn("applied")' = InputsIn("applied")
        /\ Seen(dialogue) = InputsIn("applied")
        /\ at = "final" /\ at' = "off" /\ sessionLive' = FALSE /\ accepting' = FALSE /\ dialogue' = NoMessages
        /\ outcome' = "finished" /\ Seen(dialogue)' = {}
    <3>1. /\ at = "final" /\ at' = "off" /\ CheckpointInputs /\ sessionLive' = FALSE /\ accepting' = FALSE
          /\ dialogue' = NoMessages /\ outcome' = "finished" /\ UNCHANGED <<ledger, taken, sender, stopped, sessions>>
      BY <1>12 DEF FinishSession
    <3>2. sessionLive /\ taken = {}
      BY <1>0, <3>1 DEF OverIsOver, AppliedIsRead
    <3>3. InputsIn("applied") = Seen(dialogue)
      BY <1>0, <3>2 DEF AppliedIsRead
    <3>4. InputsIn("queued")' = InputsIn("queued") /\ InputsIn("applied")' = InputsIn("applied")
      BY <3>1 DEF InputsIn
    <3>5. Seen(dialogue)' = {}
      BY <3>1, NoMessagesSeen DEF Seen
    <3>6. QED BY <1>0, <3>1, <3>2, <3>3, <3>4, <3>5 DEF CheckpointInputs, Fail, InputsTyped
  <2>1. InputsTyped'
    <3>1. ckpt' \in [some : BOOLEAN, told : Counts, ids : SUBSET InputIds]
      <4>1. dialogue \in Counts /\ InputsIn("applied") \subseteq InputIds
        BY <1>0 DEF InputsTyped, InputsIn
      <4>2. [some |-> TRUE, told |-> dialogue, ids |-> InputsIn("applied")]
               \in [some : BOOLEAN, told : Counts, ids : SUBSET InputIds]
        BY <4>1
      <4>3. ckpt \in [some : BOOLEAN, told : Counts, ids : SUBSET InputIds]
        BY <1>0 DEF InputsTyped
      <4>4. QED BY <2>0, <4>2, <4>3
    <3>2. QED BY <1>0, <2>0, <3>1, NoMessagesSeen DEF InputsTyped
  <2>2. QueueBounded'
    BY <1>0, <2>0 DEF QueueBounded
  <2>3. AcceptedIsKept'
    BY <1>0, <2>0 DEF AcceptedIsKept, InputsTyped
  <2>4. OverIsOver'
    BY <1>0, <2>0 DEF OverIsOver
  <2>5. AppliedIsRead'
    BY <1>0, <2>0, NoMessagesSeen DEF AppliedIsRead
  <2>6. CheckpointIsPart'
    <3>1. CASE ckpt' = ckpt
      BY <1>0, <2>0, <3>1 DEF CheckpointIsPart, Seen
    <3>2. CASE ckpt' = [some |-> TRUE, told |-> dialogue, ids |-> InputsIn("applied")]
      <4>1. ckpt'.told = dialogue /\ ckpt'.ids = InputsIn("applied")
        BY <3>2
      <4>2. Seen(ckpt.told)' = Seen(dialogue)
        BY <4>1 DEF Seen
      <4>3. QED BY <1>0, <2>0, <4>1, <4>2 DEF CheckpointIsPart, AppliedIsRead
    <3>3. QED BY <2>0, <3>1, <3>2
  <2>7. LastLook'
    BY <1>0, <2>0 DEF LastLook, OverIsOver, AppliedIsRead
  <2>8. QED BY <2>1, <2>2, <2>3, <2>4, <2>5, <2>6, <2>7
<1>13. CASE TakeInputs \/ TakeFinal
  <2>1. \/ TakeInputs /\ Apply /\ taken' = Taken
        \/ TakeFinal /\ Apply /\ taken' = Taken
        \/ at \in {"step", "answered", "answer"} /\ SessionOver("broken") /\ Fail
    BY <1>13 DEF TakeInputs, TakeFinal
  <2>2. QED BY <2>1, <1>6, <1>7, <1>8
<1>14. CASE Think
  <2>1. (Think /\ ~stopped) \/ (at = "think" /\ SessionOver("stopped") /\ UNCHANGED inputFails)
    BY <1>14 DEF Think
  <2>2. QED BY <2>1, <1>6, <1>10
<1>15. QED BY <1>1, <1>2, <1>3, <1>4, <1>5, <1>6, <1>9, <1>11, <1>12, <1>13, <1>14 DEF InputsNext, Loop

LEMMA InputsInitial ==
  ASSUME InputsInit
  PROVE  InputsInv
<1>1. InputsTyped
  <2>1. sessions \in 0..MaxSessions /\ inputFails \in 0..MaxInputFails
    BY InputsAssumption DEF InputsInit
  <2>2. ckpt \in [some : BOOLEAN, told : Counts, ids : SUBSET InputIds]
    BY NoMessagesSeen DEF InputsInit, NoCheckpoint
  <2>3. QED BY <2>1, <2>2, NoMessagesSeen DEF InputsInit, InputsTyped, Ledgers
<1>2. InputsIn("queued") = {} /\ InputsIn("applied") = {} /\ Seen(dialogue) = {} /\ Seen(ckpt.told) = {}
  BY NoMessagesSeen DEF InputsInit, InputsIn, NoCheckpoint
<1>3. QueueBounded
  BY <1>2, FS_EmptySet DEF QueueBounded
<1>4. AcceptedIsKept /\ OverIsOver /\ LastLook
  BY <1>2 DEF InputsInit, AcceptedIsKept, OverIsOver, LastLook
<1>5. AppliedIsRead
  BY <1>2, NoMessagesSeen DEF InputsInit, AppliedIsRead
<1>6. CheckpointIsPart
  BY <1>2, NoMessagesSeen DEF InputsInit, CheckpointIsPart, NoCheckpoint
<1>7. QED BY <1>1, <1>3, <1>4, <1>5, <1>6 DEF InputsInv

LEMMA InputsInductive == InputsInv /\ [InputsNext]_inputsVars => InputsInv'
<1>1. ASSUME InputsInv, UNCHANGED inputsVars PROVE InputsInv'
  BY <1>1 DEF InputsInv, InputsTyped, QueueBounded, AcceptedIsKept, OverIsOver, AppliedIsRead, CheckpointIsPart,
              LastLook, InputsIn, Seen, inputsVars
<1>2. ASSUME InputsInv, InputsNext PROVE InputsInv'
  BY <1>2, InputsStep DEF InputsInv
<1>3. QED BY <1>1, <1>2

\* The ledger, the session, the loop and the checkpoint have their types, and the
\* queue its limit (queue_session_input of loop_helpers.py).
THEOREM InputsTypeCorrect == InputsSpec => []InputsTypeOK
<1>1. InputsInv => InputsTypeOK
  BY DEF InputsInv, InputsTyped, InputsTypeOK, QueueBounded, Ledgers, Counts
<1>2. QED BY InputsInitial, InputsInductive, <1>1, PTL DEF InputsSpec

\* What a client was told is accepted is kept, the model reads it once, over retries,
\* checkpoints, crashes and resumes, and an unstopped run that finishes has read all
\* it accepted (queue_session_input and take_session_inputs of loop_helpers.py,
\* build_continuation_kwargs of delivery_session.py).
THEOREM InputsAlwaysHold == InputsSpec => []InputsHold
<1>1. InputsInv => InputsHold
  BY DEF InputsInv, InputsHold, AcceptedIsKept, ReadOnce, CheckpointHonest, FinishedReadAll, AppliedIsRead,
         CheckpointIsPart, LastLook, OverIsOver
<1>2. QED BY InputsInitial, InputsInductive, <1>1, PTL DEF InputsSpec


HIDE InputsAssumption

-------------------------------------------------------------------------------
(*******************************************************************************)
(* Background jobs.  That a running process is within reach rests on the       *)
(* journal: a worker whose job was not given up is in it, with its pid once it *)
(* is called running (RecordFits), and the thread that has not registered it   *)
(* yet is the only one that starts it (OneStarter).                            *)
(*******************************************************************************)

JobStates == {"none", "starting", "running"} \cup JobTerminal
ResultStates == {"none"} \cup JobTerminal
WorkerStates == {"none", "born", "runs", "wrote", "gone"}
WorkKinds == {"nothing", "boot", "start", "watch", "stopJob", "stopRun"}
WorkPlaces == {"idle", "wait", "look", "relook", "list", "next", "poll", "kill", "mark",
               "save", "spawn", "activate", "register"}
Works == [does : WorkKinds, at : WorkPlaces, job : Jobs \cup {NoJob}, todo : SUBSET Jobs]
Readings == [launch : SUBSET Jobs, result : [Jobs -> ResultStates]]

\* The type invariant with its sets named.
JobsTyped ==
    /\ jobsBackend \in {"down", "boot", "up"}
    /\ jobRecord \in [Jobs -> JobStates] /\ located \subseteq Jobs
    /\ spec \subseteq Jobs /\ launch \subseteq Jobs
    /\ result \in [Jobs -> ResultStates] /\ jobWorker \in [Jobs -> WorkerStates]
    /\ jobHandle \in [Jobs -> JobStates] /\ restored \subseteq Jobs /\ gaveUp \subseteq Jobs
    /\ thread \in [JobThreads -> Works] /\ lockedBy \in JobThreads \cup {NoThread} /\ read \in Readings
    /\ crashes \in 0..MaxCrashes /\ jobFails \in 0..MaxJobFails

\* A worker whose command runs, or is going to.
Alive(j) == jobWorker[j] \in {"born", "runs"}

\* A job whose worker is alive and that was not given up is in the journal, with its
\* pid once it is called running, and has no result.
RecordFits ==
    /\ \A j \in Jobs \ gaveUp : Alive(j) => jobRecord[j] \in {"starting", "running"}
    /\ \A j \in Jobs : jobRecord[j] = "running" => j \in located
    /\ \A j \in Jobs : result[j] # "none" => jobWorker[j] \in {"wrote", "gone"}

\* The thread that starts j and has not registered it.
Starts(t, j) == thread[t].does = "start" /\ thread[t].job = j
Unregistered(j) == \E t \in JobThreads : Starts(t, j) /\ thread[t].at \in {"spawn", "activate", "register"}

\* Once it is registered, or recovered, its handle shows it.
HandleFits ==
    jobsBackend = "up" =>
        \A j \in Jobs \ gaveUp : Alive(j) /\ ~Unregistered(j) => jobHandle[j] = "running"

\* What a thread knows of the job it works on.
ThreadFits ==
    \A t \in JobThreads :
        LET w == thread[t] IN
        /\ w.does = "start" =>
              /\ w.job \in Jobs /\ w.at \in {"spawn", "activate", "register", "look"}
              /\ w.at = "spawn" => jobWorker[w.job] = "none" /\ (w.job \in gaveUp \/ jobRecord[w.job] = "starting")
        /\ w.does = "boot" => w.job = NoJob
        /\ w.does = "stopRun" /\ w.at \in {"wait", "look"} => w.job = NoJob
        /\ w.does = "stopJob" => w.job \in Jobs
        /\ w.at = "kill" \/ (w.does = "stopRun" /\ w.at = "relook") => w.job \in Jobs /\ jobWorker[w.job] # "none"
        /\ w.at \in {"mark", "save"} \/ (w.does = "stopJob" /\ w.at = "relook") =>
              w.job \in Jobs /\ jobWorker[w.job] = "gone"
        /\ w.at \in {"mark", "save", "kill"} => w.does \in {"stopRun", "stopJob"}
        /\ w.at = "relook" => w.does \in {"stopRun", "stopJob"}
        /\ w.does = "nothing" => w.at = "idle"
        /\ jobsBackend # "up" => w.does \in {"nothing", "boot"}
        /\ jobsBackend = "down" => w.does = "nothing"

OneStarter == \A t, u \in JobThreads : \A j \in Jobs : Starts(t, j) /\ Starts(u, j) => t = u

\* A reconciliation has read no result that is not there.
LockFits ==
    lockedBy # NoThread =>
        /\ thread[lockedBy].at \in {"look", "relook"}
        /\ \A j \in Jobs : read.result[j] # "none" => result[j] # "none"

JobsInv == JobsTyped /\ RecordFits /\ HandleFits /\ ThreadFits /\ OneStarter /\ LockFits

USE JobsAssumption

(***************************************************************************)
(* The operators of the model                                              *)
(***************************************************************************)

LEMMA IdleWork == NoWork \in Works /\ NoWork.does = "nothing" /\ NoWork.at = "idle" /\ NoWork.job = NoJob
  BY DEF NoWork, Works, WorkKinds, WorkPlaces

\* A thread takes up other work, ...
LEMMA WorkTurns ==
  ASSUME JobsTyped, NEW t \in JobThreads, NEW w \in Works, thread' = [thread EXCEPT ![t] = w]
  PROVE  thread' \in [JobThreads -> Works] /\ thread'[t] = w /\ \A u \in JobThreads : u # t => thread'[u] = thread[u]
  BY DEF JobsTyped

\* ... or goes on with it.
LEMMA WorkMoves ==
  ASSUME JobsTyped, NEW t \in JobThreads, NEW place \in WorkPlaces, ThreadTo(t, place)
  PROVE  /\ thread' \in [JobThreads -> Works] /\ thread'[t].at = place /\ thread'[t].does = thread[t].does
         /\ thread'[t].job = thread[t].job /\ \A u \in JobThreads : u # t => thread'[u] = thread[u]
<1> DEFINE w == [thread[t] EXCEPT !.at = place]
<1>1. w \in Works /\ w.at = place /\ w.does = thread[t].does /\ w.job = thread[t].job
  BY DEF JobsTyped, Works
<1>2. thread' = [thread EXCEPT ![t] = w]
  BY DEF ThreadTo
<1> HIDE DEF w
<1>3. QED BY <1>1, <1>2, WorkTurns

LEMMA WorkerBecomes ==
  ASSUME JobsTyped, NEW j \in Jobs, NEW s \in WorkerStates, jobWorker' = [jobWorker EXCEPT ![j] = s]
  PROVE  jobWorker' \in [Jobs -> WorkerStates] /\ jobWorker'[j] = s /\ \A i \in Jobs : i # j => jobWorker'[i] = jobWorker[i]
  BY DEF JobsTyped

LEMMA RecordBecomes ==
  ASSUME JobsTyped, NEW j \in Jobs, NEW s \in JobStates, jobRecord' = [jobRecord EXCEPT ![j] = s]
  PROVE  jobRecord' \in [Jobs -> JobStates] /\ jobRecord'[j] = s /\ \A i \in Jobs : i # j => jobRecord'[i] = jobRecord[i]
  BY DEF JobsTyped

LEMMA ResultBecomes ==
  ASSUME JobsTyped, NEW j \in Jobs, NEW s \in ResultStates, result' = [result EXCEPT ![j] = s]
  PROVE  result' \in [Jobs -> ResultStates] /\ result'[j] = s /\ \A i \in Jobs : i # j => result'[i] = result[i]
  BY DEF JobsTyped

LEMMA HandleBecomes ==
  ASSUME JobsTyped, NEW j \in Jobs, NEW s \in JobStates, jobHandle' = [jobHandle EXCEPT ![j] = s]
  PROVE  jobHandle' \in [Jobs -> JobStates] /\ jobHandle'[j] = s /\ \A i \in Jobs : i # j => jobHandle'[i] = jobHandle[i]
  BY DEF JobsTyped

\* What a reconciliation makes of a record.
LEMMA ReconciledFits ==
  ASSUME JobsTyped, RecordFits, LockFits, lockedBy # NoThread, NEW j \in Jobs
  PROVE  /\ Reconciled(j) \in JobStates
         /\ Alive(j) /\ jobRecord[j] = "running" => Reconciled(j) = "running"
         /\ Alive(j) /\ jobRecord[j] = "starting" => Reconciled(j) \in {"running", "failed"}
         /\ jobRecord[j] = "starting" /\ jobWorker[j] = "none" => Reconciled(j) = "failed"
         /\ Reconciled(j) = "running" => jobRecord[j] = "running" \/ (jobRecord[j] = "starting" /\ j \in read.launch)
<1>1. jobRecord[j] \in JobStates /\ read.result[j] \in ResultStates /\ jobWorker[j] \in WorkerStates
  BY DEF JobsTyped, Readings
<1>2. Alive(j) \/ jobWorker[j] = "none" => read.result[j] = "none"
  BY <1>1 DEF RecordFits, LockFits, Alive
<1>3. Alive(j) => JobAlive(j)
  BY DEF Alive, JobAlive
<1>4. jobWorker[j] = "none" => ~JobAlive(j)
  BY DEF JobAlive
<1>5. QED BY <1>1, <1>2, <1>3, <1>4 DEF Reconciled, JobStates, ResultStates, JobTerminal

LEMMA BackFits ==
  ASSUME NEW t, thread[t] \in Works
  PROVE  /\ Back(t) \in Works
         /\ \/ Back(t).does = "nothing" /\ Back(t).at = "idle"
            \/ Back(t).does = "stopRun" /\ Back(t).at = "next"
<1>1. CASE thread[t].does = "stopRun"
  BY <1>1 DEF Back, Works, WorkPlaces
<1>2. CASE thread[t].does # "stopRun"
  BY <1>2, IdleWork DEF Back
<1>3. QED BY <1>1, <1>2

LEMMA JobsStep ==
  ASSUME JobsInv, JobsNext
  PROVE  JobsInv'
<1>0. JobsTyped /\ RecordFits /\ HandleFits /\ ThreadFits /\ OneStarter /\ LockFits
  BY DEF JobsInv
<1>a. /\ NoJob \notin Jobs /\ NoThread \notin JobThreads /\ (lockedBy # NoThread => lockedBy \in JobThreads)
      /\ \A j \in Jobs : jobWorker[j] \in WorkerStates
      /\ \A u, v \in JobThreads : u # v /\ thread[u].does = "start" /\ thread[v].does = "start" => thread[u].job # thread[v].job
  BY <1>0 DEF JobsTyped, OneStarter, ThreadFits, Starts
<1>1. ASSUME NEW j \in Jobs, Launch(j) PROVE JobsInv'
  <2>0. /\ jobWorker[j] = "born" /\ jobWorker' \in [Jobs -> WorkerStates] /\ jobWorker'[j] \in {"runs", "gone"} /\ (\A i \in Jobs : i # j => jobWorker'[i] = jobWorker[i])
        /\ launch' \subseteq Jobs /\ spec' \subseteq Jobs
        /\ UNCHANGED <<jobsBackend, jobRecord, located, result, jobHandle, restored, thread, lockedBy, read, gaveUp, crashes, jobFails>>
    <3>1. launch' \subseteq Jobs /\ spec' \subseteq Jobs /\ "runs" \in WorkerStates /\ "gone" \in WorkerStates
      BY <1>0, <1>1 DEF Launch, JobsTyped, WorkerStates
    <3>2. QED BY <1>0, <1>1, <3>1, WorkerBecomes DEF Launch, journalVars
  <2>1. JobsTyped'
    BY <1>0, <2>0, <1>a DEF JobsTyped
  <2>2. RecordFits'
    BY <1>0, <2>0, <1>a DEF RecordFits, Alive
  <2>3. HandleFits'
    BY <1>0, <2>0, <1>a DEF HandleFits, Alive, Unregistered, Starts
  <2>4. ThreadFits'
    BY <1>0, <2>0, <1>a DEF ThreadFits
  <2>5. OneStarter'
    BY <1>0, <2>0, <1>a DEF OneStarter, Starts
  <2>6. LockFits'
    BY <1>0, <2>0, <1>a DEF LockFits
  <2>7. QED BY <2>1, <2>2, <2>3, <2>4, <2>5, <2>6 DEF JobsInv
<1>2. ASSUME NEW j \in Jobs, WriteResult(j) PROVE JobsInv'
  <2>0. /\ jobWorker[j] = "runs" /\ jobWorker' \in [Jobs -> WorkerStates] /\ jobWorker'[j] = "wrote" /\ (\A i \in Jobs : i # j => jobWorker'[i] = jobWorker[i])
        /\ result' \in [Jobs -> ResultStates] /\ result'[j] # "none" /\ (\A i \in Jobs : i # j => result'[i] = result[i])
        /\ UNCHANGED <<jobsBackend, jobRecord, located, spec, launch, jobHandle, restored, thread, lockedBy, read, gaveUp, crashes, jobFails>>
    <3>1. PICK o \in Outcomes : result' = [result EXCEPT ![j] = o]
      BY <1>2 DEF WriteResult
    <3>2. o \in ResultStates /\ o # "none" /\ "wrote" \in WorkerStates
      BY DEF Outcomes, ResultStates, JobTerminal, WorkerStates
    <3>3. QED BY <1>0, <1>2, <3>1, <3>2, WorkerBecomes, ResultBecomes DEF WriteResult, journalVars
  <2>1. JobsTyped'
    BY <1>0, <2>0, <1>a DEF JobsTyped
  <2>2. RecordFits'
    BY <1>0, <2>0, <1>a DEF RecordFits, Alive
  <2>3. HandleFits'
    BY <1>0, <2>0, <1>a DEF HandleFits, Alive, Unregistered, Starts
  <2>4. ThreadFits'
    BY <1>0, <2>0, <1>a DEF ThreadFits
  <2>5. OneStarter'
    BY <1>0, <2>0, <1>a DEF OneStarter, Starts
  <2>6. LockFits'
    BY <1>0, <2>0, <1>a DEF LockFits
  <2>7. QED BY <2>1, <2>2, <2>3, <2>4, <2>5, <2>6 DEF JobsInv
<1>3. ASSUME NEW j \in Jobs, Exit(j) PROVE JobsInv'
  <2>0. /\ jobWorker[j] = "wrote" /\ jobWorker' \in [Jobs -> WorkerStates] /\ jobWorker'[j] = "gone" /\ (\A i \in Jobs : i # j => jobWorker'[i] = jobWorker[i])
        /\ UNCHANGED <<jobsBackend, jobRecord, located, spec, launch, result, jobHandle, restored, thread, lockedBy, read, gaveUp, crashes, jobFails>>
    <3>1. "gone" \in WorkerStates
      BY DEF WorkerStates
    <3>2. QED BY <1>0, <1>3, <3>1, WorkerBecomes DEF Exit, journalVars
  <2>1. JobsTyped'
    BY <1>0, <2>0, <1>a DEF JobsTyped
  <2>2. RecordFits'
    BY <1>0, <2>0, <1>a DEF RecordFits, Alive
  <2>3. HandleFits'
    BY <1>0, <2>0, <1>a DEF HandleFits, Alive, Unregistered, Starts
  <2>4. ThreadFits'
    BY <1>0, <2>0, <1>a DEF ThreadFits
  <2>5. OneStarter'
    BY <1>0, <2>0, <1>a DEF OneStarter, Starts
  <2>6. LockFits'
    BY <1>0, <2>0, <1>a DEF LockFits
  <2>7. QED BY <2>1, <2>2, <2>3, <2>4, <2>5, <2>6 DEF JobsInv
<1>4. ASSUME NEW t \in JobThreads, LookAtJob(t) PROVE JobsInv'
  <2>0. /\ thread[t].at \in {"look", "relook"} /\ lockedBy' = t /\ read' \in Readings /\ read'.result = result
        /\ UNCHANGED <<jobsBackend, jobRecord, located, spec, launch, result, jobWorker, jobHandle, restored, thread, gaveUp, crashes, jobFails>>
    BY <1>0, <1>4 DEF LookAtJob, JobsTyped, Readings, journalVars, processVars
  <2>1. JobsTyped'
    BY <1>0, <2>0, <1>a DEF JobsTyped
  <2>2. RecordFits'
    BY <1>0, <2>0, <1>a DEF RecordFits, Alive
  <2>3. HandleFits'
    BY <1>0, <2>0, <1>a DEF HandleFits, Alive, Unregistered, Starts
  <2>4. ThreadFits'
    BY <1>0, <2>0, <1>a DEF ThreadFits
  <2>5. OneStarter'
    BY <1>0, <2>0, <1>a DEF OneStarter, Starts
  <2>6. LockFits'
    BY <1>0, <2>0, <1>a DEF LockFits
  <2>7. QED BY <2>1, <2>2, <2>3, <2>4, <2>5, <2>6 DEF JobsInv
<1>5. ASSUME NEW t \in JobThreads, DecideJob(t) PROVE JobsInv'
  <2>0. /\ lockedBy = t /\ lockedBy # NoThread /\ lockedBy' = NoThread /\ read' \in Readings /\ thread[t].at \in {"look", "relook"}
        /\ jobRecord' \in [Jobs -> JobStates] /\ located' \subseteq Jobs /\ jobHandle' \in [Jobs -> JobStates] /\ restored' \subseteq Jobs /\ gaveUp' \subseteq Jobs
        /\ gaveUp \subseteq gaveUp'
        /\ (\A j \in Jobs \ gaveUp' : Alive(j) => jobRecord'[j] = "running")
        /\ (\A j \in Jobs : jobRecord'[j] = "running" => j \in located')
        /\ (\A j \in Jobs : jobRecord[j] = "starting" /\ jobWorker[j] = "none" => j \in gaveUp')
        /\ (\A j \in Jobs : jobRecord'[j] = "running" /\ (jobHandle[j] = "running" \/ thread[t].does = "boot") => jobHandle'[j] = "running")
        /\ thread' \in [JobThreads -> Works] /\ (\A u \in JobThreads : u # t => thread'[u] = thread[u])
        /\ \/ thread'[t] = NoWork
           \/ thread'[t].at = NextStep(t) /\ NextStep(t) # "end" /\ thread'[t].does = thread[t].does /\ thread'[t].job = thread[t].job
        /\ jobsBackend' = (IF thread[t].does = "boot" THEN "up" ELSE jobsBackend)
        /\ UNCHANGED <<spec, launch, result, jobWorker, crashes, jobFails>>
    <3> DEFINE status == [j \in Jobs |-> Reconciled(j)]
                known == located \cup {j \in read.launch : jobRecord[j] = "starting"}
                here == Shown(t, status, known)
    <3>1. /\ lockedBy = t /\ jobRecord' = status /\ located' = known /\ jobHandle' = here
          /\ restored' = restored \cup {j \in Jobs : jobHandle[j] = "none" /\ here[j] # "none"}
          /\ gaveUp' = gaveUp \cup {j \in Jobs : jobRecord[j] = "starting" /\ status[j] = "failed"}
          /\ thread' = (IF NextStep(t) = "end" THEN [thread EXCEPT ![t] = NoWork] ELSE [thread EXCEPT ![t].at = NextStep(t)])
          /\ jobsBackend' = (IF thread[t].does = "boot" THEN "up" ELSE jobsBackend)
          /\ lockedBy' = NoThread /\ read' = NothingRead
          /\ UNCHANGED <<spec, launch, result, jobWorker, crashes, jobFails>>
      BY <1>5 DEF DecideJob, processVars
    <3>2. lockedBy # NoThread /\ thread[t].at \in {"look", "relook"} /\ read.launch \subseteq Jobs
      BY <1>0, <3>1 DEF LockFits, JobsTyped, Readings
    <3>3. \A j \in Jobs : status[j] = Reconciled(j)
      OBVIOUS
    <3>4. status \in [Jobs -> JobStates]
      BY <1>0, <3>2, ReconciledFits
    <3>5. known \subseteq Jobs
      BY <1>0, <3>2 DEF JobsTyped
    <3>6. here \in [Jobs -> JobStates]
      BY <1>0, <3>4 DEF Shown, JobsTyped
    <3>7. NothingRead \in Readings
      BY DEF NothingRead, Readings, ResultStates
    <3>8. \A j \in Jobs \ gaveUp' : Alive(j) => jobRecord'[j] = "running"
      BY <1>0, <3>1, <3>2, <3>3, ReconciledFits DEF RecordFits
    <3>9. \A j \in Jobs : jobRecord'[j] = "running" => j \in located'
      BY <1>0, <3>1, <3>2, <3>3, ReconciledFits DEF RecordFits
    <3>10. \A j \in Jobs : jobRecord[j] = "starting" /\ jobWorker[j] = "none" => j \in gaveUp'
      BY <1>0, <3>1, <3>2, <3>3, ReconciledFits
    <3>11. \A j \in Jobs : jobRecord'[j] = "running" /\ (jobHandle[j] = "running" \/ thread[t].does = "boot") => jobHandle'[j] = "running"
      <4>1. thread[t].does = "boot" => thread[t].job = NoJob
        BY <1>0 DEF ThreadFits
      <4> HIDE DEF status, known
      <4>2. QED BY <3>1, <3>9, <4>1 DEF Shown
    <3>12. NextStep(t) \in WorkPlaces \cup {"end"}
      BY DEF NextStep, WorkPlaces
    <3>13. /\ thread' \in [JobThreads -> Works] /\ (\A u \in JobThreads : u # t => thread'[u] = thread[u])
           /\ \/ thread'[t] = NoWork
              \/ thread'[t].at = NextStep(t) /\ NextStep(t) # "end" /\ thread'[t].does = thread[t].does /\ thread'[t].job = thread[t].job
      BY <1>0, <3>1, <3>12, WorkMoves, WorkTurns, IdleWork DEF ThreadTo
    <3> HIDE DEF status, known, here
    <3>14. restored' \subseteq Jobs /\ gaveUp' \subseteq Jobs /\ gaveUp \subseteq gaveUp'
      BY <1>0, <3>1 DEF JobsTyped
    <3>15. QED BY <3>1, <3>2, <3>4, <3>5, <3>6, <3>7, <3>8, <3>9, <3>10, <3>11, <3>13, <3>14
  <2>1. JobsTyped'
    BY <1>0, <2>0, <1>a DEF JobsTyped
  <2>2. RecordFits'
    BY <1>0, <2>0, <1>a DEF RecordFits, Alive
  <2>3. HandleFits'
    <3>1. SUFFICES ASSUME jobsBackend' = "up", NEW j \in Jobs \ gaveUp', Alive(j)', ~Unregistered(j)'
                 PROVE  jobHandle'[j] = "running"
      BY DEF HandleFits
    <3>2. ~Unregistered(j) /\ Alive(j)
      BY <1>0, <2>0, <3>1, <1>a, IdleWork DEF Unregistered, Starts, Alive
    <3>3. jobRecord'[j] = "running"
      BY <2>0, <3>1, <3>2
    <3>4. thread[t].does = "boot" \/ jobHandle[j] = "running"
      BY <1>0, <2>0, <3>1, <3>2 DEF HandleFits
    <3>5. QED BY <2>0, <3>3, <3>4
  <2>4. ThreadFits'
    BY <1>0, <2>0, <1>a, IdleWork DEF ThreadFits, NextStep
  <2>5. OneStarter'
    BY <1>0, <2>0, <1>a, IdleWork DEF OneStarter, Starts
  <2>6. LockFits'
    BY <1>0, <2>0, <1>a DEF LockFits
  <2>7. QED BY <2>1, <2>2, <2>3, <2>4, <2>5, <2>6 DEF JobsInv
<1>6. ASSUME NEW t \in JobThreads, Wait(t) PROVE JobsInv'
  <2>0. /\ thread' \in [JobThreads -> Works] /\ thread'[t].at = "look" /\ thread'[t].does = thread[t].does /\ thread'[t].job = thread[t].job
        /\ (\A u \in JobThreads : u # t => thread'[u] = thread[u])
        /\ thread[t].at = "wait" /\ thread[t].does \in {"boot", "stopRun"}
        /\ UNCHANGED <<jobsBackend, jobRecord, located, spec, launch, result, jobWorker, jobHandle, restored, lockedBy, read, gaveUp, crashes, jobFails>>
    <3>1. "look" \in WorkPlaces
      BY DEF WorkPlaces
    <3>2. QED BY <1>0, <1>6, <3>1, WorkMoves DEF Wait, At, journalVars, processVars
  <2>1. JobsTyped'
    BY <1>0, <2>0, <1>a DEF JobsTyped
  <2>2. RecordFits'
    BY <1>0, <2>0, <1>a DEF RecordFits, Alive
  <2>3. HandleFits'
    BY <1>0, <2>0, <1>a DEF HandleFits, Alive, Unregistered, Starts
  <2>4. ThreadFits'
    BY <1>0, <2>0, <1>a DEF ThreadFits
  <2>5. OneStarter'
    BY <1>0, <2>0, <1>a DEF OneStarter, Starts
  <2>6. LockFits'
    BY <1>0, <2>0, <1>a DEF LockFits
  <2>7. QED BY <2>1, <2>2, <2>3, <2>4, <2>5, <2>6 DEF JobsInv
<1>7. ASSUME NEW t \in JobThreads, SpawnWorker(t) PROVE JobsInv'
  <2>0. /\ thread[t].does = "start" /\ thread[t].at = "spawn" /\ thread[t].job \in Jobs
        /\ thread' \in [JobThreads -> Works] /\ thread'[t].at = "activate" /\ thread'[t].does = thread[t].does /\ thread'[t].job = thread[t].job
        /\ (\A u \in JobThreads : u # t => thread'[u] = thread[u])
        /\ (thread[t].job \in gaveUp \/ jobRecord[thread[t].job] = "starting")
        /\ jobWorker[thread[t].job] = "none" /\ jobWorker' \in [Jobs -> WorkerStates] 
        /\ jobWorker'[thread[t].job] = "born" /\ (\A i \in Jobs : i # thread[t].job => jobWorker'[i] = jobWorker[i])
        /\ UNCHANGED <<jobsBackend, jobRecord, located, spec, launch, result, jobHandle, restored, lockedBy, read, gaveUp, crashes, jobFails>>
    <3>1. thread[t].does = "start" /\ thread[t].at = "spawn" /\ thread[t].job \in Jobs
      BY <1>0, <1>7 DEF SpawnWorker, At, ThreadFits
    <3>2. "activate" \in WorkPlaces /\ "born" \in WorkerStates /\ jobWorker[thread[t].job] = "none"
          /\ (thread[t].job \in gaveUp \/ jobRecord[thread[t].job] = "starting")
      BY <1>0, <3>1 DEF WorkPlaces, WorkerStates, ThreadFits
    <3>9. QED BY <1>0, <1>7, <3>1, <3>2, WorkMoves, WorkerBecomes DEF SpawnWorker, At, journalVars, processVars
  <2>1. JobsTyped'
    BY <1>0, <2>0, <1>a DEF JobsTyped
  <2>2. RecordFits'
    BY <1>0, <2>0, <1>a DEF RecordFits, Alive
  <2>3. HandleFits'
    BY <1>0, <2>0, <1>a DEF HandleFits, Alive, Unregistered, Starts
  <2>4. ThreadFits'
    BY <1>0, <2>0, <1>a DEF ThreadFits
  <2>5. OneStarter'
    BY <1>0, <2>0, <1>a DEF OneStarter, Starts
  <2>6. LockFits'
    BY <1>0, <2>0, <1>a DEF LockFits
  <2>7. QED BY <2>1, <2>2, <2>3, <2>4, <2>5, <2>6 DEF JobsInv
<1>8. ASSUME NEW t \in JobThreads, Activate(t) PROVE JobsInv'
  <2>0. /\ thread[t].does = "start" /\ thread[t].at = "activate" /\ thread[t].job \in Jobs
        /\ thread' \in [JobThreads -> Works] /\ thread'[t].at = "register" /\ thread'[t].does = thread[t].does /\ thread'[t].job = thread[t].job
        /\ (\A u \in JobThreads : u # t => thread'[u] = thread[u])
        /\ jobRecord' \in [Jobs -> JobStates] /\ located' = located \cup {thread[t].job} /\ gaveUp' = gaveUp \ {thread[t].job}
        /\ lockedBy = NoThread /\ jobRecord'[thread[t].job] = "running" /\ (\A i \in Jobs : i # thread[t].job => jobRecord'[i] = jobRecord[i])
        /\ UNCHANGED <<jobsBackend, spec, launch, result, jobWorker, jobHandle, restored, lockedBy, read, crashes, jobFails>>
    <3>1. thread[t].does = "start" /\ thread[t].at = "activate" /\ thread[t].job \in Jobs
      BY <1>0, <1>8 DEF Activate, At, ThreadFits
    <3>2. "register" \in WorkPlaces /\ "running" \in JobStates
      BY DEF WorkPlaces, JobStates
    <3>9. QED BY <1>0, <1>8, <3>1, <3>2, WorkMoves, RecordBecomes DEF Activate, At, journalVars, processVars, JournalFree
  <2>1. JobsTyped'
    BY <1>0, <2>0, <1>a DEF JobsTyped
  <2>2. RecordFits'
    BY <1>0, <2>0, <1>a DEF RecordFits, Alive
  <2>3. HandleFits'
    BY <1>0, <2>0, <1>a DEF HandleFits, Alive, Unregistered, Starts
  <2>4. ThreadFits'
    BY <1>0, <2>0, <1>a DEF ThreadFits
  <2>5. OneStarter'
    BY <1>0, <2>0, <1>a DEF OneStarter, Starts
  <2>6. LockFits'
    BY <1>0, <2>0, <1>a DEF LockFits
  <2>7. QED BY <2>1, <2>2, <2>3, <2>4, <2>5, <2>6 DEF JobsInv
<1>9. ASSUME NEW t \in JobThreads, DiscardJob(t) PROVE JobsInv'
  <2>0. /\ thread[t].does = "start" /\ thread[t].at = "activate" /\ thread[t].job \in Jobs
        /\ thread' \in [JobThreads -> Works] /\ thread'[t].at = "idle" /\ thread'[t].does = "nothing" /\ (\A u \in JobThreads : u # t => thread'[u] = thread[u])
        /\ lockedBy = NoThread /\ jobWorker' \in [Jobs -> WorkerStates] 
        /\ jobWorker'[thread[t].job] \in {jobWorker[thread[t].job], "gone"} /\ (\A i \in Jobs : i # thread[t].job => jobWorker'[i] = jobWorker[i])
        /\ gaveUp' \subseteq Jobs /\ gaveUp \subseteq gaveUp' /\ (jobWorker'[thread[t].job] = "gone" \/ thread[t].job \in gaveUp')
        /\ (\A i \in Jobs : i # thread[t].job => (i \in gaveUp' <=> i \in gaveUp))
        /\ spec' \subseteq Jobs /\ launch' \subseteq Jobs /\ located' \subseteq located /\ (\A i \in Jobs : i # thread[t].job => (i \in located' <=> i \in located))
        /\ result' \in [Jobs -> ResultStates] /\ result'[thread[t].job] = "none" /\ (\A i \in Jobs : i # thread[t].job => result'[i] = result[i])
        /\ jobRecord' \in [Jobs -> JobStates] /\ jobRecord'[thread[t].job] \in {"none", jobRecord[thread[t].job]} /\ (\A i \in Jobs : i # thread[t].job => jobRecord'[i] = jobRecord[i])
        /\ (jobRecord'[thread[t].job] = "none" \/ located' = located)
        /\ jobFails' \in 0..MaxJobFails
        /\ UNCHANGED <<jobsBackend, jobHandle, restored, lockedBy, read, crashes>>
    <3> DEFINE k == thread[t].job
    <3>1. thread[t].does = "start" /\ thread[t].at = "activate" /\ k \in Jobs
      BY <1>0, <1>9 DEF DiscardJob, At, ThreadFits
    <3> HIDE DEF k
    <3>2. /\ lockedBy = NoThread /\ Ends(t)
          /\ \/ jobWorker' = [jobWorker EXCEPT ![k] = "gone"] /\ gaveUp' = gaveUp
             \/ gaveUp' = gaveUp \cup {k} /\ jobWorker' = jobWorker
          /\ spec' = spec \ {k} /\ launch' = launch \ {k} /\ result' = [result EXCEPT ![k] = "none"]
          /\ \/ jobRecord' = [jobRecord EXCEPT ![k] = "none"] /\ located' = located \ {k}
             \/ jobRecord' = jobRecord /\ located' = located
          /\ jobFails' \in {jobFails, jobFails + 1} /\ jobFails' <= MaxJobFails
          /\ UNCHANGED <<jobsBackend, jobHandle, restored, lockedBy, read, crashes>>
      BY <1>9 DEF DiscardJob, JournalFree, journalVars, k
    <3>3. "none" \in JobStates /\ "none" \in ResultStates /\ "gone" \in WorkerStates
      BY DEF JobStates, ResultStates, WorkerStates
    <3>4. jobFails' \in 0..MaxJobFails
      BY <1>0, <3>2 DEF JobsTyped
    <3>5. jobWorker' \in [Jobs -> WorkerStates] /\ jobWorker'[k] \in {jobWorker[k], "gone"} /\ (\A i \in Jobs : i # k => jobWorker'[i] = jobWorker[i])
      BY <1>0, <3>1, <3>2, <3>3, WorkerBecomes DEF JobsTyped
    <3>6. gaveUp' \subseteq Jobs /\ gaveUp \subseteq gaveUp' /\ (jobWorker'[k] = "gone" \/ k \in gaveUp')
          /\ (\A i \in Jobs : i # k => (i \in gaveUp' <=> i \in gaveUp))
      BY <1>0, <3>1, <3>2, <3>3, WorkerBecomes DEF JobsTyped
    <3>7. spec' \subseteq Jobs /\ launch' \subseteq Jobs /\ located' \subseteq located
          /\ (\A i \in Jobs : i # k => (i \in located' <=> i \in located))
      BY <1>0, <3>2 DEF JobsTyped
    <3>8. result' \in [Jobs -> ResultStates] /\ result'[k] = "none" /\ (\A i \in Jobs : i # k => result'[i] = result[i])
      BY <1>0, <3>1, <3>2, <3>3, ResultBecomes
    <3>9. jobRecord' \in [Jobs -> JobStates] /\ jobRecord'[k] \in {"none", jobRecord[k]} /\ (\A i \in Jobs : i # k => jobRecord'[i] = jobRecord[i])
      <4>1. CASE jobRecord' = [jobRecord EXCEPT ![k] = "none"]
        BY <1>0, <3>1, <3>3, <4>1, RecordBecomes
      <4>2. CASE jobRecord' = jobRecord
        BY <1>0, <4>2 DEF JobsTyped
      <4>3. QED BY <3>2, <4>1, <4>2
    <3>10. /\ thread' \in [JobThreads -> Works] /\ thread'[t].at = "idle" /\ thread'[t].does = "nothing"
           /\ (\A u \in JobThreads : u # t => thread'[u] = thread[u])
      BY <1>0, <3>2, WorkTurns, IdleWork DEF Ends
    <3>11. jobRecord'[k] = "none" \/ located' = located
      BY <1>0, <3>1, <3>2, <3>3, RecordBecomes
    <3>12. QED BY <3>11, <3>1, <3>2, <3>4, <3>5, <3>6, <3>7, <3>8, <3>9, <3>10 DEF k
  <2>1. JobsTyped'
    BY <1>0, <2>0, <1>a DEF JobsTyped
  <2>2. RecordFits'
    <3>1. \A j \in Jobs \ gaveUp' : Alive(j)' => jobRecord'[j] \in {"starting", "running"}
      BY <1>0, <2>0, <1>a DEF RecordFits, Alive
    <3>2. \A j \in Jobs : jobRecord'[j] = "running" => j \in located'
      BY <1>0, <2>0, <1>a DEF RecordFits
    <3>3. \A j \in Jobs : result'[j] # "none" => jobWorker'[j] \in {"wrote", "gone"}
      BY <1>0, <2>0, <1>a DEF RecordFits
    <3>4. QED BY <3>1, <3>2, <3>3 DEF RecordFits
  <2>3. HandleFits'
    BY <1>0, <2>0, <1>a DEF HandleFits, Alive, Unregistered, Starts
  <2>4. ThreadFits'
    BY <1>0, <2>0, <1>a DEF ThreadFits
  <2>5. OneStarter'
    BY <1>0, <2>0, <1>a DEF OneStarter, Starts
  <2>6. LockFits'
    BY <1>0, <2>0, <1>a DEF LockFits
  <2>7. QED BY <2>1, <2>2, <2>3, <2>4, <2>5, <2>6 DEF JobsInv
<1>10. ASSUME NEW t \in JobThreads, RegisterJob(t) PROVE JobsInv'
  <2>0. /\ thread[t].does = "start" /\ thread[t].at = "register" /\ thread[t].job \in Jobs
        /\ thread' \in [JobThreads -> Works] /\ thread'[t].at = "look" /\ thread'[t].does = thread[t].does /\ thread'[t].job = thread[t].job
        /\ (\A u \in JobThreads : u # t => thread'[u] = thread[u])
        /\ jobHandle' \in [Jobs -> JobStates] /\ restored' \subseteq Jobs /\ jobHandle'[thread[t].job] = "running" /\ (\A i \in Jobs : i # thread[t].job => jobHandle'[i] = jobHandle[i])
        /\ UNCHANGED <<jobsBackend, jobRecord, located, spec, launch, result, jobWorker, lockedBy, read, gaveUp, crashes, jobFails>>
    <3>1. thread[t].does = "start" /\ thread[t].at = "register" /\ thread[t].job \in Jobs
      BY <1>0, <1>10 DEF RegisterJob, At, ThreadFits
    <3>2. "look" \in WorkPlaces /\ "running" \in JobStates /\ restored \subseteq Jobs
      BY <1>0 DEF WorkPlaces, JobStates, JobsTyped
    <3>9. QED BY <1>0, <1>10, <3>1, <3>2, WorkMoves, HandleBecomes DEF RegisterJob, At, journalVars, processVars
  <2>1. JobsTyped'
    BY <1>0, <2>0, <1>a DEF JobsTyped
  <2>2. RecordFits'
    BY <1>0, <2>0, <1>a DEF RecordFits, Alive
  <2>3. HandleFits'
    BY <1>0, <2>0, <1>a DEF HandleFits, Alive, Unregistered, Starts
  <2>4. ThreadFits'
    BY <1>0, <2>0, <1>a DEF ThreadFits
  <2>5. OneStarter'
    BY <1>0, <2>0, <1>a DEF OneStarter, Starts
  <2>6. LockFits'
    BY <1>0, <2>0, <1>a DEF LockFits
  <2>7. QED BY <2>1, <2>2, <2>3, <2>4, <2>5, <2>6 DEF JobsInv
<1>11. ASSUME NEW t \in JobThreads, Watch(t) PROVE JobsInv'
  <2>0. /\ thread[t] = NoWork /\ jobsBackend = "up" /\ thread' \in [JobThreads -> Works] /\ thread'[t].does = "watch" /\ thread'[t].at = "look" /\ thread'[t].job = NoJob
        /\ (\A u \in JobThreads : u # t => thread'[u] = thread[u])
        /\ UNCHANGED <<jobsBackend, jobRecord, located, spec, launch, result, jobWorker, jobHandle, restored, lockedBy, read, gaveUp, crashes, jobFails>>
    <3> DEFINE w == [does |-> "watch", at |-> "look", job |-> NoJob, todo |-> {}]
    <3>1. w \in Works /\ w.does = "watch" /\ w.at = "look" /\ w.job = NoJob
      BY DEF Works, WorkKinds, WorkPlaces
    <3> HIDE DEF w
    <3>2. thread[t] = NoWork /\ jobsBackend = "up" /\ thread' = [thread EXCEPT ![t] = w]
      BY <1>11 DEF Watch, Begins, w
    <3>9. QED BY <1>0, <1>11, <3>1, <3>2, WorkTurns DEF Watch, journalVars, processVars
  <2>1. JobsTyped'
    BY <1>0, <2>0, <1>a DEF JobsTyped
  <2>2. RecordFits'
    BY <1>0, <2>0, <1>a DEF RecordFits, Alive
  <2>3. HandleFits'
    BY <1>0, <2>0, <1>a, IdleWork DEF HandleFits, Alive, Unregistered, Starts
  <2>4. ThreadFits'
    BY <1>0, <2>0, <1>a, IdleWork DEF ThreadFits
  <2>5. OneStarter'
    BY <1>0, <2>0, <1>a, IdleWork DEF OneStarter, Starts
  <2>6. LockFits'
    BY <1>0, <2>0, <1>a, IdleWork DEF LockFits
  <2>7. QED BY <2>1, <2>2, <2>3, <2>4, <2>5, <2>6 DEF JobsInv
<1>12. ASSUME NEW t \in JobThreads, StopRun(t) PROVE JobsInv'
  <2>0. /\ thread[t] = NoWork /\ jobsBackend = "up" /\ thread' \in [JobThreads -> Works] /\ thread'[t].does = "stopRun" /\ thread'[t].at = "wait" /\ thread'[t].job = NoJob
        /\ (\A u \in JobThreads : u # t => thread'[u] = thread[u])
        /\ UNCHANGED <<jobsBackend, jobRecord, located, spec, launch, result, jobWorker, jobHandle, restored, lockedBy, read, gaveUp, crashes, jobFails>>
    <3> DEFINE w == [does |-> "stopRun", at |-> "wait", job |-> NoJob, todo |-> {}]
    <3>1. w \in Works /\ w.does = "stopRun" /\ w.at = "wait" /\ w.job = NoJob
      BY DEF Works, WorkKinds, WorkPlaces
    <3> HIDE DEF w
    <3>2. thread[t] = NoWork /\ jobsBackend = "up" /\ thread' = [thread EXCEPT ![t] = w]
      BY <1>12 DEF StopRun, Begins, w
    <3>9. QED BY <1>0, <1>12, <3>1, <3>2, WorkTurns DEF StopRun, journalVars, processVars
  <2>1. JobsTyped'
    BY <1>0, <2>0, <1>a DEF JobsTyped
  <2>2. RecordFits'
    BY <1>0, <2>0, <1>a DEF RecordFits, Alive
  <2>3. HandleFits'
    BY <1>0, <2>0, <1>a, IdleWork DEF HandleFits, Alive, Unregistered, Starts
  <2>4. ThreadFits'
    BY <1>0, <2>0, <1>a, IdleWork DEF ThreadFits
  <2>5. OneStarter'
    BY <1>0, <2>0, <1>a, IdleWork DEF OneStarter, Starts
  <2>6. LockFits'
    BY <1>0, <2>0, <1>a, IdleWork DEF LockFits
  <2>7. QED BY <2>1, <2>2, <2>3, <2>4, <2>5, <2>6 DEF JobsInv
<1>13. ASSUME NEW t \in JobThreads, NEW j \in Jobs, StopJob(t, j) PROVE JobsInv'
  <2>0. /\ thread[t] = NoWork /\ jobsBackend = "up" /\ thread' \in [JobThreads -> Works] /\ thread'[t].does = "stopJob" /\ thread'[t].at = "look" /\ thread'[t].job = j
        /\ (\A u \in JobThreads : u # t => thread'[u] = thread[u])
        /\ UNCHANGED <<jobsBackend, jobRecord, located, spec, launch, result, jobWorker, jobHandle, restored, lockedBy, read, gaveUp, crashes, jobFails>>
    <3> DEFINE w == [does |-> "stopJob", at |-> "look", job |-> j, todo |-> {}]
    <3>1. w \in Works /\ w.does = "stopJob" /\ w.at = "look" /\ w.job = j
      BY DEF Works, WorkKinds, WorkPlaces
    <3> HIDE DEF w
    <3>2. thread[t] = NoWork /\ jobsBackend = "up" /\ thread' = [thread EXCEPT ![t] = w]
      BY <1>13 DEF StopJob, Begins, w
    <3>9. QED BY <1>0, <1>13, <3>1, <3>2, WorkTurns DEF StopJob, journalVars, processVars
  <2>1. JobsTyped'
    BY <1>0, <2>0, <1>a DEF JobsTyped
  <2>2. RecordFits'
    BY <1>0, <2>0, <1>a DEF RecordFits, Alive
  <2>3. HandleFits'
    BY <1>0, <2>0, <1>a, IdleWork DEF HandleFits, Alive, Unregistered, Starts
  <2>4. ThreadFits'
    BY <1>0, <2>0, <1>a, IdleWork DEF ThreadFits
  <2>5. OneStarter'
    BY <1>0, <2>0, <1>a, IdleWork DEF OneStarter, Starts
  <2>6. LockFits'
    BY <1>0, <2>0, <1>a, IdleWork DEF LockFits
  <2>7. QED BY <2>1, <2>2, <2>3, <2>4, <2>5, <2>6 DEF JobsInv
<1>14. ASSUME NEW t \in JobThreads, NEW j \in Jobs, Prepare(t, j) PROVE JobsInv'
  <2>0. /\ thread[t] = NoWork /\ jobsBackend = "up" /\ thread' \in [JobThreads -> Works] /\ thread'[t].does = "start" /\ thread'[t].at = "spawn" /\ thread'[t].job = j
        /\ (\A u \in JobThreads : u # t => thread'[u] = thread[u])
        /\ lockedBy = NoThread /\ jobWorker[j] = "none" /\ jobRecord[j] = "none" /\ spec' \subseteq Jobs
        /\ jobRecord' \in [Jobs -> JobStates] /\ jobRecord'[j] = "starting" /\ (\A i \in Jobs : i # j => jobRecord'[i] = jobRecord[i])
        /\ (\A u \in JobThreads : ~Starts(u, j))
        /\ UNCHANGED <<jobsBackend, located, launch, result, jobWorker, jobHandle, restored, lockedBy, read, gaveUp, crashes, jobFails>>
    <3> DEFINE w == [does |-> "start", at |-> "spawn", job |-> j, todo |-> {}]
    <3>1. w \in Works /\ w.does = "start" /\ w.at = "spawn" /\ w.job = j
      BY DEF Works, WorkKinds, WorkPlaces
    <3> HIDE DEF w
    <3>2. thread[t] = NoWork /\ jobsBackend = "up" /\ thread' = [thread EXCEPT ![t] = w]
      BY <1>14 DEF Prepare, Begins, w
    <3>3. "starting" \in JobStates /\ spec \subseteq Jobs
      BY <1>0 DEF JobStates, JobsTyped
    <3>9. QED BY <1>0, <1>14, <3>1, <3>2, WorkTurns, <3>3, RecordBecomes DEF Prepare, journalVars, processVars, JournalFree, Starts
  <2>1. JobsTyped'
    BY <1>0, <2>0, <1>a DEF JobsTyped
  <2>2. RecordFits'
    BY <1>0, <2>0, <1>a DEF RecordFits, Alive
  <2>3. HandleFits'
    BY <1>0, <2>0, <1>a, IdleWork DEF HandleFits, Alive, Unregistered, Starts
  <2>4. ThreadFits'
    BY <1>0, <2>0, <1>a, IdleWork DEF ThreadFits
  <2>5. OneStarter'
    BY <1>0, <2>0, <1>a, IdleWork DEF OneStarter, Starts
  <2>6. LockFits'
    BY <1>0, <2>0, <1>a, IdleWork DEF LockFits
  <2>7. QED BY <2>1, <2>2, <2>3, <2>4, <2>5, <2>6 DEF JobsInv
<1>15. ASSUME NEW t \in JobThreads, ListJobs(t) PROVE JobsInv'
  <2>0. /\ thread' \in [JobThreads -> Works] /\ thread'[t].at = "next" /\ thread'[t].does = thread[t].does /\ thread'[t].job = thread[t].job
        /\ (\A u \in JobThreads : u # t => thread'[u] = thread[u])
        /\ thread[t].does = "stopRun" /\ thread[t].at = "list"
        /\ UNCHANGED <<jobsBackend, jobRecord, located, spec, launch, result, jobWorker, jobHandle, restored, lockedBy, read, gaveUp, crashes, jobFails>>
    <3> DEFINE w == [thread[t] EXCEPT !.at = "next", !.todo = {j \in Jobs : jobHandle[j] # "none"}]
    <3>1. w \in Works /\ w.does = thread[t].does /\ w.at = "next" /\ w.job = thread[t].job
      BY <1>0 DEF JobsTyped, Works, WorkPlaces
    <3>2. thread' = [thread EXCEPT ![t] = w]
      BY <1>15 DEF ListJobs
    <3> HIDE DEF w
    <3>3. QED BY <1>0, <1>15, <3>1, <3>2, WorkTurns DEF ListJobs, At, journalVars, processVars
  <2>1. JobsTyped'
    BY <1>0, <2>0, <1>a DEF JobsTyped
  <2>2. RecordFits'
    BY <1>0, <2>0, <1>a DEF RecordFits, Alive
  <2>3. HandleFits'
    BY <1>0, <2>0, <1>a DEF HandleFits, Alive, Unregistered, Starts
  <2>4. ThreadFits'
    BY <1>0, <2>0, <1>a DEF ThreadFits
  <2>5. OneStarter'
    BY <1>0, <2>0, <1>a DEF OneStarter, Starts
  <2>6. LockFits'
    BY <1>0, <2>0, <1>a DEF LockFits
  <2>7. QED BY <2>1, <2>2, <2>3, <2>4, <2>5, <2>6 DEF JobsInv
<1>16. ASSUME NEW t \in JobThreads, NextOwned(t) PROVE JobsInv'
  <2>0. /\ thread[t].does = "stopRun" /\ thread[t].at = "next" /\ thread' \in [JobThreads -> Works] /\ (\A u \in JobThreads : u # t => thread'[u] = thread[u])
        /\ \/ thread'[t].does = "nothing" /\ thread'[t].at = "idle"
           \/ thread'[t].does = "stopRun" /\ thread'[t].at = "relook" /\ thread'[t].job \in Jobs /\ jobWorker[thread'[t].job] # "none"
           \/ thread'[t].does = "stopRun" /\ thread'[t].at = "next"
        /\ jobHandle' \in [Jobs -> JobStates] /\ (\A i \in Jobs : Alive(i) => jobHandle'[i] = jobHandle[i])
        /\ UNCHANGED <<jobsBackend, jobRecord, located, spec, launch, result, jobWorker, restored, lockedBy, read, gaveUp, crashes, jobFails>>
    <3>1. thread[t].does = "stopRun" /\ thread[t].at = "next" /\ thread[t] \in Works /\ jobHandle \in [Jobs -> JobStates]
      BY <1>0, <1>16 DEF NextOwned, At, JobsTyped
    <3>2. CASE thread[t].todo = {}
      BY <1>0, <1>16, <3>1, <3>2, WorkTurns, IdleWork DEF NextOwned, Ends, journalVars, processVars
    <3>3. CASE thread[t].todo # {}
      <4>1. PICK j \in thread[t].todo :
              IF SeemsAlive(j)
              THEN /\ thread' = [thread EXCEPT ![t] = [thread[t] EXCEPT !.at = "relook", !.job = j, !.todo = @ \ {j}]]
                   /\ jobHandle' = jobHandle
              ELSE /\ thread' = [thread EXCEPT ![t] = [thread[t] EXCEPT !.todo = @ \ {j}]]
                   /\ jobHandle' = [jobHandle EXCEPT ![j] = "none"]
        BY <1>16, <3>3 DEF NextOwned
      <4> DEFINE went == [thread[t] EXCEPT !.at = "relook", !.job = j, !.todo = @ \ {j}]
                 left == [thread[t] EXCEPT !.todo = @ \ {j}]
      <4>2. j \in Jobs
        BY <3>1 DEF Works
      <4>3. /\ went \in Works /\ went.does = "stopRun" /\ went.at = "relook" /\ went.job = j
            /\ left \in Works /\ left.does = "stopRun" /\ left.at = "next"
        BY <3>1, <4>2 DEF Works, WorkPlaces
      <4>4. SeemsAlive(j) => jobWorker[j] # "none"
        BY DEF SeemsAlive, JobAlive
      <4>5. ~SeemsAlive(j) => ~Alive(j)
        BY <1>0, <4>2 DEF SeemsAlive, JobAlive, Alive, RecordFits
      <4>6. "none" \in JobStates
        BY DEF JobStates
      <4> HIDE DEF went, left
      <4>7. UNCHANGED <<jobsBackend, jobRecord, located, spec, launch, result, jobWorker, restored, lockedBy, read, gaveUp, crashes, jobFails>>
        BY <1>16 DEF NextOwned, journalVars, processVars
      <4>8. CASE SeemsAlive(j)
        <5>1. thread' = [thread EXCEPT ![t] = went] /\ jobHandle' = jobHandle
          BY <4>1, <4>8 DEF went
        <5>2. QED BY <1>0, <3>1, <4>2, <4>3, <4>4, <4>7, <4>8, <5>1, WorkTurns
      <4>9. CASE ~SeemsAlive(j)
        <5>1. thread' = [thread EXCEPT ![t] = left] /\ jobHandle' = [jobHandle EXCEPT ![j] = "none"]
          BY <4>1, <4>9 DEF left
        <5>2. QED BY <1>0, <3>1, <4>2, <4>3, <4>5, <4>6, <4>7, <4>9, <5>1, WorkTurns, HandleBecomes
      <4>10. QED BY <4>8, <4>9
    <3>4. QED BY <3>2, <3>3
  <2>1. JobsTyped'
    BY <1>0, <2>0, <1>a DEF JobsTyped
  <2>2. RecordFits'
    BY <1>0, <2>0, <1>a DEF RecordFits, Alive
  <2>3. HandleFits'
    BY <1>0, <2>0, <1>a DEF HandleFits, Alive, Unregistered, Starts
  <2>4. ThreadFits'
    BY <1>0, <2>0, <1>a DEF ThreadFits
  <2>5. OneStarter'
    BY <1>0, <2>0, <1>a DEF OneStarter, Starts
  <2>6. LockFits'
    BY <1>0, <2>0, <1>a DEF LockFits
  <2>7. QED BY <2>1, <2>2, <2>3, <2>4, <2>5, <2>6 DEF JobsInv
<1>17. ASSUME NEW t \in JobThreads, PollJob(t) PROVE JobsInv'
  <2>0. /\ thread[t].does = "stopJob" /\ thread[t].at = "poll" /\ thread' \in [JobThreads -> Works] /\ (\A u \in JobThreads : u # t => thread'[u] = thread[u])
        /\ \/ thread'[t].does = "nothing" /\ thread'[t].at = "idle"
           \/ thread'[t].does = "stopJob" /\ thread'[t].at = "kill" /\ thread'[t].job \in Jobs /\ jobWorker[thread'[t].job] # "none"
           \/ thread'[t].does = "watch" /\ thread'[t].at = "look"
        /\ UNCHANGED <<jobsBackend, jobRecord, located, spec, launch, result, jobWorker, jobHandle, restored, lockedBy, read, gaveUp, crashes, jobFails>>
    <3>1. thread[t].does = "stopJob" /\ thread[t].at = "poll" /\ thread[t].job \in Jobs /\ thread[t] \in Works
      BY <1>0, <1>17 DEF PollJob, At, ThreadFits, JobsTyped
    <3> DEFINE w == [thread[t] EXCEPT !.does = "watch", !.at = "look"]
    <3>2. w \in Works /\ w.does = "watch" /\ w.at = "look" /\ "kill" \in WorkPlaces
      BY <3>1 DEF Works, WorkKinds, WorkPlaces
    <3>3. \/ Ends(t)
          \/ SeemsAlive(thread[t].job) /\ ThreadTo(t, "kill")
          \/ thread' = [thread EXCEPT ![t] = w]
      BY <1>17 DEF PollJob
    <3>4. SeemsAlive(thread[t].job) => jobWorker[thread[t].job] # "none"
      BY DEF SeemsAlive, JobAlive
    <3> HIDE DEF w
    <3>5. /\ UNCHANGED <<jobsBackend, jobRecord, located, spec, launch, result, jobWorker, jobHandle, restored, lockedBy, read, gaveUp, crashes, jobFails>>
      BY <1>17 DEF PollJob, journalVars, processVars
    <3>6. QED BY <1>0, <3>1, <3>2, <3>3, <3>4, <3>5, WorkMoves, WorkTurns, IdleWork DEF Ends
  <2>1. JobsTyped'
    BY <1>0, <2>0, <1>a DEF JobsTyped
  <2>2. RecordFits'
    BY <1>0, <2>0, <1>a DEF RecordFits, Alive
  <2>3. HandleFits'
    BY <1>0, <2>0, <1>a DEF HandleFits, Alive, Unregistered, Starts
  <2>4. ThreadFits'
    BY <1>0, <2>0, <1>a DEF ThreadFits
  <2>5. OneStarter'
    BY <1>0, <2>0, <1>a DEF OneStarter, Starts
  <2>6. LockFits'
    BY <1>0, <2>0, <1>a DEF LockFits
  <2>7. QED BY <2>1, <2>2, <2>3, <2>4, <2>5, <2>6 DEF JobsInv
<1>18. ASSUME NEW t \in JobThreads, Kill(t) PROVE JobsInv'
  <2>0. /\ thread[t].at = "kill" /\ thread[t].does \in {"stopRun", "stopJob"} /\ thread[t].job \in Jobs /\ jobWorker[thread[t].job] # "none"
        /\ thread' \in [JobThreads -> Works] /\ (\A u \in JobThreads : u # t => thread'[u] = thread[u])
        /\ jobWorker' \in [Jobs -> WorkerStates] /\ (\A i \in Jobs : i # thread[t].job => jobWorker'[i] = jobWorker[i])
        /\ \/ /\ jobWorker'[thread[t].job] = "gone" /\ thread'[t].does = thread[t].does /\ thread'[t].job = thread[t].job
              /\ thread'[t].at = (IF thread[t].does = "stopRun" THEN "mark" ELSE "relook")
           \/ /\ jobWorker' = jobWorker
              /\ \/ thread'[t].does = "nothing" /\ thread'[t].at = "idle"
                 \/ thread'[t].does = "stopRun" /\ thread'[t].at = "next"
        /\ jobFails' \in 0..MaxJobFails
        /\ UNCHANGED <<jobsBackend, jobRecord, located, spec, launch, result, jobHandle, restored, lockedBy, read, gaveUp, crashes>>
    <3> DEFINE k == thread[t].job
                place == IF thread[t].does = "stopRun" THEN "mark" ELSE "relook"
    <3>1. thread[t].at = "kill" /\ thread[t].does \in {"stopRun", "stopJob"} /\ k \in Jobs /\ jobWorker[k] # "none" /\ thread[t] \in Works
      BY <1>0, <1>18 DEF Kill, At, ThreadFits, JobsTyped
    <3>2. place \in WorkPlaces /\ "gone" \in WorkerStates
      BY DEF WorkPlaces, WorkerStates
    <3>3. /\ Back(t) \in Works
          /\ \/ Back(t).does = "nothing" /\ Back(t).at = "idle"
             \/ Back(t).does = "stopRun" /\ Back(t).at = "next"
      BY <3>1, IdleWork, BackFits
    <3>4. \/ jobWorker' = [jobWorker EXCEPT ![k] = "gone"] /\ ThreadTo(t, place) /\ jobFails' = jobFails
          \/ jobFails < MaxJobFails /\ jobFails' = jobFails + 1 /\ thread' = [thread EXCEPT ![t] = Back(t)] /\ jobWorker' = jobWorker
      BY <1>18 DEF Kill
    <3>5. /\ UNCHANGED <<jobsBackend, jobRecord, located, spec, launch, result, jobHandle, restored, lockedBy, read, gaveUp, crashes>>
      BY <1>18 DEF Kill, journalVars
    <3>6. jobFails' \in 0..MaxJobFails
      BY <1>0, <3>4 DEF JobsTyped
    <3>7. jobWorker \in [Jobs -> WorkerStates]
      BY <1>0 DEF JobsTyped
    <3> HIDE DEF k
    <3>8. CASE jobWorker' = [jobWorker EXCEPT ![k] = "gone"] /\ ThreadTo(t, place)
      BY <1>0, <3>1, <3>2, <3>5, <3>6, <3>8, WorkMoves, WorkerBecomes DEF k
    <3>9. CASE thread' = [thread EXCEPT ![t] = Back(t)] /\ jobWorker' = jobWorker
      BY <1>0, <3>1, <3>3, <3>5, <3>6, <3>7, <3>9, WorkTurns DEF k
    <3>10. QED BY <3>4, <3>8, <3>9
  <2>1. JobsTyped'
    BY <1>0, <2>0, <1>a DEF JobsTyped
  <2>2. RecordFits'
    BY <1>0, <2>0, <1>a DEF RecordFits, Alive
  <2>3. HandleFits'
    BY <1>0, <2>0, <1>a DEF HandleFits, Alive, Unregistered, Starts
  <2>4. ThreadFits'
    BY <1>0, <2>0, <1>a DEF ThreadFits
  <2>5. OneStarter'
    BY <1>0, <2>0, <1>a DEF OneStarter, Starts
  <2>6. LockFits'
    BY <1>0, <2>0, <1>a DEF LockFits
  <2>7. QED BY <2>1, <2>2, <2>3, <2>4, <2>5, <2>6 DEF JobsInv
<1>19. ASSUME NEW t \in JobThreads, Mark(t) PROVE JobsInv'
  <2>0. /\ thread[t].does \in {"stopRun", "stopJob"} /\ thread[t].job \in Jobs /\ jobWorker[thread[t].job] = "gone" /\ thread[t].at = "mark"
        /\ thread' \in [JobThreads -> Works] /\ (\A u \in JobThreads : u # t => thread'[u] = thread[u])
        /\ \/ thread'[t].does = "nothing" /\ thread'[t].at = "idle" /\ result' = result
           \/ /\ thread'[t].at = "save" /\ thread'[t].does = thread[t].does /\ thread'[t].job = thread[t].job
              /\ result' \in [Jobs -> ResultStates] /\ result'[thread[t].job] = "cancelled" /\ (\A i \in Jobs : i # thread[t].job => result'[i] = result[i])
        /\ UNCHANGED <<jobsBackend, jobRecord, located, spec, launch, jobWorker, jobHandle, restored, lockedBy, read, gaveUp, crashes, jobFails>>
    <3>1. thread[t].at = "mark" /\ thread[t].does \in {"stopRun", "stopJob"} /\ thread[t].job \in Jobs /\ jobWorker[thread[t].job] = "gone"
      BY <1>0, <1>19 DEF Mark, At, ThreadFits
    <3>2. "save" \in WorkPlaces /\ "cancelled" \in ResultStates
      BY DEF WorkPlaces, ResultStates, JobTerminal
    <3>3. \/ Ends(t) /\ result' = result
          \/ result' = [result EXCEPT ![thread[t].job] = "cancelled"] /\ ThreadTo(t, "save")
      BY <1>19 DEF Mark
    <3>4. /\ UNCHANGED <<jobsBackend, jobRecord, located, spec, launch, jobWorker, jobHandle, restored, lockedBy, read, gaveUp, crashes, jobFails>>
      BY <1>19 DEF Mark, journalVars
    <3>5. QED BY <1>0, <3>1, <3>2, <3>3, <3>4, WorkMoves, WorkTurns, IdleWork, ResultBecomes DEF Ends
  <2>1. JobsTyped'
    BY <1>0, <2>0, <1>a DEF JobsTyped
  <2>2. RecordFits'
    BY <1>0, <2>0, <1>a DEF RecordFits, Alive
  <2>3. HandleFits'
    BY <1>0, <2>0, <1>a DEF HandleFits, Alive, Unregistered, Starts
  <2>4. ThreadFits'
    BY <1>0, <2>0, <1>a DEF ThreadFits
  <2>5. OneStarter'
    BY <1>0, <2>0, <1>a DEF OneStarter, Starts
  <2>6. LockFits'
    BY <1>0, <2>0, <1>a DEF LockFits
  <2>7. QED BY <2>1, <2>2, <2>3, <2>4, <2>5, <2>6 DEF JobsInv
<1>20. ASSUME NEW t \in JobThreads, SaveMark(t) PROVE JobsInv'
  <2>0. /\ thread[t].does \in {"stopRun", "stopJob"} /\ thread[t].job \in Jobs /\ jobWorker[thread[t].job] = "gone" /\ thread[t].at = "save" /\ lockedBy = NoThread
        /\ thread' \in [JobThreads -> Works] /\ (\A u \in JobThreads : u # t => thread'[u] = thread[u])
        /\ \/ thread'[t].does = "nothing" /\ thread'[t].at = "idle"
           \/ thread'[t].does = "stopRun" /\ thread'[t].at = "next"
        /\ jobRecord' \in [Jobs -> JobStates] /\ jobRecord'[thread[t].job] # "running" /\ (\A i \in Jobs : i # thread[t].job => jobRecord'[i] = jobRecord[i])
        /\ jobHandle' \in [Jobs -> JobStates] /\ (\A i \in Jobs : i # thread[t].job => jobHandle'[i] = jobHandle[i])
        /\ UNCHANGED <<jobsBackend, located, spec, launch, result, jobWorker, restored, lockedBy, read, gaveUp, crashes, jobFails>>
    <3> DEFINE k == thread[t].job
    <3>1. /\ thread[t].at = "save" /\ thread[t].does \in {"stopRun", "stopJob"} /\ k \in Jobs /\ jobWorker[k] = "gone"
          /\ lockedBy = NoThread /\ thread[t] \in Works
      BY <1>0, <1>20 DEF SaveMark, At, ThreadFits, JobsTyped, JournalFree
    <3>2. "cancelled" \in JobStates
      BY DEF JobStates, JobTerminal
    <3>3. /\ Back(t) \in Works
          /\ \/ Back(t).does = "nothing" /\ Back(t).at = "idle"
             \/ Back(t).does = "stopRun" /\ Back(t).at = "next"
      BY <3>1, IdleWork, BackFits
    <3>4. /\ jobRecord' = (IF jobRecord[k] = "none" THEN jobRecord ELSE [jobRecord EXCEPT ![k] = "cancelled"])
          /\ jobHandle' = (IF jobHandle[k] = "none" THEN jobHandle ELSE [jobHandle EXCEPT ![k] = "cancelled"])
          /\ thread' = [thread EXCEPT ![t] = Back(t)]
          /\ UNCHANGED <<jobsBackend, located, spec, launch, result, jobWorker, restored, lockedBy, read, gaveUp, crashes, jobFails>>
      BY <1>20 DEF SaveMark, processVars
    <3> HIDE DEF k
    <3>5. jobRecord' \in [Jobs -> JobStates] /\ jobRecord'[k] # "running" /\ (\A i \in Jobs : i # k => jobRecord'[i] = jobRecord[i])
      BY <1>0, <3>1, <3>2, <3>4, RecordBecomes DEF JobsTyped
    <3>6. jobHandle' \in [Jobs -> JobStates] /\ (\A i \in Jobs : i # k => jobHandle'[i] = jobHandle[i])
      BY <1>0, <3>1, <3>2, <3>4, HandleBecomes DEF JobsTyped
    <3>7. QED BY <1>0, <3>1, <3>3, <3>4, <3>5, <3>6, WorkTurns DEF k
  <2>1. JobsTyped'
    BY <1>0, <2>0, <1>a DEF JobsTyped
  <2>2. RecordFits'
    BY <1>0, <2>0, <1>a DEF RecordFits, Alive
  <2>3. HandleFits'
    BY <1>0, <2>0, <1>a DEF HandleFits, Alive, Unregistered, Starts
  <2>4. ThreadFits'
    BY <1>0, <2>0, <1>a DEF ThreadFits
  <2>5. OneStarter'
    BY <1>0, <2>0, <1>a DEF OneStarter, Starts
  <2>6. LockFits'
    BY <1>0, <2>0, <1>a DEF LockFits
  <2>7. QED BY <2>1, <2>2, <2>3, <2>4, <2>5, <2>6 DEF JobsInv
<1>21. CASE Crash
  <2>0. /\ jobsBackend' = "down" /\ jobHandle' \in [Jobs -> JobStates] /\ restored' \subseteq Jobs /\ crashes' \in 0..MaxCrashes
        /\ thread' \in [JobThreads -> Works] /\ (\A u \in JobThreads : thread'[u].does = "nothing" /\ thread'[u].at = "idle")
        /\ lockedBy' = NoThread /\ read' \in Readings
        /\ UNCHANGED <<jobRecord, located, spec, launch, result, jobWorker, gaveUp, jobFails>>
    <3>1. NothingRead \in Readings
      BY DEF NothingRead, Readings, ResultStates
    <3>2. jobHandle' \in [Jobs -> JobStates] /\ crashes' \in 0..MaxCrashes
      BY <1>0, <1>21 DEF Crash, JobsTyped, JobStates
    <3>3. QED BY <1>21, <3>1, <3>2, IdleWork DEF Crash, journalVars, processVars
  <2>1. JobsTyped'
    BY <1>0, <2>0, <1>a DEF JobsTyped
  <2>2. RecordFits'
    BY <1>0, <2>0, <1>a DEF RecordFits, Alive
  <2>3. HandleFits'
    BY <1>0, <2>0, <1>a DEF HandleFits, Alive, Unregistered, Starts
  <2>4. ThreadFits'
    BY <1>0, <2>0, <1>a DEF ThreadFits
  <2>5. OneStarter'
    BY <1>0, <2>0, <1>a DEF OneStarter, Starts
  <2>6. LockFits'
    BY <1>0, <2>0, <1>a DEF LockFits
  <2>7. QED BY <2>1, <2>2, <2>3, <2>4, <2>5, <2>6 DEF JobsInv
<1>22. ASSUME NEW t \in JobThreads, Boot(t) PROVE JobsInv'
  <2>0. /\ jobsBackend = "down" /\ jobsBackend' = "boot" /\ thread' \in [JobThreads -> Works] /\ thread'[t].does = "boot" /\ thread'[t].at = "wait" /\ thread'[t].job = NoJob
        /\ thread[t].does \in {"nothing", "boot"} /\ (\A u \in JobThreads : u # t => thread'[u] = thread[u])
        /\ lockedBy # t
        /\ UNCHANGED <<jobRecord, located, spec, launch, result, jobWorker, jobHandle, restored, lockedBy, read, gaveUp, crashes, jobFails>>
    <3> DEFINE w == [does |-> "boot", at |-> "wait", job |-> NoJob, todo |-> {}]
    <3>1. w \in Works /\ w.does = "boot" /\ w.at = "wait" /\ w.job = NoJob
      BY DEF Works, WorkKinds, WorkPlaces
    <3> HIDE DEF w
    <3>2. jobsBackend = "down" /\ jobsBackend' = "boot" /\ thread' = [thread EXCEPT ![t] = w]
      BY <1>22 DEF Boot, w
    <3>3. thread[t].does \in {"nothing", "boot"} /\ lockedBy # t
      BY <1>0, <3>2 DEF ThreadFits, LockFits
    <3>9. QED BY <1>0, <1>22, <3>1, <3>2, <3>3, WorkTurns DEF Boot, journalVars, processVars
  <2>1. JobsTyped'
    BY <1>0, <2>0, <1>a DEF JobsTyped
  <2>2. RecordFits'
    BY <1>0, <2>0, <1>a DEF RecordFits, Alive
  <2>3. HandleFits'
    BY <1>0, <2>0, <1>a DEF HandleFits, Alive, Unregistered, Starts
  <2>4. ThreadFits'
    BY <1>0, <2>0, <1>a DEF ThreadFits
  <2>5. OneStarter'
    BY <1>0, <2>0, <1>a DEF OneStarter, Starts
  <2>6. LockFits'
    BY <1>0, <2>0, <1>a DEF LockFits
  <2>7. QED BY <2>1, <2>2, <2>3, <2>4, <2>5, <2>6 DEF JobsInv
<1>23. QED BY <1>1, <1>2, <1>3, <1>4, <1>5, <1>6, <1>7, <1>8, <1>9, <1>10, <1>11, <1>12, <1>13, <1>14, <1>15, <1>16, <1>17, <1>18, <1>19, <1>20, <1>21, <1>22 DEF JobsNext, WorkerSteps, ThreadSteps

LEMMA JobsStart == JobsInit => JobsInv
<1> SUFFICES ASSUME JobsInit PROVE JobsInv
  OBVIOUS
<1>1. NothingRead \in Readings /\ "none" \in JobStates /\ "none" \in ResultStates /\ "none" \in WorkerStates
  BY DEF NothingRead, Readings, ResultStates, JobStates, WorkerStates
<1>2. 0 \in 0..MaxCrashes /\ 0 \in 0..MaxJobFails
  OBVIOUS
<1>3. JobsTyped
  BY <1>1, <1>2, IdleWork DEF JobsInit, JobsTyped
<1>4. QED BY <1>3, IdleWork DEF JobsInit, JobsInv, RecordFits, HandleFits, ThreadFits, OneStarter, LockFits, Alive, Starts

LEMMA JobsKept == JobsSpec => []JobsInv
<1>1. JobsInv /\ [JobsNext]_jobVars => JobsInv'
  <2>1. CASE JobsNext
    BY <2>1, JobsStep
  <2>2. ASSUME JobsInv, UNCHANGED jobVars PROVE JobsInv'
    BY <2>2 DEF jobVars, JobsInv, JobsTyped, RecordFits, HandleFits, ThreadFits, OneStarter, LockFits, Alive, Starts, Unregistered
  <2>3. QED BY <2>1, <2>2
<1>2. QED BY <1>1, JobsStart, PTL DEF JobsSpec

\* Types: every record, file, process and thread has its type.
THEOREM JobsTypeCorrect == JobsSpec => []JobsTypeOK
<1>1. JobsInv => JobsTypeOK
  BY DEF JobsInv, JobsTyped, JobsTypeOK, JobStates, ResultStates, WorkerStates, Works, WorkKinds, WorkPlaces, Readings
<1>2. QED BY <1>1, JobsKept, PTL

\* A job's process is never out of reach while it runs, and one that is reported as
\* over does not run, whatever crashes, fails to die or is stopped on the way.
THEOREM JobsStayHonest == JobsSpec => []JobsAreHonest
<1>1. JobsInv => JobsAreHonest
  <2> SUFFICES ASSUME JobsInv PROVE JobsAreHonest
    OBVIOUS
  <2>1. RunningIsTracked
    BY DEF JobsInv, HandleFits, RunningIsTracked, Alive, Unregistered, Starts
  <2>2. OverDoesNotRun
    BY DEF JobsInv, JobsTyped, RecordFits, OverDoesNotRun, Alive, JobTerminal
  <2>3. QED BY <2>1, <2>2 DEF JobsAreHonest
<1>2. QED BY <1>1, JobsKept, PTL

===============================================================================
