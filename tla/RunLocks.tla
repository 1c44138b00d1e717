------------------------------- MODULE RunLocks -------------------------------
(***************************************************************************)
(* The two lock files of a code-agent run (RunJournal of run_journal.py):  *)
(* agent.lock, which one run at a time holds for all processes and which a *)
(* delegated run shares with its parent, and run.lock, one per run.  Both  *)
(* are files created with O_EXCL; a process that dies leaves them behind,  *)
(* and the next one takes an agent.lock over when the pid in it is dead.   *)
(*                                                                         *)
(* _LEASE_LOCK makes an acquisition a critical section of its process; the *)
(* processes interleave at every call on the file system.  A journal whose *)
(* acquisition is refused writes its run's state.json all the same.        *)
(***************************************************************************)
EXTENDS Naturals, FiniteSets

CONSTANTS
    Processes,      \* pids; a restart is a new one
    Runs,           \* run ids
    ParentOf,       \* the run that delegates a run, or NoRun
    NoRunId, NoProcess,
    UnlinksOpen     \* an open file can be unlinked (POSIX), or cannot (Windows)

ASSUME LocksAssumption ==
    /\ NoRunId \notin Runs /\ NoProcess \notin Processes
    /\ ParentOf \in [Runs -> Runs \cup {NoRunId}]
    /\ \A r \in Runs : ParentOf[r] # r
    /\ UnlinksOpen \in BOOLEAN

VARIABLES
    alive,      \* the processes that run
    agentLock,  \* agent.lock: who created it, and whether its content is written
    runLock,    \* run.lock of each run: the pid in it
    acquiring,  \* where each process is in acquire()
    lease,      \* for each process and run: the owner run of the lease its journal holds
    held,       \* for each process: the runs whose run.lock its journals hold
    saved,      \* the runs whose state.json has their request
    opened,     \* what the journal a process acquires for holds of its run's state.json
    contested,  \* history: runs that two live processes had open at once
    overwritten,     \* history: runs whose state.json an older copy has replaced
    locksCrossed     \* history: a process has unlinked the lock of a live one

recordVars == <<saved, opened, contested, overwritten>>
lockVars == <<alive, agentLock, runLock, acquiring, lease, held, recordVars, locksCrossed>>

NoLock == [pid |-> NoProcess, run |-> NoRunId, written |-> FALSE]
NotAcquiring == [at |-> "idle", run |-> NoRunId, again |-> FALSE]
LeaseFile(p, o) == [pid |-> p, run |-> o, written |-> TRUE]
LeaseHolders(p, o) == {r \in Runs : lease[p][r] = o}
GoTo(p, at) == acquiring' = [acquiring EXCEPT ![p].at = at]
Opens(p, r) == acquiring[p].at # "idle" /\ acquiring[p].run = r
LeaveAcquire(p) ==
    /\ acquiring' = [acquiring EXCEPT ![p] = NotAcquiring]
    /\ opened' = [opened EXCEPT ![p] = "none"]

\* Mutant of DropLease: whoever leaves first removes the file.
DropLeaseFirst(p, r) ==
    LET owner == lease[p][r]
    IN /\ lease' = [lease EXCEPT ![p][r] = NoRunId]
       /\ agentLock' = IF owner # NoRunId /\ agentLock = LeaseFile(p, owner) THEN NoLock ELSE agentLock

\* _release_agent_lock: the last holder of a lease removes the file, if it still
\* names that lease.
DropLease(p, r) ==
    LET owner == lease[p][r]
    IN /\ lease' = [lease EXCEPT ![p][r] = NoRunId]
       /\ agentLock' = IF owner # NoRunId /\ LeaseHolders(p, owner) = {r} /\ agentLock = LeaseFile(p, owner)
                       THEN NoLock ELSE agentLock

\* The journal of run r is made, or loaded from its state.json; what a live
\* holder has there is soon out of date.
Open(p, r, step) ==
    /\ acquiring' = [acquiring EXCEPT ![p] = [at |-> step, run |-> r, again |-> FALSE]]
    /\ opened' = [opened EXCEPT ![p] = IF \E q \in Processes : r \in held[q] THEN "outdated"
                                       ELSE IF r \in saved THEN "current" ELSE "fresh"]
    /\ contested' = contested \cup {o \in {r} : \E q \in Processes \ {p} : r \in held[q] \/ Opens(q, r)}
    /\ UNCHANGED <<saved, overwritten>>

\* What an outdated journal writes replaces what others have written.
Overwrites(p, r) == overwritten' = overwritten \cup {o \in {r} : opened[p] = "outdated"}

---------------------------------------------------------------------------
(* acquire() of the journal of run r *)

\* O_EXCL on agent.lock, the first time or after a takeover.
CreateLock(p) ==
    /\ acquiring[p].at = "create"
    /\ IF agentLock = NoLock
       THEN /\ agentLock' = [pid |-> p, run |-> acquiring[p].run, written |-> FALSE]
            /\ GoTo(p, "write")
       ELSE UNCHANGED agentLock /\ GoTo(p, "read")
    /\ UNCHANGED <<alive, runLock, lease, held, recordVars, locksCrossed>>

AcquireOwn(p, r) ==
    /\ p \in alive /\ acquiring[p] = NotAcquiring
    /\ ParentOf[r] = NoRunId /\ r \notin held[p]
    /\ Open(p, r, "create")
    /\ UNCHANGED <<alive, agentLock, runLock, lease, held, locksCrossed>>

\* _owns_live_lease.
OwnsLiveLease(p, r) ==
    /\ r \in held[p] /\ lease[p][r] # NoRunId
    /\ agentLock = LeaseFile(p, lease[p][r])
    /\ runLock[r] = p

\* A delegated run joins the lease of its parent, which must be live in this process.
AcquireShared(p, r) ==
    /\ p \in alive /\ acquiring[p] = NotAcquiring
    /\ ParentOf[r] # NoRunId /\ r \notin held[p]
    /\ IF OwnsLiveLease(p, ParentOf[r])
       THEN /\ lease' = [lease EXCEPT ![p][r] = lease[p][ParentOf[r]]]
            /\ Open(p, r, "runLock")
       ELSE Open(p, r, "refused") /\ UNCHANGED lease
    /\ UNCHANGED <<alive, agentLock, runLock, held, locksCrossed>>

\* A file that has vanished, is empty yet, or names a dead pid.
SeemsDead == ~(agentLock.written /\ agentLock.pid \in alive)

\* The file exists: who is in it?  Only the first time a dead owner is replaced.
Read(p) ==
    /\ acquiring[p].at = "read"
    /\ GoTo(p, IF ~acquiring[p].again /\ SeemsDead THEN "unlink" ELSE "refused")
    /\ UNCHANGED <<alive, agentLock, runLock, lease, held, recordVars, locksCrossed>>

\* Whatever the file is now, it is unlinked; one that its creator still has open
\* cannot be on Windows.
Unlink(p) ==
    /\ acquiring[p].at = "unlink"
    /\ IF agentLock # NoLock /\ ~agentLock.written /\ agentLock.pid \in alive /\ ~UnlinksOpen
       THEN GoTo(p, "refused") /\ UNCHANGED <<agentLock, locksCrossed>>
       ELSE /\ agentLock' = NoLock
            /\ locksCrossed' = (locksCrossed \/ agentLock.pid \in alive)
            /\ acquiring' = [acquiring EXCEPT ![p].at = "create", ![p].again = TRUE]
    /\ UNCHANGED <<alive, runLock, lease, held, recordVars>>

\* The payload goes to the file this process created, wherever that is now.
Write(p) ==
    /\ acquiring[p].at = "write"
    /\ LET r == acquiring[p].run
       IN /\ lease' = [lease EXCEPT ![p][r] = r]
          /\ agentLock' = IF agentLock = [pid |-> p, run |-> r, written |-> FALSE]
                          THEN LeaseFile(p, r) ELSE agentLock
    /\ GoTo(p, "runLock")
    /\ UNCHANGED <<alive, runLock, held, recordVars, locksCrossed>>

\* run.lock is created, and the journal saves what it holds of the run: start()
\* the request, resume() and append_event() what was loaded.
Hold(p, r) ==
    /\ acquiring' = [acquiring EXCEPT ![p] = NotAcquiring]
    /\ runLock' = [runLock EXCEPT ![r] = p]
    /\ held' = [held EXCEPT ![p] = @ \cup {r}]
    /\ saved' = saved \cup {r} /\ Overwrites(p, r)
    /\ opened' = [q \in Processes |-> IF q = p THEN "none" ELSE IF Opens(q, r) THEN "outdated" ELSE opened[q]]
    /\ UNCHANGED contested

\* Mutant of TakeRunLock: the run's own lock is not exclusive.
TakeRunLockShared(p) ==
    /\ acquiring[p].at = "runLock"
    /\ Hold(p, acquiring[p].run)
    /\ UNCHANGED <<alive, lease, agentLock, locksCrossed>>

\* O_EXCL on run.lock; a failure gives the lease back.
TakeRunLock(p) ==
    /\ acquiring[p].at = "runLock"
    /\ LET r == acquiring[p].run
       IN \/ runLock[r] = NoProcess /\ Hold(p, r) /\ UNCHANGED <<lease, agentLock>>
          \/ /\ runLock[r] # NoProcess
             /\ DropLease(p, r) /\ GoTo(p, "refused")
             /\ UNCHANGED <<runLock, held, recordVars>>
    /\ UNCHANGED <<alive, locksCrossed>>

\* The except of stream_code_agent after a refusal: the journal appends the
\* terminal event and finishes, and so writes state.json with no lock.  A new run
\* has no request in it then, and nobody resumes it.
WriteUnlocked(p) ==
    /\ acquiring[p].at = "refused"
    /\ Overwrites(p, acquiring[p].run)
    /\ LeaveAcquire(p)
    /\ UNCHANGED <<alive, agentLock, runLock, lease, held, saved, contested, locksCrossed>>

\* record_terminal_event between two slices: the journal is loaded, run.lock
\* alone is taken; a refusal writes nothing.
LoadForTerminal(p, r) ==
    /\ p \in alive /\ acquiring[p] = NotAcquiring
    /\ r \in saved \ held[p]
    /\ Open(p, r, "terminal")
    /\ UNCHANGED <<alive, agentLock, runLock, lease, held, locksCrossed>>

LockForTerminal(p) ==
    /\ acquiring[p].at = "terminal"
    /\ LET r == acquiring[p].run
       IN \/ runLock[r] = NoProcess /\ Hold(p, r)
          \/ runLock[r] # NoProcess /\ LeaveAcquire(p) /\ UNCHANGED <<runLock, held, saved, contested, overwritten>>
    /\ UNCHANGED <<alive, agentLock, lease, locksCrossed>>

---------------------------------------------------------------------------
(* The ends *)

\* release(), of finish or of record_terminal_event.
Release(p, r) ==
    /\ p \in alive /\ acquiring[p] = NotAcquiring
    /\ r \in held[p]
    /\ runLock' = [runLock EXCEPT ![r] = NoProcess]
    /\ held' = [held EXCEPT ![p] = @ \ {r}]
    /\ DropLease(p, r)
    /\ UNCHANGED <<alive, acquiring, recordVars, locksCrossed>>

\* The process dies, between any two calls.
Die(p) ==
    /\ p \in alive
    /\ alive' = alive \ {p}
    /\ LeaveAcquire(p)
    /\ lease' = [lease EXCEPT ![p] = [r \in Runs |-> NoRunId]]
    /\ held' = [held EXCEPT ![p] = {}]
    /\ UNCHANGED <<agentLock, runLock, saved, contested, overwritten, locksCrossed>>

---------------------------------------------------------------------------
LocksInit ==
    /\ alive = Processes
    /\ agentLock = NoLock
    /\ runLock = [r \in Runs |-> NoProcess]
    /\ acquiring = [p \in Processes |-> NotAcquiring]
    /\ lease = [p \in Processes |-> [r \in Runs |-> NoRunId]]
    /\ held = [p \in Processes |-> {}]
    /\ saved = {} /\ contested = {} /\ overwritten = {}
    /\ opened = [p \in Processes |-> "none"]
    /\ locksCrossed = FALSE

Acquire(p) ==
    \/ CreateLock(p) \/ Read(p) \/ Unlink(p) \/ Write(p) \/ TakeRunLock(p)
    \/ WriteUnlocked(p) \/ LockForTerminal(p)

LocksNext ==
    \E p \in Processes :
        \/ Acquire(p) \/ Die(p)
        \/ \E r \in Runs : AcquireOwn(p, r) \/ AcquireShared(p, r) \/ LoadForTerminal(p, r) \/ Release(p, r)

LocksSpec == LocksInit /\ [][LocksNext]_lockVars

---------------------------------------------------------------------------
(* Properties *)

AcquireSteps == {"idle", "create", "read", "unlink", "write", "runLock", "refused", "terminal"}

\* Every lock, lease and step has its type.
LocksTypeOK ==
    /\ alive \subseteq Processes
    /\ agentLock \in [pid : Processes \cup {NoProcess}, run : Runs \cup {NoRunId}, written : BOOLEAN]
    /\ runLock \in [Runs -> Processes \cup {NoProcess}]
    /\ acquiring \in [Processes -> [at : AcquireSteps, run : Runs \cup {NoRunId}, again : BOOLEAN]]
    /\ lease \in [Processes -> [Runs -> Runs \cup {NoRunId}]]
    /\ held \in [Processes -> SUBSET Runs]
    /\ saved \subseteq Runs /\ contested \subseteq Runs /\ overwritten \subseteq Runs
    /\ opened \in [Processes -> {"none", "fresh", "current", "outdated"}]
    /\ locksCrossed \in BOOLEAN

Leased(p) == \E r \in Runs : lease[p][r] # NoRunId

\* Unless a process has unlinked another's fresh lock, agent.lock names every
\* lease that is held: it outlives the parent as long as a delegated run holds
\* it, and so no two processes ever hold one.
LeaseIsNamed ==
    ~locksCrossed => \A p \in Processes, r \in Runs :
                    lease[p][r] # NoRunId => agentLock = LeaseFile(p, lease[p][r])

\* One journal at a time holds run.lock, whoever dies and whatever becomes of
\* agent.lock: what a process holds is locked for it.
OneWriterOfRun == \A p \in Processes, r \in Runs : r \in held[p] => runLock[r] = p

\* The lock does not cover the loading of a journal, nor what a refused one
\* writes: a run's state.json is replaced by an older copy only where two
\* processes had that run open at the same time.
OverwrittenIsContested == overwritten \subseteq contested

\* One journal at a time holds a run, its lease says which, and its record is only
\* ever set back by a second process that opened the run meanwhile.
OneNamedWriter == LeaseIsNamed /\ OneWriterOfRun /\ OverwrittenIsContested

\* The process whose runs have a lease.
LeaseHolder ==
    IF locksCrossed \/ ~\E p \in Processes : Leased(p) THEN NoProcess
    ELSE CHOOSE p \in Processes : Leased(p)

\* agent.lock is a lock that a process takes, that delegated runs join and that
\* the last of them gives back, until a takeover has crossed another's creation:
\* the calls on the file system implement AgentLease (run_journal.py:500, 836).
LeaseKept ==
    INSTANCE AgentLease WITH
        holder <- LeaseHolder,
        inside <- IF locksCrossed THEN {} ELSE {r \in Runs : \E p \in Processes : lease[p][r] # NoRunId},
        void <- locksCrossed

LeaseIsExclusive == LeaseKept!LeaseSpec

=============================================================================
