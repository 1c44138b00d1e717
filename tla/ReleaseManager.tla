---------------------------- MODULE ReleaseManager ---------------------------
(***************************************************************************)
(* Elira's release manager (scripts/elira_release.py, ReleaseManager) in   *)
(* its legacy layout: the supervisor process that runs the selected        *)
(* release and switches to a confirmed one, the backend it starts, the     *)
(* command line calls (request, confirm, verify) that other processes make *)
(* at any time, and a user who edits candidates, works and closes windows. *)
(*                                                                         *)
(* Every write of state.json is atomic (os.replace); a killed supervisor   *)
(* loses its locks and its variables and leaves its backend running.       *)
(* Progress records, retention and the desktop process are left out: a     *)
(* window that closes ends the loop, as a backend that dies does.          *)
(***************************************************************************)
EXTENDS Naturals

CONSTANTS
    Releases,       \* release ids
    NoRelease,      \* null
    MaxVersion,     \* bound: how many different contents a candidate may have
    Edited,         \* bound: the releases whose tree is edited
    MaxProposals,   \* bound: installation proposals made
    MaxWork,        \* bound: tasks the backend completes
    MaxFaults,      \* bound: crashes, exceptions and lost answers
    StagedBusy      \* whether a staged backend may answer "drain" with busy

ASSUME ReleaseAssumption == NoRelease \notin Releases /\ Edited \subseteq Releases

ASSUME BoundAssumption ==
    /\ MaxVersion \in Nat \ {0}
    /\ MaxProposals \in Nat
    /\ MaxWork \in Nat
    /\ MaxFaults \in Nat
    /\ StagedBusy \in BOOLEAN

VARIABLES
    state,      \* state.json
    receipt,    \* records/<id>.json: status and fingerprint
    bytes,      \* what fingerprint() finds in the release's tree
    verifier,   \* a verify call of each release, and the fingerprint it began with
    lock,       \* who holds state.lock
    cli,        \* the request or confirm call that holds it
    issued,     \* proposals made so far: the last request_id
    sup,        \* the supervisor's place and variables
    be,         \* the backend process on the port
    data,       \* the databases: tasks they hold, releases that started on them
    backup,     \* the snapshot of the current transition; older ones are never read
    done,       \* history: tasks completed by an admitted backend
    faults      \* crashes, exceptions and lost answers so far

cliVars == <<cli, issued>>
candidates == <<receipt, bytes, verifier>>
dataVars == <<data, backup, done>>
vars == <<state, receipt, bytes, verifier, lock, cli, issued, sup, be, data, backup,
          done, faults>>

MaybeRelease == Releases \cup {NoRelease}
Versions == 1..MaxVersion

NoProposal == [id |-> 0, rel |-> NoRelease, sha |-> 0]
NoTransition == [from |-> NoRelease, to |-> NoRelease, phase |-> "none"]
NoBackend == [rel |-> NoRelease, mode |-> "none", busy |-> FALSE, known |-> FALSE]
NoVerify == [step |-> "none", sha |-> 0]
NoCall == [op |-> "none", id |-> 0, rel |-> NoRelease, sha |-> 0]
Refusal == [NoCall EXCEPT !.op = "refuse"]

\* The supervisor before it is started and after it has exited.
Down == [pc |-> "down", job |-> "none", rel |-> NoRelease, prev |-> NoRelease,
         sha |-> 0, owns |-> FALSE]

\* Databases restore() has begun to replace: neither the old nor the new ones.
Torn == [work |-> 0, ran |-> {}]
NoBackup == [work |-> 0, ran |-> {NoRelease}]

\* checked(): a receipt that is verified and matches the files.
Checked(r) == receipt[r].status = "verified" /\ receipt[r].sha = bytes[r]

\* _confirmation_matches
Approved(r, sha) == state.last.rel = r /\ state.last.sha = sha

Selected(r) == r \in {state.active, state.previous, state.pending}

---------------------------------------------------------------------------
(* Candidates: edited in place and verified by a process of its own *)

Edit(r) ==
    /\ \E v \in Versions \ {bytes[r]} : bytes' = [bytes EXCEPT ![r] = v]
    /\ UNCHANGED <<state, receipt, verifier, lock, cliVars, sup, be, dataVars, faults>>

\* verify tests the selection on a state.json it reads without the lock ...
VerifyRead(r) ==
    /\ verifier[r].step = "none" /\ ~Selected(r)
    /\ verifier' = [verifier EXCEPT ![r].step = "read"]
    /\ UNCHANGED <<state, receipt, bytes, lock, cliVars, sup, be, dataVars, faults>>

\* ... fingerprints the tree and opens a new receipt ...
VerifyOpen(r) ==
    /\ verifier[r].step = "read"
    /\ verifier' = [verifier EXCEPT ![r] = [step |-> "work", sha |-> bytes[r]]]
    /\ receipt' = [receipt EXCEPT ![r] = [status |-> "verifying", sha |-> 0]]
    /\ UNCHANGED <<state, bytes, lock, cliVars, sup, be, dataVars, faults>>

\* ... and closes it: sealed with the desktop that was built of unchanged
\* sources when all checks have passed, failed when one has not.
VerifyClose(r) ==
    /\ verifier[r].step = "work"
    /\ verifier' = [verifier EXCEPT ![r] = NoVerify]
    /\ \/ /\ verifier[r].sha = bytes[r]
          /\ \E built \in IF r \in Edited THEN Versions ELSE {bytes[r]} :
                /\ bytes' = [bytes EXCEPT ![r] = built]
                /\ receipt' = [receipt EXCEPT ![r] = [status |-> "verified", sha |-> built]]
       \/ /\ receipt' = [receipt EXCEPT ![r] = [status |-> "failed", sha |-> 0]]
          /\ UNCHANGED bytes
    /\ UNCHANGED <<state, lock, cliVars, sup, be, dataVars, faults>>

---------------------------------------------------------------------------
(* request and confirm: they hold state.lock while they fingerprint *)

\* request() refuses while an installation is pending or under way, and has
\* nothing to do for the active release.
RequestBegin(r) ==
    /\ lock = "free"
    /\ lock' = "cli"
    /\ IF /\ state.pending = NoRelease /\ state.transition = NoTransition
          /\ state.active # r /\ Checked(r) /\ issued < MaxProposals
       THEN cli' = [op |-> "request", id |-> issued + 1, rel |-> r, sha |-> receipt[r].sha]
       ELSE cli' = Refusal
    /\ UNCHANGED <<state, candidates, issued, sup, be, dataVars, faults>>

\* confirm(id): a stale or replayed id changes nothing, but is looked up, and
\* its release fingerprinted, under the lock.
ConfirmBegin(id) ==
    /\ lock = "free"
    /\ lock' = "cli"
    /\ LET proposal == state.confirmation IN
       IF /\ proposal # NoProposal /\ proposal.id = id /\ state.transition = NoTransition
          /\ Checked(proposal.rel) /\ receipt[proposal.rel].sha = proposal.sha
       THEN cli' = [op |-> "confirm", id |-> id, rel |-> proposal.rel, sha |-> proposal.sha]
       ELSE cli' = Refusal
    /\ UNCHANGED <<state, candidates, issued, sup, be, dataVars, faults>>

RequestEnd ==
    /\ cli.op = "request"
    /\ state' = [state EXCEPT !.pending = NoRelease,
                              !.confirmation = [id |-> cli.id, rel |-> cli.rel, sha |-> cli.sha]]
    /\ issued' = cli.id

ConfirmEnd ==
    /\ cli.op = "confirm"
    /\ state' = [state EXCEPT !.pending = cli.rel, !.confirmation = NoProposal,
                              !.last = [id |-> cli.id, rel |-> cli.rel, sha |-> cli.sha]]
    /\ UNCHANGED issued

\* The call is refused, or its process is killed.
CallFails ==
    /\ cli.op # "none"
    /\ UNCHANGED <<state, issued>>

CallEnd ==
    /\ RequestEnd \/ ConfirmEnd \/ CallFails
    /\ lock' = "free" /\ cli' = NoCall
    /\ UNCHANGED <<candidates, sup, be, dataVars, faults>>

---------------------------------------------------------------------------
(* The backend *)

StartTask ==
    /\ be.mode = "serving" /\ ~be.busy /\ done < MaxWork
    /\ be' = [be EXCEPT !.busy = TRUE]
    /\ UNCHANGED <<state, candidates, lock, cliVars, sup, dataVars, faults>>

EndTask ==
    /\ be.busy
    /\ be' = [be EXCEPT !.busy = FALSE]
    /\ data' = [data EXCEPT !.work = data.work + 1]
    /\ done' = done + 1
    /\ UNCHANGED <<state, candidates, lock, cliVars, sup, backup, faults>>

Fault == faults < MaxFaults /\ faults' = faults + 1

BackendDies ==
    /\ be # NoBackend
    /\ be' = NoBackend
    /\ Fault
    /\ UNCHANGED <<state, candidates, lock, cliVars, sup, dataVars>>

---------------------------------------------------------------------------
(* The supervisor *)

At(pc) == sup.pc = pc

Goto(pc) == sup' = [sup EXCEPT !.pc = pc]

\* Back in the loop of run(), which keeps no variable but the backend's handle.
Loop == sup' = [Down EXCEPT !.pc = "loop", !.owns = sup.owns]

Unlock == lock' = IF lock = "sup" THEN "free" ELSE lock

\* An exception leaves run(): its finally clause stops the backend it started.
Quit ==
    /\ sup' = Down
    /\ be' = IF sup.owns THEN NoBackend ELSE be
    /\ Unlock

\* The supervisor is killed: its backend stays.
Kill ==
    /\ sup.pc # "down"
    /\ sup' = Down
    /\ Unlock
    /\ Fault
    /\ UNCHANGED <<state, candidates, cliVars, be, dataVars>>

\* The user opens the application.
Open ==
    /\ At("down")
    /\ Goto("reap")
    /\ UNCHANGED <<state, candidates, lock, cliVars, be, dataVars, faults>>

MayBeBusy == be.busy \/ (StagedBusy /\ be.mode = "staged")

\* _reap_owned_processes and the port test: a backend left behind is shut down
\* if it is idle; if not it is resumed and this start fails, as it does when
\* the process on the port is not in live.json.
Reap ==
    /\ At("reap")
    /\ \/ /\ be = NoBackend \/ (be.known /\ ~be.busy)
          /\ be' = NoBackend
          /\ Goto("recover")
       \/ /\ be.known /\ MayBeBusy
          /\ be' = [be EXCEPT !.mode = "serving"]
          /\ sup' = Down
       \/ /\ be # NoBackend /\ ~be.known
          /\ sup' = Down
          /\ UNCHANGED be
    /\ UNCHANGED <<state, candidates, lock, cliVars, dataVars, faults>>

BeforeAdmission == state.transition.phase \in {"stopping", "switching"}

\* Mutant of Recover: the phase is not looked at.
RecoverAnyPhase ==
    /\ At("recover")
    /\ IF backup # NoBackup
       THEN data' = Torn /\ Goto("restore")
       ELSE UNCHANGED data /\ Goto("recover_save")
    /\ UNCHANGED <<state, candidates, lock, cliVars, be, backup, done, faults>>

\* recover(): before admission the snapshot, if it was completed, is put back.
Recover ==
    /\ At("recover")
    /\ IF BeforeAdmission /\ backup # NoBackup
       THEN data' = Torn /\ Goto("restore")
       ELSE UNCHANGED data /\ Goto("recover_save")
    /\ UNCHANGED <<state, candidates, lock, cliVars, be, backup, done, faults>>

\* The last file is back, here and after a switch that failed.
Restore ==
    /\ \/ At("restore") /\ Goto("recover_save")
       \/ At("undo_restore") /\ Goto("undo_save")
    /\ data' = backup
    /\ UNCHANGED <<state, candidates, lock, cliVars, be, backup, done, faults>>

RecoverSave ==
    /\ At("recover_save")
    /\ state' = IF BeforeAdmission
                THEN [state EXCEPT !.active = state.transition.from, !.pending = NoRelease,
                                   !.transition = NoTransition]
                ELSE [state EXCEPT !.transition = NoTransition]
    /\ Goto("launch")
    /\ backup' = NoBackup
    /\ UNCHANGED <<candidates, lock, cliVars, be, data, done, faults>>

\* _launch_active of the selected release, or of the previous one after a
\* switch that failed.
Launch ==
    /\ At("launch")
    /\ \/ /\ state.active # NoRelease /\ Checked(state.active)
          /\ sup' = [sup EXCEPT !.pc = "start", !.rel = state.active,
                                !.job = IF sup.job = "switch" THEN "back" ELSE "launch"]
          /\ UNCHANGED <<be, lock>>
       \/ /\ state.active = NoRelease /\ state.pending # NoRelease
          /\ Loop
          /\ UNCHANGED <<be, lock>>
       \/ /\ IF state.active = NoRelease THEN state.pending = NoRelease ELSE ~Checked(state.active)
          /\ Quit
    /\ UNCHANGED <<state, candidates, cliVars, dataVars, faults>>

\* _start_backend: the process runs, staged, and its startup migrates the data ...
Start ==
    /\ At("start")
    /\ be' = [NoBackend EXCEPT !.rel = sup.rel, !.mode = "staged"]
    /\ data' = [data EXCEPT !.ran = data.ran \cup {sup.rel}]
    /\ sup' = [sup EXCEPT !.pc = "record", !.owns = TRUE]
    /\ UNCHANGED <<state, candidates, lock, cliVars, backup, done, faults>>

\* ... before live.json names it ...
Record ==
    /\ At("record")
    /\ be' = IF be = NoBackend THEN be ELSE [be EXCEPT !.known = TRUE]
    /\ Goto("health")
    /\ UNCHANGED <<state, candidates, lock, cliVars, dataVars, faults>>

\* ... and its health is awaited; the desktop is started.
Health ==
    /\ At("health") /\ be # NoBackend
    /\ Goto(IF sup.job = "switch" THEN "final" ELSE "activate")
    /\ UNCHANGED <<state, candidates, lock, cliVars, be, dataVars, faults>>

\* _activate succeeds.  A launch then takes the lock for retention, and the
\* lock does not wait; a release brought back gives the lock up.
Activate ==
    /\ At("activate") /\ be # NoBackend
    /\ \/ /\ sup.job = "switch"
          /\ be' = [be EXCEPT !.mode = "serving"]
          /\ Goto("finish") /\ UNCHANGED lock
       \/ /\ sup.job = "back" \/ (sup.job = "launch" /\ lock = "free")
          /\ be' = [be EXCEPT !.mode = "serving"]
          /\ Loop /\ Unlock
       \/ /\ sup.job = "launch" /\ lock = "cli"
          /\ Quit
    /\ UNCHANGED <<state, candidates, cliVars, dataVars, faults>>

\* A window is closed, or there is nothing to run and nothing to install.
Close ==
    /\ At("loop")
    /\ sup.owns \/ state.pending = NoRelease
    /\ Quit
    /\ UNCHANGED <<state, candidates, cliVars, dataVars, faults>>

\* apply_pending: the receipt and the approval are tested without the lock.
Apply ==
    /\ At("loop") /\ state.pending # NoRelease
    /\ LET r == state.pending
           ok == Checked(r) /\ Approved(r, receipt[r].sha) IN
       sup' = [sup EXCEPT !.rel = r, !.sha = receipt[r].sha,
                          !.pc = IF ok THEN "drain" ELSE "reject"]
    /\ UNCHANGED <<state, candidates, lock, cliVars, be, dataVars, faults>>

\* The lock does not wait: a call that holds it ends the supervisor.
LockHeld ==
    /\ sup.pc \in {"reject", "lock"} /\ lock = "cli"
    /\ Quit
    /\ UNCHANGED <<state, candidates, cliVars, dataVars, faults>>

Reject ==
    /\ At("reject") /\ lock = "free"
    /\ state' = IF state.pending = sup.rel THEN [state EXCEPT !.pending = NoRelease] ELSE state
    /\ Loop
    /\ UNCHANGED <<candidates, lock, cliVars, be, dataVars, faults>>

\* Mutant of Drain: the switch does not wait for the backend to be idle.
DrainBlind ==
    /\ At("drain")
    /\ Goto("lock")
    /\ UNCHANGED <<state, candidates, lock, cliVars, be, dataVars, faults>>

\* A busy backend is resumed and asked again in the next round.
Drain ==
    /\ At("drain")
    /\ \/ /\ ~sup.owns
          /\ Goto("lock") /\ UNCHANGED <<be, lock>>
       \/ /\ sup.owns /\ be # NoBackend /\ ~be.busy
          /\ be' = [be EXCEPT !.mode = "drained"]
          /\ Goto("lock") /\ UNCHANGED lock
       \/ /\ sup.owns /\ be.busy
          /\ Loop /\ UNCHANGED <<be, lock>>
       \/ /\ sup.owns /\ be = NoBackend
          /\ Quit
    /\ UNCHANGED <<state, candidates, cliVars, dataVars, faults>>

\* Under the lock, held until the switch is over: the request is read again
\* and the transition recorded.
Begin ==
    /\ At("lock") /\ lock = "free"
    /\ IF state.pending # sup.rel
       THEN /\ be' = IF be = NoBackend THEN be ELSE [be EXCEPT !.mode = "serving"]
            /\ Loop
            /\ UNCHANGED <<state, lock, backup>>
       ELSE IF ~Approved(sup.rel, sup.sha)
       THEN /\ Quit
            /\ UNCHANGED <<state, backup>>
       ELSE /\ lock' = "sup"
            /\ state' = [state EXCEPT !.transition =
                           [from |-> state.active, to |-> sup.rel, phase |-> "stopping"]]
            /\ backup' = NoBackup
            /\ sup' = [sup EXCEPT !.pc = "stop", !.prev = state.active, !.job = "switch"]
            /\ UNCHANGED be
    /\ UNCHANGED <<candidates, cliVars, data, done, faults>>

Stop ==
    /\ At("stop")
    /\ be' = NoBackend
    /\ sup' = [sup EXCEPT !.pc = "snapshot", !.owns = FALSE]
    /\ UNCHANGED <<state, candidates, lock, cliVars, dataVars, faults>>

\* The release is tested again, then the databases are copied; snapshot.json,
\* written last, makes the copy a backup.
Snapshot ==
    /\ At("snapshot") /\ Checked(sup.rel)
    /\ backup' = data
    /\ Goto("mark")
    /\ UNCHANGED <<state, candidates, lock, cliVars, be, data, done, faults>>

Mark ==
    /\ At("mark")
    /\ state' = [state EXCEPT !.transition.phase = "switching"]
    /\ Goto("start")
    /\ UNCHANGED <<candidates, lock, cliVars, be, dataVars, faults>>

Admitting ==
    state' = [state EXCEPT !.active = sup.rel, !.previous = sup.prev, !.pending = NoRelease,
                           !.transition.phase = "admitting"]

\* The new release runs, staged: it becomes the selected one.
Select ==
    /\ At("final") /\ Checked(sup.rel)
    /\ Admitting
    /\ Goto("activate")
    /\ UNCHANGED <<candidates, lock, cliVars, be, dataVars, faults>>

\* Mutant of Finish: the record of the transition stays.
FinishUnsaved ==
    /\ At("finish")
    /\ Loop /\ Unlock
    /\ UNCHANGED <<state, candidates, cliVars, be, dataVars, faults>>

Finish ==
    /\ At("finish")
    /\ state' = [state EXCEPT !.transition = NoTransition]
    /\ Loop /\ Unlock
    /\ backup' = NoBackup
    /\ UNCHANGED <<candidates, cliVars, be, data, done, faults>>

\* Steps of a switch whose exception is handled by undoing the switch.
Undoable == \/ sup.pc \in {"snapshot", "mark", "final"}
            \/ sup.job = "switch" /\ sup.pc \in {"start", "record", "health"}

\* Mutant of Undo: the backup is not put back.
UndoKeepsData ==
    /\ sup' = [sup EXCEPT !.pc = "undo_save", !.owns = FALSE]
    /\ be' = IF sup.owns THEN NoBackend ELSE be
    /\ UNCHANGED <<state, lock, dataVars>>

\* The except clause: the new backend is stopped and the backup put back.
Undo ==
    /\ IF backup # NoBackup THEN data' = Torn ELSE UNCHANGED data
    /\ sup' = [sup EXCEPT !.pc = IF backup # NoBackup THEN "undo_restore" ELSE "undo_save",
                          !.owns = FALSE]
    /\ be' = IF sup.owns THEN NoBackend ELSE be
    /\ UNCHANGED <<state, lock, backup, done>>

UndoSave ==
    /\ At("undo_save")
    /\ state' = [state EXCEPT !.active = sup.prev, !.pending = NoRelease,
                              !.transition = NoTransition]
    /\ IF sup.prev # NoRelease THEN Goto("launch") /\ UNCHANGED lock
                               ELSE Loop /\ Unlock
    /\ backup' = NoBackup
    /\ UNCHANGED <<candidates, cliVars, be, data, done, faults>>

\* A release that no longer matches its receipt, or a backend that has died.
Refused ==
    \/ sup.pc \in {"snapshot", "final"} /\ ~Checked(sup.rel)
    \/ sup.pc = "health" /\ be = NoBackend

SwitchFails ==
    /\ Undoable
    /\ \/ Refused /\ UNCHANGED faults
       \/ Fault
    /\ Undo
    /\ UNCHANGED <<candidates, cliVars>>

\* Any other exception ends the supervisor: a launch, a restore, a drain or
\* an acknowledgement that fails.  The backend may have been activated although
\* its answer was lost, but then it is stopped here.
LaunchFails ==
    /\ \/ sup.pc = "activate" /\ be = NoBackend /\ UNCHANGED faults
       \/ sup.pc = "health" /\ sup.job # "switch" /\ be = NoBackend /\ UNCHANGED faults
       \/ sup.pc \in {"restore", "undo_restore", "recover_save", "undo_save", "activate",
                      "finish", "reject", "drain", "lock"} /\ Fault
       \/ sup.pc \in {"start", "record", "health"} /\ sup.job # "switch" /\ Fault
    /\ Quit
    /\ UNCHANGED <<state, candidates, cliVars, dataVars>>

\* The acknowledgement is lost: the backend serves until the supervisor has
\* asked three times and gives up.
AckLost ==
    /\ At("activate") /\ be.mode = "staged"
    /\ be' = [be EXCEPT !.mode = "serving"]
    /\ Fault
    /\ UNCHANGED <<state, candidates, lock, cliVars, sup, dataVars>>

\* Selecting the release fails on the disk: the except clause saves the record
\* once more, which may succeed, and raises.
SelectFails ==
    /\ At("final") /\ Checked(sup.rel)
    /\ Fault
    /\ Admitting \/ UNCHANGED state
    /\ Quit
    /\ UNCHANGED <<candidates, cliVars, dataVars>>

Supervise ==
    \/ Reap \/ Recover \/ Restore \/ RecoverSave \/ Launch \/ Start \/ Record \/ Health
    \/ Activate \/ Apply \/ LockHeld \/ Reject \/ Drain \/ Begin \/ Stop \/ Snapshot
    \/ Mark \/ Select \/ Finish \/ UndoSave \/ SwitchFails \/ LaunchFails

---------------------------------------------------------------------------

Init ==
    /\ state = [active |-> NoRelease, previous |-> NoRelease, pending |-> NoRelease,
                confirmation |-> NoProposal, last |-> NoProposal, transition |-> NoTransition]
    /\ receipt = [r \in Releases |-> [status |-> "none", sha |-> 0]]
    /\ bytes = [r \in Releases |-> 1]
    /\ verifier = [r \in Releases |-> NoVerify]
    /\ lock = "free" /\ cli = NoCall /\ issued = 0
    /\ sup = Down /\ be = NoBackend
    /\ data = [work |-> 0, ran |-> {}] /\ backup = NoBackup /\ done = 0
    /\ faults = 0

User ==
    \/ \E r \in Edited : Edit(r)
    \/ \E r \in Releases : VerifyRead(r) \/ VerifyOpen(r) \/ VerifyClose(r) \/ RequestBegin(r)
    \/ \E id \in 1..issued : ConfirmBegin(id)
    \/ StartTask \/ Close

Next ==
    \/ User \/ CallEnd \/ EndTask \/ Open \/ Supervise
    \/ BackendDies \/ Kill \/ AckLost \/ SelectFails

Spec == Init /\ [][Next]_vars

\* The supervisor runs, a call that holds the lock ends, a task ends (the
\* switch has no deadline for it), and the application is opened again, by the
\* user or by Foundation's restarts.
FairSpec ==
    /\ Spec
    /\ WF_vars(Supervise) /\ WF_vars(Open) /\ WF_vars(CallEnd) /\ WF_vars(EndTask)

---------------------------------------------------------------------------
(* Properties *)

Proposals == [id : 0..MaxProposals, rel : MaybeRelease, sha : 0..MaxVersion]

Transitions == [from : MaybeRelease, to : MaybeRelease,
                phase : {"none", "stopping", "switching", "admitting"}]

States == [active : MaybeRelease, previous : MaybeRelease, pending : MaybeRelease,
           confirmation : Proposals, last : Proposals, transition : Transitions]

Receipts == [status : {"none", "verifying", "verified", "failed"}, sha : 0..MaxVersion]

Calls == [op : {"none", "refuse", "request", "confirm"}, id : 0..MaxProposals,
          rel : MaybeRelease, sha : 0..MaxVersion]

Places == {"down", "reap", "recover", "restore", "recover_save", "launch", "start",
           "record", "health", "activate", "loop", "reject", "drain", "lock", "stop",
           "snapshot", "mark", "final", "finish", "undo_restore", "undo_save"}

Supervisors == [pc : Places, job : {"none", "launch", "switch", "back"}, rel : MaybeRelease,
                prev : MaybeRelease, sha : 0..MaxVersion, owns : BOOLEAN]

Backends == [rel : MaybeRelease, mode : {"none", "staged", "serving", "drained"},
             busy : BOOLEAN, known : BOOLEAN]

Databases == [work : 0..MaxWork, ran : SUBSET MaybeRelease]

TypeOK ==
    /\ state \in States
    /\ receipt \in [Releases -> Receipts]
    /\ bytes \in [Releases -> Versions]
    /\ verifier \in [Releases -> [step : {"none", "read", "work"}, sha : 0..MaxVersion]]
    /\ lock \in {"free", "cli", "sup"}
    /\ cli \in Calls
    /\ issued \in 0..MaxProposals
    /\ sup \in Supervisors
    /\ be \in Backends
    /\ data \in Databases /\ backup \in Databases
    /\ done \in 0..MaxWork
    /\ faults \in 0..MaxFaults

\* The databases the next start will run on: those on the disk, or before
\* admission the backup that recovery is going to put back.
Current == IF BeforeAdmission /\ backup # NoBackup THEN backup ELSE data

\* No task an admitted backend has completed is lost, whatever a switch, its
\* failure or its recovery puts back (elira_release.py:1155).
NoWorkLost == Current.work = done

\* A backend that serves the user is the selected release, and none serves
\* while databases are copied, migrated or put back (elira_release.py:1117).
ServesSelected ==
    be.mode = "serving" => be.rel = state.active /\ ~BeforeAdmission

\* What becomes the selected release is what the user confirmed, byte for byte
\* (docs/RELEASE_LIFECYCLE.md:160).
InstalledAsConfirmed ==
    [][state'.active # state.active /\ state'.transition.phase = "admitting"
       => Approved(state'.active, receipt[state'.active].sha)]_state

\* A process on the port that live.json does not name: killing the supervisor
\* between the two leaves one, and only a person can close it.
Orphan == be # NoBackend /\ ~be.known /\ ~sup.owns

\* A switch that has begun is finished or undone, after any failure.
SwitchEnds ==
    state.transition # NoTransition ~> state.transition = NoTransition \/ Orphan

\* The promise: seen from outside a switch happens at once or not at all.
Switch == INSTANCE ReleaseSwitch WITH
    active <- state.active, approved <- state.pending,
    work <- Current.work, ran <- Current.ran

SwitchAtomic == Switch!Spec

=============================================================================
