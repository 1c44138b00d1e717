------------------------- MODULE ReleaseManagerProofs --------------------------
(*******************************************************************************)
(* The release manager's theorems: the safety of the user's work and the       *)
(* manager's types, for every set of releases and every number of edits,       *)
(* proposals, tasks and faults; that it implements the switch as one step; and *)
(* that it installs what was confirmed.                                        *)
(*******************************************************************************)
EXTENDS ReleaseManager, TLAPS

-------------------------------------------------------------------------------
(***************************************************************************)
(* The manager alone: its types and the safety of the user's work.         *)
(***************************************************************************)

USE ReleaseAssumption, BoundAssumption

\* A task that runs was started below the bound, and no copy of the databases
\* holds more tasks than were completed.
Counted ==
    /\ data.work <= done /\ backup.work <= done
    /\ be.busy => done < MaxWork

TypeInv == TypeOK /\ Counted

(***************************************************************************)
(* The values the steps build out of typed ones.                           *)
(***************************************************************************)
LEMMA SupTyped ==
  /\ Down \in Supervisors
  /\ \A s \in Supervisors, p \in Places : [s EXCEPT !.pc = p] \in Supervisors
  /\ \A o \in BOOLEAN : [Down EXCEPT !.pc = "loop", !.owns = o] \in Supervisors
  /\ \A s \in Supervisors : s.pc \in Places /\ s.owns \in BOOLEAN /\ s.rel \in MaybeRelease
                            /\ s.prev \in MaybeRelease /\ s.sha \in 0..MaxVersion
<1>1. NoRelease \in MaybeRelease /\ 0 \in 0..MaxVersion
  BY DEF MaybeRelease
<1>2. "down" \in Places /\ "loop" \in Places
  BY DEF Places
<1>3. QED BY <1>1, <1>2 DEF Down, Supervisors

LEMMA BeTyped ==
  /\ NoBackend \in Backends
  /\ \A b \in Backends, m \in {"none", "staged", "serving", "drained"} :
        [b EXCEPT !.mode = m] \in Backends
  /\ \A b \in Backends, v \in BOOLEAN :
        [b EXCEPT !.busy = v] \in Backends /\ [b EXCEPT !.known = v] \in Backends
  /\ \A r \in MaybeRelease : [NoBackend EXCEPT !.rel = r, !.mode = "staged"] \in Backends
  /\ ~NoBackend.busy
<1>1. NoRelease \in MaybeRelease
  BY DEF MaybeRelease
<1>2. QED BY <1>1 DEF NoBackend, Backends

LEMMA StateTyped ==
  ASSUME NEW s \in States
  PROVE  /\ s.active \in MaybeRelease /\ s.pending \in MaybeRelease
         /\ s.transition \in Transitions /\ s.transition.from \in MaybeRelease
         /\ s.confirmation \in Proposals
         /\ NoTransition \in Transitions /\ NoProposal \in Proposals
         /\ NoRelease \in MaybeRelease
         /\ \A r \in MaybeRelease : [s EXCEPT !.pending = r] \in States
         /\ \A t \in Transitions : [s EXCEPT !.transition = t] \in States
         /\ \A r \in MaybeRelease, t \in Transitions :
               [s EXCEPT !.active = r, !.pending = NoRelease, !.transition = t] \in States
         /\ \A p \in {"none", "stopping", "switching", "admitting"} :
               [s EXCEPT !.transition.phase = p] \in States
<1>1. NoRelease \in MaybeRelease /\ 0 \in 0..MaxProposals /\ 0 \in 0..MaxVersion
  BY DEF MaybeRelease
<1>2. NoTransition \in Transitions /\ NoProposal \in Proposals
  BY <1>1 DEF NoTransition, NoProposal, Transitions, Proposals
<1>3. \A t \in Transitions, p \in {"none", "stopping", "switching", "admitting"} :
        [t EXCEPT !.phase = p] \in Transitions
  BY DEF Transitions
<1>4. s.transition \in Transitions /\ s.confirmation \in Proposals
      /\ s.active \in MaybeRelease /\ s.pending \in MaybeRelease
  BY DEF States
<1>5. s.transition.from \in MaybeRelease
  BY <1>4 DEF Transitions
<1>6. /\ \A r \in MaybeRelease : [s EXCEPT !.pending = r] \in States
      /\ \A t \in Transitions : [s EXCEPT !.transition = t] \in States
      /\ \A r \in MaybeRelease, t \in Transitions :
            [s EXCEPT !.active = r, !.pending = NoRelease, !.transition = t] \in States
  BY <1>1 DEF States
<1>7. \A p \in {"none", "stopping", "switching", "admitting"} :
        [s EXCEPT !.transition.phase = p] \in States
  BY <1>3, <1>4 DEF States
<1>8. QED BY <1>1, <1>2, <1>4, <1>5, <1>6, <1>7

LEMMA DataTyped ==
  /\ Torn \in Databases /\ NoBackup \in Databases
  /\ Torn.work = 0 /\ NoBackup.work = 0
  /\ \A d \in Databases : d.work \in 0..MaxWork /\ d.ran \in SUBSET MaybeRelease
  /\ \A d \in Databases, w \in 0..MaxWork :
        [d EXCEPT !.work = w] \in Databases /\ [d EXCEPT !.work = w].work = w
  /\ \A d \in Databases, r \in MaybeRelease :
        /\ [d EXCEPT !.ran = d.ran \cup {r}] \in Databases
        /\ [d EXCEPT !.ran = d.ran \cup {r}].work = d.work
<1>1. NoRelease \in MaybeRelease
  BY DEF MaybeRelease
<1>2. QED BY <1>1 DEF Torn, NoBackup, Databases

(***************************************************************************)
(* What each group of actions leaves in place.                             *)
(***************************************************************************)
\* TypeInv, as the steps below use it.
LEMMA Known ==
  ASSUME TypeInv
  PROVE  /\ state \in States /\ sup \in Supervisors /\ be \in Backends
         /\ lock \in {"free", "cli", "sup"}
         /\ data \in Databases /\ backup \in Databases
         /\ data.work <= done /\ backup.work <= done /\ 0 <= done
         /\ faults \in 0..MaxFaults
  BY DEF TypeInv, TypeOK, Counted

LEMMA GotoTyped ==
  ASSUME TypeInv, NEW p \in Places, Goto(p)
  PROVE  sup' \in Supervisors
  BY Known, SupTyped DEF Goto

LEMMA LoopTyped ==
  ASSUME TypeInv, Loop
  PROVE  sup' \in Supervisors
  BY Known, SupTyped DEF Loop

LEMMA ModeTyped ==
  ASSUME TypeInv, NEW m \in {"none", "staged", "serving", "drained"},
         be' = [be EXCEPT !.mode = m]
  PROVE  be' \in Backends /\ be'.busy = be.busy
<1>1. be \in Backends
  BY Known
<1>2. QED BY <1>1 DEF Backends

LEMMA FaultTyped ==
  ASSUME TypeInv, Fault
  PROVE  faults' \in 0..MaxFaults
  BY Known DEF Fault

LEMMA UnlockTyped ==
  ASSUME TypeInv, Unlock
  PROVE  lock' \in {"free", "cli", "sup"}
  BY Known DEF Unlock

\* A step of the supervisor, or one that only it is asked about: typed values,
\* and no task beyond those that were done.
Moved ==
    /\ state' \in States
    /\ lock' \in {"free", "cli", "sup"}
    /\ sup' \in Supervisors
    /\ be' \in Backends /\ (be'.busy => be.busy)
    /\ data' \in Databases /\ data'.work <= done
    /\ backup' \in Databases /\ backup'.work <= done
    /\ done' = done
    /\ faults' \in 0..MaxFaults
    /\ UNCHANGED <<candidates, cliVars>>

LEMMA MovedType ==
  ASSUME TypeInv, Moved
  PROVE  TypeInv'
  BY DEF TypeInv, TypeOK, Counted, Moved, candidates, cliVars

LEMMA QuitTyped ==
  ASSUME TypeInv, Quit
  PROVE  sup' \in Supervisors /\ be' \in Backends /\ lock' \in {"free", "cli", "sup"}
         /\ (be'.busy => be.busy)
<1>1. be \in Backends /\ lock \in {"free", "cli", "sup"}
  BY DEF TypeInv, TypeOK
<1>2. sup' \in Supervisors /\ lock' \in {"free", "cli", "sup"}
  BY <1>1, SupTyped DEF Quit, Unlock
<1>3. be' = be \/ be' = NoBackend
  BY DEF Quit
<1>4. QED BY <1>1, <1>2, <1>3, BeTyped

\* The supervisor's variables after the steps that set several of them.
LEMMA LaunchSup ==
  ASSUME TypeInv, NEW j \in {"none", "launch", "switch", "back"}, NEW r \in MaybeRelease
  PROVE  [sup EXCEPT !.pc = "start", !.rel = r, !.job = j] \in Supervisors
<1>1. sup \in Supervisors /\ "start" \in Places
  BY Known DEF Places
<1>2. QED BY <1>1 DEF Supervisors

LEMMA StartSup ==
  ASSUME TypeInv
  PROVE  [sup EXCEPT !.pc = "record", !.owns = TRUE] \in Supervisors
<1>1. sup \in Supervisors /\ "record" \in Places
  BY Known DEF Places
<1>2. QED BY <1>1 DEF Supervisors

LEMMA ApplySup ==
  ASSUME TypeInv, state.pending # NoRelease, NEW p \in {"drain", "reject"}
  PROVE  [sup EXCEPT !.rel = state.pending, !.sha = receipt[state.pending].sha, !.pc = p]
           \in Supervisors
<1>1. sup \in Supervisors /\ p \in Places /\ state.pending \in Releases
  BY Known, StateTyped DEF Places, MaybeRelease
<1>2. receipt[state.pending].sha \in 0..MaxVersion
  BY <1>1 DEF TypeInv, TypeOK, Receipts
<1>3. state.pending \in MaybeRelease
  BY <1>1 DEF MaybeRelease
<1>4. QED BY <1>1, <1>2, <1>3 DEF Supervisors

LEMMA BeginSup ==
  ASSUME TypeInv
  PROVE  /\ [sup EXCEPT !.pc = "stop", !.prev = state.active, !.job = "switch"] \in Supervisors
         /\ [from |-> state.active, to |-> sup.rel, phase |-> "stopping"] \in Transitions
<1>1. sup \in Supervisors /\ "stop" \in Places /\ state.active \in MaybeRelease
  BY Known, StateTyped DEF Places
<1>2. QED BY <1>1 DEF Supervisors, Transitions

LEMMA StopSup ==
  ASSUME TypeInv, NEW p \in {"snapshot", "undo_restore", "undo_save"}
  PROVE  [sup EXCEPT !.pc = p, !.owns = FALSE] \in Supervisors
<1>1. sup \in Supervisors /\ p \in Places
  BY Known DEF Places
<1>2. QED BY <1>1 DEF Supervisors

LEMMA AdmittingTyped ==
  ASSUME TypeInv, Admitting
  PROVE  state' \in States
<1>1. state \in States /\ sup.rel \in MaybeRelease /\ sup.prev \in MaybeRelease
  BY Known, SupTyped
<1>2. NoRelease \in MaybeRelease
  BY DEF MaybeRelease
<1>3. \A t \in Transitions : [t EXCEPT !.phase = "admitting"] \in Transitions
  BY DEF Transitions
<1>4. QED BY <1>1, <1>2, <1>3 DEF Admitting, States

LEMMA UserType ==
  ASSUME TypeInv, User
  PROVE  TypeInv'
<1> USE DEF TypeInv, TypeOK, Counted, candidates, cliVars, dataVars
<1>1. CASE \E r \in Edited : Edit(r)
  BY <1>1 DEF Edit, Versions
<1>2. CASE \E r \in Releases : VerifyRead(r)
  BY <1>2 DEF VerifyRead
<1>3. CASE \E r \in Releases : VerifyOpen(r)
  <2> PICK r \in Releases : VerifyOpen(r)
    BY <1>3
  <2>1. bytes[r] \in 0..MaxVersion
    BY DEF Versions
  <2>2. receipt' \in [Releases -> Receipts]
    BY DEF VerifyOpen, Receipts
  <2>3. [step |-> "work", sha |-> bytes[r]] \in [step : {"none", "read", "work"}, sha : 0..MaxVersion]
    BY <2>1
  <2>4. verifier' \in [Releases -> [step : {"none", "read", "work"}, sha : 0..MaxVersion]]
    BY <2>3 DEF VerifyOpen
  <2>5. QED BY <2>2, <2>4 DEF VerifyOpen
<1>4. CASE \E r \in Releases : VerifyClose(r)
  <2> PICK r \in Releases : VerifyClose(r)
    BY <1>4
  <2>1. verifier' \in [Releases -> [step : {"none", "read", "work"}, sha : 0..MaxVersion]]
    BY DEF VerifyClose, NoVerify
  <2>2. \A v \in Versions : [status |-> "verified", sha |-> v] \in Receipts
    BY DEF Receipts, Versions
  <2>3. [status |-> "failed", sha |-> 0] \in Receipts
    BY DEF Receipts
  <2>4. bytes' \in [Releases -> Versions] /\ receipt' \in [Releases -> Receipts]
    <3>1. PICK v \in Versions, c \in Receipts :
            bytes' = [bytes EXCEPT ![r] = v] /\ receipt' = [receipt EXCEPT ![r] = c]
      <4>1. bytes[r] \in Versions /\ bytes = [bytes EXCEPT ![r] = bytes[r]]
        OBVIOUS
      <4>2. CASE UNCHANGED bytes /\ receipt' = [receipt EXCEPT ![r] = [status |-> "failed", sha |-> 0]]
        BY <4>1, <4>2, <2>3
      <4>3. CASE \E built \in IF r \in Edited THEN Versions ELSE {bytes[r]} :
                   /\ bytes' = [bytes EXCEPT ![r] = built]
                   /\ receipt' = [receipt EXCEPT ![r] = [status |-> "verified", sha |-> built]]
        BY <4>1, <4>3, <2>2
      <4>4. QED BY <4>2, <4>3 DEF VerifyClose
    <3>2. QED BY <3>1
  <2>5. QED BY <2>1, <2>4 DEF VerifyClose
<1>5. CASE \E r \in Releases : RequestBegin(r)
  <2> PICK r \in Releases : RequestBegin(r)
    BY <1>5
  <2>1. r \in MaybeRelease /\ NoRelease \in MaybeRelease
    BY DEF MaybeRelease
  <2>2. receipt[r].sha \in 0..MaxVersion
    BY DEF Receipts
  <2>3. issued < MaxProposals => issued + 1 \in 0..MaxProposals
    OBVIOUS
  <2>4. Refusal \in Calls
    BY <2>1 DEF Refusal, NoCall, Calls
  <2>5. \A i \in 0..MaxProposals :
          [op |-> "request", id |-> i, rel |-> r, sha |-> receipt[r].sha] \in Calls
    BY <2>1, <2>2 DEF Calls
  <2>6. cli' \in Calls /\ lock' = "cli"
    BY <2>3, <2>4, <2>5 DEF RequestBegin
  <2>7. QED BY <2>6 DEF RequestBegin
<1>6. CASE \E id \in 1..issued : ConfirmBegin(id)
  <2> PICK id \in 1..issued : ConfirmBegin(id)
    BY <1>6
  <2>0. state.confirmation \in Proposals
    BY StateTyped, Known
  <2>1. state.confirmation \in Proposals /\ id \in 0..MaxProposals
    BY <2>0 DEF TypeInv, TypeOK
  <2>2. Refusal \in Calls
    BY DEF Refusal, NoCall, Calls, MaybeRelease
  <2>3. [op |-> "confirm", id |-> id, rel |-> state.confirmation.rel,
         sha |-> state.confirmation.sha] \in Calls
    BY <2>1 DEF Proposals, Calls
  <2>4. cli' \in Calls /\ lock' = "cli"
    BY <2>2, <2>3 DEF ConfirmBegin
  <2>5. QED BY <2>4 DEF ConfirmBegin
<1>7. CASE StartTask
  BY <1>7, BeTyped DEF StartTask
<1>8. CASE Close
  BY <1>8, QuitTyped DEF Close
<1>9. QED BY <1>1, <1>2, <1>3, <1>4, <1>5, <1>6, <1>7, <1>8 DEF User

LEMMA CallType ==
  ASSUME TypeInv, CallEnd
  PROVE  TypeInv'
<1>1. NoCall \in Calls
  BY DEF NoCall, Calls, MaybeRelease
<1> USE <1>1 DEF TypeInv, TypeOK, Counted, candidates, cliVars, dataVars, CallEnd
<1>2. state \in States /\ cli.id \in 0..MaxProposals
      /\ [id |-> cli.id, rel |-> cli.rel, sha |-> cli.sha] \in Proposals
      /\ NoProposal \in Proposals /\ NoRelease \in MaybeRelease /\ cli.rel \in MaybeRelease
  BY StateTyped DEF Calls, Proposals
<1>3. CASE RequestEnd
  <2>1. state' \in States
    BY <1>2, <1>3 DEF RequestEnd, States
  <2>2. QED BY <1>2, <1>3, <2>1 DEF RequestEnd
<1>4. CASE ConfirmEnd
  <2>1. state' \in States
    BY <1>2, <1>4 DEF ConfirmEnd, States
  <2>2. QED BY <1>4, <2>1 DEF ConfirmEnd
<1>5. CASE CallFails
  BY <1>5 DEF CallFails
<1>6. QED BY <1>3, <1>4, <1>5

\* Tasks, the outside world and the faults.
LEMMA WorldType ==
  ASSUME TypeInv, EndTask \/ Open \/ BackendDies \/ Kill \/ AckLost \/ SelectFails
  PROVE  TypeInv'
<1>1. CASE EndTask
  <2>1. done \in 0..MaxWork /\ done < MaxWork /\ done' = done + 1
    BY <1>1 DEF EndTask, TypeInv, TypeOK, Counted
  <2>2. be' \in Backends /\ ~be'.busy
    BY <1>1, Known DEF EndTask, Backends
  <2>3. data.work + 1 \in 0..MaxWork /\ data.work + 1 <= done'
    BY <2>1, Known, DataTyped
  <2>4. data' \in Databases /\ data'.work = data.work + 1
    BY <1>1, <2>3, Known, DataTyped DEF EndTask
  <2>5. backup.work <= done'
    BY <2>1, Known, DataTyped
  <2>6. QED BY <1>1, <2>1, <2>2, <2>3, <2>4, <2>5
            DEF EndTask, TypeInv, TypeOK, Counted, candidates, cliVars
<1>2. CASE Open
  BY <1>2, Known, MovedType, GotoTyped DEF Open, Moved, dataVars, Places
<1>3. CASE BackendDies
  BY <1>3, Known, MovedType, BeTyped, FaultTyped
     DEF BackendDies, Moved, dataVars
<1>4. CASE Kill
  BY <1>4, Known, MovedType, SupTyped, FaultTyped, UnlockTyped
     DEF Kill, Moved, dataVars
<1>5. CASE AckLost
  BY <1>5, Known, MovedType, ModeTyped, FaultTyped
     DEF AckLost, Moved, dataVars
<1>6. CASE SelectFails
  BY <1>6, Known, MovedType, AdmittingTyped, QuitTyped, FaultTyped
     DEF SelectFails, Moved, dataVars
<1>7. QED BY <1>1, <1>2, <1>3, <1>4, <1>5, <1>6

\* Starting: recovery and the launch of a release.
LEMMA LaunchType ==
  ASSUME TypeInv,
         Reap \/ Recover \/ Restore \/ RecoverSave \/ Launch \/ Start \/ Record \/ Health
         \/ Activate \/ LaunchFails
  PROVE  TypeInv'
<1>1. CASE Reap
  BY <1>1, Known, MovedType, GotoTyped, ModeTyped, BeTyped, SupTyped
     DEF Reap, Moved, dataVars, Places
<1>2. CASE Recover
  BY <1>2, Known, MovedType, GotoTyped, DataTyped
     DEF Recover, Moved, dataVars, Places
<1>3. CASE Restore
  BY <1>3, Known, MovedType, GotoTyped
     DEF Restore, Moved, dataVars, Places
<1>4. CASE RecoverSave
  BY <1>4, Known, MovedType, GotoTyped, StateTyped, DataTyped
     DEF RecoverSave, Moved, dataVars, Places
<1>5. CASE Launch
  <2>1. sup' \in Supervisors /\ be' \in Backends /\ (be'.busy => be.busy)
        /\ lock' \in {"free", "cli", "sup"}
    <3>1. CASE Quit
      BY <3>1, QuitTyped
    <3>2. CASE Loop /\ UNCHANGED <<be, lock>>
      BY <3>2, Known, LoopTyped
    <3>3. CASE state.active # NoRelease /\ Checked(state.active)
      <4> DEFINE j == IF sup.job = "switch" THEN "back" ELSE "launch"
      <4>1. sup' = [sup EXCEPT !.pc = "start", !.rel = state.active, !.job = j]
            /\ UNCHANGED <<be, lock>>
        BY <1>5, <3>3 DEF Launch
      <4>2. state.active \in MaybeRelease /\ j \in {"none", "launch", "switch", "back"}
        BY Known, StateTyped
      <4> HIDE DEF j
      <4>3. sup' \in Supervisors
        BY <4>1, <4>2, LaunchSup
      <4>4. QED BY <4>1, <4>3, Known
    <3>4. QED BY <1>5, <3>1, <3>2, <3>3 DEF Launch
  <2>2. QED BY <1>5, <2>1, Known, MovedType DEF Launch, Moved, dataVars
<1>6. CASE Start
  <2>1. sup.rel \in MaybeRelease
    BY Known, SupTyped
  <2>2. be' \in Backends /\ ~be'.busy
    BY <1>6, <2>1 DEF Start, Backends, NoBackend
  <2>3. data' \in Databases /\ data'.work = data.work
    BY <1>6, <2>1, Known, DataTyped DEF Start
  <2>4. QED BY <1>6, <2>2, <2>3, Known, MovedType, StartSup DEF Start, Moved, dataVars
<1>7. CASE Record
  <2>1. be' \in Backends /\ be'.busy = be.busy
    BY <1>7, Known DEF Record, Backends
  <2>2. sup' \in Supervisors
    BY <1>7, GotoTyped DEF Record, Places
  <2>3. QED BY <1>7, <2>1, <2>2, Known, MovedType DEF Record, Moved, dataVars
<1>8. CASE Health
  BY <1>8, Known, MovedType, GotoTyped
     DEF Health, Moved, dataVars, Places
<1>9. CASE Activate
  BY <1>9, Known, MovedType, GotoTyped, LoopTyped, QuitTyped, ModeTyped, UnlockTyped
     DEF Activate, Moved, dataVars, Places
<1>10. CASE LaunchFails
  BY <1>10, Known, MovedType, QuitTyped, FaultTyped
     DEF LaunchFails, Moved, dataVars
<1>11. QED BY <1>1, <1>2, <1>3, <1>4, <1>5, <1>6, <1>7, <1>8, <1>9, <1>10

\* Switching: the drain, the steps under the lock and their undoing.
LEMMA SwitchType ==
  ASSUME TypeInv,
         Apply \/ LockHeld \/ Reject \/ Drain \/ Begin \/ Stop \/ Snapshot \/ Mark \/ Select
         \/ Finish \/ UndoSave \/ SwitchFails
  PROVE  TypeInv'
<1>1. CASE Apply
  BY <1>1, Known, MovedType, ApplySup
     DEF Apply, Moved, dataVars
<1>2. CASE LockHeld
  BY <1>2, Known, MovedType, QuitTyped
     DEF LockHeld, Moved, dataVars
<1>3. CASE Reject
  BY <1>3, Known, MovedType, LoopTyped, StateTyped
     DEF Reject, Moved, dataVars
<1>4. CASE Drain
  BY <1>4, Known, MovedType, GotoTyped, LoopTyped, QuitTyped, ModeTyped
     DEF Drain, Moved, dataVars, Places
<1>5. CASE Begin
  <2>1. CASE state.pending # sup.rel
    <3>1. be' \in Backends /\ (be'.busy => be.busy)
      BY <1>5, <2>1, Known, ModeTyped DEF Begin
    <3>2. QED BY <1>5, <2>1, <3>1, Known, MovedType, LoopTyped DEF Begin, Moved, dataVars
  <2>2. CASE state.pending = sup.rel /\ ~Approved(sup.rel, sup.sha)
    BY <1>5, <2>2, Known, MovedType, QuitTyped DEF Begin, Moved, dataVars
  <2>3. CASE state.pending = sup.rel /\ Approved(sup.rel, sup.sha)
    <3>1. state' \in States
      <4> DEFINE t == [from |-> state.active, to |-> sup.rel, phase |-> "stopping"]
      <4>1. state' = [state EXCEPT !.transition = t]
        BY <1>5, <2>3 DEF Begin
      <4>2. t \in Transitions
        BY BeginSup
      <4> HIDE DEF t
      <4>3. QED BY <4>1, <4>2, Known, StateTyped
    <3>2. sup' \in Supervisors
      BY <1>5, <2>3, BeginSup DEF Begin
    <3>3. QED BY <1>5, <2>3, <3>1, <3>2, Known, MovedType, DataTyped DEF Begin, Moved, dataVars
  <2>4. QED BY <2>1, <2>2, <2>3
<1>6. CASE Stop
  BY <1>6, Known, MovedType, BeTyped, StopSup
     DEF Stop, Moved, dataVars
<1>7. CASE Snapshot
  BY <1>7, Known, MovedType, GotoTyped
     DEF Snapshot, Moved, dataVars, Places
<1>8. CASE Mark
  BY <1>8, Known, MovedType, GotoTyped, StateTyped
     DEF Mark, Moved, dataVars, Places
<1>9. CASE Select
  BY <1>9, Known, MovedType, GotoTyped, AdmittingTyped
     DEF Select, Moved, dataVars, Places
<1>10. CASE Finish
  BY <1>10, Known, MovedType, LoopTyped, UnlockTyped, StateTyped, DataTyped
     DEF Finish, Moved, dataVars
<1>11. CASE UndoSave
  BY <1>11, Known, MovedType, LoopTyped, GotoTyped, UnlockTyped, StateTyped, SupTyped, DataTyped
     DEF UndoSave, Moved, dataVars, Places
<1>12. CASE SwitchFails
  BY <1>12, Known, MovedType, StopSup, BeTyped, DataTyped, FaultTyped
     DEF SwitchFails, Moved, dataVars, Undo
<1>13. QED BY <1>1, <1>2, <1>3, <1>4, <1>5, <1>6, <1>7, <1>8, <1>9, <1>10, <1>11, <1>12

LEMMA InitType == Init => TypeInv
<1> SUFFICES ASSUME Init PROVE TypeInv
  OBVIOUS
<1>1. NoRelease \in MaybeRelease
  BY DEF MaybeRelease
<1>2. NoProposal \in Proposals /\ NoTransition \in Transitions /\ NoCall \in Calls
  BY <1>1 DEF NoProposal, NoTransition, NoCall, Proposals, Transitions, Calls
<1>3. state \in States
  BY <1>1, <1>2 DEF Init, States
<1>4. receipt \in [Releases -> Receipts] /\ bytes \in [Releases -> Versions]
  BY DEF Init, Receipts, Versions
<1>5. data \in Databases /\ data.work = 0
  BY DEF Init, Databases
<1>6. sup \in Supervisors /\ be \in Backends /\ ~be.busy
  BY SupTyped, BeTyped DEF Init
<1>7. backup \in Databases /\ backup.work = 0
  BY DataTyped DEF Init
<1>8. TypeOK
  BY <1>2, <1>3, <1>4, <1>5, <1>6, <1>7 DEF Init, TypeOK, NoVerify
<1>9. QED BY <1>5, <1>6, <1>7, <1>8 DEF Init, TypeInv, Counted

LEMMA NextType ==
  ASSUME TypeInv, [Next]_vars
  PROVE  TypeInv'
<1>1. CASE UNCHANGED vars
  BY <1>1 DEF vars, TypeInv, TypeOK, Counted
<1>2. CASE Next
  BY <1>2, UserType, CallType, WorldType, LaunchType, SwitchType DEF Next, Supervise
<1>3. QED BY <1>1, <1>2

(***************************************************************************)
(* Every state of every behaviour is well typed (the state and record      *)
(* files of scripts/elira_release.py and the supervisor's variables).      *)
(***************************************************************************)
THEOREM TypeCorrect == Spec => []TypeOK
<1>1. Init => TypeInv
  BY InitType
<1>2. TypeInv /\ [Next]_vars => TypeInv'
  BY NextType
<1>3. TypeInv => TypeOK
  BY DEF TypeInv
<1>4. QED BY <1>1, <1>2, <1>3, PTL DEF Spec

-------------------------------------------------------------------------------
(***************************************************************************)
(* The switch as one step: ReleaseManager implements ReleaseSwitch, for    *)
(* every set of releases and every number of edits, proposals, tasks and   *)
(* faults, provided a staged backend never answers "drain" with busy.      *)
(***************************************************************************)

---------------------------------------------------------------------------
(* The inductive invariant *)

\* The places of a switch before the new release is started, while it is tried,
\* and after it has failed; and those after it has been selected.
Early == sup.pc \in {"stop", "snapshot", "mark"}
Trial == sup.pc = "final" \/ (sup.pc \in {"start", "record", "health"} /\ sup.job = "switch")
Undoing == sup.pc \in {"undo_restore", "undo_save"}
Admitted == sup.pc = "finish" \/ (sup.pc = "activate" /\ sup.job = "switch")

\* The places of a launch, of the selected release or of one brought back.
Launching == sup.pc \in {"start", "record", "health", "activate"}

\* state.lock: a switch holds it to its end, and a call that has passed its
\* tests under it found no installation pending.
LockInv ==
    /\ cli.op # "none" <=> lock = "cli"
    /\ Early \/ Trial \/ Undoing \/ Admitted \/ sup.job \in {"switch", "back"} => lock = "sup"
    /\ cli.op \in {"request", "confirm"} => cli.rel \in Releases /\ state.pending = NoRelease
    /\ state.confirmation # NoProposal =>
         state.confirmation.rel \in Releases /\ state.pending = NoRelease

\* The backend, whoever has started it.
ServerInv ==
    /\ ServesSelected
    /\ be.busy => be.mode = "serving"
    /\ be = NoBackend \/ (be.rel \in Releases /\ be.mode # "none")

\* The backend, as the supervisor knows it from its place.
BackendInv ==
    /\ sup.pc \in {"recover", "restore", "recover_save", "launch", "start", "snapshot", "mark",
                   "undo_restore", "undo_save"} => be = NoBackend /\ ~sup.owns
    /\ sup.pc \in {"down", "reap"} => ~sup.owns
    /\ sup.pc \in {"record", "health", "activate", "final", "finish"} =>
         sup.owns /\ (be = NoBackend \/ be.rel = sup.rel)
    /\ sup.pc \in {"loop", "reject", "drain", "lock", "stop"} =>
         be = NoBackend \/ (sup.owns /\ be.rel = state.active)
    /\ sup.pc \in {"record", "health", "final", "lock", "stop"} => be.mode # "serving"

\* What state.json says at each place.
PhaseInv ==
    /\ BeforeAdmission => state.transition.from = state.active
    /\ sup.pc \in {"loop", "reject", "drain", "lock", "launch"} => ~BeforeAdmission
    /\ Launching \/ sup.pc \in {"reject", "drain", "lock"} => sup.rel \in Releases
    /\ Launching /\ sup.job # "switch" => ~BeforeAdmission /\ sup.rel = state.active
    /\ Early \/ Trial => sup.rel \in Releases /\ sup.rel = state.pending
    /\ Early \/ Trial \/ Undoing =>
         sup.prev = state.active /\ sup.job = "switch" /\ BeforeAdmission
    /\ Admitted => ~BeforeAdmission /\ sup.rel = state.active

\* The backup, and how the databases differ from it.
CopyInv ==
    /\ sup.pc \in {"stop", "snapshot"} => backup = NoBackup
    /\ sup.pc = "mark" \/ (Trial /\ sup.pc = "start") => data = backup
    /\ Trial => backup # NoBackup
    /\ Trial /\ sup.pc # "start" =>
         data.work = backup.work /\ data.ran = backup.ran \cup {sup.rel}
    /\ sup.pc \in {"restore", "undo_restore"} => BeforeAdmission /\ backup # NoBackup
    /\ sup.pc \in {"recover_save", "undo_save"} /\ BeforeAdmission /\ backup # NoBackup
         => data = backup

DataInv ==
    /\ NoWorkLost
    /\ state.active # NoRelease => state.active \in Current.ran
    /\ NoRelease \notin data.ran
    /\ backup = NoBackup \/ NoRelease \notin backup.ran

Safe == LockInv /\ ServerInv /\ BackendInv /\ PhaseInv /\ CopyInv /\ DataInv

\* The types the steps rely on.
Typed ==
    /\ state \in States /\ sup \in Supervisors /\ be \in Backends /\ cli \in Calls
    /\ data \in Databases /\ backup \in Databases
    /\ lock \in {"free", "cli", "sup"} /\ done \in Nat

LEMMA TypeGives == TypeInv => Typed
  BY DEF TypeInv, TypeOK, Typed

(***************************************************************************)
(* The supervisor is gone, killed or by an exception.                      *)
(***************************************************************************)
Leave ==
    /\ sup' = Down
    /\ be' \in {be, NoBackend}
    /\ Unlock
    /\ UNCHANGED <<state, cli, data, backup, done>>

LEMMA LeaveSafe ==
  ASSUME Typed, Safe, Leave
  PROVE  Safe'
<1> USE DEF Typed, Safe, Leave, Down
<1>1. LockInv'
  BY DEF LockInv, Unlock, Early, Trial, Undoing, Admitted
<1>2. ServerInv'
  BY DEF ServerInv, ServesSelected, BeforeAdmission, NoBackend
<1>3. BackendInv' /\ PhaseInv' /\ CopyInv'
  BY DEF BackendInv, PhaseInv, CopyInv, BeforeAdmission, Launching, Early, Trial, Undoing, Admitted
<1>4. DataInv'
  BY DEF DataInv, NoWorkLost, Current, BeforeAdmission
<1>5. QED BY <1>1, <1>2, <1>3, <1>4

\* An exception, or the end of the loop.
LEMMA QuitSafe ==
  ASSUME Typed, Safe, Quit, UNCHANGED <<state, cli, data, backup, done>>
  PROVE  Safe'
  BY LeaveSafe DEF Quit, Leave

\* Back in the loop, with a backend of the selected release or none at all.
LEMMA LoopSafe ==
  ASSUME Typed, Safe, Loop, lock' = lock \/ Unlock, ~BeforeAdmission,
         \/ be' = NoBackend
         \/ /\ sup.owns /\ be'.rel = state.active /\ be'.rel \in Releases
            /\ be'.mode # "none" /\ (be'.busy => be'.mode = "serving"),
         UNCHANGED <<state, cli, data, backup, done>>
  PROVE  Safe'
<1> USE DEF Typed, Safe
<1>1. sup'.pc = "loop" /\ sup'.job = "none" /\ sup'.owns = sup.owns
  BY DEF Loop, Down, Supervisors
<1>2. LockInv'
  BY <1>1 DEF LockInv, Unlock, Early, Trial, Undoing, Admitted
<1>3. ServerInv' /\ BackendInv'
  BY <1>1 DEF ServerInv, BackendInv, ServesSelected, BeforeAdmission, NoBackend
<1>4. PhaseInv' /\ CopyInv'
  BY <1>1 DEF PhaseInv, CopyInv, BeforeAdmission, Launching, Early, Trial, Undoing, Admitted
<1>5. DataInv'
  BY DEF DataInv, NoWorkLost, Current, BeforeAdmission
<1>6. QED BY <1>2, <1>3, <1>4, <1>5

(***************************************************************************)
(* The user, the command line and the backend.                             *)
(***************************************************************************)
LEMMA StillSafe ==
  ASSUME Safe, UNCHANGED <<state, lock, cli, sup, be, data, backup, done>>
  PROVE  Safe'
  BY DEF Safe, LockInv, ServerInv, ServesSelected, BackendInv, PhaseInv, CopyInv, DataInv,
         NoWorkLost, Current, BeforeAdmission, Launching, Early, Trial, Undoing, Admitted

\* The lock changes hands between the command line and nobody.
LEMMA CallSafe ==
  ASSUME Typed, Safe,
         (\E r \in Releases : RequestBegin(r)) \/ (\E id \in Nat : ConfirmBegin(id)) \/ CallEnd
  PROVE  Safe'
<1> USE DEF Typed, Safe
<1>1. UNCHANGED <<sup, be, data, backup, done>>
  BY DEF RequestBegin, ConfirmBegin, CallEnd, dataVars
<1>2. state'.active = state.active /\ state'.transition = state.transition
  BY DEF RequestBegin, ConfirmBegin, CallEnd, RequestEnd, ConfirmEnd, CallFails, States
<1>3. LockInv'
  <2> USE DEF LockInv, NoProposal, NoCall, Refusal
  <2>1. CASE \E r \in Releases : RequestBegin(r)
    BY <2>1 DEF RequestBegin, Early, Trial, Undoing, Admitted
  <2>2. CASE \E id \in Nat : ConfirmBegin(id)
    BY <2>2 DEF ConfirmBegin, Early, Trial, Undoing, Admitted
  <2>3. CASE CallEnd
    <3>1. lock = "cli" /\ lock' = "free" /\ cli'.op = "none"
      BY <2>3 DEF CallEnd, RequestEnd, ConfirmEnd, CallFails
    <3>2. state'.confirmation = NoProposal \/ (state'.confirmation.rel \in Releases
                                               /\ state'.pending = NoRelease)
      <4>1. CASE RequestEnd
        BY <4>1 DEF RequestEnd, States
      <4>2. CASE ConfirmEnd
        BY <4>2 DEF ConfirmEnd, States
      <4>3. CASE CallFails
        BY <4>3 DEF CallFails
      <4>4. QED BY <2>3, <4>1, <4>2, <4>3 DEF CallEnd
    <3>3. QED BY <1>1, <3>1, <3>2 DEF Early, Trial, Undoing, Admitted
  <2>4. QED BY <2>1, <2>2, <2>3
<1>4. PhaseInv'
  <2>1. Early \/ Trial => state'.pending = state.pending
    BY DEF LockInv, RequestBegin, ConfirmBegin, CallEnd, RequestEnd, ConfirmEnd, CallFails
  <2>2. QED BY <1>1, <1>2, <2>1
            DEF PhaseInv, BeforeAdmission, Launching, Early, Trial, Undoing, Admitted
<1>5. ServerInv' /\ BackendInv'
  BY <1>1, <1>2 DEF ServerInv, BackendInv, ServesSelected, BeforeAdmission
<1>6. CopyInv' /\ DataInv'
  BY <1>1, <1>2 DEF CopyInv, DataInv, NoWorkLost, Current, BeforeAdmission, Trial
<1>7. QED BY <1>3, <1>4, <1>5, <1>6

\* Steps of the backend: it takes up work only when it serves the selected release.
LEMMA TaskSafe ==
  ASSUME Typed, Safe, StartTask \/ EndTask \/ BackendDies \/ AckLost
  PROVE  Safe'
<1> USE DEF Typed, Safe, Backends, dataVars, cliVars
<1>1. UNCHANGED <<state, lock, cli, sup, backup>>
  BY DEF StartTask, EndTask, BackendDies, AckLost
<1>2. LockInv' /\ PhaseInv'
  BY <1>1 DEF LockInv, PhaseInv, BeforeAdmission, Launching, Early, Trial, Undoing, Admitted
<1>3. ServerInv' /\ BackendInv'
  BY <1>1 DEF StartTask, EndTask, BackendDies, AckLost, ServerInv, BackendInv, ServesSelected,
              BeforeAdmission, NoBackend, At, PhaseInv, Launching, Admitted
<1>4. EndTask => be.mode = "serving" /\ ~BeforeAdmission
  BY DEF EndTask, ServerInv, ServesSelected
<1>5. CopyInv' /\ DataInv'
  <2>1. CASE EndTask
    <3>1. data'.work = data.work + 1 /\ data'.ran = data.ran /\ done' = done + 1
      BY <2>1 DEF EndTask, Databases
    <3>2. ~(Early \/ Trial \/ Undoing)
      BY <1>4, <2>1 DEF PhaseInv
    <3>3. sup.pc \notin {"restore", "recover_save"}
      BY <1>4, <2>1 DEF BackendInv, NoBackend
    <3>4. CopyInv'
      BY <1>1, <3>2, <3>3, <1>4, <2>1 DEF CopyInv, BeforeAdmission, Early, Trial, Undoing
    <3>5. DataInv'
      BY <1>1, <1>4, <2>1, <3>1 DEF DataInv, NoWorkLost, Current, BeforeAdmission
    <3>6. QED BY <3>4, <3>5
  <2>2. CASE UNCHANGED <<data, done>>
    BY <1>1, <2>2 DEF CopyInv, DataInv, NoWorkLost, Current, BeforeAdmission, Trial
  <2>3. QED BY <2>1, <2>2 DEF StartTask, BackendDies, AckLost
<1>6. QED BY <1>2, <1>3, <1>5

(***************************************************************************)
(* The supervisor starts: recovery and the launch of a release.            *)
(***************************************************************************)
LEMMA RecoverySafe ==
  ASSUME Typed, Safe, ~StagedBusy,
         Open \/ Reap \/ Recover \/ Restore \/ RecoverSave
  PROVE  Safe'
<1> USE DEF Typed, Safe, LockInv, ServerInv, ServesSelected, BackendInv, PhaseInv, CopyInv, DataInv,
            NoWorkLost, Current, BeforeAdmission, Launching, Early, Trial, Undoing, Admitted,
            Supervisors, Goto, At, Down, cliVars, dataVars
<1>1. CASE Open
  BY <1>1 DEF Open
<1>2. CASE Reap
  BY <1>2 DEF Reap, MayBeBusy, NoBackend, Backends
<1>3. CASE Recover
  BY <1>3 DEF Recover, Torn, Databases
<1>4. CASE Restore
  BY <1>4 DEF Restore, Databases
<1>5. CASE RecoverSave
  BY <1>5 DEF RecoverSave, States, NoTransition, NoBackup
<1>6. QED BY <1>1, <1>2, <1>3, <1>4, <1>5

LEMMA LaunchSafe ==
  ASSUME Typed, Safe, Launch \/ Start \/ Record \/ Health
  PROVE  Safe'
<1>1. CASE Launch
  <2>1. sup.pc = "launch" /\ be = NoBackend /\ ~sup.owns /\ ~BeforeAdmission
    BY <1>1 DEF Launch, At, Safe, BackendInv, PhaseInv
  <2>2. UNCHANGED <<state, cli, data, backup, done>>
    BY <1>1 DEF Launch, cliVars, dataVars
  <2>3. CASE Quit
    BY <2>2, <2>3, QuitSafe
  <2>4. CASE Loop /\ UNCHANGED <<be, lock>>
    BY <2>1, <2>2, <2>4, LoopSafe
  <2>5. CASE /\ state.active # NoRelease
             /\ sup' = [sup EXCEPT !.pc = "start", !.rel = state.active,
                                   !.job = IF sup.job = "switch" THEN "back" ELSE "launch"]
             /\ UNCHANGED <<be, lock>>
    <3>1. /\ sup'.pc = "start" /\ sup'.rel = state.active /\ sup'.owns = sup.owns
          /\ sup'.job \in {"launch", "back"} /\ (sup'.job = "back" => sup.job = "switch")
          /\ state.active \in Releases
      BY <2>5 DEF Typed, Supervisors, States, MaybeRelease
    <3>2. LockInv'
      BY <2>1, <2>2, <2>5, <3>1 DEF Safe, LockInv, Early, Trial, Undoing, Admitted
    <3>3. ServerInv' /\ BackendInv'
      BY <2>1, <2>2, <2>5, <3>1
         DEF Safe, ServerInv, ServesSelected, BackendInv, BeforeAdmission
    <3>4. PhaseInv' /\ CopyInv' /\ DataInv'
      BY <2>1, <2>2, <2>5, <3>1
         DEF Safe, PhaseInv, CopyInv, DataInv, NoWorkLost, Current, BeforeAdmission,
             Launching, Early, Trial, Undoing, Admitted
    <3>5. QED BY <3>2, <3>3, <3>4 DEF Safe
  <2>6. QED BY <1>1, <2>3, <2>4, <2>5 DEF Launch
<1>2. CASE Start
  <2>1. sup.pc = "start" /\ sup.rel \in Releases
    BY <1>2 DEF Start, At, Safe, PhaseInv, Launching
  <2>2. /\ sup'.pc = "record" /\ sup'.owns /\ sup'.rel = sup.rel
        /\ sup'.job = sup.job /\ sup'.prev = sup.prev
        /\ be'.rel = sup.rel /\ be'.mode = "staged" /\ ~be'.busy
        /\ data'.work = data.work /\ data'.ran = data.ran \cup {sup.rel}
        /\ UNCHANGED <<state, lock, cli, backup, done>>
    BY <1>2 DEF Start, NoBackend, Typed, Supervisors, Databases, cliVars
  <2>3. LockInv' /\ PhaseInv'
    BY <2>1, <2>2 DEF Safe, LockInv, PhaseInv, BeforeAdmission, Launching,
                      Early, Trial, Undoing, Admitted
  <2>4. ServerInv' /\ BackendInv'
    BY <2>1, <2>2 DEF ServerInv, ServesSelected, BackendInv
  <2>5. CopyInv'
    BY <2>1, <2>2 DEF Safe, PhaseInv, CopyInv, BeforeAdmission, Early, Trial
  <2>6. DataInv'
    <3>1. BeforeAdmission' = BeforeAdmission /\ backup' = backup /\ state' = state
      BY <2>2 DEF BeforeAdmission
    <3>2. NoRelease \notin data'.ran
      BY <2>1, <2>2, ReleaseAssumption DEF Safe, DataInv
    <3>3. Current'.work = Current.work /\ Current.ran \subseteq Current'.ran
      BY <2>2, <3>1 DEF Current
    <3>4. QED BY <2>2, <3>1, <3>2, <3>3 DEF Safe, DataInv, NoWorkLost
  <2>7. QED BY <2>3, <2>4, <2>5, <2>6 DEF Safe
<1>3. CASE Record \/ Health
  <2>1. UNCHANGED <<state, lock, cli, data, backup, done>>
    BY <1>3 DEF Record, Health, cliVars, dataVars
  <2>2. /\ sup.pc \in {"record", "health"}
        /\ sup'.pc \in {"health", "final", "activate"}
        /\ sup'.pc = "final" => sup.job = "switch"
        /\ sup'.pc = "activate" => sup.job # "switch"
        /\ sup'.owns = sup.owns /\ sup'.rel = sup.rel
        /\ sup'.job = sup.job /\ sup'.prev = sup.prev
    BY <1>3 DEF Record, Health, Goto, At, Typed, Supervisors
  <2>3. be'.mode = be.mode /\ be'.rel = be.rel /\ be'.busy = be.busy
        /\ (be = NoBackend => be' = NoBackend)
    BY <1>3 DEF Record, Health, Typed, Backends
  <2>4. LockInv' /\ PhaseInv'
    BY <2>1, <2>2 DEF Safe, LockInv, PhaseInv, BeforeAdmission, Launching,
                      Early, Trial, Undoing, Admitted
  <2>5. ServerInv' /\ BackendInv'
    BY <2>1, <2>2, <2>3 DEF Safe, ServerInv, ServesSelected, BackendInv, BeforeAdmission
  <2>6. CopyInv' /\ DataInv'
    BY <2>1, <2>2 DEF Safe, CopyInv, DataInv, NoWorkLost, Current, BeforeAdmission, Trial
  <2>7. QED BY <2>4, <2>5, <2>6 DEF Safe
<1>4. QED BY <1>1, <1>2, <1>3

LEMMA ActivateSafe ==
  ASSUME Typed, Safe, Activate
  PROVE  Safe'
<1>1. /\ sup.pc = "activate" /\ be # NoBackend
      /\ UNCHANGED <<state, cli, data, backup, done>>
  BY DEF Activate, At, cliVars, dataVars
<1>2. sup.owns /\ be.rel = sup.rel /\ sup.rel = state.active /\ ~BeforeAdmission
  BY <1>1 DEF Safe, BackendInv, PhaseInv, Launching, Admitted
<1>3. be.rel \in Releases
  BY <1>1 DEF Safe, ServerInv
<1>4. CASE Quit
  BY <1>1, <1>4, QuitSafe
<1>5. CASE be' = [be EXCEPT !.mode = "serving"] /\ Loop /\ Unlock
  <2>1. be'.rel = be.rel /\ be'.mode = "serving"
    BY <1>5 DEF Typed, Backends
  <2>2. QED BY <1>1, <1>2, <1>3, <1>5, <2>1, LoopSafe
<1>6. CASE /\ sup.job = "switch" /\ be' = [be EXCEPT !.mode = "serving"]
           /\ Goto("finish") /\ UNCHANGED lock
  <2>1. /\ sup'.pc = "finish" /\ sup'.rel = sup.rel /\ sup'.job = sup.job /\ sup'.owns = sup.owns
        /\ be'.rel = be.rel /\ be'.mode = "serving"
    BY <1>6 DEF Goto, Typed, Backends, Supervisors
  <2>2. LockInv' /\ PhaseInv'
    BY <1>1, <1>2, <1>6, <2>1 DEF Safe, LockInv, PhaseInv, BeforeAdmission, Launching,
                                  Early, Trial, Undoing, Admitted
  <2>3. ServerInv' /\ BackendInv'
    BY <1>1, <1>2, <1>3, <2>1 DEF Safe, ServerInv, ServesSelected, BackendInv, BeforeAdmission
  <2>4. CopyInv' /\ DataInv'
    BY <1>1, <2>1 DEF Safe, CopyInv, DataInv, NoWorkLost, Current, BeforeAdmission, Trial
  <2>5. QED BY <2>2, <2>3, <2>4 DEF Safe
<1>7. QED BY <1>4, <1>5, <1>6 DEF Activate

(***************************************************************************)
(* The switch.                                                             *)
(***************************************************************************)
\* A step of the supervisor that leaves the files alone and keeps its job.
Advance ==
    /\ UNCHANGED <<state, lock, cli, data, backup, done>>
    /\ sup'.owns = sup.owns /\ sup'.job = sup.job /\ sup'.prev = sup.prev

LEMMA ApplySafe ==
  ASSUME Typed, Safe, Apply \/ LockHeld \/ Reject \/ Drain
  PROVE  Safe'
<1>1. CASE Apply
  <2>1. Advance /\ sup.pc = "loop" /\ sup'.pc \in {"drain", "reject"} /\ UNCHANGED be
    BY <1>1 DEF Apply, Advance, At, Typed, Supervisors, cliVars, dataVars
  <2>2. sup'.rel \in Releases
    BY <1>1 DEF Apply, Typed, States, Supervisors, MaybeRelease
  <2>3. LockInv' /\ ServerInv' /\ BackendInv'
    BY <2>1 DEF Advance, Safe, LockInv, ServerInv, ServesSelected, BackendInv, BeforeAdmission,
                Early, Trial, Undoing, Admitted
  <2>4. PhaseInv' /\ CopyInv' /\ DataInv'
    BY <2>1, <2>2 DEF Advance, Safe, PhaseInv, CopyInv, DataInv, NoWorkLost, Current,
                BeforeAdmission, Launching, Early, Trial, Undoing, Admitted
  <2>5. QED BY <2>3, <2>4 DEF Safe
<1>2. CASE LockHeld
  BY <1>2, QuitSafe DEF LockHeld, cliVars, dataVars
<1>3. CASE Reject
  <2>1. /\ sup.pc = "reject" /\ lock = "free" /\ sup'.pc = "loop" /\ sup'.job = "none"
        /\ sup'.owns = sup.owns
        /\ UNCHANGED <<be, lock, cli, data, backup, done>>
    BY <1>3 DEF Reject, At, Loop, Down, Typed, Supervisors, cliVars, dataVars
  <2>2. /\ state'.active = state.active /\ state'.transition = state.transition
        /\ state'.confirmation = state.confirmation
        /\ state'.pending \in {state.pending, NoRelease}
    BY <1>3 DEF Reject, Typed, States
  <2>3. LockInv' /\ ServerInv' /\ BackendInv'
    BY <2>1, <2>2 DEF Safe, LockInv, ServerInv, ServesSelected, BackendInv, BeforeAdmission,
                      Early, Trial, Undoing, Admitted
  <2>4. PhaseInv' /\ CopyInv' /\ DataInv'
    BY <2>1, <2>2 DEF Safe, PhaseInv, CopyInv, DataInv, NoWorkLost, Current, BeforeAdmission,
                      Launching, Early, Trial, Undoing, Admitted
  <2>5. QED BY <2>3, <2>4 DEF Safe
<1>4. CASE Drain
  <2>1. sup.pc = "drain" /\ ~BeforeAdmission /\ (be = NoBackend \/ (sup.owns /\ be.rel = state.active))
    BY <1>4 DEF Drain, At, Safe, BackendInv, PhaseInv
  <2>2. be = NoBackend \/ (be.rel \in Releases /\ be.mode # "none" /\ (be.busy => be.mode = "serving"))
    BY DEF Safe, ServerInv
  <2>3. UNCHANGED <<state, cli, data, backup, done>>
    BY <1>4 DEF Drain, cliVars, dataVars
  <2>4. CASE Quit
    BY <2>3, <2>4, QuitSafe
  <2>5. CASE Loop /\ UNCHANGED <<be, lock>>
    BY <2>1, <2>2, <2>3, <2>5, LoopSafe
  <2>6. CASE /\ Goto("lock") /\ UNCHANGED lock
             /\ \/ ~sup.owns /\ UNCHANGED be
                \/ be # NoBackend /\ ~be.busy /\ be' = [be EXCEPT !.mode = "drained"]
    <3>1. Advance /\ sup'.pc = "lock" /\ sup'.rel = sup.rel
      BY <2>3, <2>6 DEF Advance, Goto, Typed, Supervisors
    <3>2. \/ be' = NoBackend
          \/ /\ sup.owns /\ be'.rel = state.active /\ be'.rel \in Releases
             /\ be'.mode = "drained" /\ ~be'.busy
      BY <2>1, <2>2, <2>6 DEF Typed, Backends
    <3>3. LockInv' /\ ServerInv' /\ BackendInv'
      BY <2>1, <3>1, <3>2 DEF Advance, Safe, LockInv, ServerInv, ServesSelected, BackendInv,
                              BeforeAdmission, NoBackend, Early, Trial, Undoing, Admitted
    <3>4. PhaseInv' /\ CopyInv' /\ DataInv'
      BY <2>1, <3>1 DEF Advance, Safe, PhaseInv, CopyInv, DataInv, NoWorkLost, Current,
                        BeforeAdmission, Launching, Early, Trial, Undoing, Admitted
    <3>5. QED BY <3>3, <3>4 DEF Safe
  <2>7. QED BY <1>4, <2>4, <2>5, <2>6 DEF Drain
<1>5. QED BY <1>1, <1>2, <1>3, <1>4

\* The transition is recorded: the backend has been drained, or there is none.
LEMMA BeginSafe ==
  ASSUME Typed, Safe, Begin
  PROVE  Safe'
<1>1. /\ sup.pc = "lock" /\ lock = "free" /\ ~BeforeAdmission
      /\ be = NoBackend \/ (sup.owns /\ be.rel = state.active)
      /\ be.mode # "serving"
  BY DEF Begin, At, Safe, BackendInv, PhaseInv
<1>2. be = NoBackend \/ be.rel \in Releases
  BY DEF Safe, ServerInv
<1>3. UNCHANGED <<cli, data, done>>
  BY DEF Begin, cliVars
<1>4. CASE state.pending # sup.rel
  <2>1. \/ be' = NoBackend
        \/ sup.owns /\ be'.rel = be.rel /\ be # NoBackend /\ be'.mode = "serving"
    BY <1>1, <1>4 DEF Begin, Typed, Backends
  <2>2. Loop /\ UNCHANGED <<state, lock, backup>>
    BY <1>4 DEF Begin
  <2>3. QED BY <1>1, <1>2, <1>3, <2>1, <2>2, LoopSafe
<1>5. CASE state.pending = sup.rel /\ ~Approved(sup.rel, sup.sha)
  BY <1>3, <1>5, QuitSafe DEF Begin
<1>6. CASE state.pending = sup.rel /\ Approved(sup.rel, sup.sha)
  <2>1. /\ sup'.pc = "stop" /\ sup'.job = "switch" /\ sup'.prev = state.active
        /\ sup'.rel = sup.rel /\ sup'.owns = sup.owns
        /\ lock' = "sup" /\ backup' = NoBackup /\ UNCHANGED be
    BY <1>6 DEF Begin, Typed, Supervisors
  <2>2. /\ state'.active = state.active /\ state'.pending = state.pending
        /\ state'.confirmation = state.confirmation
        /\ state'.transition.from = state.active /\ state'.transition.phase = "stopping"
    BY <1>6 DEF Begin, Typed, States
  <2>3. sup.rel \in Releases
    BY <1>1 DEF Safe, PhaseInv
  <2>4. LockInv'
    BY <1>1, <1>3, <2>1, <2>2 DEF Safe, LockInv
  <2>5. ServerInv' /\ BackendInv'
    BY <1>1, <2>1, <2>2 DEF Safe, ServerInv, ServesSelected, BackendInv
  <2>6. PhaseInv'
    BY <1>6, <2>1, <2>2, <2>3
       DEF PhaseInv, BeforeAdmission, Launching, Early, Trial, Undoing, Admitted
  <2>7. CopyInv'
    BY <2>1 DEF CopyInv, Trial
  <2>8. DataInv'
    BY <1>1, <1>3, <2>1, <2>2 DEF Safe, DataInv, NoWorkLost, Current, BeforeAdmission
  <2>9. QED BY <2>4, <2>5, <2>6, <2>7, <2>8 DEF Safe
<1>7. QED BY <1>4, <1>5, <1>6

LEMMA SwitchSafe ==
  ASSUME Typed, Safe, Stop \/ Snapshot \/ Mark \/ Select \/ Finish
  PROVE  Safe'
<1> USE DEF At, Goto, Typed, Supervisors, cliVars, dataVars
<1>1. CASE Stop
  <2>1. /\ sup.pc = "stop" /\ sup'.pc = "snapshot" /\ be' = NoBackend /\ ~sup'.owns
        /\ sup'.job = sup.job /\ sup'.prev = sup.prev /\ sup'.rel = sup.rel
        /\ UNCHANGED <<state, lock, cli, data, backup, done>>
    BY <1>1 DEF Stop
  <2>2. LockInv' /\ ServerInv' /\ BackendInv'
    BY <2>1 DEF Safe, LockInv, ServerInv, ServesSelected, BackendInv, NoBackend,
                Early, Trial, Undoing, Admitted
  <2>3. PhaseInv' /\ CopyInv' /\ DataInv'
    BY <2>1 DEF Safe, PhaseInv, CopyInv, DataInv, NoWorkLost, Current, BeforeAdmission,
                Launching, Early, Trial, Undoing, Admitted
  <2>4. QED BY <2>2, <2>3 DEF Safe
<1>2. CASE Snapshot
  <2>1. /\ sup.pc = "snapshot" /\ sup'.pc = "mark" /\ backup' = data /\ sup'.rel = sup.rel
        /\ sup'.job = sup.job /\ sup'.prev = sup.prev /\ sup'.owns = sup.owns
        /\ UNCHANGED <<state, lock, cli, be, data, done>>
    BY <1>2 DEF Snapshot
  <2>2. LockInv' /\ ServerInv' /\ BackendInv'
    BY <2>1 DEF Safe, LockInv, ServerInv, ServesSelected, BackendInv, BeforeAdmission,
                Early, Trial, Undoing, Admitted
  <2>3. PhaseInv' /\ CopyInv' /\ DataInv'
    BY <2>1 DEF Safe, PhaseInv, CopyInv, DataInv, NoWorkLost, Current, BeforeAdmission,
                Launching, Early, Trial, Undoing, Admitted
  <2>4. QED BY <2>2, <2>3 DEF Safe
<1>3. CASE Mark
  <2>1. /\ sup.pc = "mark" /\ sup'.pc = "start" /\ sup'.rel = sup.rel
        /\ sup'.job = sup.job /\ sup'.prev = sup.prev /\ sup'.owns = sup.owns
        /\ UNCHANGED <<lock, cli, be, data, backup, done>>
    BY <1>3 DEF Mark
  <2>2. /\ state'.active = state.active /\ state'.pending = state.pending
        /\ state'.confirmation = state.confirmation
        /\ state'.transition.from = state.transition.from
        /\ state'.transition.phase = "switching"
    BY <1>3 DEF Mark, States, Transitions
  <2>3. backup # NoBackup
    BY <2>1 DEF Safe, CopyInv, DataInv, NoBackup
  <2>4. LockInv' /\ ServerInv' /\ BackendInv'
    BY <2>1, <2>2 DEF Safe, LockInv, ServerInv, ServesSelected, BackendInv, BeforeAdmission,
                      NoBackend, Early, Trial, Undoing, Admitted
  <2>5. PhaseInv' /\ CopyInv' /\ DataInv'
    BY <2>1, <2>2, <2>3
       DEF Safe, PhaseInv, CopyInv, DataInv, NoWorkLost, Current, BeforeAdmission,
           Launching, Early, Trial, Undoing, Admitted
  <2>6. QED BY <2>4, <2>5 DEF Safe
<1>4. CASE Select
  <2>1. /\ sup.pc = "final" /\ sup'.pc = "activate" /\ sup'.rel = sup.rel
        /\ sup'.job = sup.job /\ sup'.prev = sup.prev /\ sup'.owns = sup.owns
        /\ UNCHANGED <<lock, cli, be, data, backup, done>>
    BY <1>4 DEF Select
  <2>2. /\ state'.active = sup.rel /\ state'.pending = NoRelease
        /\ state'.confirmation = state.confirmation
        /\ state'.transition.phase = "admitting"
    BY <1>4 DEF Select, Admitting, States, Transitions
  <2>3. /\ BeforeAdmission /\ backup # NoBackup /\ sup.job = "switch"
        /\ sup.rel \in Releases /\ data.work = backup.work /\ data.ran = backup.ran \cup {sup.rel}
    BY <2>1 DEF Safe, PhaseInv, CopyInv, Trial
  <2>4. LockInv' /\ ServerInv' /\ BackendInv'
    BY <2>1, <2>2, <2>3 DEF Safe, LockInv, ServerInv, ServesSelected, BackendInv, BeforeAdmission,
                      NoBackend, Early, Trial, Undoing, Admitted
  <2>5. PhaseInv' /\ CopyInv'
    BY <2>1, <2>2, <2>3
       DEF PhaseInv, CopyInv, BeforeAdmission, Launching, Early, Trial, Undoing, Admitted
  <2>6. DataInv'
    BY <2>1, <2>2, <2>3 DEF Safe, DataInv, NoWorkLost, Current, BeforeAdmission
  <2>7. QED BY <2>4, <2>5, <2>6 DEF Safe
<1>5. CASE Finish
  <2>1. /\ sup.pc = "finish" /\ sup'.pc = "loop" /\ sup'.job = "none" /\ sup'.owns = sup.owns
        /\ Unlock /\ backup' = NoBackup
        /\ UNCHANGED <<cli, be, data, done>>
    BY <1>5 DEF Finish, Loop, Down
  <2>2. /\ state'.active = state.active /\ state'.pending = state.pending
        /\ state'.confirmation = state.confirmation /\ state'.transition.phase = "none"
    BY <1>5 DEF Finish, NoTransition, States
  <2>3. sup.owns /\ ~BeforeAdmission /\ (be = NoBackend \/ be.rel = state.active)
    BY <2>1 DEF Safe, BackendInv, PhaseInv, Admitted
  <2>4. LockInv'
    BY <2>1, <2>2 DEF Safe, LockInv, Unlock, Early, Trial, Undoing, Admitted
  <2>5. ServerInv' /\ BackendInv'
    BY <2>1, <2>2, <2>3 DEF Safe, ServerInv, ServesSelected, BackendInv, BeforeAdmission
  <2>6. PhaseInv' /\ CopyInv' /\ DataInv'
    BY <2>1, <2>2, <2>3 DEF Safe, PhaseInv, CopyInv, DataInv, NoWorkLost, Current,
                            BeforeAdmission, Launching, Early, Trial, Undoing, Admitted
  <2>7. QED BY <2>4, <2>5, <2>6 DEF Safe
<1>6. QED BY <1>1, <1>2, <1>3, <1>4, <1>5

(***************************************************************************)
(* The switch fails.                                                       *)
(***************************************************************************)
LEMMA UndoSafe ==
  ASSUME Typed, Safe, SwitchFails \/ UndoSave
  PROVE  Safe'
<1>1. CASE SwitchFails
  <2>1. Early \/ Trial
    BY <1>1 DEF SwitchFails, Undoable, Early, Trial
  <2>2. /\ sup.prev = state.active /\ sup.job = "switch" /\ BeforeAdmission
        /\ backup = NoBackup \/ sup.pc \notin {"stop", "snapshot"}
    BY <2>1 DEF Safe, PhaseInv, CopyInv
  <2>3. be' = NoBackend
    BY <1>1, <2>1 DEF SwitchFails, Undo, Undoable, Safe, BackendInv
  <2>4. /\ ~sup'.owns /\ sup'.job = sup.job /\ sup'.prev = sup.prev
        /\ UNCHANGED <<state, lock, cli, backup, done>>
        /\ \/ backup # NoBackup /\ data' = Torn /\ sup'.pc = "undo_restore"
           \/ backup = NoBackup /\ data' = data /\ sup'.pc = "undo_save"
    BY <1>1 DEF SwitchFails, Undo, Typed, Supervisors, cliVars
  <2>5. LockInv' /\ ServerInv' /\ BackendInv'
    BY <2>1, <2>3, <2>4 DEF Safe, LockInv, ServerInv, ServesSelected, BackendInv, NoBackend,
                            Early, Trial, Undoing, Admitted
  <2>6. PhaseInv' /\ CopyInv'
    BY <2>2, <2>4 DEF Safe, PhaseInv, CopyInv, BeforeAdmission, Launching,
                      Early, Trial, Undoing, Admitted
  <2>7. DataInv'
    BY <2>2, <2>4 DEF Safe, DataInv, NoWorkLost, Current, BeforeAdmission, Torn
  <2>8. QED BY <2>5, <2>6, <2>7 DEF Safe
<1>2. CASE UndoSave
  <2>1. /\ sup.pc = "undo_save" /\ be = NoBackend /\ ~sup.owns /\ sup.prev = state.active
        /\ sup.job = "switch" /\ BeforeAdmission /\ lock = "sup"
        /\ backup = NoBackup \/ data = backup
    BY <1>2 DEF UndoSave, At, Safe, LockInv, BackendInv, PhaseInv, CopyInv, Undoing
  <2>2. /\ state'.active = state.active /\ state'.pending = NoRelease
        /\ state'.confirmation = state.confirmation /\ state'.transition.phase = "none"
        /\ backup' = NoBackup /\ UNCHANGED <<cli, be, data, done>>
    BY <1>2, <2>1 DEF UndoSave, NoTransition, Typed, States, cliVars
  <2>3. /\ ~sup'.owns
        /\ \/ sup'.pc = "launch" /\ sup'.job = "switch" /\ UNCHANGED lock
           \/ sup'.pc = "loop" /\ sup'.job = "none" /\ Unlock
    BY <1>2, <2>1 DEF UndoSave, Goto, Loop, Down, Typed, Supervisors
  <2>4. LockInv'
    BY <2>1, <2>2, <2>3 DEF Safe, LockInv, Unlock, Early, Trial, Undoing, Admitted
  <2>5. ServerInv' /\ BackendInv'
    BY <2>1, <2>2, <2>3 DEF ServerInv, ServesSelected, BackendInv, NoBackend
  <2>6. PhaseInv' /\ CopyInv'
    BY <2>2, <2>3 DEF PhaseInv, CopyInv, BeforeAdmission, Launching,
                      Early, Trial, Undoing, Admitted
  <2>7. DataInv'
    BY <2>1, <2>2 DEF Safe, DataInv, NoWorkLost, Current, BeforeAdmission
  <2>8. QED BY <2>4, <2>5, <2>6, <2>7 DEF Safe
<1>3. QED BY <1>1, <1>2

\* The supervisor ends: the window is closed, it is killed, or an exception
\* leaves run(), perhaps after the record has been saved once more.
LEMMA EndSafe ==
  ASSUME Typed, Safe, Close \/ Kill \/ LaunchFails \/ SelectFails
  PROVE  Safe'
<1>1. CASE Close \/ LaunchFails
  BY <1>1, QuitSafe DEF Close, LaunchFails, cliVars, dataVars
<1>2. CASE Kill
  BY <1>2, LeaveSafe DEF Kill, Leave, cliVars, dataVars
<1>3. CASE SelectFails
  <2>1. /\ sup.pc = "final" /\ lock = "sup" /\ sup' = Down /\ be' = NoBackend /\ lock' = "free"
        /\ UNCHANGED <<cli, data, backup, done>>
    BY <1>3 DEF SelectFails, Quit, Unlock, At, Safe, LockInv, BackendInv, Trial, cliVars, dataVars
  <2>2. CASE UNCHANGED state
    BY <1>3, <2>1, <2>2, QuitSafe DEF SelectFails
  <2>3. CASE Admitting
    <3>1. /\ state'.active = sup.rel /\ state'.pending = NoRelease
          /\ state'.confirmation = state.confirmation
          /\ state'.transition.phase = "admitting"
      BY <2>3 DEF Admitting, Typed, States, Transitions
    <3>2. /\ BeforeAdmission /\ backup # NoBackup /\ sup.rel \in Releases
          /\ data.work = backup.work /\ data.ran = backup.ran \cup {sup.rel}
      BY <2>1 DEF Safe, PhaseInv, CopyInv, Trial
    <3>3. sup'.pc = "down" /\ ~sup'.owns /\ sup'.job = "none"
      BY <2>1 DEF Down
    <3>4. LockInv' /\ ServerInv' /\ BackendInv'
      BY <2>1, <3>1, <3>3 DEF Safe, LockInv, ServerInv, ServesSelected, BackendInv, NoBackend,
                              Early, Trial, Undoing, Admitted
    <3>5. PhaseInv' /\ CopyInv'
      BY <3>1, <3>3 DEF PhaseInv, CopyInv, BeforeAdmission, Launching,
                        Early, Trial, Undoing, Admitted
    <3>6. DataInv'
      BY <2>1, <3>1, <3>2 DEF Safe, DataInv, NoWorkLost, Current, BeforeAdmission
    <3>7. QED BY <3>4, <3>5, <3>6 DEF Safe
  <2>4. QED BY <1>3, <2>2, <2>3 DEF SelectFails
<1>4. QED BY <1>1, <1>2, <1>3

---------------------------------------------------------------------------
(* The invariant *)

LEMMA InitSafe == Init => Safe
<1> SUFFICES ASSUME Init PROVE Safe
  OBVIOUS
<1> USE DEF Init, Down, NoBackend, NoTransition, BeforeAdmission
<1>1. LockInv /\ ServerInv /\ BackendInv
  BY DEF LockInv, ServerInv, ServesSelected, BackendInv, NoCall, Early, Trial, Undoing, Admitted
<1>2. PhaseInv /\ CopyInv /\ DataInv
  BY DEF PhaseInv, CopyInv, DataInv, NoWorkLost, Current, Launching, Early, Trial, Undoing, Admitted
<1>3. QED BY <1>1, <1>2 DEF Safe

LEMMA NextSafe ==
  ASSUME ~StagedBusy, TypeInv, Safe, [Next]_vars
  PROVE  Safe'
<1>1. Typed
  BY TypeGives
<1>2. CASE User \/ CallEnd
  <2>1. CASE \/ \E r \in Edited : Edit(r)
             \/ \E r \in Releases : VerifyRead(r) \/ VerifyOpen(r) \/ VerifyClose(r)
    BY <2>1, StillSafe DEF Edit, VerifyRead, VerifyOpen, VerifyClose, cliVars, dataVars
  <2>2. CASE (\E r \in Releases : RequestBegin(r)) \/ (\E id \in 1..issued : ConfirmBegin(id)) \/ CallEnd
    BY <1>1, <2>2, CallSafe DEF TypeInv, TypeOK
  <2>3. CASE StartTask \/ Close
    BY <1>1, <2>3, TaskSafe, EndSafe
  <2>4. QED BY <1>2, <2>1, <2>2, <2>3 DEF User
<1>3. CASE EndTask \/ BackendDies \/ AckLost
  BY <1>1, <1>3, TaskSafe
<1>4. CASE Kill \/ SelectFails \/ LaunchFails
  BY <1>1, <1>4, EndSafe
<1>5. CASE Open \/ Reap \/ Recover \/ Restore \/ RecoverSave
  BY <1>1, <1>5, RecoverySafe
<1>6. CASE Launch \/ Start \/ Record \/ Health \/ Activate
  BY <1>1, <1>6, LaunchSafe, ActivateSafe
<1>7. CASE Apply \/ LockHeld \/ Reject \/ Drain \/ Begin
  BY <1>1, <1>7, ApplySafe, BeginSafe
<1>8. CASE Stop \/ Snapshot \/ Mark \/ Select \/ Finish \/ UndoSave \/ SwitchFails
  BY <1>1, <1>8, SwitchSafe, UndoSafe
<1>9. CASE UNCHANGED vars
  BY <1>9, StillSafe DEF vars
<1>10. QED
  BY <1>2, <1>3, <1>4, <1>5, <1>6, <1>7, <1>8, <1>9 DEF Next, Supervise

LEMMA SafeInvariant ==
  ASSUME ~StagedBusy
  PROVE  Spec => [](TypeInv /\ Safe)
<1>1. Init => TypeInv /\ Safe
  BY InitType, InitSafe
<1>2. TypeInv /\ Safe /\ [Next]_vars => (TypeInv /\ Safe)'
  BY NextType, NextSafe
<1>3. QED BY <1>1, <1>2, PTL DEF Spec

---------------------------------------------------------------------------
(* The theorems *)

(***************************************************************************)
(* A backend that serves is the selected release, and none serves while    *)
(* the databases are copied, migrated or put back                          *)
(* (elira_release.py, apply_pending and recover).                          *)
(***************************************************************************)
THEOREM OnlySelectedServes ==
  ASSUME ~StagedBusy
  PROVE  Spec => []ServesSelected
<1>1. Safe => ServesSelected
  BY DEF Safe, ServerInv
<1>2. QED BY <1>1, SafeInvariant, PTL

(***************************************************************************)
(* No completed task is lost, whatever a switch, its failure or its        *)
(* recovery puts back (elira_release.py, apply_pending and recover).       *)
(***************************************************************************)
THEOREM WorkKept ==
  ASSUME ~StagedBusy
  PROVE  Spec => []NoWorkLost
<1>1. Safe => NoWorkLost
  BY DEF Safe, DataInv
<1>2. QED BY <1>1, SafeInvariant, PTL

(***************************************************************************)
(* The steps, seen from outside.                                           *)
(***************************************************************************)
\* A step that changes neither the selection nor the databases the next start
\* will find.
LEMMA Unseen ==
  ASSUME state'.active = state.active, state'.pending = state.pending,
         Current'.work = Current.work, Current'.ran = Current.ran
  PROVE  UNCHANGED Switch!vars
  BY DEF Switch!vars

LEMMA SameCurrent ==
  ASSUME UNCHANGED <<data, backup>>, BeforeAdmission' = BeforeAdmission
  PROVE  Current' = Current
  BY DEF Current

\* The command line confirms, and the backend works.
LEMMA ConfirmSeen ==
  ASSUME Typed, Safe, CallEnd
  PROVE  [Switch!Next]_(Switch!vars)
<1>1. UNCHANGED <<data, backup>>
  BY DEF CallEnd, dataVars
<1>2. state'.active = state.active /\ BeforeAdmission' = BeforeAdmission
  BY DEF CallEnd, RequestEnd, ConfirmEnd, CallFails, Typed, States, BeforeAdmission
<1>3. Current' = Current
  BY <1>1, <1>2, SameCurrent
<1>4. CASE RequestEnd
  <2>1. state'.pending = NoRelease /\ state.pending = NoRelease
    BY <1>4 DEF RequestEnd, Typed, States, Safe, LockInv
  <2>2. QED BY <1>2, <1>3, <2>1, Unseen
<1>5. CASE ConfirmEnd
  <2>1. cli.rel \in Releases /\ state.pending = NoRelease /\ state'.pending = cli.rel
    BY <1>5 DEF ConfirmEnd, Typed, States, Safe, LockInv
  <2>2. Switch!Approve(cli.rel)
    BY <1>2, <1>3, <2>1 DEF Switch!Approve
  <2>3. QED BY <2>1, <2>2 DEF Switch!Next
<1>6. CASE CallFails
  BY <1>3, <1>6, Unseen DEF CallFails
<1>7. QED BY <1>4, <1>5, <1>6 DEF CallEnd

LEMMA WorkSeen ==
  ASSUME Typed, Safe, EndTask
  PROVE  Switch!Next
<1>1. be.rel = state.active /\ be.rel \in Releases /\ ~BeforeAdmission
  BY DEF EndTask, Safe, ServerInv, ServesSelected, NoBackend
<1>2. data'.work = data.work + 1 /\ data'.ran = data.ran /\ UNCHANGED <<state, backup>>
  BY DEF EndTask, Typed, Databases
<1>3. Current = data /\ Current' = data'
  BY <1>1, <1>2 DEF Current, BeforeAdmission
<1>4. state.active # NoRelease
  BY <1>1, ReleaseAssumption
<1>5. Switch!Work
  BY <1>2, <1>3, <1>4 DEF Switch!Work
<1>6. QED BY <1>5 DEF Switch!Next

\* Recovery and launch: a confirmed release may be given up.
LEMMA RecoverySeen ==
  ASSUME Typed, Safe, Recover \/ Restore \/ RecoverSave \/ Start
  PROVE  [Switch!Next]_(Switch!vars)
<1>1. CASE Recover \/ Restore
  <2>1. UNCHANGED <<state, backup>>
    BY <1>1 DEF Recover, Restore
  <2>2. data' = data \/ (BeforeAdmission /\ backup # NoBackup)
    BY <1>1 DEF Recover, Restore, At, Safe, CopyInv
  <2>3. Current' = Current
    BY <2>1, <2>2 DEF Current, BeforeAdmission
  <2>4. QED BY <2>1, <2>3, Unseen
<1>2. CASE RecoverSave
  <2>1. /\ state'.active = state.active /\ state'.pending \in {state.pending, NoRelease}
        /\ state'.transition.phase = "none"
    BY <1>2 DEF RecoverSave, Typed, States, NoTransition, Safe, PhaseInv
  <2>2. Current' = data' /\ data' = data
    BY <1>2, <2>1 DEF RecoverSave, Current, BeforeAdmission
  <2>3. Current = data
    BY <1>2 DEF RecoverSave, At, Current, Safe, CopyInv
  <2>4. Switch!Reject \/ UNCHANGED Switch!vars
    BY <2>1, <2>2, <2>3, Unseen DEF Switch!Reject
  <2>5. QED BY <2>4 DEF Switch!Next
<1>3. CASE Start
  <2>1. /\ sup.pc = "start" /\ UNCHANGED <<state, backup>>
        /\ data'.work = data.work /\ data'.ran = data.ran \cup {sup.rel}
    BY <1>3 DEF Start, At, Typed, Databases
  <2>2. CASE sup.job = "switch"
    <3>1. BeforeAdmission /\ backup # NoBackup
      BY <2>1, <2>2 DEF Safe, PhaseInv, CopyInv, Trial
    <3>2. Current' = Current
      BY <2>1, <3>1 DEF Current, BeforeAdmission
    <3>3. QED BY <2>1, <3>2, Unseen
  <2>3. CASE sup.job # "switch"
    <3>1. ~BeforeAdmission /\ sup.rel = state.active /\ sup.rel \in Releases
      BY <2>1, <2>3 DEF Safe, PhaseInv, Launching
    <3>2. sup.rel \in data.ran
      BY <3>1, ReleaseAssumption DEF Safe, DataInv, Current
    <3>3. Current = data /\ Current' = data'
      BY <2>1, <3>1 DEF Current, BeforeAdmission
    <3>4. QED BY <2>1, <3>2, <3>3, Unseen
  <2>4. QED BY <2>2, <2>3
<1>4. QED BY <1>1, <1>2, <1>3

\* The new release is selected, with the databases it was tried on.
LEMMA SelectSeen ==
  ASSUME Typed, Safe, sup.pc = "final", Admitting, UNCHANGED <<data, backup>>
  PROVE  Switch!Next
<1>1. /\ BeforeAdmission /\ backup # NoBackup
      /\ sup.rel \in Releases /\ sup.rel = state.pending
      /\ data.work = backup.work /\ data.ran = backup.ran \cup {sup.rel}
  BY DEF Safe, PhaseInv, CopyInv, Trial
<1>2. /\ state'.active = sup.rel /\ state'.pending = NoRelease
      /\ state'.transition.phase = "admitting"
  BY DEF Admitting, Typed, States, Transitions
<1>3. Current = backup /\ Current' = data
  BY <1>1, <1>2 DEF Current, BeforeAdmission
<1>4. state.pending # NoRelease
  BY <1>1, ReleaseAssumption
<1>5. Switch!Install
  BY <1>1, <1>2, <1>3, <1>4 DEF Switch!Install
<1>6. QED BY <1>5 DEF Switch!Next

\* The other steps of a switch change only what the abstract one does not see.
LEMMA SwitchSeen ==
  ASSUME Typed, Safe,
         Reject \/ Begin \/ Snapshot \/ Mark \/ Finish \/ UndoSave \/ SwitchFails
  PROVE  [Switch!Next]_(Switch!vars)
<1>1. CASE Reject
  <2>1. /\ state'.active = state.active /\ state'.transition = state.transition
        /\ state'.pending \in {state.pending, NoRelease} /\ UNCHANGED <<data, backup>>
    BY <1>1 DEF Reject, Typed, States, dataVars
  <2>2. Current' = Current
    BY <2>1, SameCurrent DEF BeforeAdmission
  <2>3. Switch!Reject \/ UNCHANGED Switch!vars
    BY <2>1, <2>2, Unseen DEF Switch!Reject
  <2>4. QED BY <2>3 DEF Switch!Next
<1>2. CASE Begin
  <2>1. /\ state'.active = state.active /\ state'.pending = state.pending
        /\ data' = data /\ (backup' = NoBackup \/ UNCHANGED <<state, backup>>)
    BY <1>2 DEF Begin, Typed, States
  <2>2. ~BeforeAdmission
    BY <1>2 DEF Begin, At, Safe, PhaseInv
  <2>3. Current = data /\ Current' = data
    BY <2>1, <2>2 DEF Current, BeforeAdmission
  <2>4. QED BY <2>1, <2>3, Unseen
<1>3. CASE Snapshot
  <2>1. backup = NoBackup /\ data' = data /\ backup' = data /\ UNCHANGED state
    BY <1>3 DEF Snapshot, At, Safe, CopyInv
  <2>2. Current = data /\ Current' = data
    BY <2>1 DEF Current
  <2>3. QED BY <2>1, <2>2, Unseen
<1>4. CASE Mark
  <2>1. /\ state'.active = state.active /\ state'.pending = state.pending
        /\ data = backup /\ UNCHANGED <<data, backup>>
    BY <1>4 DEF Mark, At, Typed, States, Safe, CopyInv, dataVars
  <2>2. Current = data /\ Current' = data
    BY <2>1 DEF Current
  <2>3. QED BY <2>1, <2>2, Unseen
<1>5. CASE Finish
  <2>1. /\ state'.active = state.active /\ state'.pending = state.pending
        /\ data' = data /\ backup' = NoBackup
    BY <1>5 DEF Finish, Typed, States
  <2>2. ~BeforeAdmission
    BY <1>5 DEF Finish, At, Safe, PhaseInv, Admitted
  <2>3. Current = data /\ Current' = data
    BY <2>1, <2>2 DEF Current
  <2>4. QED BY <2>1, <2>3, Unseen
<1>6. CASE UndoSave
  <2>1. /\ sup.prev = state.active /\ BeforeAdmission
        /\ backup = NoBackup \/ data = backup
    BY <1>6 DEF UndoSave, At, Safe, PhaseInv, CopyInv, Undoing
  <2>2. /\ state'.active = state.active /\ state'.pending = NoRelease
        /\ data' = data /\ backup' = NoBackup
    BY <1>6, <2>1 DEF UndoSave, Typed, States
  <2>3. Current = data /\ Current' = data
    BY <2>1, <2>2 DEF Current
  <2>4. Switch!Reject
    BY <2>2, <2>3 DEF Switch!Reject
  <2>5. QED BY <2>4 DEF Switch!Next
<1>7. CASE SwitchFails
  <2>1. UNCHANGED <<state, backup>> /\ (data' = data \/ backup # NoBackup)
    BY <1>7 DEF SwitchFails, Undo
  <2>2. Early \/ Trial
    BY <1>7 DEF SwitchFails, Undoable, Early, Trial
  <2>3. BeforeAdmission
    BY <2>2 DEF Safe, PhaseInv
  <2>4. Current' = Current
    BY <2>1, <2>3 DEF Current, BeforeAdmission
  <2>5. QED BY <2>1, <2>4, Unseen
<1>8. QED BY <1>1, <1>2, <1>3, <1>4, <1>5, <1>6, <1>7

LEMMA NextSeen ==
  ASSUME TypeInv, Safe, [Next]_vars
  PROVE  [Switch!Next]_(Switch!vars)
<1>1. Typed
  BY TypeGives
<1>2. CASE UNCHANGED <<state, data, backup>>
  <2>1. Current' = Current
    BY <1>2, SameCurrent DEF BeforeAdmission
  <2>2. QED BY <1>2, <2>1, Unseen
<1>3. CASE CallEnd \/ EndTask
  BY <1>1, <1>3, ConfirmSeen, WorkSeen
<1>4. CASE Recover \/ Restore \/ RecoverSave \/ Start
  BY <1>1, <1>4, RecoverySeen
<1>5. CASE Reject \/ Begin \/ Snapshot \/ Mark \/ Finish \/ UndoSave \/ SwitchFails
  BY <1>1, <1>5, SwitchSeen
<1>6. CASE Select \/ SelectFails
  <2>1. sup.pc = "final" /\ UNCHANGED <<data, backup>> /\ (Admitting \/ UNCHANGED state)
    BY <1>6 DEF Select, SelectFails, At, dataVars
  <2>2. QED BY <1>1, <1>2, <2>1, SelectSeen
<1>7. CASE User
  BY <1>2, <1>7 DEF User, Edit, VerifyRead, VerifyOpen, VerifyClose, RequestBegin, ConfirmBegin,
                    StartTask, Close, dataVars
<1>8. CASE Open \/ BackendDies \/ Kill \/ AckLost \/ Reap \/ Launch \/ Record \/ Health \/ Activate
           \/ Apply \/ LockHeld \/ Drain \/ Stop \/ LaunchFails
  BY <1>2, <1>8 DEF Open, BackendDies, Kill, AckLost, Reap, Launch, Record, Health, Activate,
                    Apply, LockHeld, Drain, Stop, LaunchFails, dataVars
<1>9. CASE UNCHANGED vars
  BY <1>2, <1>9 DEF vars
<1>10. QED
  BY <1>3, <1>4, <1>5, <1>6, <1>7, <1>8, <1>9 DEF Next, Supervise

(***************************************************************************)
(* Seen from outside a switch happens at once or not at all: the selected  *)
(* release and the databases the next start will find change together, to  *)
(* a confirmed release and what it was tried on, or not at all             *)
(* (elira_release.py, ReleaseManager implements ReleaseSwitch).            *)
(***************************************************************************)
THEOREM SwitchesAtOnce ==
  ASSUME ~StagedBusy
  PROVE  Spec => SwitchAtomic
<1>1. Init => Switch!Init
  BY DEF Init, Switch!Init, Current, NoBackup, NoTransition, BeforeAdmission
<1>2. TypeInv /\ Safe /\ [Next]_vars => [Switch!Next]_(Switch!vars)
  BY NextSeen
<1>3. QED BY <1>1, <1>2, SafeInvariant, PTL DEF Spec, SwitchAtomic, Switch!Spec

---------------------------------------------------------------------------
(***************************************************************************)
(* What is installed is what was confirmed, unless a verify of the release *)
(* that is being installed is still under way: the way of finding 3 is the *)
(* only one.                                                               *)
(***************************************************************************)

\* No verify that has begun is still to reseal the release to be installed.
VerifyIsOver == \A r \in Releases : verifier[r].step # "none" => r # state.pending

\* From the test of apply_pending to the selection of the release.
Approving == sup.pc \in {"drain", "lock"} \/ Early \/ Trial

Held == Early \/ Trial \/ Undoing \/ Admitted \/ sup.job \in {"switch", "back"}

\* The installation under way is the pending one, and the supervisor remembers
\* what its receipt says; under the lock that is also what was confirmed last.
ConsentHeld ==
    /\ Approving => /\ sup.rel \in Releases /\ state.pending = sup.rel
                    /\ receipt[sup.rel].sha = sup.sha
    /\ Early \/ Trial => Approved(sup.rel, sup.sha)

ConsentInv == LockInv /\ ConsentHeld

\* A step of the supervisor that begins no installation.
Routine ==
    /\ UNCHANGED <<receipt, cli>>
    /\ state'.last = state.last /\ state'.confirmation = state.confirmation
    /\ state'.pending \in {state.pending, NoRelease}
    /\ (lock' = "cli") <=> (lock = "cli")
    /\ Held' => lock' = "sup"
    /\ Approving' => /\ Approving /\ state'.pending = state.pending
                     /\ sup'.rel = sup.rel /\ sup'.sha = sup.sha
    /\ (Early \/ Trial)' => Early \/ Trial

LEMMA RoutineKeeps ==
  ASSUME ConsentInv, Routine
  PROVE  ConsentInv'
<1>1. LockInv'
  BY DEF ConsentInv, LockInv, Routine, Held
<1>2. ConsentHeld'
  BY DEF ConsentInv, ConsentHeld, Routine, Approved, Approving
<1>3. QED BY <1>1, <1>2 DEF ConsentInv

\* The supervisor goes, is in its loop, or has not come so far.
LEMMA LeaveRoutine ==
  ASSUME Typed, ConsentInv, UNCHANGED <<receipt, cli>>, lock' = lock \/ Unlock,
         state'.last = state.last, state'.confirmation = state.confirmation,
         state'.pending \in {state.pending, NoRelease},
         sup'.pc \in {"down", "loop", "reap", "recover", "restore", "recover_save", "reject"},
         sup'.job = "none" \/ (sup'.job = sup.job /\ lock' = lock)
  PROVE  Routine
<1>1. ~Approving' /\ ~(Early \/ Trial)'
  BY DEF Approving, Early, Trial
<1>2. (lock' = "cli") <=> (lock = "cli")
  BY DEF Unlock
<1>3. Held' => lock' = "sup"
  BY DEF Held, Early, Trial, Undoing, Admitted, ConsentInv, LockInv
<1>4. QED BY <1>1, <1>2, <1>3 DEF Routine

LEMMA QuitRoutine ==
  ASSUME Typed, ConsentInv, UNCHANGED <<receipt, cli>>, sup' = Down, Unlock,
         state'.last = state.last, state'.confirmation = state.confirmation,
         state'.pending \in {state.pending, NoRelease}
  PROVE  Routine
  BY LeaveRoutine DEF Down

LEMMA LoopRoutine ==
  ASSUME Typed, ConsentInv, UNCHANGED <<receipt, cli>>, Loop, lock' = lock \/ Unlock,
         state'.last = state.last, state'.confirmation = state.confirmation,
         state'.pending \in {state.pending, NoRelease}
  PROVE  Routine
<1>1. sup'.pc = "loop" /\ sup'.job = "none"
  BY DEF Loop, Down
<1>2. QED BY <1>1, LeaveRoutine

(***************************************************************************)
(* The supervisor, action by action.                                       *)
(***************************************************************************)
LEMMA RecoverRoutine ==
  ASSUME Typed, ConsentInv, Open \/ Reap \/ Recover \/ Restore \/ RecoverSave \/ UndoSave
  PROVE  Routine
<1> USE DEF At, Goto, cliVars, candidates, dataVars
<1>1. CASE Open
  BY <1>1, LeaveRoutine DEF Open, Typed, Supervisors
<1>2. CASE Reap
  <2>1. /\ sup'.pc \in {"recover", "down"} /\ (sup'.job = sup.job \/ sup'.job = "none")
        /\ UNCHANGED <<state, receipt, cli, lock>>
    BY <1>2 DEF Reap, Typed, Supervisors, Down
  <2>2. QED BY <2>1, LeaveRoutine
<1>3. CASE Recover
  <2>1. sup'.pc \in {"restore", "recover_save"} /\ sup'.job = sup.job /\ UNCHANGED <<state, receipt, cli, lock>>
    BY <1>3 DEF Recover, Typed, Supervisors
  <2>2. QED BY <2>1, LeaveRoutine
<1>4. CASE Restore
  <2>1. /\ sup'.pc \in {"recover_save", "undo_save"} /\ sup'.job = sup.job /\ UNCHANGED <<state, receipt, cli, lock>>
    BY <1>4 DEF Restore, Typed, Supervisors
  <2>2. CASE sup'.pc = "recover_save"
    BY <2>1, <2>2, LeaveRoutine
  <2>3. CASE sup'.pc = "undo_save"
    <3>1. Undoing
      BY <1>4, <2>1, <2>3 DEF Restore, Typed, Supervisors, Undoing
    <3>2. QED BY <2>1, <2>3, <3>1 DEF Routine, Approving, Early, Trial, ConsentInv, LockInv
  <2>4. QED BY <2>1, <2>2, <2>3
<1>5. CASE RecoverSave
  <2>1. /\ sup'.pc = "launch" /\ sup'.job = sup.job /\ UNCHANGED <<receipt, cli, lock>>
        /\ state'.last = state.last /\ state'.confirmation = state.confirmation
        /\ state'.pending \in {state.pending, NoRelease}
    BY <1>5 DEF RecoverSave, Typed, Supervisors, States
  <2>2. QED BY <2>1 DEF Routine, Held, Approving, Early, Trial, Undoing, Admitted, ConsentInv, LockInv
<1>6. CASE UndoSave
  <2>1. /\ UNCHANGED <<receipt, cli>>
        /\ state'.last = state.last /\ state'.confirmation = state.confirmation
        /\ state'.pending \in {state.pending, NoRelease}
    BY <1>6 DEF UndoSave, Typed, States
  <2>2. CASE Loop /\ Unlock
    BY <2>1, <2>2, LoopRoutine
  <2>3. CASE Goto("launch") /\ UNCHANGED lock
    <3>1. sup'.pc = "launch" /\ sup'.job = sup.job
      BY <2>3 DEF Typed, Supervisors
    <3>2. QED BY <2>1, <2>3, <3>1 DEF Routine, Held, Approving, Early, Trial, Undoing, Admitted, ConsentInv, LockInv
  <2>4. QED BY <1>6, <2>2, <2>3 DEF UndoSave
<1>7. QED BY <1>1, <1>2, <1>3, <1>4, <1>5, <1>6

\* A release is started: it is tried under the lock, or launched.
LEMMA StartRoutine ==
  ASSUME Typed, ConsentInv, Launch \/ Start \/ Record \/ Health \/ Activate
  PROVE  Routine
<1> USE DEF At, cliVars, candidates, dataVars
<1>0. UNCHANGED <<state, receipt, cli>>
  BY DEF Launch, Start, Record, Health, Activate
<1>1. CASE Launch
  <2>1. CASE Quit
    BY <1>0, <2>1, QuitRoutine DEF Quit
  <2>2. CASE Loop /\ UNCHANGED lock
    BY <1>0, <2>2, LoopRoutine
  <2>3. CASE /\ sup' = [sup EXCEPT !.pc = "start", !.rel = state.active,
                                   !.job = IF sup.job = "switch" THEN "back" ELSE "launch"]
             /\ UNCHANGED lock
    <3>1. sup'.pc = "start" /\ (sup'.job = "launch" \/ (sup'.job = "back" /\ sup.job = "switch"))
      BY <2>3 DEF Typed, Supervisors
    <3>2. QED BY <1>0, <2>3, <3>1 DEF Routine, Held, Approving, Early, Trial, Undoing, Admitted, ConsentInv, LockInv
  <2>4. QED BY <1>1, <2>1, <2>2, <2>3 DEF Launch
<1>2. CASE Start \/ Record \/ Health
  <2>1. /\ sup'.job = sup.job /\ sup'.rel = sup.rel /\ sup'.sha = sup.sha /\ UNCHANGED lock
        /\ sup.pc \in {"start", "record", "health"}
        /\ sup'.pc \in {"record", "health", "activate", "final"}
        /\ sup'.pc = "final" => sup.job = "switch"
        /\ sup'.pc = "activate" => sup.job # "switch"
    BY <1>2 DEF Start, Record, Health, Goto, Typed, Supervisors
  <2>2. QED BY <1>0, <2>1 DEF Routine, Held, Approving, Early, Trial, Undoing, Admitted, ConsentInv, LockInv
<1>3. CASE Activate
  <2>1. CASE Quit
    BY <1>0, <2>1, QuitRoutine DEF Quit
  <2>2. CASE Loop /\ Unlock
    BY <1>0, <2>2, LoopRoutine
  <2>3. CASE sup.job = "switch" /\ Goto("finish") /\ UNCHANGED lock
    <3>1. sup'.pc = "finish" /\ sup'.job = sup.job
      BY <2>3 DEF Goto, Typed, Supervisors
    <3>2. QED BY <1>0, <2>3, <3>1 DEF Routine, Held, Approving, Early, Trial, Undoing, Admitted, ConsentInv, LockInv
  <2>4. QED BY <1>3, <2>1, <2>2, <2>3 DEF Activate
<1>4. QED BY <1>1, <1>2, <1>3

\* The request is tested; from there on it is the pending one.
LEMMA ApplyConsent ==
  ASSUME Typed, ConsentInv, Apply
  PROVE  ConsentInv'
<1>1. /\ UNCHANGED <<state, receipt, cli, lock>> /\ state.pending # NoRelease /\ sup.pc = "loop"
      /\ sup' = [sup EXCEPT !.rel = state.pending, !.sha = receipt[state.pending].sha, !.pc = sup'.pc]
      /\ sup'.pc \in {"drain", "reject"}
  BY DEF Apply, At, cliVars, candidates, dataVars, Typed, Supervisors
<1>2. sup'.job = sup.job /\ sup'.rel = state.pending /\ sup'.sha = receipt[state.pending].sha
  BY <1>1 DEF Typed, Supervisors
<1>3. state.pending \in Releases
  BY <1>1 DEF Typed, States, MaybeRelease
<1>4. LockInv'
  BY <1>1, <1>2 DEF ConsentInv, LockInv, Early, Trial, Undoing, Admitted
<1>5. ConsentHeld'
  BY <1>1, <1>2, <1>3 DEF ConsentHeld, Approving, Early, Trial
<1>6. QED BY <1>4, <1>5 DEF ConsentInv

LEMMA DrainRoutine ==
  ASSUME Typed, ConsentInv, Reject \/ LockHeld \/ Drain
  PROVE  Routine
<1> USE DEF At, cliVars, candidates, dataVars
<1>1. CASE Reject
  <2>1. /\ UNCHANGED <<receipt, cli, lock>> /\ Loop
        /\ state'.last = state.last /\ state'.confirmation = state.confirmation
        /\ state'.pending \in {state.pending, NoRelease}
    BY <1>1 DEF Reject, Typed, States
  <2>2. QED BY <2>1, LoopRoutine
<1>2. CASE LockHeld
  BY <1>2, QuitRoutine DEF LockHeld, Quit
<1>3. CASE Drain
  <2>0. UNCHANGED <<state, receipt, cli>>
    BY <1>3 DEF Drain
  <2>1. CASE Quit
    BY <2>0, <2>1, QuitRoutine DEF Quit
  <2>2. CASE Loop /\ UNCHANGED lock
    BY <2>0, <2>2, LoopRoutine
  <2>3. CASE Goto("lock") /\ UNCHANGED lock
    <3>1. /\ sup'.pc = "lock" /\ sup.pc = "drain" /\ sup'.job = sup.job
          /\ sup'.rel = sup.rel /\ sup'.sha = sup.sha
      BY <1>3, <2>3 DEF Drain, Goto, Typed, Supervisors
    <3>2. QED BY <2>0, <2>3, <3>1 DEF Routine, Held, Approving, Early, Trial, Undoing, Admitted, ConsentInv, LockInv
  <2>4. QED BY <1>3, <2>1, <2>2, <2>3 DEF Drain
<1>4. QED BY <1>1, <1>2, <1>3

\* Under the lock the request is compared with what was confirmed last.
LEMMA BeginConsent ==
  ASSUME Typed, ConsentInv, Begin
  PROVE  ConsentInv'
<1>0. UNCHANGED <<receipt, cli>> /\ sup.pc = "lock" /\ lock = "free"
  BY DEF Begin, At, cliVars, candidates
<1>1. CASE Loop /\ UNCHANGED <<state, lock>>
  BY <1>0, <1>1, LoopRoutine, RoutineKeeps
<1>2. CASE Quit /\ UNCHANGED state
  BY <1>0, <1>2, QuitRoutine, RoutineKeeps DEF Quit
<1>3. CASE /\ Approved(sup.rel, sup.sha) /\ lock' = "sup"
           /\ state' = [state EXCEPT !.transition = [from |-> state.active, to |-> sup.rel, phase |-> "stopping"]]
           /\ sup' = [sup EXCEPT !.pc = "stop", !.prev = state.active, !.job = "switch"]
  <2>1. /\ sup'.pc = "stop" /\ sup'.rel = sup.rel /\ sup'.sha = sup.sha
        /\ state'.last = state.last /\ state'.confirmation = state.confirmation
        /\ state'.pending = state.pending
    BY <1>3 DEF Typed, Supervisors, States
  <2>2. LockInv'
    BY <1>0, <1>3, <2>1 DEF ConsentInv, LockInv
  <2>3. ConsentHeld'
    BY <1>0, <1>3, <2>1 DEF ConsentInv, ConsentHeld, Approved, Approving
  <2>4. QED BY <2>2, <2>3 DEF ConsentInv
<1>4. QED BY <1>1, <1>2, <1>3 DEF Begin

LEMMA SwitchRoutine ==
  ASSUME Typed, ConsentInv, Stop \/ Snapshot \/ Mark \/ Select \/ Finish
  PROVE  Routine
<1> USE DEF At, Goto, cliVars, candidates, dataVars
<1>1. CASE Stop \/ Snapshot \/ Mark
  <2>1. /\ sup.pc \in {"stop", "snapshot", "mark"} /\ sup'.pc \in {"snapshot", "mark", "start"}
        /\ sup'.job = sup.job /\ sup'.rel = sup.rel /\ sup'.sha = sup.sha
        /\ UNCHANGED <<receipt, cli, lock>>
    BY <1>1 DEF Stop, Snapshot, Mark, Typed, Supervisors
  <2>2. /\ state'.last = state.last /\ state'.confirmation = state.confirmation
        /\ state'.pending = state.pending
    BY <1>1 DEF Stop, Snapshot, Mark, Typed, States
  <2>3. QED BY <2>1, <2>2 DEF Routine, Held, Approving, Early, Trial, Undoing, Admitted, ConsentInv, LockInv
<1>2. CASE Select
  <2>1. /\ sup.pc = "final" /\ sup'.pc = "activate" /\ sup'.job = sup.job /\ UNCHANGED <<receipt, cli, lock>>
    BY <1>2 DEF Select, Typed, Supervisors
  <2>2. /\ state'.last = state.last /\ state'.confirmation = state.confirmation
        /\ state'.pending = NoRelease
    BY <1>2 DEF Select, Admitting, Typed, States
  <2>3. QED BY <2>1, <2>2 DEF Routine, Held, Approving, Early, Trial, Undoing, Admitted, ConsentInv, LockInv
<1>3. CASE Finish
  <2>1. /\ Loop /\ Unlock /\ UNCHANGED <<receipt, cli>>
        /\ state'.last = state.last /\ state'.confirmation = state.confirmation
        /\ state'.pending = state.pending
    BY <1>3 DEF Finish, Typed, States
  <2>2. QED BY <2>1, LoopRoutine
<1>4. QED BY <1>1, <1>2, <1>3

\* A switch that fails, and whatever ends the supervisor.
LEMMA FailRoutine ==
  ASSUME Typed, ConsentInv, SwitchFails \/ LaunchFails \/ SelectFails \/ Close \/ Kill
  PROVE  Routine
<1> USE DEF cliVars, candidates, dataVars
<1>1. CASE SwitchFails
  <2>1. Undoable /\ Undo /\ UNCHANGED <<state, receipt, cli, lock>>
    BY <1>1 DEF SwitchFails, Undo
  <2>2. lock = "sup"
    BY <2>1 DEF Undoable, ConsentInv, LockInv, Early, Trial
  <2>3. sup'.pc \in {"undo_restore", "undo_save"}
    BY <2>1 DEF Undo, Typed, Supervisors
  <2>4. QED BY <2>1, <2>2, <2>3 DEF Routine, Approving, Early, Trial
<1>2. CASE LaunchFails \/ Close
  BY <1>2, QuitRoutine DEF LaunchFails, Close, Quit
<1>3. CASE SelectFails
  <2>1. /\ state'.last = state.last /\ state'.confirmation = state.confirmation
        /\ state'.pending \in {state.pending, NoRelease}
    BY <1>3 DEF SelectFails, Admitting, Typed, States
  <2>2. QED BY <1>3, <2>1, QuitRoutine DEF SelectFails, Quit
<1>4. CASE Kill
  BY <1>4, QuitRoutine DEF Kill
<1>5. QED BY <1>1, <1>2, <1>3, <1>4

(***************************************************************************)
(* The calls of other processes.                                           *)
(***************************************************************************)
LEMMA CallConsent ==
  ASSUME Typed, ConsentInv,
         (\E r \in Releases : RequestBegin(r)) \/ (\E id \in 1..issued : ConfirmBegin(id)) \/ CallEnd
  PROVE  ConsentInv'
<1>1. UNCHANGED <<sup, receipt>>
  BY DEF RequestBegin, ConfirmBegin, CallEnd, candidates
<1>2. LockInv'
  <2> USE DEF ConsentInv, LockInv, NoProposal, NoCall, Refusal
  <2>1. CASE \E r \in Releases : RequestBegin(r)
    BY <2>1 DEF RequestBegin, Early, Trial, Undoing, Admitted
  <2>2. CASE \E id \in 1..issued : ConfirmBegin(id)
    BY <2>2 DEF ConfirmBegin, Early, Trial, Undoing, Admitted
  <2>3. CASE CallEnd
    <3>1. lock = "cli" /\ lock' = "free" /\ cli'.op = "none"
      BY <2>3 DEF CallEnd, RequestEnd, ConfirmEnd, CallFails
    <3>2. state'.confirmation = NoProposal \/ (state'.confirmation.rel \in Releases
                                               /\ state'.pending = NoRelease)
      <4>1. CASE RequestEnd
        BY <4>1 DEF RequestEnd, Typed, States
      <4>2. CASE ConfirmEnd
        BY <4>2 DEF ConfirmEnd, Typed, States
      <4>3. CASE CallFails
        BY <4>3 DEF CallFails
      <4>4. QED BY <2>3, <4>1, <4>2, <4>3 DEF CallEnd
    <3>3. QED BY <1>1, <3>1, <3>2 DEF Early, Trial, Undoing, Admitted
  <2>4. QED BY <2>1, <2>2, <2>3
<1>3. Approving => UNCHANGED state
  <2>1. Approving => state.pending # NoRelease
    BY DEF ConsentInv, ConsentHeld
  <2>2. Approving => cli.op \notin {"request", "confirm"}
    BY <2>1 DEF ConsentInv, LockInv
  <2>3. QED BY <2>2 DEF RequestBegin, ConfirmBegin, CallEnd, RequestEnd, ConfirmEnd, CallFails
<1>4. ConsentHeld'
  BY <1>1, <1>3 DEF ConsentInv, ConsentHeld, Approving, Early, Trial, Approved
<1>5. QED BY <1>2, <1>4 DEF ConsentInv

\* A verify changes the receipt of another release than the one to be installed.
LEMMA VerifyConsent ==
  ASSUME Typed, ConsentInv, VerifyIsOver, receipt \in [Releases -> Receipts],
         NEW r \in Releases, VerifyRead(r) \/ VerifyOpen(r) \/ VerifyClose(r)
  PROVE  ConsentInv'
<1>1. UNCHANGED <<state, lock, cli, sup>>
  BY DEF VerifyRead, VerifyOpen, VerifyClose, cliVars
<1>2. \A o \in Releases : receipt'[o] = receipt[o] \/ o # state.pending
  <2>1. CASE VerifyRead(r)
    BY <2>1 DEF VerifyRead
  <2>2. CASE VerifyOpen(r) \/ VerifyClose(r)
    <3>1. r # state.pending
      BY <2>2 DEF VerifyIsOver, VerifyOpen, VerifyClose
    <3>2. \E v : receipt' = [receipt EXCEPT ![r] = v]
      BY <2>2 DEF VerifyOpen, VerifyClose
    <3>3. QED BY <3>1, <3>2
  <2>3. QED BY <2>1, <2>2
<1>3. LockInv'
  BY <1>1 DEF ConsentInv, LockInv, Early, Trial, Undoing, Admitted
<1>4. ConsentHeld'
  BY <1>1, <1>2 DEF ConsentInv, ConsentHeld, Approving, Early, Trial, Approved
<1>5. QED BY <1>3, <1>4 DEF ConsentInv

LEMMA StillConsent ==
  ASSUME ConsentInv, UNCHANGED <<state, lock, cli, sup, receipt>>
  PROVE  ConsentInv'
  BY DEF ConsentInv, ConsentHeld, LockInv, Approving, Early, Trial, Undoing, Admitted, Approved

---------------------------------------------------------------------------
(* The invariant and the theorem *)

LEMMA ConsentInitial == Init => ConsentInv
  BY DEF Init, ConsentInv, ConsentHeld, LockInv, Down, NoCall, Approving, Early, Trial, Undoing, Admitted

LEMMA ConsentInductive ==
  ASSUME TypeInv, ConsentInv, VerifyIsOver, [Next]_vars
  PROVE  ConsentInv'
<1>1. Typed /\ receipt \in [Releases -> Receipts]
  BY TypeGives DEF TypeInv, TypeOK
<1>2. CASE User
  <2>1. CASE \E r \in Releases : VerifyRead(r) \/ VerifyOpen(r) \/ VerifyClose(r)
    BY <1>1, <2>1, VerifyConsent
  <2>2. CASE (\E r \in Releases : RequestBegin(r)) \/ (\E id \in 1..issued : ConfirmBegin(id))
    BY <1>1, <2>2, CallConsent
  <2>3. CASE (\E r \in Edited : Edit(r)) \/ StartTask
    BY <2>3, StillConsent DEF Edit, StartTask, cliVars, candidates
  <2>4. CASE Close
    BY <1>1, <2>4, FailRoutine, RoutineKeeps
  <2>5. QED BY <1>2, <2>1, <2>2, <2>3, <2>4 DEF User
<1>3. CASE CallEnd
  BY <1>1, <1>3, CallConsent
<1>4. CASE EndTask \/ BackendDies \/ AckLost \/ UNCHANGED vars
  BY <1>4, StillConsent DEF EndTask, BackendDies, AckLost, vars, cliVars, candidates
<1>5. CASE Open \/ Reap \/ Recover \/ Restore \/ RecoverSave \/ UndoSave
  BY <1>1, <1>5, RecoverRoutine, RoutineKeeps
<1>6. CASE Launch \/ Start \/ Record \/ Health \/ Activate
  BY <1>1, <1>6, StartRoutine, RoutineKeeps
<1>7. CASE Apply \/ Begin
  BY <1>1, <1>7, ApplyConsent, BeginConsent
<1>8. CASE LockHeld \/ Reject \/ Drain
  BY <1>1, <1>8, DrainRoutine, RoutineKeeps
<1>9. CASE Stop \/ Snapshot \/ Mark \/ Select \/ Finish
  BY <1>1, <1>9, SwitchRoutine, RoutineKeeps
<1>10. CASE SwitchFails \/ LaunchFails \/ SelectFails \/ Kill
  BY <1>1, <1>10, FailRoutine, RoutineKeeps
<1>11. QED
  BY <1>2, <1>3, <1>4, <1>5, <1>6, <1>7, <1>8, <1>9, <1>10 DEF Next, Supervise

\* Only the end of a switch, or its failing save, selects a release.
LEMMA SelectsConfirmed ==
  ASSUME TypeInv, ConsentInv, [Next]_vars
  PROVE  state'.active # state.active /\ state'.transition.phase = "admitting"
            => Approved(state'.active, receipt[state'.active].sha)
<1>1. Typed
  BY TypeGives
<1>2. CASE UNCHANGED state
  BY <1>2
<1>3. CASE Select \/ SelectFails
  <2>1. sup.pc = "final" /\ (Admitting \/ UNCHANGED state)
    BY <1>3 DEF Select, SelectFails, At
  <2>2. Approved(sup.rel, sup.sha) /\ receipt[sup.rel].sha = sup.sha
    BY <2>1 DEF ConsentInv, ConsentHeld, Approving, Trial
  <2>3. Admitting => state'.active = sup.rel
    BY <1>1 DEF Admitting, Typed, States
  <2>4. QED BY <2>1, <2>2, <2>3 DEF Approved
<1>4. CASE RecoverSave \/ UndoSave
  <2>1. \/ state'.transition = NoTransition
        \/ state'.active = state.active
    BY <1>1, <1>4 DEF RecoverSave, UndoSave, Typed, States
  <2>2. QED BY <2>1 DEF NoTransition
<1>5. CASE CallEnd \/ Reject \/ Begin \/ Mark \/ Finish
  <2>1. state'.active = state.active
    BY <1>1, <1>5 DEF CallEnd, RequestEnd, ConfirmEnd, CallFails, Reject, Begin, Mark, Finish,
                      Typed, States
  <2>2. QED BY <2>1
<1>6. CASE User
  BY <1>2, <1>6 DEF User, Edit, VerifyRead, VerifyOpen, VerifyClose, RequestBegin, ConfirmBegin,
                    StartTask, Close
<1>7. CASE \/ EndTask \/ Open \/ BackendDies \/ Kill \/ AckLost \/ Reap \/ Recover \/ Restore
           \/ Launch \/ Start \/ Record \/ Health \/ Activate
  BY <1>2, <1>7 DEF EndTask, Open, BackendDies, Kill, AckLost, Reap, Recover, Restore,
                    Launch, Start, Record, Health, Activate
<1>8. CASE Apply \/ LockHeld \/ Drain \/ Stop \/ Snapshot \/ SwitchFails \/ LaunchFails
  BY <1>2, <1>8 DEF Apply, LockHeld, Drain, Stop, Snapshot, SwitchFails, Undo, LaunchFails
<1>9. CASE UNCHANGED vars
  BY <1>2, <1>9 DEF vars
<1>10. QED
  BY <1>3, <1>4, <1>5, <1>6, <1>7, <1>8, <1>9 DEF Next, Supervise

(***************************************************************************)
(* What becomes the selected release is what the user confirmed, byte for  *)
(* byte, provided no verify that began before the release was to be        *)
(* installed is still to reseal it (finding 3 is a run in which one is);   *)
(* whatever crashes, refusals and edits there are (elira_release.py 1108,  *)
(* 1130, 1140, 1150).                                                      *)
(***************************************************************************)
THEOREM InstalledIsConfirmed == Spec /\ []VerifyIsOver => InstalledAsConfirmed
<1>1. Init => TypeInv /\ ConsentInv
  BY InitType, ConsentInitial
<1>2. TypeInv /\ ConsentInv /\ VerifyIsOver /\ [Next]_vars => (TypeInv /\ ConsentInv)'
  BY NextType, ConsentInductive
<1>3. TypeInv /\ ConsentInv /\ [Next]_vars =>
        [state'.active # state.active /\ state'.transition.phase = "admitting"
            => Approved(state'.active, receipt[state'.active].sha)]_state
  BY SelectsConfirmed
<1>4. QED BY <1>1, <1>2, <1>3, PTL DEF Spec, InstalledAsConfirmed

===============================================================================
