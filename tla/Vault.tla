--------------------------------- MODULE Vault ---------------------------------
(***************************************************************************)
(* The portable vault of vault.py: the encrypted file with its records,    *)
(* the rows of secret_refs that track them in the it_ops database          *)
(* (it_ops/store.py), the key in memory with its idle timer, recovery of   *)
(* what was cut off, and backup and restore of both stores together.       *)
(*                                                                         *)
(* _lock is held over a whole operation, so one operation runs at a time;  *)
(* between two of its steps the process may crash, and a step on a store   *)
(* may fail.  A replacement of the file, and a statement of the database,  *)
(* is one step.  Credentials and ciphertext are not modelled: an unlock    *)
(* with a wrong one changes nothing.                                       *)
(***************************************************************************)
EXTENDS Naturals, FiniteSets

CONSTANTS
    Secrets,        \* secret refs
    NoSecret,
    MaxKeyUses      \* bound: generations of the idle timer in one process

ASSUME VaultAssumption == NoSecret \notin Secrets /\ MaxKeyUses \in Nat

VARIABLES
    vault,      \* the file: does it exist, its records, is a restore pending in it
    row,        \* lifecycle in secret_refs
    tries,      \* recovery_attempts
    leased,     \* "recovering" rows whose lease is not stale yet
    state,      \* the other databases a backup bundles: their version
    bundle,     \* the backup file
    unlocked,   \* _data_key
    generation, \* _idle_generation
    armed,      \* the idle timer that runs: its generation (0: none)
    expired,    \* generations of timers that wait for _lock to drop the key
    vaultOp,    \* the operation that holds _lock
    cut         \* history: revocations cut off between the two stores

vaultVars == <<vault, row, tries, leased, state, bundle, unlocked, generation, armed, expired, vaultOp, cut>>
keyVars == <<unlocked, generation, armed, expired>>
rowVars == <<row, tries, leased>>

MaxRecoveryAttempts == 2
Lifecycles == {"none", "provisioning", "live", "revoked", "cleanup_pending", "recovering", "recovery_failed"}
NoOp == [does |-> "nothing", at |-> "idle", ref |-> NoSecret, todo |-> {}]
NoBundle == [there |-> FALSE, records |-> {}, row |-> [s \in Secrets |-> "none"],
             tries |-> [s \in Secrets |-> 0], state |-> 1]
VaultIdle == vaultOp = NoOp
OpEnds == vaultOp' = NoOp
OpTo(at) == vaultOp' = [vaultOp EXCEPT !.at = at]
InStep(does, at) == vaultOp.does = does /\ vaultOp.at = at

---------------------------------------------------------------------------
(* The key and its idle timer *)

\* _clear_data_key: a timer that has fired already finds another generation.
ClearKey ==
    /\ generation' = generation + 1
    /\ unlocked' = FALSE /\ armed' = 0
    /\ UNCHANGED expired

\* _require_key and _touch_data_key: every use starts the idle time anew.
UseKey ==
    /\ unlocked /\ generation < MaxKeyUses
    /\ generation' = generation + 1 /\ armed' = generation + 1
    /\ UNCHANGED <<unlocked, expired>>

\* _set_data_key.
SetKey ==
    /\ generation + 1 < MaxKeyUses
    /\ generation' = generation + 2 /\ armed' = generation + 2
    /\ unlocked' = TRUE
    /\ UNCHANGED expired

TimerFires ==
    /\ armed # 0
    /\ expired' = expired \cup {armed} /\ armed' = 0
    /\ UNCHANGED <<vault, rowVars, state, bundle, unlocked, generation, vaultOp, cut>>

\* _expire_idle_key.
Expire(g) ==
    /\ VaultIdle /\ g \in expired
    /\ expired' = expired \ {g}
    /\ IF g = generation
       THEN unlocked' = FALSE /\ armed' = 0 /\ generation' = generation + 1
       ELSE UNCHANGED <<unlocked, armed, generation>>
    /\ UNCHANGED <<vault, rowVars, state, bundle, vaultOp, cut>>

Lock ==
    /\ VaultIdle /\ unlocked
    /\ ClearKey
    /\ UNCHANGED <<vault, rowVars, state, bundle, vaultOp, cut>>

\* resolve and the two rotations use the key and change no record.
Use ==
    /\ VaultIdle
    /\ UseKey
    /\ UNCHANGED <<vault, rowVars, state, bundle, vaultOp, cut>>

---------------------------------------------------------------------------
(* put_secret: the row, the ciphertext, the final lifecycle *)

PutRow(s) ==
    /\ VaultIdle /\ vault.there
    /\ row[s] = "none" /\ s \notin vault.records /\ s \notin bundle.records /\ bundle.row[s] = "none"
    /\ UseKey
    /\ row' = [row EXCEPT ![s] = "provisioning"]
    /\ vaultOp' = [does |-> "put", at |-> "write", ref |-> s, todo |-> {}]
    /\ UNCHANGED <<vault, tries, leased, state, bundle, cut>>

\* A write that fails is marked for cleanup, if the database can be written.
PutWrite ==
    /\ InStep("put", "write")
    /\ \/ vault' = [vault EXCEPT !.records = @ \cup {vaultOp.ref}] /\ OpTo("finalize") /\ UNCHANGED row
       \/ /\ OpEnds
          /\ row' \in {row, [row EXCEPT ![vaultOp.ref] = "cleanup_pending"]}
          /\ UNCHANGED vault
    /\ UNCHANGED <<tries, leased, state, bundle, keyVars, cut>>

PutFinalize ==
    /\ InStep("put", "finalize")
    /\ row' \in {row, [row EXCEPT ![vaultOp.ref] = IF @ = "provisioning" THEN "live" ELSE @]}
    /\ OpEnds
    /\ UNCHANGED <<vault, tries, leased, state, bundle, keyVars, cut>>

---------------------------------------------------------------------------
(* revoke *)

\* Mutant of RevokeDelete: the row is marked before the ciphertext is removed.
RevokeDeleteLast(s) ==
    /\ VaultIdle /\ row[s] # "none"
    /\ UseKey
    /\ row' = [row EXCEPT ![s] = "revoked"]
    /\ vaultOp' = [does |-> "revoke", at |-> "mark", ref |-> s, todo |-> {}]
    /\ UNCHANGED <<vault, tries, leased, state, bundle, cut>>

\* The ciphertext is removed before the row says so.
RevokeDelete(s) ==
    /\ VaultIdle /\ row[s] # "none"
    /\ UseKey
    /\ vault' = [vault EXCEPT !.records = @ \ {s}]
    /\ vaultOp' = [does |-> "revoke", at |-> "mark", ref |-> s, todo |-> {}]
    /\ UNCHANGED <<rowVars, state, bundle, cut>>

RevokeMark ==
    /\ InStep("revoke", "mark")
    /\ \/ row' = [row EXCEPT ![vaultOp.ref] = "revoked"] /\ UNCHANGED cut
       \/ cut' = cut \cup {vaultOp.ref} /\ UNCHANGED row
    /\ OpEnds
    /\ UNCHANGED <<vault, tries, leased, state, bundle, keyVars>>

---------------------------------------------------------------------------
(* recover_incomplete_secrets *)

Recoverable(s) == row[s] \in {"provisioning", "cleanup_pending"} \/ (row[s] = "recovering" /\ s \notin leased)

LeaseEnds(s) ==
    /\ s \in leased
    /\ leased' = leased \ {s}
    /\ UNCHANGED <<vault, row, tries, state, bundle, keyVars, vaultOp, cut>>

RecoverBegin ==
    /\ VaultIdle /\ vault.there
    /\ UseKey
    /\ vaultOp' = [does |-> "recover", at |-> "next", ref |-> NoSecret, todo |-> {s \in Secrets : Recoverable(s)}]
    /\ UNCHANGED <<vault, rowVars, state, bundle, cut>>

NextRef == vaultOp' = [vaultOp EXCEPT !.at = "next", !.ref = NoSecret]
BestEffortMark(s) == row' \in {row, [row EXCEPT ![s] = "cleanup_pending"]}

\* The attempt is claimed, or given up when there have been two.
RecoverClaim(s) ==
    /\ InStep("recover", "next") /\ s \in vaultOp.todo
    /\ IF tries[s] >= MaxRecoveryAttempts
       THEN /\ row' = [row EXCEPT ![s] = "recovery_failed"]
            /\ vaultOp' = [vaultOp EXCEPT !.todo = @ \ {s}]
            /\ UNCHANGED <<tries, leased>>
       ELSE \/ /\ row' = [row EXCEPT ![s] = "recovering"]
               /\ tries' = [tries EXCEPT ![s] = @ + 1]
               /\ leased' = leased \cup {s}
               /\ vaultOp' = [vaultOp EXCEPT !.at = "delete", !.ref = s, !.todo = @ \ {s}]
            \/ /\ BestEffortMark(s)
               /\ vaultOp' = [vaultOp EXCEPT !.todo = @ \ {s}]
               /\ UNCHANGED <<tries, leased>>
    /\ UNCHANGED <<vault, state, bundle, keyVars, cut>>

\* _delete_record.
RecoverDelete ==
    /\ InStep("recover", "delete")
    /\ \/ UseKey /\ vault' = [vault EXCEPT !.records = @ \ {vaultOp.ref}] /\ OpTo("drop") /\ UNCHANGED row
       \/ BestEffortMark(vaultOp.ref) /\ NextRef /\ UNCHANGED <<vault, keyVars>>
    /\ UNCHANGED <<tries, leased, state, bundle, cut>>

\* delete_claimed_recovery.
RecoverDrop ==
    /\ InStep("recover", "drop")
    /\ LET s == vaultOp.ref
       IN \/ row' = [row EXCEPT ![s] = "none"] /\ tries' = [tries EXCEPT ![s] = 0] /\ leased' = leased \ {s}
          \/ BestEffortMark(s) /\ UNCHANGED <<tries, leased>>
    /\ NextRef
    /\ UNCHANGED <<vault, state, bundle, keyVars, cut>>

\* All are done, or the database fails outside the clause that catches it.
RecoverEnd ==
    /\ InStep("recover", "next")
    /\ OpEnds
    /\ UNCHANGED <<vault, rowVars, state, bundle, keyVars, cut>>

---------------------------------------------------------------------------
(* create, unlock, backup and restore *)

Create ==
    /\ VaultIdle /\ ~vault.there
    /\ vault' = [there |-> TRUE, records |-> {}, pending |-> FALSE]
    /\ SetKey
    /\ UNCHANGED <<rowVars, state, bundle, vaultOp, cut>>

\* A pending restore is applied before the key is kept.
Unlock ==
    /\ VaultIdle /\ vault.there
    /\ IF vault.pending
       THEN vaultOp' = [NoOp EXCEPT !.does = "unlock", !.at = "rows"] /\ UNCHANGED keyVars
       ELSE SetKey /\ UNCHANGED vaultOp
    /\ UNCHANGED <<vault, rowVars, state, bundle, cut>>

\* _apply_pending_restore: the rows, the other databases, then the file says so;
\* each may fail, and the unlock with it.
ApplyRows ==
    /\ InStep("unlock", "rows")
    /\ \/ row' = bundle.row /\ tries' = bundle.tries /\ leased' = {} /\ OpTo("state")
       \/ OpEnds /\ UNCHANGED rowVars
    /\ UNCHANGED <<vault, state, bundle, keyVars, cut>>

ApplyState ==
    /\ InStep("unlock", "state")
    /\ \/ state' = bundle.state /\ OpTo("settle")
       \/ OpEnds /\ UNCHANGED state
    /\ UNCHANGED <<vault, rowVars, bundle, keyVars, cut>>

ApplySettle ==
    /\ InStep("unlock", "settle")
    /\ \/ vault' = [vault EXCEPT !.pending = FALSE] /\ SetKey
       \/ UNCHANGED <<vault, keyVars>>
    /\ OpEnds
    /\ UNCHANGED <<rowVars, state, bundle, cut>>

\* The file and the databases as they are under the lock.
Backup ==
    /\ VaultIdle /\ vault.there
    /\ UseKey
    /\ bundle' = [there |-> TRUE, records |-> vault.records, row |-> row, tries |-> tries, state |-> state]
    /\ UNCHANGED <<vault, rowVars, state, vaultOp, cut>>

\* The key is dropped, then the file replaced, with the databases staged in it.
Restore ==
    /\ VaultIdle /\ bundle.there
    /\ generation < MaxKeyUses /\ ClearKey
    /\ vault' \in {vault, [there |-> TRUE, records |-> bundle.records, pending |-> TRUE]}
    /\ UNCHANGED <<rowVars, state, bundle, vaultOp, cut>>

\* The rest of the program writes its own databases.
ChangeState ==
    /\ state' = 3 - state
    /\ UNCHANGED <<vault, rowVars, bundle, keyVars, vaultOp, cut>>

CrashVault ==
    /\ vaultOp' = NoOp
    /\ cut' = IF InStep("revoke", "mark") THEN cut \cup {vaultOp.ref} ELSE cut
    /\ unlocked' = FALSE /\ generation' = 0 /\ armed' = 0 /\ expired' = {}
    /\ UNCHANGED <<vault, rowVars, state, bundle>>

---------------------------------------------------------------------------
VaultInit ==
    /\ vault = [there |-> FALSE, records |-> {}, pending |-> FALSE]
    /\ row = [s \in Secrets |-> "none"] /\ tries = [s \in Secrets |-> 0] /\ leased = {}
    /\ state = 1 /\ bundle = NoBundle
    /\ unlocked = FALSE /\ generation = 0 /\ armed = 0 /\ expired = {}
    /\ vaultOp = NoOp /\ cut = {}

VaultNext ==
    \/ TimerFires \/ (\E g \in expired : Expire(g)) \/ Lock \/ Use
    \/ \E s \in Secrets : PutRow(s) \/ RevokeDelete(s) \/ LeaseEnds(s) \/ RecoverClaim(s)
    \/ PutWrite \/ PutFinalize \/ RevokeMark
    \/ RecoverBegin \/ RecoverDelete \/ RecoverDrop \/ RecoverEnd
    \/ Create \/ Unlock \/ ApplyRows \/ ApplyState \/ ApplySettle \/ Backup \/ Restore
    \/ ChangeState \/ CrashVault

VaultSpec == VaultInit /\ [][VaultNext]_vaultVars

---------------------------------------------------------------------------
(* Properties *)

VaultFiles == [there : BOOLEAN, records : SUBSET Secrets, pending : BOOLEAN]
Tries == 0..MaxRecoveryAttempts
Bundles == [there : BOOLEAN, records : SUBSET Secrets, row : [Secrets -> Lifecycles],
            tries : [Secrets -> Tries], state : {1, 2}]
VaultOps == [does : {"nothing", "put", "revoke", "recover", "unlock"},
             at : {"idle", "write", "finalize", "mark", "next", "delete", "drop", "rows", "state", "settle"},
             ref : Secrets \cup {NoSecret}, todo : SUBSET Secrets]

\* The file, the rows, the bundle, the key and the operation have their types.
VaultTypeOK ==
    /\ vault \in VaultFiles /\ bundle \in Bundles
    /\ row \in [Secrets -> Lifecycles] /\ tries \in [Secrets -> Tries]
    /\ leased \subseteq Secrets /\ cut \subseteq Secrets
    /\ state \in {1, 2} /\ unlocked \in BOOLEAN
    /\ generation \in 0..MaxKeyUses + 1 /\ armed \in 0..MaxKeyUses
    /\ expired \subseteq 1..MaxKeyUses
    /\ vaultOp \in VaultOps

\* The two stores agree although nothing makes them one transaction: no ciphertext
\* is left that the rows no longer know of or call revoked, and what a row offers
\* for use is in the file, unless its revocation was cut off; a restore in between
\* is the only time they may differ, and nobody has the key then.
StoresAgree ==
    /\ vault.pending => ~unlocked
    /\ ~vault.pending =>
         \A s \in Secrets :
            /\ s \in vault.records => row[s] \notin {"none", "revoked"}
            /\ row[s] = "live" => s \in vault.records \/ s \in cut \/ vaultOp.ref = s

\* An open vault always has an idle timer on its way that will lock it.
OpenVaultWillLock == unlocked => armed = generation \/ generation \in expired

\* The vault and the database agree on what is stored, and an open vault locks
\* itself.
SecretsHold == StoresAgree /\ OpenVaultWillLock

=============================================================================
