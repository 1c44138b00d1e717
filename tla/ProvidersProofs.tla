---------------------------- MODULE ProvidersProofs ----------------------------
(******************************************************************************)
(* The services a run uses, each for every value of its constants: the vault, *)
(* the MCP servers and the foundation service.  The last part is about        *)
(* MCServices, which checks them beside the records of a run, the bot, the    *)
(* corpus and the chat: every part behaves as its own specification says.     *)
(******************************************************************************)
EXTENDS MCServices, RunProofs, RecordsProofs, TLAPS

-------------------------------------------------------------------------------
(***************************************************************************)
(* The vault.  A secret, its row and its bundle disagree only between two  *)
(* steps of one operation: what each step leaves is said place by place    *)
(* (RowsAgree, KeyFresh, BundleAgrees).                                    *)
(***************************************************************************)

VaultLifecycle == {"provisioning", "cleanup_pending", "recovering"}

\* The key is never older than its bound while the vault is open.
KeyFresh == unlocked => generation \in 1..MaxKeyUses

\* A backup is taken of stores that agree; while a restore is pending, the file is the
\* backup's.
BundleAgrees ==
    /\ \A s \in Secrets :
          /\ s \in bundle.records => bundle.row[s] \notin {"none", "revoked"}
          /\ bundle.row[s] = "live" => s \in bundle.records \/ s \in cut
    /\ vault.pending => vault.there /\ vault.records = bundle.records
    /\ ~vault.there => vault.records = {}

\* Whose record the operation under way works on, and how far it has come.
StepAgrees ==
    /\ vaultOp.does \in {"put", "revoke", "recover"} => ~vault.pending
    /\ vaultOp.does = "put" => vault.there
    /\ vaultOp.does = "unlock" => vault.pending
    /\ \A s \in Secrets : vaultOp.ref = s =>
          \/ vaultOp.does = "put" /\ row[s] = "provisioning" /\ vaultOp.at \in {"write", "finalize"}
          \/ InStep("revoke", "mark") /\ s \notin vault.records
          \/ vaultOp.does = "recover" /\ row[s] = "recovering" /\ vaultOp.at \in {"delete", "drop"}
    /\ InStep("put", "write") \/ InStep("put", "finalize") \/ InStep("revoke", "mark")
       \/ InStep("recover", "delete") \/ InStep("recover", "drop") => vaultOp.ref \in Secrets
    /\ InStep("put", "finalize") => vaultOp.ref \in vault.records
    /\ InStep("recover", "drop") => vaultOp.ref \notin vault.records
    /\ InStep("unlock", "state") \/ InStep("unlock", "settle") => row = bundle.row

VaultSafe == KeyFresh /\ BundleAgrees /\ StepAgrees /\ StoresAgree /\ OpenVaultWillLock

VaultInv == VaultTypeOK /\ VaultSafe

USE VaultAssumption

LEMMA VaultTypeStep ==
  ASSUME VaultTypeOK, KeyFresh, StepAgrees, VaultNext
  PROVE  VaultTypeOK'
<1>1. CASE TimerFires
  <2>1. (vault \in VaultFiles /\ bundle \in Bundles)'
    BY <1>1 DEF TimerFires, rowVars, VaultTypeOK, VaultFiles, Bundles
  <2>2. (row \in [Secrets -> Lifecycles] /\ tries \in [Secrets -> Tries])'
    BY <1>1 DEF TimerFires, rowVars, VaultTypeOK, Lifecycles, MaxRecoveryAttempts, Tries, Bundles
  <2>3. (leased \subseteq Secrets /\ cut \subseteq Secrets)'
    BY <1>1 DEF TimerFires, rowVars, VaultTypeOK, VaultOps
  <2>4. (state \in {1, 2} /\ unlocked \in BOOLEAN)'
    BY <1>1 DEF TimerFires, rowVars, VaultTypeOK, Bundles
  <2>5. (generation \in 0..MaxKeyUses + 1 /\ armed \in 0..MaxKeyUses /\ expired \subseteq 1..MaxKeyUses)'
    BY <1>1 DEF TimerFires, rowVars, VaultTypeOK, KeyFresh
  <2>6. (vaultOp \in VaultOps)'
    BY <1>1 DEF TimerFires, rowVars, VaultTypeOK, VaultOps, NoOp
  <2>7. QED BY <2>1, <2>2, <2>3, <2>4, <2>5, <2>6 DEF VaultTypeOK
<1>2. ASSUME NEW g \in expired, Expire(g) PROVE VaultTypeOK'
  <2>1. (vault \in VaultFiles /\ bundle \in Bundles)'
    BY <1>2 DEF Expire, rowVars, VaultIdle, VaultTypeOK, VaultFiles, Bundles
  <2>2. (row \in [Secrets -> Lifecycles] /\ tries \in [Secrets -> Tries])'
    BY <1>2 DEF Expire, rowVars, VaultIdle, VaultTypeOK, Lifecycles, MaxRecoveryAttempts, Tries, Bundles
  <2>3. (leased \subseteq Secrets /\ cut \subseteq Secrets)'
    BY <1>2 DEF Expire, rowVars, VaultIdle, VaultTypeOK, VaultOps
  <2>4. (state \in {1, 2} /\ unlocked \in BOOLEAN)'
    BY <1>2 DEF Expire, rowVars, VaultIdle, VaultTypeOK, Bundles
  <2>5. (generation \in 0..MaxKeyUses + 1 /\ armed \in 0..MaxKeyUses /\ expired \subseteq 1..MaxKeyUses)'
    BY <1>2 DEF Expire, rowVars, VaultIdle, VaultTypeOK, KeyFresh
  <2>6. (vaultOp \in VaultOps)'
    BY <1>2 DEF Expire, rowVars, VaultIdle, VaultTypeOK, VaultOps, NoOp
  <2>7. QED BY <2>1, <2>2, <2>3, <2>4, <2>5, <2>6 DEF VaultTypeOK
<1>3. CASE Lock
  <2>1. (vault \in VaultFiles /\ bundle \in Bundles)'
    BY <1>3 DEF Lock, VaultIdle, ClearKey, rowVars, VaultTypeOK, VaultFiles, Bundles
  <2>2. (row \in [Secrets -> Lifecycles] /\ tries \in [Secrets -> Tries])'
    BY <1>3 DEF Lock, VaultIdle, ClearKey, rowVars, VaultTypeOK, Lifecycles, MaxRecoveryAttempts, Tries, Bundles
  <2>3. (leased \subseteq Secrets /\ cut \subseteq Secrets)'
    BY <1>3 DEF Lock, VaultIdle, ClearKey, rowVars, VaultTypeOK, VaultOps
  <2>4. (state \in {1, 2} /\ unlocked \in BOOLEAN)'
    BY <1>3 DEF Lock, VaultIdle, ClearKey, rowVars, VaultTypeOK, Bundles
  <2>5. (generation \in 0..MaxKeyUses + 1 /\ armed \in 0..MaxKeyUses /\ expired \subseteq 1..MaxKeyUses)'
    BY <1>3 DEF Lock, VaultIdle, ClearKey, rowVars, VaultTypeOK, KeyFresh
  <2>6. (vaultOp \in VaultOps)'
    BY <1>3 DEF Lock, VaultIdle, ClearKey, rowVars, VaultTypeOK, VaultOps, NoOp
  <2>7. QED BY <2>1, <2>2, <2>3, <2>4, <2>5, <2>6 DEF VaultTypeOK
<1>4. CASE Use
  <2>1. (vault \in VaultFiles /\ bundle \in Bundles)'
    BY <1>4 DEF Use, VaultIdle, UseKey, rowVars, VaultTypeOK, VaultFiles, Bundles
  <2>2. (row \in [Secrets -> Lifecycles] /\ tries \in [Secrets -> Tries])'
    BY <1>4 DEF Use, VaultIdle, UseKey, rowVars, VaultTypeOK, Lifecycles, MaxRecoveryAttempts, Tries, Bundles
  <2>3. (leased \subseteq Secrets /\ cut \subseteq Secrets)'
    BY <1>4 DEF Use, VaultIdle, UseKey, rowVars, VaultTypeOK, VaultOps
  <2>4. (state \in {1, 2} /\ unlocked \in BOOLEAN)'
    BY <1>4 DEF Use, VaultIdle, UseKey, rowVars, VaultTypeOK, Bundles
  <2>5. (generation \in 0..MaxKeyUses + 1 /\ armed \in 0..MaxKeyUses /\ expired \subseteq 1..MaxKeyUses)'
    BY <1>4 DEF Use, VaultIdle, UseKey, rowVars, VaultTypeOK, KeyFresh
  <2>6. (vaultOp \in VaultOps)'
    BY <1>4 DEF Use, VaultIdle, UseKey, rowVars, VaultTypeOK, VaultOps, NoOp
  <2>7. QED BY <2>1, <2>2, <2>3, <2>4, <2>5, <2>6 DEF VaultTypeOK
<1>5. ASSUME NEW s \in Secrets, PutRow(s) PROVE VaultTypeOK'
  <2>1. (vault \in VaultFiles /\ bundle \in Bundles)'
    BY <1>5 DEF PutRow, VaultIdle, UseKey, VaultTypeOK, VaultFiles, Bundles
  <2>2. (row \in [Secrets -> Lifecycles] /\ tries \in [Secrets -> Tries])'
    BY <1>5 DEF PutRow, VaultIdle, UseKey, VaultTypeOK, Lifecycles, MaxRecoveryAttempts, Tries, Bundles
  <2>3. (leased \subseteq Secrets /\ cut \subseteq Secrets)'
    BY <1>5 DEF PutRow, VaultIdle, UseKey, VaultTypeOK, VaultOps
  <2>4. (state \in {1, 2} /\ unlocked \in BOOLEAN)'
    BY <1>5 DEF PutRow, VaultIdle, UseKey, VaultTypeOK, Bundles
  <2>5. (generation \in 0..MaxKeyUses + 1 /\ armed \in 0..MaxKeyUses /\ expired \subseteq 1..MaxKeyUses)'
    BY <1>5 DEF PutRow, VaultIdle, UseKey, VaultTypeOK, KeyFresh
  <2>6. (vaultOp \in VaultOps)'
    BY <1>5 DEF PutRow, VaultIdle, UseKey, VaultTypeOK, VaultOps, NoOp
  <2>7. QED BY <2>1, <2>2, <2>3, <2>4, <2>5, <2>6 DEF VaultTypeOK
<1>6. CASE PutWrite
  <2>1. (vault \in VaultFiles /\ bundle \in Bundles)'
    <3>1. vaultOp.ref \in Secrets
      BY <1>6 DEF PutWrite, StepAgrees
    <3>2. QED BY <1>6, <3>1 DEF PutWrite, VaultTypeOK, VaultFiles
  <2>2. (row \in [Secrets -> Lifecycles] /\ tries \in [Secrets -> Tries])'
    BY <1>6 DEF PutWrite, InStep, OpTo, OpEnds, keyVars, VaultTypeOK, Lifecycles, MaxRecoveryAttempts, Tries, Bundles
  <2>3. (leased \subseteq Secrets /\ cut \subseteq Secrets)'
    BY <1>6 DEF PutWrite, InStep, OpTo, OpEnds, keyVars, VaultTypeOK, VaultOps
  <2>4. (state \in {1, 2} /\ unlocked \in BOOLEAN)'
    BY <1>6 DEF PutWrite, InStep, OpTo, OpEnds, keyVars, VaultTypeOK, Bundles
  <2>5. (generation \in 0..MaxKeyUses + 1 /\ armed \in 0..MaxKeyUses /\ expired \subseteq 1..MaxKeyUses)'
    BY <1>6 DEF PutWrite, InStep, OpTo, OpEnds, keyVars, VaultTypeOK, KeyFresh
  <2>6. (vaultOp \in VaultOps)'
    BY <1>6 DEF PutWrite, InStep, OpTo, OpEnds, keyVars, VaultTypeOK, VaultOps, NoOp
  <2>7. QED BY <2>1, <2>2, <2>3, <2>4, <2>5, <2>6 DEF VaultTypeOK
<1>7. CASE PutFinalize
  <2>1. (vault \in VaultFiles /\ bundle \in Bundles)'
    BY <1>7 DEF PutFinalize, InStep, OpEnds, keyVars, VaultTypeOK, VaultFiles, Bundles
  <2>2. (row \in [Secrets -> Lifecycles] /\ tries \in [Secrets -> Tries])'
    BY <1>7 DEF PutFinalize, InStep, OpEnds, keyVars, VaultTypeOK, Lifecycles, MaxRecoveryAttempts, Tries, Bundles
  <2>3. (leased \subseteq Secrets /\ cut \subseteq Secrets)'
    BY <1>7 DEF PutFinalize, InStep, OpEnds, keyVars, VaultTypeOK, VaultOps
  <2>4. (state \in {1, 2} /\ unlocked \in BOOLEAN)'
    BY <1>7 DEF PutFinalize, InStep, OpEnds, keyVars, VaultTypeOK, Bundles
  <2>5. (generation \in 0..MaxKeyUses + 1 /\ armed \in 0..MaxKeyUses /\ expired \subseteq 1..MaxKeyUses)'
    BY <1>7 DEF PutFinalize, InStep, OpEnds, keyVars, VaultTypeOK, KeyFresh
  <2>6. (vaultOp \in VaultOps)'
    BY <1>7 DEF PutFinalize, InStep, OpEnds, keyVars, VaultTypeOK, VaultOps, NoOp
  <2>7. QED BY <2>1, <2>2, <2>3, <2>4, <2>5, <2>6 DEF VaultTypeOK
<1>8. ASSUME NEW s \in Secrets, RevokeDelete(s) PROVE VaultTypeOK'
  <2>1. (vault \in VaultFiles /\ bundle \in Bundles)'
    BY <1>8 DEF RevokeDelete, VaultIdle, UseKey, rowVars, VaultTypeOK, VaultFiles, Bundles
  <2>2. (row \in [Secrets -> Lifecycles] /\ tries \in [Secrets -> Tries])'
    BY <1>8 DEF RevokeDelete, VaultIdle, UseKey, rowVars, VaultTypeOK, Lifecycles, MaxRecoveryAttempts, Tries, Bundles
  <2>3. (leased \subseteq Secrets /\ cut \subseteq Secrets)'
    BY <1>8 DEF RevokeDelete, VaultIdle, UseKey, rowVars, VaultTypeOK, VaultOps
  <2>4. (state \in {1, 2} /\ unlocked \in BOOLEAN)'
    BY <1>8 DEF RevokeDelete, VaultIdle, UseKey, rowVars, VaultTypeOK, Bundles
  <2>5. (generation \in 0..MaxKeyUses + 1 /\ armed \in 0..MaxKeyUses /\ expired \subseteq 1..MaxKeyUses)'
    BY <1>8 DEF RevokeDelete, VaultIdle, UseKey, rowVars, VaultTypeOK, KeyFresh
  <2>6. (vaultOp \in VaultOps)'
    BY <1>8 DEF RevokeDelete, VaultIdle, UseKey, rowVars, VaultTypeOK, VaultOps, NoOp
  <2>7. QED BY <2>1, <2>2, <2>3, <2>4, <2>5, <2>6 DEF VaultTypeOK
<1>9. CASE RevokeMark
  <2>1. (vault \in VaultFiles /\ bundle \in Bundles)'
    BY <1>9 DEF RevokeMark, InStep, OpEnds, keyVars, VaultTypeOK, VaultFiles, Bundles
  <2>2. (row \in [Secrets -> Lifecycles] /\ tries \in [Secrets -> Tries])'
    BY <1>9 DEF RevokeMark, InStep, OpEnds, keyVars, VaultTypeOK, Lifecycles, MaxRecoveryAttempts, Tries, Bundles
  <2>3. (leased \subseteq Secrets /\ cut \subseteq Secrets)'
    <3>1. vaultOp.ref \in Secrets
      BY <1>9 DEF RevokeMark, StepAgrees
    <3>2. QED BY <1>9, <3>1 DEF RevokeMark, VaultTypeOK
  <2>4. (state \in {1, 2} /\ unlocked \in BOOLEAN)'
    BY <1>9 DEF RevokeMark, InStep, OpEnds, keyVars, VaultTypeOK, Bundles
  <2>5. (generation \in 0..MaxKeyUses + 1 /\ armed \in 0..MaxKeyUses /\ expired \subseteq 1..MaxKeyUses)'
    BY <1>9 DEF RevokeMark, InStep, OpEnds, keyVars, VaultTypeOK, KeyFresh
  <2>6. (vaultOp \in VaultOps)'
    BY <1>9 DEF RevokeMark, InStep, OpEnds, keyVars, VaultTypeOK, VaultOps, NoOp
  <2>7. QED BY <2>1, <2>2, <2>3, <2>4, <2>5, <2>6 DEF VaultTypeOK
<1>10. ASSUME NEW s \in Secrets, LeaseEnds(s) PROVE VaultTypeOK'
  <2>1. (vault \in VaultFiles /\ bundle \in Bundles)'
    BY <1>10 DEF LeaseEnds, keyVars, VaultTypeOK, VaultFiles, Bundles
  <2>2. (row \in [Secrets -> Lifecycles] /\ tries \in [Secrets -> Tries])'
    BY <1>10 DEF LeaseEnds, keyVars, VaultTypeOK, Lifecycles, MaxRecoveryAttempts, Tries, Bundles
  <2>3. (leased \subseteq Secrets /\ cut \subseteq Secrets)'
    BY <1>10 DEF LeaseEnds, keyVars, VaultTypeOK, VaultOps
  <2>4. (state \in {1, 2} /\ unlocked \in BOOLEAN)'
    BY <1>10 DEF LeaseEnds, keyVars, VaultTypeOK, Bundles
  <2>5. (generation \in 0..MaxKeyUses + 1 /\ armed \in 0..MaxKeyUses /\ expired \subseteq 1..MaxKeyUses)'
    BY <1>10 DEF LeaseEnds, keyVars, VaultTypeOK, KeyFresh
  <2>6. (vaultOp \in VaultOps)'
    BY <1>10 DEF LeaseEnds, keyVars, VaultTypeOK, VaultOps, NoOp
  <2>7. QED BY <2>1, <2>2, <2>3, <2>4, <2>5, <2>6 DEF VaultTypeOK
<1>11. ASSUME NEW s \in Secrets, RecoverClaim(s) PROVE VaultTypeOK'
  <2>1. (vault \in VaultFiles /\ bundle \in Bundles)'
    BY <1>11 DEF RecoverClaim, InStep, BestEffortMark, keyVars, VaultTypeOK, VaultFiles, Bundles
  <2>2. (row \in [Secrets -> Lifecycles] /\ tries \in [Secrets -> Tries])'
    BY <1>11 DEF RecoverClaim, InStep, BestEffortMark, keyVars, VaultTypeOK, Lifecycles, MaxRecoveryAttempts, Tries, Bundles
  <2>3. (leased \subseteq Secrets /\ cut \subseteq Secrets)'
    BY <1>11 DEF RecoverClaim, InStep, BestEffortMark, keyVars, VaultTypeOK, VaultOps
  <2>4. (state \in {1, 2} /\ unlocked \in BOOLEAN)'
    BY <1>11 DEF RecoverClaim, InStep, BestEffortMark, keyVars, VaultTypeOK, Bundles
  <2>5. (generation \in 0..MaxKeyUses + 1 /\ armed \in 0..MaxKeyUses /\ expired \subseteq 1..MaxKeyUses)'
    BY <1>11 DEF RecoverClaim, InStep, BestEffortMark, keyVars, VaultTypeOK, KeyFresh
  <2>6. (vaultOp \in VaultOps)'
    <3>1. vaultOp' = [vaultOp EXCEPT !.todo = @ \ {s}] \/ vaultOp' = [vaultOp EXCEPT !.at = "delete", !.ref = s, !.todo = @ \ {s}]
      BY <1>11 DEF RecoverClaim
    <3>2. QED BY ZenonT(60), <1>11, <3>1 DEF VaultTypeOK, VaultOps
  <2>7. QED BY <2>1, <2>2, <2>3, <2>4, <2>5, <2>6 DEF VaultTypeOK
<1>12. CASE RecoverBegin
  <2>1. (vault \in VaultFiles /\ bundle \in Bundles)'
    BY <1>12 DEF RecoverBegin, VaultIdle, UseKey, rowVars, VaultTypeOK, VaultFiles, Bundles
  <2>2. (row \in [Secrets -> Lifecycles] /\ tries \in [Secrets -> Tries])'
    BY <1>12 DEF RecoverBegin, VaultIdle, UseKey, rowVars, VaultTypeOK, Lifecycles, MaxRecoveryAttempts, Tries, Bundles
  <2>3. (leased \subseteq Secrets /\ cut \subseteq Secrets)'
    BY <1>12 DEF RecoverBegin, VaultIdle, UseKey, rowVars, VaultTypeOK, VaultOps
  <2>4. (state \in {1, 2} /\ unlocked \in BOOLEAN)'
    BY <1>12 DEF RecoverBegin, VaultIdle, UseKey, rowVars, VaultTypeOK, Bundles
  <2>5. (generation \in 0..MaxKeyUses + 1 /\ armed \in 0..MaxKeyUses /\ expired \subseteq 1..MaxKeyUses)'
    BY <1>12 DEF RecoverBegin, VaultIdle, UseKey, rowVars, VaultTypeOK, KeyFresh
  <2>6. (vaultOp \in VaultOps)'
    BY <1>12 DEF RecoverBegin, VaultIdle, UseKey, rowVars, VaultTypeOK, VaultOps, NoOp
  <2>7. QED BY <2>1, <2>2, <2>3, <2>4, <2>5, <2>6 DEF VaultTypeOK
<1>13. CASE RecoverDelete
  <2>1. (vault \in VaultFiles /\ bundle \in Bundles)'
    BY <1>13 DEF RecoverDelete, InStep, UseKey, OpTo, BestEffortMark, NextRef, keyVars, VaultTypeOK, VaultFiles, Bundles
  <2>2. (row \in [Secrets -> Lifecycles] /\ tries \in [Secrets -> Tries])'
    BY <1>13 DEF RecoverDelete, InStep, UseKey, OpTo, BestEffortMark, NextRef, keyVars, VaultTypeOK, Lifecycles, MaxRecoveryAttempts, Tries, Bundles
  <2>3. (leased \subseteq Secrets /\ cut \subseteq Secrets)'
    BY <1>13 DEF RecoverDelete, InStep, UseKey, OpTo, BestEffortMark, NextRef, keyVars, VaultTypeOK, VaultOps
  <2>4. (state \in {1, 2} /\ unlocked \in BOOLEAN)'
    BY <1>13 DEF RecoverDelete, InStep, UseKey, OpTo, BestEffortMark, NextRef, keyVars, VaultTypeOK, Bundles
  <2>5. (generation \in 0..MaxKeyUses + 1 /\ armed \in 0..MaxKeyUses /\ expired \subseteq 1..MaxKeyUses)'
    BY <1>13 DEF RecoverDelete, InStep, UseKey, OpTo, BestEffortMark, NextRef, keyVars, VaultTypeOK, KeyFresh
  <2>6. (vaultOp \in VaultOps)'
    BY <1>13 DEF RecoverDelete, InStep, UseKey, OpTo, BestEffortMark, NextRef, keyVars, VaultTypeOK, VaultOps, NoOp
  <2>7. QED BY <2>1, <2>2, <2>3, <2>4, <2>5, <2>6 DEF VaultTypeOK
<1>14. CASE RecoverDrop
  <2>1. (vault \in VaultFiles /\ bundle \in Bundles)'
    BY <1>14 DEF RecoverDrop, InStep, BestEffortMark, NextRef, keyVars, VaultTypeOK, VaultFiles, Bundles
  <2>2. (row \in [Secrets -> Lifecycles] /\ tries \in [Secrets -> Tries])'
    BY <1>14 DEF RecoverDrop, InStep, BestEffortMark, NextRef, keyVars, VaultTypeOK, Lifecycles, MaxRecoveryAttempts, Tries, Bundles
  <2>3. (leased \subseteq Secrets /\ cut \subseteq Secrets)'
    BY <1>14 DEF RecoverDrop, InStep, BestEffortMark, NextRef, keyVars, VaultTypeOK, VaultOps
  <2>4. (state \in {1, 2} /\ unlocked \in BOOLEAN)'
    BY <1>14 DEF RecoverDrop, InStep, BestEffortMark, NextRef, keyVars, VaultTypeOK, Bundles
  <2>5. (generation \in 0..MaxKeyUses + 1 /\ armed \in 0..MaxKeyUses /\ expired \subseteq 1..MaxKeyUses)'
    BY <1>14 DEF RecoverDrop, InStep, BestEffortMark, NextRef, keyVars, VaultTypeOK, KeyFresh
  <2>6. (vaultOp \in VaultOps)'
    BY <1>14 DEF RecoverDrop, InStep, BestEffortMark, NextRef, keyVars, VaultTypeOK, VaultOps, NoOp
  <2>7. QED BY <2>1, <2>2, <2>3, <2>4, <2>5, <2>6 DEF VaultTypeOK
<1>15. CASE RecoverEnd
  <2>1. (vault \in VaultFiles /\ bundle \in Bundles)'
    BY <1>15 DEF RecoverEnd, InStep, OpEnds, rowVars, keyVars, VaultTypeOK, VaultFiles, Bundles
  <2>2. (row \in [Secrets -> Lifecycles] /\ tries \in [Secrets -> Tries])'
    BY <1>15 DEF RecoverEnd, InStep, OpEnds, rowVars, keyVars, VaultTypeOK, Lifecycles, MaxRecoveryAttempts, Tries, Bundles
  <2>3. (leased \subseteq Secrets /\ cut \subseteq Secrets)'
    BY <1>15 DEF RecoverEnd, InStep, OpEnds, rowVars, keyVars, VaultTypeOK, VaultOps
  <2>4. (state \in {1, 2} /\ unlocked \in BOOLEAN)'
    BY <1>15 DEF RecoverEnd, InStep, OpEnds, rowVars, keyVars, VaultTypeOK, Bundles
  <2>5. (generation \in 0..MaxKeyUses + 1 /\ armed \in 0..MaxKeyUses /\ expired \subseteq 1..MaxKeyUses)'
    BY <1>15 DEF RecoverEnd, InStep, OpEnds, rowVars, keyVars, VaultTypeOK, KeyFresh
  <2>6. (vaultOp \in VaultOps)'
    BY <1>15 DEF RecoverEnd, InStep, OpEnds, rowVars, keyVars, VaultTypeOK, VaultOps, NoOp
  <2>7. QED BY <2>1, <2>2, <2>3, <2>4, <2>5, <2>6 DEF VaultTypeOK
<1>16. CASE Create
  <2>1. (vault \in VaultFiles /\ bundle \in Bundles)'
    BY <1>16 DEF Create, VaultIdle, SetKey, rowVars, VaultTypeOK, VaultFiles, Bundles
  <2>2. (row \in [Secrets -> Lifecycles] /\ tries \in [Secrets -> Tries])'
    BY <1>16 DEF Create, VaultIdle, SetKey, rowVars, VaultTypeOK, Lifecycles, MaxRecoveryAttempts, Tries, Bundles
  <2>3. (leased \subseteq Secrets /\ cut \subseteq Secrets)'
    BY <1>16 DEF Create, VaultIdle, SetKey, rowVars, VaultTypeOK, VaultOps
  <2>4. (state \in {1, 2} /\ unlocked \in BOOLEAN)'
    BY <1>16 DEF Create, VaultIdle, SetKey, rowVars, VaultTypeOK, Bundles
  <2>5. (generation \in 0..MaxKeyUses + 1 /\ armed \in 0..MaxKeyUses /\ expired \subseteq 1..MaxKeyUses)'
    BY <1>16 DEF Create, VaultIdle, SetKey, rowVars, VaultTypeOK, KeyFresh
  <2>6. (vaultOp \in VaultOps)'
    BY <1>16 DEF Create, VaultIdle, SetKey, rowVars, VaultTypeOK, VaultOps, NoOp
  <2>7. QED BY <2>1, <2>2, <2>3, <2>4, <2>5, <2>6 DEF VaultTypeOK
<1>17. CASE Unlock
  <2>1. (vault \in VaultFiles /\ bundle \in Bundles)'
    BY <1>17 DEF Unlock, VaultIdle, SetKey, rowVars, keyVars, VaultTypeOK, VaultFiles, Bundles
  <2>2. (row \in [Secrets -> Lifecycles] /\ tries \in [Secrets -> Tries])'
    BY <1>17 DEF Unlock, VaultIdle, SetKey, rowVars, keyVars, VaultTypeOK, Lifecycles, MaxRecoveryAttempts, Tries, Bundles
  <2>3. (leased \subseteq Secrets /\ cut \subseteq Secrets)'
    BY <1>17 DEF Unlock, VaultIdle, SetKey, rowVars, keyVars, VaultTypeOK, VaultOps
  <2>4. (state \in {1, 2} /\ unlocked \in BOOLEAN)'
    BY <1>17 DEF Unlock, VaultIdle, SetKey, rowVars, keyVars, VaultTypeOK, Bundles
  <2>5. (generation \in 0..MaxKeyUses + 1 /\ armed \in 0..MaxKeyUses /\ expired \subseteq 1..MaxKeyUses)'
    BY <1>17 DEF Unlock, VaultIdle, SetKey, rowVars, keyVars, VaultTypeOK, KeyFresh
  <2>6. (vaultOp \in VaultOps)'
    BY <1>17 DEF Unlock, VaultIdle, SetKey, rowVars, keyVars, VaultTypeOK, VaultOps, NoOp
  <2>7. QED BY <2>1, <2>2, <2>3, <2>4, <2>5, <2>6 DEF VaultTypeOK
<1>18. CASE ApplyRows
  <2>1. (vault \in VaultFiles /\ bundle \in Bundles)'
    BY <1>18 DEF ApplyRows, InStep, OpTo, OpEnds, rowVars, keyVars, VaultTypeOK, VaultFiles, Bundles
  <2>2. (row \in [Secrets -> Lifecycles] /\ tries \in [Secrets -> Tries])'
    BY <1>18 DEF ApplyRows, InStep, OpTo, OpEnds, rowVars, keyVars, VaultTypeOK, Lifecycles, MaxRecoveryAttempts, Tries, Bundles
  <2>3. (leased \subseteq Secrets /\ cut \subseteq Secrets)'
    BY <1>18 DEF ApplyRows, InStep, OpTo, OpEnds, rowVars, keyVars, VaultTypeOK, VaultOps
  <2>4. (state \in {1, 2} /\ unlocked \in BOOLEAN)'
    BY <1>18 DEF ApplyRows, InStep, OpTo, OpEnds, rowVars, keyVars, VaultTypeOK, Bundles
  <2>5. (generation \in 0..MaxKeyUses + 1 /\ armed \in 0..MaxKeyUses /\ expired \subseteq 1..MaxKeyUses)'
    BY <1>18 DEF ApplyRows, InStep, OpTo, OpEnds, rowVars, keyVars, VaultTypeOK, KeyFresh
  <2>6. (vaultOp \in VaultOps)'
    BY <1>18 DEF ApplyRows, InStep, OpTo, OpEnds, rowVars, keyVars, VaultTypeOK, VaultOps, NoOp
  <2>7. QED BY <2>1, <2>2, <2>3, <2>4, <2>5, <2>6 DEF VaultTypeOK
<1>19. CASE ApplyState
  <2>1. (vault \in VaultFiles /\ bundle \in Bundles)'
    BY <1>19 DEF ApplyState, InStep, OpTo, OpEnds, rowVars, keyVars, VaultTypeOK, VaultFiles, Bundles
  <2>2. (row \in [Secrets -> Lifecycles] /\ tries \in [Secrets -> Tries])'
    BY <1>19 DEF ApplyState, InStep, OpTo, OpEnds, rowVars, keyVars, VaultTypeOK, Lifecycles, MaxRecoveryAttempts, Tries, Bundles
  <2>3. (leased \subseteq Secrets /\ cut \subseteq Secrets)'
    BY <1>19 DEF ApplyState, InStep, OpTo, OpEnds, rowVars, keyVars, VaultTypeOK, VaultOps
  <2>4. (state \in {1, 2} /\ unlocked \in BOOLEAN)'
    BY <1>19 DEF ApplyState, InStep, OpTo, OpEnds, rowVars, keyVars, VaultTypeOK, Bundles
  <2>5. (generation \in 0..MaxKeyUses + 1 /\ armed \in 0..MaxKeyUses /\ expired \subseteq 1..MaxKeyUses)'
    BY <1>19 DEF ApplyState, InStep, OpTo, OpEnds, rowVars, keyVars, VaultTypeOK, KeyFresh
  <2>6. (vaultOp \in VaultOps)'
    BY <1>19 DEF ApplyState, InStep, OpTo, OpEnds, rowVars, keyVars, VaultTypeOK, VaultOps, NoOp
  <2>7. QED BY <2>1, <2>2, <2>3, <2>4, <2>5, <2>6 DEF VaultTypeOK
<1>20. CASE ApplySettle
  <2>1. (vault \in VaultFiles /\ bundle \in Bundles)'
    BY <1>20 DEF ApplySettle, InStep, OpEnds, SetKey, rowVars, keyVars, VaultTypeOK, VaultFiles, Bundles
  <2>2. (row \in [Secrets -> Lifecycles] /\ tries \in [Secrets -> Tries])'
    BY <1>20 DEF ApplySettle, InStep, OpEnds, SetKey, rowVars, keyVars, VaultTypeOK, Lifecycles, MaxRecoveryAttempts, Tries, Bundles
  <2>3. (leased \subseteq Secrets /\ cut \subseteq Secrets)'
    BY <1>20 DEF ApplySettle, InStep, OpEnds, SetKey, rowVars, keyVars, VaultTypeOK, VaultOps
  <2>4. (state \in {1, 2} /\ unlocked \in BOOLEAN)'
    BY <1>20 DEF ApplySettle, InStep, OpEnds, SetKey, rowVars, keyVars, VaultTypeOK, Bundles
  <2>5. (generation \in 0..MaxKeyUses + 1 /\ armed \in 0..MaxKeyUses /\ expired \subseteq 1..MaxKeyUses)'
    BY <1>20 DEF ApplySettle, InStep, OpEnds, SetKey, rowVars, keyVars, VaultTypeOK, KeyFresh
  <2>6. (vaultOp \in VaultOps)'
    BY <1>20 DEF ApplySettle, InStep, OpEnds, SetKey, rowVars, keyVars, VaultTypeOK, VaultOps, NoOp
  <2>7. QED BY <2>1, <2>2, <2>3, <2>4, <2>5, <2>6 DEF VaultTypeOK
<1>21. CASE Backup
  <2>1. (vault \in VaultFiles /\ bundle \in Bundles)'
    BY <1>21 DEF Backup, VaultIdle, UseKey, rowVars, VaultTypeOK, VaultFiles, Bundles
  <2>2. (row \in [Secrets -> Lifecycles] /\ tries \in [Secrets -> Tries])'
    BY <1>21 DEF Backup, VaultIdle, UseKey, rowVars, VaultTypeOK, Lifecycles, MaxRecoveryAttempts, Tries, Bundles
  <2>3. (leased \subseteq Secrets /\ cut \subseteq Secrets)'
    BY <1>21 DEF Backup, VaultIdle, UseKey, rowVars, VaultTypeOK, VaultOps
  <2>4. (state \in {1, 2} /\ unlocked \in BOOLEAN)'
    BY <1>21 DEF Backup, VaultIdle, UseKey, rowVars, VaultTypeOK, Bundles
  <2>5. (generation \in 0..MaxKeyUses + 1 /\ armed \in 0..MaxKeyUses /\ expired \subseteq 1..MaxKeyUses)'
    BY <1>21 DEF Backup, VaultIdle, UseKey, rowVars, VaultTypeOK, KeyFresh
  <2>6. (vaultOp \in VaultOps)'
    BY <1>21 DEF Backup, VaultIdle, UseKey, rowVars, VaultTypeOK, VaultOps, NoOp
  <2>7. QED BY <2>1, <2>2, <2>3, <2>4, <2>5, <2>6 DEF VaultTypeOK
<1>22. CASE Restore
  <2>1. (vault \in VaultFiles /\ bundle \in Bundles)'
    <3>1. bundle.records \in SUBSET Secrets /\ bundle' = bundle /\ bundle \in Bundles /\ vault \in VaultFiles
      BY <1>22 DEF Restore, VaultTypeOK, Bundles
    <3>2. [there |-> TRUE, records |-> bundle.records, pending |-> TRUE] \in VaultFiles
      BY <3>1 DEF VaultFiles
    <3>3. QED BY <1>22, <3>1, <3>2 DEF Restore
  <2>2. (row \in [Secrets -> Lifecycles] /\ tries \in [Secrets -> Tries])'
    BY <1>22 DEF Restore, VaultIdle, ClearKey, rowVars, VaultTypeOK, Lifecycles, MaxRecoveryAttempts, Tries, Bundles
  <2>3. (leased \subseteq Secrets /\ cut \subseteq Secrets)'
    BY <1>22 DEF Restore, VaultIdle, ClearKey, rowVars, VaultTypeOK, VaultOps
  <2>4. (state \in {1, 2} /\ unlocked \in BOOLEAN)'
    BY <1>22 DEF Restore, VaultIdle, ClearKey, rowVars, VaultTypeOK, Bundles
  <2>5. (generation \in 0..MaxKeyUses + 1 /\ armed \in 0..MaxKeyUses /\ expired \subseteq 1..MaxKeyUses)'
    BY <1>22 DEF Restore, VaultIdle, ClearKey, rowVars, VaultTypeOK, KeyFresh
  <2>6. (vaultOp \in VaultOps)'
    BY <1>22 DEF Restore, VaultIdle, ClearKey, rowVars, VaultTypeOK, VaultOps, NoOp
  <2>7. QED BY <2>1, <2>2, <2>3, <2>4, <2>5, <2>6 DEF VaultTypeOK
<1>23. CASE ChangeState
  <2>1. (vault \in VaultFiles /\ bundle \in Bundles)'
    BY <1>23 DEF ChangeState, rowVars, keyVars, VaultTypeOK, VaultFiles, Bundles
  <2>2. (row \in [Secrets -> Lifecycles] /\ tries \in [Secrets -> Tries])'
    BY <1>23 DEF ChangeState, rowVars, keyVars, VaultTypeOK, Lifecycles, MaxRecoveryAttempts, Tries, Bundles
  <2>3. (leased \subseteq Secrets /\ cut \subseteq Secrets)'
    BY <1>23 DEF ChangeState, rowVars, keyVars, VaultTypeOK, VaultOps
  <2>4. (state \in {1, 2} /\ unlocked \in BOOLEAN)'
    BY <1>23 DEF ChangeState, rowVars, keyVars, VaultTypeOK, Bundles
  <2>5. (generation \in 0..MaxKeyUses + 1 /\ armed \in 0..MaxKeyUses /\ expired \subseteq 1..MaxKeyUses)'
    BY <1>23 DEF ChangeState, rowVars, keyVars, VaultTypeOK, KeyFresh
  <2>6. (vaultOp \in VaultOps)'
    BY <1>23 DEF ChangeState, rowVars, keyVars, VaultTypeOK, VaultOps, NoOp
  <2>7. QED BY <2>1, <2>2, <2>3, <2>4, <2>5, <2>6 DEF VaultTypeOK
<1>24. CASE CrashVault
  <2>1. (vault \in VaultFiles /\ bundle \in Bundles)'
    BY <1>24 DEF CrashVault, InStep, rowVars, VaultTypeOK, VaultFiles, Bundles
  <2>2. (row \in [Secrets -> Lifecycles] /\ tries \in [Secrets -> Tries])'
    BY <1>24 DEF CrashVault, InStep, rowVars, VaultTypeOK, Lifecycles, MaxRecoveryAttempts, Tries, Bundles
  <2>3. (leased \subseteq Secrets /\ cut \subseteq Secrets)'
    <3>1. InStep("revoke", "mark") => vaultOp.ref \in Secrets
      BY DEF StepAgrees
    <3>2. QED BY <1>24, <3>1 DEF CrashVault, rowVars, VaultTypeOK
  <2>4. (state \in {1, 2} /\ unlocked \in BOOLEAN)'
    BY <1>24 DEF CrashVault, InStep, rowVars, VaultTypeOK, Bundles
  <2>5. (generation \in 0..MaxKeyUses + 1 /\ armed \in 0..MaxKeyUses /\ expired \subseteq 1..MaxKeyUses)'
    BY <1>24 DEF CrashVault, InStep, rowVars, VaultTypeOK, KeyFresh
  <2>6. (vaultOp \in VaultOps)'
    BY <1>24 DEF CrashVault, InStep, rowVars, VaultTypeOK, VaultOps, NoOp
  <2>7. QED BY <2>1, <2>2, <2>3, <2>4, <2>5, <2>6 DEF VaultTypeOK
<1>25. QED BY <1>1, <1>2, <1>3, <1>4, <1>5, <1>6, <1>7, <1>8, <1>9, <1>10, <1>11, <1>12, <1>13, <1>14, <1>15, <1>16, <1>17, <1>18, <1>19, <1>20, <1>21, <1>22, <1>23, <1>24 DEF VaultNext, VaultTypeOK

LEMMA VaultSafeStep ==
  ASSUME VaultTypeOK, VaultSafe, VaultNext
  PROVE  KeyFresh' /\ BundleAgrees' /\ StepAgrees' /\ StoresAgree' /\ OpenVaultWillLock'
<1>0. KeyFresh /\ BundleAgrees /\ StepAgrees /\ StoresAgree /\ OpenVaultWillLock
  BY DEF VaultSafe
<1>1. CASE TimerFires
  <2>1. KeyFresh'
    BY <1>0, <1>1 DEF TimerFires, rowVars, KeyFresh, VaultTypeOK, VaultFiles, Bundles, VaultOps, Tries
  <2>2. BundleAgrees'
    BY <1>0, <1>1 DEF TimerFires, rowVars, BundleAgrees, KeyFresh, StepAgrees, StoresAgree, VaultTypeOK, VaultFiles, Bundles, VaultOps, Tries
  <2>3. StepAgrees'
    BY <1>0, <1>1 DEF TimerFires, rowVars, StepAgrees, InStep, BundleAgrees, StoresAgree, VaultTypeOK, VaultFiles, Bundles, VaultOps, Tries
  <2>4. StoresAgree'
    BY <1>0, <1>1 DEF TimerFires, rowVars, StoresAgree, StepAgrees, BundleAgrees, VaultTypeOK, VaultFiles, Bundles, VaultOps, Tries
  <2>5. OpenVaultWillLock'
    BY <1>0, <1>1 DEF TimerFires, rowVars, OpenVaultWillLock, VaultTypeOK, VaultFiles, Bundles, VaultOps, Tries
  <2>6. QED BY <2>1, <2>2, <2>3, <2>4, <2>5
<1>2. ASSUME NEW g \in expired, Expire(g) PROVE KeyFresh' /\ BundleAgrees' /\ StepAgrees' /\ StoresAgree' /\ OpenVaultWillLock'
  <2>1. KeyFresh'
    BY <1>0, <1>2 DEF Expire, rowVars, VaultIdle, NoOp, KeyFresh, VaultTypeOK, VaultFiles, Bundles, VaultOps, Tries
  <2>2. BundleAgrees'
    BY <1>0, <1>2 DEF Expire, rowVars, VaultIdle, NoOp, BundleAgrees, KeyFresh, StepAgrees, StoresAgree, VaultTypeOK, VaultFiles, Bundles, VaultOps, Tries
  <2>3. StepAgrees'
    BY <1>0, <1>2 DEF Expire, rowVars, VaultIdle, NoOp, StepAgrees, InStep, BundleAgrees, StoresAgree, VaultTypeOK, VaultFiles, Bundles, VaultOps, Tries
  <2>4. StoresAgree'
    BY <1>0, <1>2 DEF Expire, rowVars, VaultIdle, NoOp, StoresAgree, StepAgrees, BundleAgrees, VaultTypeOK, VaultFiles, Bundles, VaultOps, Tries
  <2>5. OpenVaultWillLock'
    BY <1>0, <1>2 DEF Expire, rowVars, VaultIdle, NoOp, OpenVaultWillLock, VaultTypeOK, VaultFiles, Bundles, VaultOps, Tries
  <2>6. QED BY <2>1, <2>2, <2>3, <2>4, <2>5
<1>3. CASE Lock
  <2>1. KeyFresh'
    BY <1>0, <1>3 DEF Lock, VaultIdle, ClearKey, rowVars, NoOp, KeyFresh, VaultTypeOK, VaultFiles, Bundles, VaultOps, Tries
  <2>2. BundleAgrees'
    BY <1>0, <1>3 DEF Lock, VaultIdle, ClearKey, rowVars, NoOp, BundleAgrees, KeyFresh, StepAgrees, StoresAgree, VaultTypeOK, VaultFiles, Bundles, VaultOps, Tries
  <2>3. StepAgrees'
    BY <1>0, <1>3 DEF Lock, VaultIdle, ClearKey, rowVars, NoOp, StepAgrees, InStep, BundleAgrees, StoresAgree, VaultTypeOK, VaultFiles, Bundles, VaultOps, Tries
  <2>4. StoresAgree'
    BY <1>0, <1>3 DEF Lock, VaultIdle, ClearKey, rowVars, NoOp, StoresAgree, StepAgrees, BundleAgrees, VaultTypeOK, VaultFiles, Bundles, VaultOps, Tries
  <2>5. OpenVaultWillLock'
    BY <1>0, <1>3 DEF Lock, VaultIdle, ClearKey, rowVars, NoOp, OpenVaultWillLock, VaultTypeOK, VaultFiles, Bundles, VaultOps, Tries
  <2>6. QED BY <2>1, <2>2, <2>3, <2>4, <2>5
<1>4. CASE Use
  <2>1. KeyFresh'
    BY <1>0, <1>4 DEF Use, VaultIdle, UseKey, rowVars, NoOp, KeyFresh, VaultTypeOK, VaultFiles, Bundles, VaultOps, Tries
  <2>2. BundleAgrees'
    BY <1>0, <1>4 DEF Use, VaultIdle, UseKey, rowVars, NoOp, BundleAgrees, KeyFresh, StepAgrees, StoresAgree, VaultTypeOK, VaultFiles, Bundles, VaultOps, Tries
  <2>3. StepAgrees'
    BY <1>0, <1>4 DEF Use, VaultIdle, UseKey, rowVars, NoOp, StepAgrees, InStep, BundleAgrees, StoresAgree, VaultTypeOK, VaultFiles, Bundles, VaultOps, Tries
  <2>4. StoresAgree'
    BY <1>0, <1>4 DEF Use, VaultIdle, UseKey, rowVars, NoOp, StoresAgree, StepAgrees, BundleAgrees, VaultTypeOK, VaultFiles, Bundles, VaultOps, Tries
  <2>5. OpenVaultWillLock'
    BY <1>0, <1>4 DEF Use, VaultIdle, UseKey, rowVars, NoOp, OpenVaultWillLock, VaultTypeOK, VaultFiles, Bundles, VaultOps, Tries
  <2>6. QED BY <2>1, <2>2, <2>3, <2>4, <2>5
<1>5. ASSUME NEW s \in Secrets, PutRow(s) PROVE KeyFresh' /\ BundleAgrees' /\ StepAgrees' /\ StoresAgree' /\ OpenVaultWillLock'
  <2>1. KeyFresh'
    BY <1>0, <1>5 DEF PutRow, VaultIdle, UseKey, NoOp, KeyFresh, VaultTypeOK, VaultFiles, Bundles, VaultOps, Tries
  <2>2. BundleAgrees'
    BY <1>0, <1>5 DEF PutRow, VaultIdle, UseKey, NoOp, BundleAgrees, KeyFresh, StepAgrees, StoresAgree, VaultTypeOK, VaultFiles, Bundles, VaultOps, Tries
  <2>3. StepAgrees'
    BY <1>0, <1>5 DEF PutRow, VaultIdle, UseKey, NoOp, StepAgrees, InStep, BundleAgrees, StoresAgree, VaultTypeOK, VaultFiles, Bundles, VaultOps, Tries
  <2>4. StoresAgree'
    BY <1>0, <1>5 DEF PutRow, VaultIdle, UseKey, NoOp, StoresAgree, StepAgrees, BundleAgrees, VaultTypeOK, VaultFiles, Bundles, VaultOps, Tries
  <2>5. OpenVaultWillLock'
    BY <1>0, <1>5 DEF PutRow, VaultIdle, UseKey, NoOp, OpenVaultWillLock, VaultTypeOK, VaultFiles, Bundles, VaultOps, Tries
  <2>6. QED BY <2>1, <2>2, <2>3, <2>4, <2>5
<1>6. CASE PutWrite
  <2>1. KeyFresh'
    BY <1>0, <1>6 DEF PutWrite, InStep, OpTo, OpEnds, keyVars, NoOp, KeyFresh, VaultTypeOK, VaultFiles, Bundles, VaultOps, Tries
  <2>2. BundleAgrees'
    <3>1. vault' = vault \/ (vault' = [vault EXCEPT !.records = vault.records \cup {vaultOp.ref}] /\ ~vault.pending)
      BY <1>0, <1>6 DEF PutWrite, InStep, StepAgrees
    <3>2. bundle' = bundle /\ cut' = cut /\ vault.there
      BY <1>0, <1>6 DEF PutWrite, StepAgrees, InStep
    <3>3. QED BY <1>0, <3>1, <3>2 DEF BundleAgrees, VaultTypeOK, VaultFiles, Bundles, VaultOps, Tries
  <2>3. StepAgrees'
    BY <1>0, <1>6 DEF PutWrite, InStep, OpTo, OpEnds, keyVars, NoOp, StepAgrees, InStep, BundleAgrees, StoresAgree, VaultTypeOK, VaultFiles, Bundles, VaultOps, Tries
  <2>4. StoresAgree'
    BY <1>0, <1>6 DEF PutWrite, InStep, OpTo, OpEnds, keyVars, NoOp, StoresAgree, StepAgrees, BundleAgrees, VaultTypeOK, VaultFiles, Bundles, VaultOps, Tries
  <2>5. OpenVaultWillLock'
    BY <1>0, <1>6 DEF PutWrite, InStep, OpTo, OpEnds, keyVars, NoOp, OpenVaultWillLock, VaultTypeOK, VaultFiles, Bundles, VaultOps, Tries
  <2>6. QED BY <2>1, <2>2, <2>3, <2>4, <2>5
<1>7. CASE PutFinalize
  <2>1. KeyFresh'
    BY <1>0, <1>7 DEF PutFinalize, InStep, OpEnds, keyVars, NoOp, KeyFresh, VaultTypeOK, VaultFiles, Bundles, VaultOps, Tries
  <2>2. BundleAgrees'
    BY <1>0, <1>7 DEF PutFinalize, InStep, OpEnds, keyVars, NoOp, BundleAgrees, KeyFresh, StepAgrees, StoresAgree, VaultTypeOK, VaultFiles, Bundles, VaultOps, Tries
  <2>3. StepAgrees'
    BY <1>0, <1>7 DEF PutFinalize, InStep, OpEnds, keyVars, NoOp, StepAgrees, InStep, BundleAgrees, StoresAgree, VaultTypeOK, VaultFiles, Bundles, VaultOps, Tries
  <2>4. StoresAgree'
    BY <1>0, <1>7 DEF PutFinalize, InStep, OpEnds, keyVars, NoOp, StoresAgree, StepAgrees, BundleAgrees, VaultTypeOK, VaultFiles, Bundles, VaultOps, Tries
  <2>5. OpenVaultWillLock'
    BY <1>0, <1>7 DEF PutFinalize, InStep, OpEnds, keyVars, NoOp, OpenVaultWillLock, VaultTypeOK, VaultFiles, Bundles, VaultOps, Tries
  <2>6. QED BY <2>1, <2>2, <2>3, <2>4, <2>5
<1>8. ASSUME NEW s \in Secrets, RevokeDelete(s) PROVE KeyFresh' /\ BundleAgrees' /\ StepAgrees' /\ StoresAgree' /\ OpenVaultWillLock'
  <2>1. KeyFresh'
    BY <1>0, <1>8 DEF RevokeDelete, VaultIdle, UseKey, rowVars, NoOp, KeyFresh, VaultTypeOK, VaultFiles, Bundles, VaultOps, Tries
  <2>2. BundleAgrees'
    BY <1>0, <1>8 DEF RevokeDelete, VaultIdle, UseKey, rowVars, NoOp, BundleAgrees, KeyFresh, StepAgrees, StoresAgree, VaultTypeOK, VaultFiles, Bundles, VaultOps, Tries
  <2>3. StepAgrees'
    BY <1>0, <1>8 DEF RevokeDelete, VaultIdle, UseKey, rowVars, NoOp, StepAgrees, InStep, BundleAgrees, StoresAgree, VaultTypeOK, VaultFiles, Bundles, VaultOps, Tries
  <2>4. StoresAgree'
    BY <1>0, <1>8 DEF RevokeDelete, VaultIdle, UseKey, rowVars, NoOp, StoresAgree, StepAgrees, BundleAgrees, VaultTypeOK, VaultFiles, Bundles, VaultOps, Tries
  <2>5. OpenVaultWillLock'
    BY <1>0, <1>8 DEF RevokeDelete, VaultIdle, UseKey, rowVars, NoOp, OpenVaultWillLock, VaultTypeOK, VaultFiles, Bundles, VaultOps, Tries
  <2>6. QED BY <2>1, <2>2, <2>3, <2>4, <2>5
<1>9. CASE RevokeMark
  <2>1. KeyFresh'
    BY <1>0, <1>9 DEF RevokeMark, InStep, OpEnds, keyVars, NoOp, KeyFresh, VaultTypeOK, VaultFiles, Bundles, VaultOps, Tries
  <2>2. BundleAgrees'
    BY <1>0, <1>9 DEF RevokeMark, InStep, OpEnds, keyVars, NoOp, BundleAgrees, KeyFresh, StepAgrees, StoresAgree, VaultTypeOK, VaultFiles, Bundles, VaultOps, Tries
  <2>3. StepAgrees'
    BY <1>0, <1>9 DEF RevokeMark, InStep, OpEnds, keyVars, NoOp, StepAgrees, InStep, BundleAgrees, StoresAgree, VaultTypeOK, VaultFiles, Bundles, VaultOps, Tries
  <2>4. StoresAgree'
    BY <1>0, <1>9 DEF RevokeMark, InStep, OpEnds, keyVars, NoOp, StoresAgree, StepAgrees, BundleAgrees, VaultTypeOK, VaultFiles, Bundles, VaultOps, Tries
  <2>5. OpenVaultWillLock'
    BY <1>0, <1>9 DEF RevokeMark, InStep, OpEnds, keyVars, NoOp, OpenVaultWillLock, VaultTypeOK, VaultFiles, Bundles, VaultOps, Tries
  <2>6. QED BY <2>1, <2>2, <2>3, <2>4, <2>5
<1>10. ASSUME NEW s \in Secrets, LeaseEnds(s) PROVE KeyFresh' /\ BundleAgrees' /\ StepAgrees' /\ StoresAgree' /\ OpenVaultWillLock'
  <2>1. KeyFresh'
    BY <1>0, <1>10 DEF LeaseEnds, keyVars, KeyFresh, VaultTypeOK, VaultFiles, Bundles, VaultOps, Tries
  <2>2. BundleAgrees'
    BY <1>0, <1>10 DEF LeaseEnds, keyVars, BundleAgrees, KeyFresh, StepAgrees, StoresAgree, VaultTypeOK, VaultFiles, Bundles, VaultOps, Tries
  <2>3. StepAgrees'
    BY <1>0, <1>10 DEF LeaseEnds, keyVars, StepAgrees, InStep, BundleAgrees, StoresAgree, VaultTypeOK, VaultFiles, Bundles, VaultOps, Tries
  <2>4. StoresAgree'
    BY <1>0, <1>10 DEF LeaseEnds, keyVars, StoresAgree, StepAgrees, BundleAgrees, VaultTypeOK, VaultFiles, Bundles, VaultOps, Tries
  <2>5. OpenVaultWillLock'
    BY <1>0, <1>10 DEF LeaseEnds, keyVars, OpenVaultWillLock, VaultTypeOK, VaultFiles, Bundles, VaultOps, Tries
  <2>6. QED BY <2>1, <2>2, <2>3, <2>4, <2>5
<1>11. ASSUME NEW s \in Secrets, RecoverClaim(s) PROVE KeyFresh' /\ BundleAgrees' /\ StepAgrees' /\ StoresAgree' /\ OpenVaultWillLock'
  <2>1. KeyFresh'
    BY <1>0, <1>11 DEF RecoverClaim, InStep, BestEffortMark, keyVars, KeyFresh, VaultTypeOK, VaultFiles, Bundles, VaultOps, Tries
  <2>2. BundleAgrees'
    BY <1>0, <1>11 DEF RecoverClaim, InStep, BestEffortMark, keyVars, BundleAgrees, KeyFresh, StepAgrees, StoresAgree, VaultTypeOK, VaultFiles, Bundles, VaultOps, Tries
  <2>3. StepAgrees'
    <3>1. vault' = vault /\ bundle' = bundle /\ InStep("recover", "next") /\ vaultOp.ref \notin Secrets /\ ~vault.pending
      BY <1>0, <1>11 DEF RecoverClaim, InStep, StepAgrees
    <3>2. CASE vaultOp' = [vaultOp EXCEPT !.todo = @ \ {s}]
      BY <1>0, <1>11, <3>1, <3>2 DEF InStep, StepAgrees, VaultTypeOK, VaultFiles, Bundles, VaultOps, Tries
    <3>3. CASE /\ row' = [row EXCEPT ![s] = "recovering"]
               /\ vaultOp' = [vaultOp EXCEPT !.at = "delete", !.ref = s, !.todo = @ \ {s}]
      BY <1>0, <1>11, <3>1, <3>3 DEF InStep, StepAgrees, VaultTypeOK, VaultFiles, Bundles, VaultOps, Tries
    <3>4. QED BY <1>11, <3>2, <3>3 DEF RecoverClaim
  <2>4. StoresAgree'
    BY <1>0, <1>11 DEF RecoverClaim, InStep, BestEffortMark, keyVars, StoresAgree, StepAgrees, BundleAgrees, VaultTypeOK, VaultFiles, Bundles, VaultOps, Tries
  <2>5. OpenVaultWillLock'
    BY <1>0, <1>11 DEF RecoverClaim, InStep, BestEffortMark, keyVars, OpenVaultWillLock, VaultTypeOK, VaultFiles, Bundles, VaultOps, Tries
  <2>6. QED BY <2>1, <2>2, <2>3, <2>4, <2>5
<1>12. CASE RecoverBegin
  <2>1. KeyFresh'
    BY <1>0, <1>12 DEF RecoverBegin, VaultIdle, UseKey, rowVars, NoOp, KeyFresh, VaultTypeOK, VaultFiles, Bundles, VaultOps, Tries
  <2>2. BundleAgrees'
    BY <1>0, <1>12 DEF RecoverBegin, VaultIdle, UseKey, rowVars, NoOp, BundleAgrees, KeyFresh, StepAgrees, StoresAgree, VaultTypeOK, VaultFiles, Bundles, VaultOps, Tries
  <2>3. StepAgrees'
    BY <1>0, <1>12 DEF RecoverBegin, VaultIdle, UseKey, rowVars, NoOp, StepAgrees, InStep, BundleAgrees, StoresAgree, VaultTypeOK, VaultFiles, Bundles, VaultOps, Tries
  <2>4. StoresAgree'
    BY <1>0, <1>12 DEF RecoverBegin, VaultIdle, UseKey, rowVars, NoOp, StoresAgree, StepAgrees, BundleAgrees, VaultTypeOK, VaultFiles, Bundles, VaultOps, Tries
  <2>5. OpenVaultWillLock'
    BY <1>0, <1>12 DEF RecoverBegin, VaultIdle, UseKey, rowVars, NoOp, OpenVaultWillLock, VaultTypeOK, VaultFiles, Bundles, VaultOps, Tries
  <2>6. QED BY <2>1, <2>2, <2>3, <2>4, <2>5
<1>13. CASE RecoverDelete
  <2>1. KeyFresh'
    <3>1. CASE UseKey
      BY <1>0, <1>13, <3>1 DEF RecoverDelete, UseKey, KeyFresh, VaultTypeOK, VaultFiles, Bundles, VaultOps, Tries
    <3>2. CASE UNCHANGED <<vault, keyVars>>
      BY <1>0, <1>13, <3>2 DEF RecoverDelete, keyVars, KeyFresh, VaultTypeOK, VaultFiles, Bundles, VaultOps, Tries
    <3>3. QED BY <1>13, <3>1, <3>2 DEF RecoverDelete
  <2>2. BundleAgrees'
    BY <1>0, <1>13 DEF RecoverDelete, InStep, UseKey, OpTo, BestEffortMark, NextRef, keyVars, BundleAgrees, KeyFresh, StepAgrees, StoresAgree, VaultTypeOK, VaultFiles, Bundles, VaultOps, Tries
  <2>3. StepAgrees'
    <3>1. CASE UseKey /\ vault' = [vault EXCEPT !.records = @ \ {vaultOp.ref}] /\ OpTo("drop") /\ UNCHANGED row
      BY <1>0, <1>13, <3>1 DEF RecoverDelete, InStep, OpTo, StepAgrees, BundleAgrees, VaultTypeOK, VaultFiles, Bundles, VaultOps, Tries
    <3>2. CASE BestEffortMark(vaultOp.ref) /\ NextRef /\ UNCHANGED <<vault, keyVars>>
      BY <1>0, <1>13, <3>2 DEF RecoverDelete, InStep, BestEffortMark, NextRef, StepAgrees, BundleAgrees, VaultTypeOK, VaultFiles, Bundles, VaultOps, Tries
    <3>3. QED BY <1>13, <3>1, <3>2 DEF RecoverDelete
  <2>4. StoresAgree'
    <3>1. CASE UseKey /\ vault' = [vault EXCEPT !.records = @ \ {vaultOp.ref}] /\ OpTo("drop") /\ UNCHANGED row
      BY <1>0, <1>13, <3>1 DEF RecoverDelete, InStep, OpTo, UseKey, StepAgrees, StoresAgree, VaultTypeOK, VaultFiles, Bundles, VaultOps, Tries
    <3>2. CASE BestEffortMark(vaultOp.ref) /\ NextRef /\ UNCHANGED <<vault, keyVars>>
      BY <1>0, <1>13, <3>2 DEF RecoverDelete, InStep, BestEffortMark, NextRef, keyVars, StepAgrees, StoresAgree, VaultTypeOK, VaultFiles, Bundles, VaultOps, Tries
    <3>3. QED BY <1>13, <3>1, <3>2 DEF RecoverDelete
  <2>5. OpenVaultWillLock'
    <3>1. CASE UseKey
      BY <1>0, <1>13, <3>1 DEF RecoverDelete, UseKey, OpenVaultWillLock, VaultTypeOK, VaultFiles, Bundles, VaultOps, Tries
    <3>2. CASE UNCHANGED <<vault, keyVars>>
      BY <1>0, <1>13, <3>2 DEF RecoverDelete, keyVars, OpenVaultWillLock, VaultTypeOK, VaultFiles, Bundles, VaultOps, Tries
    <3>3. QED BY <1>13, <3>1, <3>2 DEF RecoverDelete
  <2>6. QED BY <2>1, <2>2, <2>3, <2>4, <2>5
<1>14. CASE RecoverDrop
  <2>1. KeyFresh'
    BY <1>0, <1>14 DEF RecoverDrop, InStep, BestEffortMark, NextRef, keyVars, KeyFresh, VaultTypeOK, VaultFiles, Bundles, VaultOps, Tries
  <2>2. BundleAgrees'
    BY <1>0, <1>14 DEF RecoverDrop, InStep, BestEffortMark, NextRef, keyVars, BundleAgrees, KeyFresh, StepAgrees, StoresAgree, VaultTypeOK, VaultFiles, Bundles, VaultOps, Tries
  <2>3. StepAgrees'
    BY <1>0, <1>14 DEF RecoverDrop, InStep, BestEffortMark, NextRef, keyVars, StepAgrees, InStep, BundleAgrees, StoresAgree, VaultTypeOK, VaultFiles, Bundles, VaultOps, Tries
  <2>4. StoresAgree'
    BY <1>0, <1>14 DEF RecoverDrop, InStep, BestEffortMark, NextRef, keyVars, StoresAgree, StepAgrees, BundleAgrees, VaultTypeOK, VaultFiles, Bundles, VaultOps, Tries
  <2>5. OpenVaultWillLock'
    BY <1>0, <1>14 DEF RecoverDrop, InStep, BestEffortMark, NextRef, keyVars, OpenVaultWillLock, VaultTypeOK, VaultFiles, Bundles, VaultOps, Tries
  <2>6. QED BY <2>1, <2>2, <2>3, <2>4, <2>5
<1>15. CASE RecoverEnd
  <2>1. KeyFresh'
    BY <1>0, <1>15 DEF RecoverEnd, InStep, OpEnds, rowVars, keyVars, NoOp, KeyFresh, VaultTypeOK, VaultFiles, Bundles, VaultOps, Tries
  <2>2. BundleAgrees'
    BY <1>0, <1>15 DEF RecoverEnd, InStep, OpEnds, rowVars, keyVars, NoOp, BundleAgrees, KeyFresh, StepAgrees, StoresAgree, VaultTypeOK, VaultFiles, Bundles, VaultOps, Tries
  <2>3. StepAgrees'
    BY <1>0, <1>15 DEF RecoverEnd, InStep, OpEnds, rowVars, keyVars, NoOp, StepAgrees, InStep, BundleAgrees, StoresAgree, VaultTypeOK, VaultFiles, Bundles, VaultOps, Tries
  <2>4. StoresAgree'
    BY <1>0, <1>15 DEF RecoverEnd, InStep, OpEnds, rowVars, keyVars, NoOp, StoresAgree, StepAgrees, BundleAgrees, VaultTypeOK, VaultFiles, Bundles, VaultOps, Tries
  <2>5. OpenVaultWillLock'
    BY <1>0, <1>15 DEF RecoverEnd, InStep, OpEnds, rowVars, keyVars, NoOp, OpenVaultWillLock, VaultTypeOK, VaultFiles, Bundles, VaultOps, Tries
  <2>6. QED BY <2>1, <2>2, <2>3, <2>4, <2>5
<1>16. CASE Create
  <2>1. KeyFresh'
    BY <1>0, <1>16 DEF Create, VaultIdle, SetKey, rowVars, NoOp, KeyFresh, VaultTypeOK, VaultFiles, Bundles, VaultOps, Tries
  <2>2. BundleAgrees'
    BY <1>0, <1>16 DEF Create, VaultIdle, SetKey, rowVars, NoOp, BundleAgrees, KeyFresh, StepAgrees, StoresAgree, VaultTypeOK, VaultFiles, Bundles, VaultOps, Tries
  <2>3. StepAgrees'
    BY <1>0, <1>16 DEF Create, VaultIdle, SetKey, rowVars, NoOp, StepAgrees, InStep, BundleAgrees, StoresAgree, VaultTypeOK, VaultFiles, Bundles, VaultOps, Tries
  <2>4. StoresAgree'
    BY <1>0, <1>16 DEF Create, VaultIdle, SetKey, rowVars, NoOp, StoresAgree, StepAgrees, BundleAgrees, VaultTypeOK, VaultFiles, Bundles, VaultOps, Tries
  <2>5. OpenVaultWillLock'
    BY <1>0, <1>16 DEF Create, VaultIdle, SetKey, rowVars, NoOp, OpenVaultWillLock, VaultTypeOK, VaultFiles, Bundles, VaultOps, Tries
  <2>6. QED BY <2>1, <2>2, <2>3, <2>4, <2>5
<1>17. CASE Unlock
  <2>1. KeyFresh'
    <3>1. CASE vault.pending
      BY <1>0, <1>17, <3>1 DEF Unlock, keyVars, KeyFresh, VaultTypeOK, VaultFiles, Bundles, VaultOps, Tries
    <3>2. CASE ~vault.pending
      BY <1>0, <1>17, <3>2 DEF Unlock, SetKey, KeyFresh, VaultTypeOK, VaultFiles, Bundles, VaultOps, Tries
    <3>3. QED BY <1>17, <3>1, <3>2 DEF Unlock
  <2>2. BundleAgrees'
    BY <1>0, <1>17 DEF Unlock, VaultIdle, SetKey, rowVars, keyVars, NoOp, BundleAgrees, KeyFresh, StepAgrees, StoresAgree, VaultTypeOK, VaultFiles, Bundles, VaultOps, Tries
  <2>3. StepAgrees'
    <3>1. CASE vault.pending
      BY ZenonT(60), <1>0, <1>17, <3>1 DEF Unlock, VaultIdle, NoOp, StepAgrees, InStep, rowVars, VaultTypeOK, VaultFiles, Bundles, VaultOps, Tries
    <3>2. CASE ~vault.pending
      BY <1>0, <1>17, <3>2 DEF Unlock, VaultIdle, NoOp, StepAgrees, InStep, rowVars, VaultTypeOK, VaultFiles, Bundles, VaultOps, Tries
    <3>3. QED BY <1>17, <3>1, <3>2 DEF Unlock
  <2>4. StoresAgree'
    <3>1. CASE vault.pending
      BY <1>0, <1>17, <3>1 DEF Unlock, VaultIdle, NoOp, StoresAgree, rowVars, keyVars, VaultTypeOK, VaultFiles, Bundles, VaultOps, Tries
    <3>2. CASE ~vault.pending
      BY <1>0, <1>17, <3>2 DEF Unlock, VaultIdle, NoOp, StoresAgree, rowVars, SetKey, VaultTypeOK, VaultFiles, Bundles, VaultOps, Tries
    <3>3. QED BY <1>17, <3>1, <3>2 DEF Unlock
  <2>5. OpenVaultWillLock'
    <3>1. CASE vault.pending
      <4>1. UNCHANGED keyVars
        BY <1>17, <3>1 DEF Unlock
      <4>2. QED BY <1>0, <4>1 DEF keyVars, OpenVaultWillLock
    <3>2. CASE ~vault.pending
      BY <1>0, <1>17, <3>2 DEF Unlock, SetKey, OpenVaultWillLock, VaultTypeOK, VaultFiles, Bundles, VaultOps, Tries
    <3>3. QED BY <3>1, <3>2
  <2>6. QED BY <2>1, <2>2, <2>3, <2>4, <2>5
<1>18. CASE ApplyRows
  <2>1. KeyFresh'
    BY <1>0, <1>18 DEF ApplyRows, InStep, OpTo, OpEnds, rowVars, keyVars, NoOp, KeyFresh, VaultTypeOK, VaultFiles, Bundles, VaultOps, Tries
  <2>2. BundleAgrees'
    BY <1>0, <1>18 DEF ApplyRows, InStep, OpTo, OpEnds, rowVars, keyVars, NoOp, BundleAgrees, KeyFresh, StepAgrees, StoresAgree, VaultTypeOK, VaultFiles, Bundles, VaultOps, Tries
  <2>3. StepAgrees'
    BY <1>0, <1>18 DEF ApplyRows, InStep, OpTo, OpEnds, rowVars, keyVars, NoOp, StepAgrees, InStep, BundleAgrees, StoresAgree, VaultTypeOK, VaultFiles, Bundles, VaultOps, Tries
  <2>4. StoresAgree'
    BY <1>0, <1>18 DEF ApplyRows, InStep, OpTo, OpEnds, rowVars, keyVars, NoOp, StoresAgree, StepAgrees, BundleAgrees, VaultTypeOK, VaultFiles, Bundles, VaultOps, Tries
  <2>5. OpenVaultWillLock'
    BY <1>0, <1>18 DEF ApplyRows, InStep, OpTo, OpEnds, rowVars, keyVars, NoOp, OpenVaultWillLock, VaultTypeOK, VaultFiles, Bundles, VaultOps, Tries
  <2>6. QED BY <2>1, <2>2, <2>3, <2>4, <2>5
<1>19. CASE ApplyState
  <2>1. KeyFresh'
    BY <1>0, <1>19 DEF ApplyState, InStep, OpTo, OpEnds, rowVars, keyVars, NoOp, KeyFresh, VaultTypeOK, VaultFiles, Bundles, VaultOps, Tries
  <2>2. BundleAgrees'
    BY <1>0, <1>19 DEF ApplyState, InStep, OpTo, OpEnds, rowVars, keyVars, NoOp, BundleAgrees, KeyFresh, StepAgrees, StoresAgree, VaultTypeOK, VaultFiles, Bundles, VaultOps, Tries
  <2>3. StepAgrees'
    BY <1>0, <1>19 DEF ApplyState, InStep, OpTo, OpEnds, rowVars, keyVars, NoOp, StepAgrees, InStep, BundleAgrees, StoresAgree, VaultTypeOK, VaultFiles, Bundles, VaultOps, Tries
  <2>4. StoresAgree'
    BY <1>0, <1>19 DEF ApplyState, InStep, OpTo, OpEnds, rowVars, keyVars, NoOp, StoresAgree, StepAgrees, BundleAgrees, VaultTypeOK, VaultFiles, Bundles, VaultOps, Tries
  <2>5. OpenVaultWillLock'
    BY <1>0, <1>19 DEF ApplyState, InStep, OpTo, OpEnds, rowVars, keyVars, NoOp, OpenVaultWillLock, VaultTypeOK, VaultFiles, Bundles, VaultOps, Tries
  <2>6. QED BY <2>1, <2>2, <2>3, <2>4, <2>5
<1>20. CASE ApplySettle
  <2>1. KeyFresh'
    <3>1. CASE SetKey
      BY <1>0, <1>20, <3>1 DEF ApplySettle, SetKey, KeyFresh, VaultTypeOK, VaultFiles, Bundles, VaultOps, Tries
    <3>2. CASE UNCHANGED <<vault, keyVars>>
      BY <1>0, <1>20, <3>2 DEF ApplySettle, keyVars, KeyFresh, VaultTypeOK, VaultFiles, Bundles, VaultOps, Tries
    <3>3. QED BY <1>20, <3>1, <3>2 DEF ApplySettle
  <2>2. BundleAgrees'
    BY <1>0, <1>20 DEF ApplySettle, InStep, OpEnds, SetKey, rowVars, keyVars, NoOp, BundleAgrees, KeyFresh, StepAgrees, StoresAgree, VaultTypeOK, VaultFiles, Bundles, VaultOps, Tries
  <2>3. StepAgrees'
    BY <1>0, <1>20 DEF ApplySettle, InStep, OpEnds, SetKey, rowVars, keyVars, NoOp, StepAgrees, InStep, BundleAgrees, StoresAgree, VaultTypeOK, VaultFiles, Bundles, VaultOps, Tries
  <2>4. StoresAgree'
    <3>1. CASE vault' = [vault EXCEPT !.pending = FALSE] /\ SetKey
      BY <1>0, <1>20, <3>1 DEF ApplySettle, InStep, OpEnds, NoOp, StepAgrees, BundleAgrees, StoresAgree, rowVars, VaultTypeOK, VaultFiles, Bundles, VaultOps, Tries
    <3>2. CASE UNCHANGED <<vault, keyVars>>
      BY <1>0, <1>20, <3>2 DEF ApplySettle, InStep, OpEnds, NoOp, StepAgrees, StoresAgree, rowVars, keyVars, VaultTypeOK, VaultFiles, Bundles, VaultOps, Tries
    <3>3. QED BY <1>20, <3>1, <3>2 DEF ApplySettle
  <2>5. OpenVaultWillLock'
    <3>1. CASE SetKey
      BY <1>0, <1>20, <3>1 DEF ApplySettle, SetKey, OpenVaultWillLock, VaultTypeOK, VaultFiles, Bundles, VaultOps, Tries
    <3>2. CASE UNCHANGED <<vault, keyVars>>
      BY <1>0, <1>20, <3>2 DEF ApplySettle, keyVars, OpenVaultWillLock, VaultTypeOK, VaultFiles, Bundles, VaultOps, Tries
    <3>3. QED BY <1>20, <3>1, <3>2 DEF ApplySettle
  <2>6. QED BY <2>1, <2>2, <2>3, <2>4, <2>5
<1>21. CASE Backup
  <2>1. KeyFresh'
    BY <1>0, <1>21 DEF Backup, VaultIdle, UseKey, rowVars, NoOp, KeyFresh, VaultTypeOK, VaultFiles, Bundles, VaultOps, Tries
  <2>2. BundleAgrees'
    BY <1>0, <1>21 DEF Backup, VaultIdle, UseKey, rowVars, NoOp, BundleAgrees, KeyFresh, StepAgrees, StoresAgree, VaultTypeOK, VaultFiles, Bundles, VaultOps, Tries
  <2>3. StepAgrees'
    BY <1>0, <1>21 DEF Backup, VaultIdle, UseKey, rowVars, NoOp, StepAgrees, InStep, BundleAgrees, StoresAgree, VaultTypeOK, VaultFiles, Bundles, VaultOps, Tries
  <2>4. StoresAgree'
    BY <1>0, <1>21 DEF Backup, VaultIdle, UseKey, rowVars, NoOp, StoresAgree, StepAgrees, BundleAgrees, VaultTypeOK, VaultFiles, Bundles, VaultOps, Tries
  <2>5. OpenVaultWillLock'
    BY <1>0, <1>21 DEF Backup, VaultIdle, UseKey, rowVars, NoOp, OpenVaultWillLock, VaultTypeOK, VaultFiles, Bundles, VaultOps, Tries
  <2>6. QED BY <2>1, <2>2, <2>3, <2>4, <2>5
<1>22. CASE Restore
  <2>1. KeyFresh'
    BY <1>0, <1>22 DEF Restore, VaultIdle, ClearKey, rowVars, NoOp, KeyFresh, VaultTypeOK, VaultFiles, Bundles, VaultOps, Tries
  <2>2. BundleAgrees'
    BY <1>0, <1>22 DEF Restore, VaultIdle, ClearKey, rowVars, NoOp, BundleAgrees, KeyFresh, StepAgrees, StoresAgree, VaultTypeOK, VaultFiles, Bundles, VaultOps, Tries
  <2>3. StepAgrees'
    BY <1>0, <1>22 DEF Restore, VaultIdle, ClearKey, rowVars, NoOp, StepAgrees, InStep, BundleAgrees, StoresAgree, VaultTypeOK, VaultFiles, Bundles, VaultOps, Tries
  <2>4. StoresAgree'
    BY <1>0, <1>22 DEF Restore, VaultIdle, ClearKey, rowVars, NoOp, StoresAgree, StepAgrees, BundleAgrees, VaultTypeOK, VaultFiles, Bundles, VaultOps, Tries
  <2>5. OpenVaultWillLock'
    BY <1>0, <1>22 DEF Restore, VaultIdle, ClearKey, rowVars, NoOp, OpenVaultWillLock, VaultTypeOK, VaultFiles, Bundles, VaultOps, Tries
  <2>6. QED BY <2>1, <2>2, <2>3, <2>4, <2>5
<1>23. CASE ChangeState
  <2>1. KeyFresh'
    BY <1>0, <1>23 DEF ChangeState, rowVars, keyVars, KeyFresh, VaultTypeOK, VaultFiles, Bundles, VaultOps, Tries
  <2>2. BundleAgrees'
    BY <1>0, <1>23 DEF ChangeState, rowVars, keyVars, BundleAgrees, KeyFresh, StepAgrees, StoresAgree, VaultTypeOK, VaultFiles, Bundles, VaultOps, Tries
  <2>3. StepAgrees'
    BY <1>0, <1>23 DEF ChangeState, rowVars, keyVars, StepAgrees, InStep, BundleAgrees, StoresAgree, VaultTypeOK, VaultFiles, Bundles, VaultOps, Tries
  <2>4. StoresAgree'
    BY <1>0, <1>23 DEF ChangeState, rowVars, keyVars, StoresAgree, StepAgrees, BundleAgrees, VaultTypeOK, VaultFiles, Bundles, VaultOps, Tries
  <2>5. OpenVaultWillLock'
    BY <1>0, <1>23 DEF ChangeState, rowVars, keyVars, OpenVaultWillLock, VaultTypeOK, VaultFiles, Bundles, VaultOps, Tries
  <2>6. QED BY <2>1, <2>2, <2>3, <2>4, <2>5
<1>24. CASE CrashVault
  <2>1. KeyFresh'
    BY <1>0, <1>24 DEF CrashVault, InStep, rowVars, NoOp, KeyFresh, VaultTypeOK, VaultFiles, Bundles, VaultOps, Tries
  <2>2. BundleAgrees'
    BY <1>0, <1>24 DEF CrashVault, InStep, rowVars, NoOp, BundleAgrees, KeyFresh, StepAgrees, StoresAgree, VaultTypeOK, VaultFiles, Bundles, VaultOps, Tries
  <2>3. StepAgrees'
    BY <1>0, <1>24 DEF CrashVault, InStep, rowVars, NoOp, StepAgrees, InStep, BundleAgrees, StoresAgree, VaultTypeOK, VaultFiles, Bundles, VaultOps, Tries
  <2>4. StoresAgree'
    BY <1>0, <1>24 DEF CrashVault, InStep, rowVars, NoOp, StoresAgree, StepAgrees, BundleAgrees, VaultTypeOK, VaultFiles, Bundles, VaultOps, Tries
  <2>5. OpenVaultWillLock'
    BY <1>0, <1>24 DEF CrashVault, InStep, rowVars, NoOp, OpenVaultWillLock, VaultTypeOK, VaultFiles, Bundles, VaultOps, Tries
  <2>6. QED BY <2>1, <2>2, <2>3, <2>4, <2>5
<1>25. QED BY <1>1, <1>2, <1>3, <1>4, <1>5, <1>6, <1>7, <1>8, <1>9, <1>10, <1>11, <1>12, <1>13, <1>14, <1>15, <1>16, <1>17, <1>18, <1>19, <1>20, <1>21, <1>22, <1>23, <1>24 DEF VaultNext

LEMMA VaultInvInit ==
  VaultInit => VaultInv
<1> SUFFICES ASSUME VaultInit PROVE VaultInv
  OBVIOUS
<1>1. VaultTypeOK
  <2>1. vault \in VaultFiles /\ vaultOp \in VaultOps
    BY DEF VaultInit, VaultFiles, VaultOps, NoOp
  <2>2. row \in [Secrets -> Lifecycles] /\ tries \in [Secrets -> Tries]
    BY DEF VaultInit, Lifecycles, Tries, MaxRecoveryAttempts
  <2>3. bundle \in Bundles
    BY DEF VaultInit, NoBundle, Bundles, Lifecycles, Tries, MaxRecoveryAttempts
  <2>4. generation \in 0..MaxKeyUses + 1 /\ armed \in 0..MaxKeyUses /\ expired \subseteq 1..MaxKeyUses
    BY VaultAssumption DEF VaultInit
  <2>5. leased \subseteq Secrets /\ cut \subseteq Secrets /\ state \in {1, 2} /\ unlocked \in BOOLEAN
    BY DEF VaultInit
  <2>6. QED BY <2>1, <2>2, <2>3, <2>4, <2>5 DEF VaultTypeOK
<1>2. KeyFresh /\ OpenVaultWillLock /\ BundleAgrees /\ StoresAgree
  BY DEF VaultInit, KeyFresh, OpenVaultWillLock, BundleAgrees, StoresAgree, NoBundle
<1>3. StepAgrees
  BY DEF VaultInit, StepAgrees, InStep, NoOp
<1>4. QED BY <1>1, <1>2, <1>3 DEF VaultInv, VaultSafe

LEMMA VaultInvAlways ==
  VaultSpec => []VaultInv
<1>1. VaultInv /\ [VaultNext]_vaultVars => VaultInv'
  <2> SUFFICES ASSUME VaultInv, [VaultNext]_vaultVars PROVE VaultInv'
    OBVIOUS
  <2>1. CASE VaultNext
    BY <2>1, VaultTypeStep, VaultSafeStep DEF VaultInv, VaultSafe
  <2>2. CASE UNCHANGED vaultVars
    <3>1. VaultTypeOK'
      BY <2>2 DEF VaultInv, VaultTypeOK, vaultVars
    <3>2. VaultSafe'
      BY <2>2 DEF VaultInv, VaultSafe, vaultVars, KeyFresh, BundleAgrees, StepAgrees, InStep, StoresAgree, OpenVaultWillLock
    <3>3. QED BY <3>1, <3>2 DEF VaultInv
  <2>3. QED BY <2>1, <2>2
<1>2. QED BY <1>1, VaultInvInit, PTL DEF VaultSpec

\* The vault's file, the rows that track it, the backup and the key keep their types,
\* through failed steps and crashes.
THEOREM VaultTypeCorrect == VaultSpec => []VaultTypeOK
<1>1. VaultInv => VaultTypeOK
  BY DEF VaultInv
<1>2. QED BY <1>1, VaultInvAlways, PTL

\* For any number of secrets and key uses: the encrypted file and the rows of
\* secret_refs agree whenever no restore is pending, through failed steps and
\* crashes between the two, and an open vault has a timer that will lock it.
THEOREM VaultKeepsSecrets == VaultSpec => []SecretsHold
<1>1. VaultInv => SecretsHold
  BY DEF VaultInv, VaultSafe, SecretsHold
<1>2. QED BY <1>1, VaultInvAlways, PTL

HIDE VaultAssumption

-------------------------------------------------------------------------------
(***************************************************************************)
(* What the registry of MCP clients guarantees for every set of specs and  *)
(* callers, every number of clients and of changes of the configuration.   *)
(* That every process has an owner rests on what the thread inside         *)
(* start_server knows at each place (StarterKnows): in particular that     *)
(* nothing is published while it starts, so publishing forgets nobody.     *)
(***************************************************************************)

StarterKnows ==
    /\ live \in 0..clients
    /\ starter.at \in {"idle", "ask", "make"} => starter.new = 0
    /\ starter.at \in {"spawn", "discover", "publish"} =>
          /\ starter.new \in Made
          /\ client[starter.new].spec = starter.spec /\ client[starter.new].warm = starter.warm
    /\ starter.at \notin {"idle", "ask"} => live = 0
    /\ starter.at = "spawn" => process[starter.new] = "none"
    /\ \A g \in 1..MaxClients : g \notin Made => process[g] = "none"

McpInv == McpTypeOK /\ ClientsAreOwned /\ StarterKnows

Client == [spec : Entries, warm : BOOLEAN, stopped : BOOLEAN]
Starter == [at : {"idle", "ask", "make", "spawn", "discover", "publish"}, spec : Entries,
            new : 0..MaxClients, warm : BOOLEAN]

USE McpAssumption

\* What stop() does to the clients it is called on, and that it leaves the rest alone.
LEMMA Stopping ==
  ASSUME McpTypeOK, NEW gs, StopClients(gs)
  PROVE  /\ client' \in [1..MaxClients -> Client]
         /\ process' \in [1..MaxClients -> {"none", "runs", "closed", "gone"}]
         /\ reader' \in [1..MaxClients -> {"none", "reads", "ended"}]
         /\ call' \in [Callers -> [to : 0..MaxClients, at : {"idle", "registered", "waits"}]]
         /\ \A g \in 1..MaxClients :
               /\ client'[g].spec = client[g].spec /\ client'[g].warm = client[g].warm
               /\ g \in gs => process'[g] \notin {"runs", "closed"}
               /\ g \notin gs => process'[g] = process[g]
               /\ process[g] = "none" => process'[g] = "none"
<1>0. /\ client \in [1..MaxClients -> Client]
      /\ process \in [1..MaxClients -> {"none", "runs", "closed", "gone"}]
      /\ reader \in [1..MaxClients -> {"none", "reads", "ended"}]
      /\ call \in [Callers -> [to : 0..MaxClients, at : {"idle", "registered", "waits"}]]
  BY DEF McpTypeOK, Client
<1>1. client' \in [1..MaxClients -> Client]
  BY ZenonT(60), <1>0 DEF StopClients, Client
<1>2. \A g \in 1..MaxClients : client'[g].spec = client[g].spec /\ client'[g].warm = client[g].warm
  BY <1>0 DEF StopClients, Client
<1>3. /\ process' \in [1..MaxClients -> {"none", "runs", "closed", "gone"}]
      /\ \A g \in 1..MaxClients :
            /\ g \in gs => process'[g] \notin {"runs", "closed"}
            /\ g \notin gs => process'[g] = process[g]
            /\ process[g] = "none" => process'[g] = "none"
  BY <1>0 DEF StopClients, Running
<1>4. reader' \in [1..MaxClients -> {"none", "reads", "ended"}]
  BY <1>0 DEF StopClients
<1>5. call' \in [Callers -> [to : 0..MaxClients, at : {"idle", "registered", "waits"}]]
  BY <1>0 DEF StopClients, NoCall
<1>6. QED BY <1>1, <1>2, <1>3, <1>4, <1>5

LEMMA McpInitial == McpInit => McpInv
<1> SUFFICES ASSUME McpInit PROVE McpInv
  OBVIOUS
<1>1. McpTypeOK
  <2>0. warmCancel \in BOOLEAN /\ edited \in BOOLEAN
    BY DEF McpInit
  <2>1. /\ config \in Entries /\ clients \in 0..MaxClients /\ live \in 0..MaxClients
        /\ mcpSaves \in 0..MaxSaves
    BY DEF McpInit, McpAssumption
  <2>2. token \in [on : BOOLEAN, client : 0..MaxClients] /\ starter \in Starter
    BY DEF McpInit, NoToken, NotStarting, Starter, Entries, McpAssumption
  <2>3. client \in [1..MaxClients -> Client]
    BY DEF McpInit, Client, Entries
  <2>4. /\ process \in [1..MaxClients -> {"none", "runs", "closed", "gone"}]
        /\ reader \in [1..MaxClients -> {"none", "reads", "ended"}]
    BY DEF McpInit
  <2>5. call \in [Callers -> [to : 0..MaxClients, at : {"idle", "registered", "waits"}]]
    BY DEF McpInit, NoCall
  <2>6. QED BY <2>0, <2>1, <2>2, <2>3, <2>4, <2>5 DEF McpTypeOK, Client, Starter
<1>2. ClientsAreOwned /\ StarterKnows
  BY DEF McpInit, ClientsAreOwned, NoProcessLost, PublishedIsWanted, StarterKnows, Made, Running, NotStarting
<1>3. QED BY <1>1, <1>2 DEF McpInv

\* What is cancelled and stopped together: the start under way loses its token,
\* the published client its place.
LEMMA StopLockedKeeps ==
  ASSUME McpInv, StopLocked, UNCHANGED <<clients, starter>>,
         config' \in Entries, warmCancel' \in BOOLEAN, mcpSaves' \in 0..MaxSaves, UNCHANGED edited
  PROVE  McpInv'
<1>1. /\ token' = NoToken /\ live' = 0 /\ StopClients({live, token.client} \ {0})
      /\ McpTypeOK /\ StarterKnows
  BY DEF StopLocked, McpInv
<1>2. McpTypeOK'
  BY <1>1, Stopping DEF McpTypeOK, NoToken, Client
<1>3. \A g \in 1..MaxClients : Running(g)' => Running(g) /\ g # live
  BY <1>1, Stopping DEF Running
<1>4. clients \in 0..MaxClients
  BY <1>1 DEF McpTypeOK
<1>5. ClientsAreOwned'
  BY <1>1, <1>3, <1>4 DEF McpInv, ClientsAreOwned, NoProcessLost, PublishedIsWanted, Made
<1>6. StarterKnows'
  BY <1>1, <1>4, Stopping DEF StarterKnows, Made
<1>7. QED BY <1>2, <1>5, <1>6 DEF McpInv

LEMMA ConfigKeeps ==
  ASSUME McpInv, SaveServers \/ EditFile \/ StopServer \/ StopAll
  PROVE  McpInv'
<1>0. McpTypeOK
  BY DEF McpInv
<1>1. CASE SaveServers
  <2>1. PICK e \in Entries : config' = e /\ IF e # config THEN StopLocked
                                            ELSE UNCHANGED <<token, live, client, process, reader, call>>
    BY <1>1 DEF SaveServers
  <2>2. UNCHANGED <<clients, starter, warmCancel, edited>> /\ mcpSaves' \in 0..MaxSaves
    BY <1>0, <1>1 DEF SaveServers, McpTypeOK
  <2>3. CASE e # config
    BY <1>0, <2>1, <2>2, <2>3, StopLockedKeeps DEF McpTypeOK
  <2>4. CASE e = config
    BY <2>1, <2>2, <2>4
    DEF McpInv, McpTypeOK, ClientsAreOwned, NoProcessLost, PublishedIsWanted, StarterKnows, Made, Running
  <2>5. QED BY <2>3, <2>4
<1>2. CASE EditFile
  <2>1. /\ config' \in Entries /\ mcpSaves' \in 0..MaxSaves /\ edited' = TRUE
        /\ UNCHANGED <<clientVars, live, token, starter, warmCancel>>
    BY <1>0, <1>2 DEF EditFile, McpTypeOK
  <2>2. QED
    BY <2>1 DEF clientVars, McpInv, McpTypeOK, ClientsAreOwned, NoProcessLost, PublishedIsWanted,
                StarterKnows, Made, Running
<1>3. CASE StopServer \/ StopAll
  BY <1>0, <1>3, StopLockedKeeps DEF StopServer, StopAll, McpTypeOK
<1>4. QED BY <1>1, <1>2, <1>3

(***************************************************************************)
(* start_server                                                            *)
(***************************************************************************)
LEMMA BeginSafe ==
  ASSUME McpInv, BeginStart
  PROVE  McpInv'
<1>0. McpTypeOK /\ StarterKnows /\ clients \in 0..MaxClients /\ starter.at = "idle" /\ starter.new = 0
  BY DEF McpInv, BeginStart, McpTypeOK, StarterKnows
<1> DEFINE keep == live # 0 /\ Running(live) /\ client[live].spec = config
<1>1. PICK warm \in BOOLEAN :
          /\ starter' = [at |-> IF keep THEN "ask" ELSE "make", spec |-> config, new |-> 0, warm |-> warm]
          /\ token' = [on |-> TRUE, client |-> 0]
          /\ IF live # 0 /\ ~keep
             THEN live' = 0 /\ StopClients({live})
             ELSE UNCHANGED <<live, client, process, reader, call>>
  BY DEF BeginStart
<1>2. UNCHANGED <<config, clients, warmCancel, mcpSaves, edited>>
  BY DEF BeginStart
<1>3. starter' \in Starter /\ token' \in [on : BOOLEAN, client : 0..MaxClients]
      /\ starter'.new = 0 /\ starter'.at \in {"ask", "make"} /\ (starter'.at = "make" => ~keep)
  BY <1>0, <1>1 DEF McpTypeOK, Starter
<1>4. CASE live # 0 /\ ~keep
  <2>1. live' = 0 /\ StopClients({live})
    BY <1>1, <1>4
  <2>2. McpTypeOK'
    BY <1>0, <1>2, <1>3, <2>1, Stopping DEF McpTypeOK, Starter, Client
  <2>3. ClientsAreOwned'
    <3>1. \A g \in 1..MaxClients : Running(g)' => Running(g) /\ g # live
      BY <1>0, <2>1, Stopping DEF Running
    <3>2. \A g \in Made : ~Running(g)'
      BY <1>0, <3>1 DEF McpInv, ClientsAreOwned, NoProcessLost, Made
    <3>3. QED BY <1>2, <2>1, <3>2 DEF ClientsAreOwned, NoProcessLost, PublishedIsWanted, Made
  <2>4. StarterKnows'
    BY <1>0, <1>2, <1>3, <2>1, Stopping DEF StarterKnows, Made
  <2>5. QED BY <2>2, <2>3, <2>4 DEF McpInv
<1>5. CASE ~(live # 0 /\ ~keep)
  <2>1. UNCHANGED <<live, client, process, reader, call>>
    BY <1>1, <1>5
  <2>2. McpTypeOK'
    BY <1>0, <1>2, <1>3, <2>1 DEF McpTypeOK, Starter
  <2>3. ClientsAreOwned'
    BY <1>0, <1>2, <1>3, <2>1
    DEF McpInv, ClientsAreOwned, NoProcessLost, PublishedIsWanted, Made, Running
  <2>4. StarterKnows'
    BY <1>0, <1>2, <1>3, <1>5, <2>1 DEF StarterKnows, Made
  <2>5. QED BY <2>2, <2>3, <2>4 DEF McpInv
<1>6. QED BY <1>4, <1>5

\* A start that is over and leaves no process of its own behind.
LEMMA StartEndsKeeps ==
  ASSUME McpInv, StartEnds, \A g \in Made : starter.new = g => ~Running(g),
         UNCHANGED <<config, clients, process, reader, live, warmCancel, call, mcpSaves, edited>>,
         client' \in [1..MaxClients -> Client],
         \A g \in Made : client'[g].spec = client[g].spec /\ client'[g].warm = client[g].warm
  PROVE  McpInv'
<1>1. McpTypeOK'
  BY DEF McpInv, McpTypeOK, StartEnds, NotStarting, NoToken, Entries, Client
<1>2. NoProcessLost' /\ StarterKnows'
  BY DEF McpInv, ClientsAreOwned, NoProcessLost, StarterKnows, StartEnds, NotStarting, Made, Running
<1>3. live # 0 => live \in Made
  BY DEF McpInv, McpTypeOK, StarterKnows, Made
<1>4. PublishedIsWanted'
  BY <1>3 DEF McpInv, ClientsAreOwned, PublishedIsWanted
<1>5. QED BY <1>1, <1>2, <1>4 DEF McpInv, ClientsAreOwned

LEMMA MakeKeeps ==
  ASSUME McpInv, AskLive \/ MakeClient
  PROVE  McpInv'
<1>0. McpTypeOK /\ StarterKnows /\ clients \in 0..MaxClients /\ client \in [1..MaxClients -> Client]
      /\ starter \in Starter
  BY DEF McpInv, McpTypeOK, Client, Starter
<1>1. starter.at \in {"ask", "make"} /\ starter.new = 0
  BY <1>0 DEF AskLive, MakeClient, StarterKnows
<1>2. CASE AskLive
  BY <1>0, <1>1, <1>2, StartEndsKeeps DEF AskLive, clientVars, Made
<1>3. CASE MakeClient /\ StartEnds /\ UNCHANGED <<clients, client>>
  BY <1>0, <1>1, <1>3, StartEndsKeeps DEF MakeClient, Made
<1>4. CASE /\ MakeClient /\ clients < MaxClients
           /\ clients' = clients + 1
           /\ client' = [client EXCEPT ![clients + 1] = [spec |-> starter.spec, warm |-> starter.warm, stopped |-> ~token.on]]
           /\ IF token.on
              THEN starter' = [starter EXCEPT !.at = "spawn", !.new = clients + 1] /\ token' = [token EXCEPT !.client = clients + 1]
              ELSE StartEnds
  <2>1. UNCHANGED <<config, process, reader, live, warmCancel, call, mcpSaves, edited>> /\ starter.at = "make"
    BY <1>4 DEF MakeClient
  <2>2. clients + 1 \in 1..MaxClients /\ live = 0 /\ clients + 1 \notin Made
    BY <1>0, <1>4, <2>1 DEF StarterKnows, Made
  <2>3. client' \in [1..MaxClients -> Client]
    BY <1>0, <1>4, <2>2 DEF Client, Starter, McpTypeOK
  <2>4. /\ starter' \in Starter /\ token' \in [on : BOOLEAN, client : 0..MaxClients]
        /\ \/ starter'.at = "idle" /\ starter'.new = 0
           \/ /\ starter'.at = "spawn" /\ starter'.new = clients + 1
              /\ starter'.spec = starter.spec /\ starter'.warm = starter.warm
    <3>1. CASE token.on
      <4>1. starter' = [starter EXCEPT !.at = "spawn", !.new = clients + 1] /\ token' = [token EXCEPT !.client = clients + 1]
        BY <1>4, <3>1
      <4>2. token' \in [on : BOOLEAN, client : 0..MaxClients]
        BY <1>0, <2>2, <4>1 DEF McpTypeOK
      <4>3. starter' \in Starter /\ starter'.at = "spawn" /\ starter'.new = clients + 1
        <5>1. starter' = [at |-> "spawn", spec |-> starter.spec, new |-> clients + 1, warm |-> starter.warm]
          BY <1>0, <4>1 DEF Starter
        <5>2. starter.spec \in Entries /\ starter.warm \in BOOLEAN /\ clients + 1 \in 0..MaxClients
          BY <1>0, <2>2 DEF Starter
        <5>3. QED BY <5>1, <5>2 DEF Starter
      <4>4. starter'.spec = starter.spec
        BY <1>0, <4>1 DEF Starter
      <4>5. starter'.warm = starter.warm
        BY <1>0, <4>1 DEF Starter
      <4>6. QED BY <4>2, <4>3, <4>4, <4>5
    <3>2. CASE ~token.on
      <4>1. starter' = NotStarting /\ token' = NoToken
        BY <1>4, <3>2 DEF StartEnds
      <4>2. QED BY <4>1 DEF NotStarting, NoToken, Starter, Entries
    <3>3. QED BY <3>1, <3>2
  <2>5. McpTypeOK'
    BY <1>0, <1>4, <2>1, <2>2, <2>3, <2>4 DEF McpTypeOK, Client, Starter
  <2>6. \A g \in Made : ~Running(g)
    BY <1>1, <2>2 DEF McpInv, ClientsAreOwned, NoProcessLost, Made
  <2>7. process[clients + 1] = "none"
    BY <1>0, <2>2 DEF StarterKnows
  <2>8. ClientsAreOwned'
    <3>1. \A g \in 1..(clients + 1) : ~Running(g)
      BY <1>0, <2>6, <2>7 DEF Made, Running
    <3>2. QED BY <1>4, <2>1, <2>2, <3>1 DEF ClientsAreOwned, NoProcessLost, PublishedIsWanted, Made, Running
  <2>9. StarterKnows'
    BY <1>0, <1>4, <2>1, <2>2, <2>4, <2>7 DEF StarterKnows, Made
  <2>10. QED BY <2>5, <2>8, <2>9 DEF McpInv
<1>5. QED BY <1>2, <1>3, <1>4 DEF MakeClient

LEMMA SpawnKeeps ==
  ASSUME McpInv, NEW g \in Made, SpawnServer(g)
  PROVE  McpInv'
<1>0. /\ McpTypeOK /\ StarterKnows /\ clients \in 0..MaxClients /\ client \in [1..MaxClients -> Client]
      /\ starter.at = "spawn" /\ starter.new = g /\ process[g] = "none" /\ g \in 1..MaxClients
      /\ UNCHANGED <<config, clients, client, live, warmCancel, call, mcpSaves, edited>>
  BY DEF McpInv, SpawnServer, StarterKnows, McpTypeOK, Client, Made
<1>1. CASE StartEnds /\ UNCHANGED <<process, reader>>
  BY <1>0, <1>1, StartEndsKeeps DEF Running
<1>2. CASE /\ process' = [process EXCEPT ![g] = "runs"] /\ reader' = [reader EXCEPT ![g] = "reads"]
           /\ StarterTo("discover") /\ UNCHANGED token
  <2>1. McpTypeOK'
    BY <1>0, <1>2 DEF McpTypeOK, StarterTo
  <2>2. ClientsAreOwned'
    BY <1>0, <1>2 DEF McpInv, McpTypeOK, ClientsAreOwned, NoProcessLost, PublishedIsWanted, Made, Running, StarterTo
  <2>3. StarterKnows'
    BY <1>0, <1>2 DEF McpTypeOK, StarterKnows, Made, StarterTo
  <2>4. QED BY <2>1, <2>2, <2>3 DEF McpInv
<1>3. QED BY <1>1, <1>2 DEF SpawnServer

\* The client of the start is stopped and the start is over.
LEMMA GivenUp ==
  ASSUME McpInv, NEW g \in Made, starter.new = g, StopClients({g}), StartEnds,
         UNCHANGED <<config, clients, live, warmCancel, mcpSaves, edited>>
  PROVE  McpInv'
<1>0. McpTypeOK /\ StarterKnows /\ clients \in 0..MaxClients
  BY DEF McpInv, McpTypeOK
<1>1. McpTypeOK'
  BY <1>0, Stopping DEF McpTypeOK, StartEnds, NotStarting, NoToken, Entries, Client
<1>2. NoProcessLost'
  <2>1. SUFFICES ASSUME NEW k \in Made, process'[k] \in {"runs", "closed"} PROVE live = k
    BY DEF NoProcessLost, Made, Running
  <2>2. k \in 1..MaxClients
    BY <1>0 DEF Made, McpTypeOK
  <2>3. k \notin {g} /\ process'[k] = process[k]
    BY <1>0, <2>1, <2>2, Stopping
  <2>4. live = k \/ starter.new = k
    BY <2>1, <2>3 DEF McpInv, ClientsAreOwned, NoProcessLost, Running
  <2>5. QED BY <2>3, <2>4
<1>3. live # 0 => live \in 1..MaxClients
  BY <1>0 DEF StarterKnows
<1>4. PublishedIsWanted'
  BY <1>0, <1>3, Stopping DEF McpInv, ClientsAreOwned, PublishedIsWanted
<1>5. StarterKnows'
  BY <1>0, Stopping DEF StarterKnows, StartEnds, NotStarting, Made
<1>6. QED BY <1>1, <1>2, <1>4, <1>5 DEF McpInv, ClientsAreOwned

LEMMA DiscoverKeeps ==
  ASSUME McpInv, NEW g \in Made, Discover(g)
  PROVE  McpInv'
<1>0. McpTypeOK /\ StarterKnows /\ starter.at = "discover" /\ starter.new = g
      /\ UNCHANGED <<config, clients, live, warmCancel, mcpSaves, edited>>
  BY DEF McpInv, Discover
<1>1. CASE StarterTo("publish") /\ UNCHANGED <<token, client, process, reader, call>>
  <2>1. McpTypeOK'
    BY <1>0, <1>1 DEF McpTypeOK, StarterTo
  <2>2. ClientsAreOwned'
    BY <1>0, <1>1 DEF McpInv, McpTypeOK, ClientsAreOwned, NoProcessLost, PublishedIsWanted, Made, Running, StarterTo
  <2>3. StarterKnows'
    BY <1>0, <1>1 DEF McpTypeOK, StarterKnows, Made, StarterTo
  <2>4. QED BY <2>1, <2>2, <2>3 DEF McpInv
<1>2. CASE StopClients({g}) /\ StartEnds
  BY <1>0, <1>2, GivenUp
<1>3. QED BY <1>1, <1>2 DEF Discover

LEMMA PublishKeeps ==
  ASSUME McpInv, NEW g \in Made, PublishClient(g)
  PROVE  McpInv'
<1>0. /\ McpTypeOK /\ StarterKnows /\ starter.at = "publish" /\ starter.new = g /\ StartEnds
      /\ UNCHANGED <<config, clients, warmCancel, mcpSaves, edited>>
  BY DEF McpInv, PublishClient
<1>1. /\ live = 0 /\ g \in 1..clients /\ clients \in 0..MaxClients
      /\ client[g].spec = starter.spec /\ client[g].warm = starter.warm
  BY <1>0 DEF StarterKnows, Made, McpTypeOK
<1>2. CASE /\ config = starter.spec /\ ~(starter.warm /\ warmCancel)
           /\ live' = g /\ UNCHANGED <<client, process, reader, call>>
  <2>1. McpTypeOK'
    BY <1>0, <1>1, <1>2 DEF McpTypeOK, StartEnds, NotStarting, NoToken, Entries
  <2>2. NoProcessLost'
    BY <1>0, <1>1, <1>2 DEF McpInv, ClientsAreOwned, NoProcessLost, Made, Running
  <2>3. PublishedIsWanted'
    BY <1>0, <1>1, <1>2 DEF PublishedIsWanted
  <2>4. StarterKnows'
    BY <1>0, <1>1, <1>2 DEF StarterKnows, StartEnds, NotStarting, Made
  <2>5. QED BY <2>1, <2>2, <2>3, <2>4 DEF McpInv, ClientsAreOwned
<1>3. CASE StopClients({g}) /\ UNCHANGED live
  BY <1>0, <1>3, GivenUp
<1>4. QED BY <1>2, <1>3 DEF PublishClient

(***************************************************************************)
(* Calls, and the end of a process                                         *)
(***************************************************************************)
LEMMA OtherKeeps ==
  ASSUME McpInv,
         \/ \E c \in Callers : RegisterCall(c) \/ Send(c) \/ Answer(c)
         \/ \E g \in Made : ProcessSteps(g)
  PROVE  McpInv'
<1>0. McpTypeOK /\ StarterKnows /\ clients \in 0..MaxClients
  BY DEF McpInv, McpTypeOK
<1>1. UNCHANGED <<config, clients, client, live, token, starter, warmCancel, mcpSaves, edited>>
  BY DEF RegisterCall, Send, Answer, ProcessSteps, CloseOutput, EndReader, Vanish
<1>2. CASE \E c \in Callers : RegisterCall(c) \/ Send(c) \/ Answer(c)
  <2>1. PICK c \in Callers : RegisterCall(c) \/ Send(c) \/ Answer(c)
    BY <1>2
  <2>2. UNCHANGED <<process, reader>>
    BY <2>1 DEF RegisterCall, Send, Answer
  <2>3. call' \in [Callers -> [to : 0..MaxClients, at : {"idle", "registered", "waits"}]]
    BY <1>0, <2>1 DEF McpTypeOK, RegisterCall, Send, Answer, NoCall
  <2>4. McpTypeOK'
    BY <1>0, <1>1, <2>2, <2>3 DEF McpTypeOK
  <2>5. ClientsAreOwned' /\ StarterKnows'
    BY <1>1, <2>2 DEF McpInv, ClientsAreOwned, NoProcessLost, PublishedIsWanted, StarterKnows, Made, Running
  <2>6. QED BY <2>4, <2>5 DEF McpInv
<1>3. CASE \E g \in Made : ProcessSteps(g)
  <2>1. PICK g \in Made : CloseOutput(g) \/ EndReader(g) \/ Vanish(g)
    BY <1>3 DEF ProcessSteps
  <2>2. g \in 1..MaxClients
    BY <1>0 DEF Made
  <2>3. /\ process' \in [1..MaxClients -> {"none", "runs", "closed", "gone"}]
        /\ \A h \in 1..MaxClients : /\ Running(h)' => Running(h)
                                    /\ process[h] = "none" => process'[h] = "none"
    BY <1>0, <2>1, <2>2 DEF McpTypeOK, CloseOutput, EndReader, Vanish, Running
  <2>4. /\ reader' \in [1..MaxClients -> {"none", "reads", "ended"}]
        /\ call' \in [Callers -> [to : 0..MaxClients, at : {"idle", "registered", "waits"}]]
    <3>1. CASE EndReader(g)
      BY <1>0, <2>2, <3>1 DEF McpTypeOK, EndReader, NoCall
    <3>2. CASE CloseOutput(g) \/ Vanish(g)
      <4>1. UNCHANGED <<reader, call>>
        BY <3>2 DEF CloseOutput, Vanish
      <4>2. QED BY <1>0, <4>1 DEF McpTypeOK
    <3>3. QED BY <2>1, <3>1, <3>2
  <2>5. McpTypeOK'
    BY <1>0, <1>1, <2>3, <2>4 DEF McpTypeOK
  <2>6. ClientsAreOwned' /\ StarterKnows'
    BY <1>0, <1>1, <2>3 DEF McpInv, ClientsAreOwned, NoProcessLost, PublishedIsWanted, StarterKnows, Made
  <2>7. QED BY <2>5, <2>6 DEF McpInv
<1>4. QED BY <1>2, <1>3

LEMMA McpInvariant == McpSpec => []McpInv
<1>1. McpInv /\ [McpNext]_mcpVars => McpInv'
  <2> SUFFICES ASSUME McpInv, [McpNext]_mcpVars PROVE McpInv'
    OBVIOUS
  <2>1. CASE SaveServers \/ EditFile \/ StopServer \/ StopAll
    BY <2>1, ConfigKeeps
  <2>2. CASE BeginStart \/ AskLive \/ MakeClient
    BY <2>2, BeginSafe, MakeKeeps
  <2>3. ASSUME NEW g \in Made, StartSteps(g) PROVE McpInv'
    BY <2>3, SpawnKeeps, DiscoverKeeps, PublishKeeps DEF StartSteps
  <2>4. CASE \/ \E c \in Callers : RegisterCall(c) \/ Send(c) \/ Answer(c)
             \/ \E g \in Made : ProcessSteps(g)
    BY <2>4, OtherKeeps
  <2>5. CASE UNCHANGED mcpVars
    BY <2>5 DEF mcpVars, McpInv, McpTypeOK, ClientsAreOwned, NoProcessLost, PublishedIsWanted,
                StarterKnows, Made, Running
  <2>6. QED BY <2>1, <2>2, <2>3, <2>4, <2>5 DEF McpNext
<1>2. QED BY McpInitial, <1>1, PTL DEF McpSpec

\* The registry, the clients and their processes have the types the code gives
\* them, for any number of clients (mcp_runtime.py:90, the module's globals).
THEOREM McpTypeCorrect == McpSpec => []McpTypeOK
<1>1. McpInv => McpTypeOK
  BY DEF McpInv
<1>2. QED BY <1>1, McpInvariant, PTL

\* Whatever is saved, stopped or shut down while a server starts, no server
\* process is left without an owner, and none is published that the
\* configuration no longer asks for (mcp_runtime.py:559, start_server).
THEOREM ProcessesAreOwned == McpSpec => []ClientsAreOwned
<1>1. McpInv => ClientsAreOwned
  BY DEF McpInv
<1>2. QED BY <1>1, McpInvariant, PTL

HIDE McpAssumption

-------------------------------------------------------------------------------
(***************************************************************************)
(* What the Windows Foundation guarantees for every set of request ids and *)
(* sessions, every length of the queue and every number of restarts.       *)
(* Receipts are true because a request that has not taken effect is either *)
(* queued once or being served (QueueHolds, OwnerHolds); an application    *)
(* that was closed stays closed because its wish is saved before it is     *)
(* stopped (WishHolds).                                                    *)
(***************************************************************************)

Places == 1..Len(queued)

\* The queue holds every request that waits for its turn, each once.
QueueHolds ==
    /\ queued \in Seq(Asked) /\ Len(queued) <= MaxQueue
    /\ \A i \in Places : receipt[queued[i].id] = "queued"
    /\ \A i, j \in Places : queued[i].id = queued[j].id => i = j
    /\ Up => \A r \in RequestIds : receipt[r] = "queued" => \E i \in Places : queued[i].id = r
    /\ ~Up => queued = <<>>

\* What the owner thread serves is the one request that reads running, and has
\* taken effect only when its operation is done.
OwnerHolds ==
    /\ owner = "serve" =>
          /\ serving \in Asked /\ receipt[serving.id] = "running"
          /\ effects[serving.id] = IF step = "done" THEN 1 ELSE 0
    /\ owner # "serve" => serving = NoRequest
    /\ Up => \A r \in RequestIds : receipt[r] = "running" => owner = "serve" /\ serving.id = r

EffectsHold ==
    \A r \in RequestIds :
        /\ effects[r] \in 0..1
        /\ receipt[r] \in {"none", "queued"} => effects[r] = 0
        /\ receipt[r] = "completed" => effects[r] = 1

\* From the moment the application is stopped the file says that it is to stay so.
WishHolds ==
    /\ step = "stop" \/ closed => ~desired /\ ~desiredFile
    /\ closed => ~Live(backend) /\ ~Live(ui)

WorkInv == QueueHolds /\ OwnerHolds /\ EffectsHold
FoundationInv == FoundationTypeOK /\ WorkInv /\ WishHolds

OpSteps == {"none", "attach", "wish", "stop", "done", "fails"} \cup Kinds
Receipts == {"none", "queued", "running"} \cup Ended

USE FoundationAssumption

LEMMA AskedFields == \A q \in Asked : q.id \in RequestIds
  BY DEF Asked

LEMMA FoundationInitial == FoundationInit => FoundationInv
<1> SUFFICES ASSUME FoundationInit PROVE FoundationInv
  OBVIOUS
<1>1. queued = <<>> /\ owner = "gone" /\ serving = NoRequest /\ step = "none" /\ ~closed
  BY DEF FoundationInit
<1>2. \A r \in RequestIds : receipt[r] = "none" /\ effects[r] = 0
  BY DEF FoundationInit
<1>3. WorkInv
  BY <1>1, <1>2 DEF WorkInv, QueueHolds, OwnerHolds, EffectsHold, Places, Up, FoundationAssumption
<1>4. WishHolds
  BY <1>1 DEF WishHolds
<1>5. FoundationTypeOK
  <2>1. /\ receipt \in [RequestIds -> Receipts] /\ effects \in [RequestIds -> 0..2]
        /\ failures \in 0..MaxRestarts /\ services \in 0..MaxServices
        /\ Len(queued) <= MaxQueue /\ DOMAIN queued = {}
    BY <1>1 DEF FoundationInit, Receipts, FoundationAssumption
  <2>2. desired \in BOOLEAN /\ desiredFile \in BOOLEAN /\ recovered \in BOOLEAN /\ pausing \in BOOLEAN
        /\ closed \in BOOLEAN
    BY DEF FoundationInit
  <2>3. QED BY <1>1, <2>1, <2>2 DEF FoundationInit, FoundationTypeOK, Receipts
<1>6. QED BY <1>3, <1>4, <1>5 DEF FoundationInv

\* A step of the operation that is served: its effect takes place as it is done.
LEMMA ServeStep ==
  ASSUME FoundationInv, owner = "serve", step # "done",
         UNCHANGED <<receipt, queued, owner, serving>>,
         step' = "done" => effects' = Counted,
         step' # "done" => effects' = effects
  PROVE  WorkInv' /\ effects' \in [RequestIds -> 0..2]
<1>0. /\ serving \in Asked /\ serving.id \in RequestIds
      /\ effects \in [RequestIds -> 0..2] /\ effects[serving.id] = 0 /\ receipt[serving.id] = "running"
  BY DEF FoundationInv, WorkInv, OwnerHolds, FoundationTypeOK, Asked
<1>1. CASE step' = "done"
  <2>1. /\ effects' \in [RequestIds -> 0..2] /\ effects'[serving.id] = 1
        /\ \A r \in RequestIds : r # serving.id => effects'[r] = effects[r]
    BY <1>0, <1>1 DEF Counted
  <2>2. QueueHolds'
    BY DEF FoundationInv, WorkInv, QueueHolds, Places, Up
  <2>3. OwnerHolds'
    BY <1>1, <2>1 DEF FoundationInv, WorkInv, OwnerHolds, Up
  <2>4. EffectsHold'
    BY <1>0, <2>1 DEF FoundationInv, WorkInv, EffectsHold
  <2>5. QED BY <2>1, <2>2, <2>3, <2>4 DEF WorkInv
<1>2. CASE step' # "done"
  BY <1>0, <1>2 DEF FoundationInv, WorkInv, QueueHolds, OwnerHolds, EffectsHold, Places, Up
<1>3. QED BY <1>1, <1>2

\* A step that touches neither the requests nor the operation.
LEMMA Elsewhere ==
  ASSUME FoundationInv, UNCHANGED <<receipt, queued, serving, step, effects>>,
         owner' = owner \/ (owner = "tick" /\ owner' = "wait")
  PROVE  WorkInv'
<1>1. QueueHolds' /\ EffectsHold'
  BY DEF FoundationInv, WorkInv, QueueHolds, EffectsHold, Places, Up
<1>2. OwnerHolds'
  BY DEF FoundationInv, WorkInv, OwnerHolds, Up
<1>3. QED BY <1>1, <1>2 DEF WorkInv

(***************************************************************************)
(* Requests in and out                                                     *)
(***************************************************************************)
LEMMA DispatchKeeps ==
  ASSUME FoundationInv, NEW r \in RequestIds, Dispatch(r)
  PROVE  FoundationInv'
<1>1. PICK k \in Kinds, s \in Sessions : queued' = Append(queued, [id |-> r, kind |-> k, from |-> s])
  BY DEF Dispatch
<1> DEFINE new == [id |-> r, kind |-> k, from |-> s]
           n == Len(queued)
<1>2. /\ Up /\ receipt[r] = "none" /\ n < MaxQueue
      /\ receipt' = [receipt EXCEPT ![r] = "queued"]
      /\ UNCHANGED <<workVars, appVars, wishVars, historyVars>>
      /\ receipt \in [RequestIds -> Receipts] /\ queued \in Seq(Asked)
  BY DEF Dispatch, FoundationInv, FoundationTypeOK, WorkInv, QueueHolds, Receipts
<1>3. new \in Asked /\ new.id = r
  BY DEF Asked
<1>4. /\ queued' \in Seq(Asked) /\ Len(queued') = n + 1 /\ n \in Nat
      /\ queued'[n + 1] = new
      /\ \A i \in 1..n : queued'[i] = queued[i] /\ queued[i] \in Asked
  BY <1>1, <1>2, <1>3
<1>5. /\ receipt' \in [RequestIds -> Receipts] /\ receipt'[r] = "queued"
      /\ \A q \in RequestIds : q # r => receipt'[q] = receipt[q]
  BY <1>2 DEF Receipts
<1>6. \A i \in 1..n : queued[i].id # r /\ queued[i].id \in RequestIds
  BY <1>2, <1>4 DEF FoundationInv, WorkInv, QueueHolds, Places, Asked
<1>7. QueueHolds'
  <2>1. \A i \in 1..(n + 1) : receipt'[queued'[i].id] = "queued"
    BY <1>3, <1>4, <1>5, <1>6 DEF FoundationInv, WorkInv, QueueHolds, Places
  <2>2. \A i, j \in 1..(n + 1) : queued'[i].id = queued'[j].id => i = j
    BY SMTT(60), <1>3, <1>4, <1>6 DEF FoundationInv, WorkInv, QueueHolds, Places
  <2>3. ASSUME NEW q \in RequestIds, receipt'[q] = "queued"
        PROVE  \E i \in 1..(n + 1) : queued'[i].id = q
    <3>1. CASE q = r
      BY <1>3, <1>4, <3>1
    <3>2. CASE q # r
      <4>1. PICK i \in 1..n : queued[i].id = q
        BY <1>2, <1>5, <2>3, <3>2 DEF FoundationInv, WorkInv, QueueHolds, Places
      <4>2. QED BY <1>4, <4>1
    <3>3. QED BY <3>1, <3>2
  <2>4. n + 1 <= MaxQueue /\ Up'
    BY <1>2, <1>4 DEF workVars, Up, FoundationAssumption
  <2>5. QED BY <1>4, <2>1, <2>2, <2>3, <2>4 DEF QueueHolds, Places
<1>8. OwnerHolds'
  BY <1>2, <1>5 DEF FoundationInv, WorkInv, OwnerHolds, workVars, historyVars, Up, Asked
<1>9. EffectsHold'
  BY <1>2, <1>5 DEF FoundationInv, WorkInv, EffectsHold, historyVars
<1>10. FoundationTypeOK'
  BY <1>2, <1>4, <1>5, <1>7 DEF FoundationInv, FoundationTypeOK, QueueHolds, Receipts, Places,
                                 workVars, appVars, wishVars, historyVars
<1>11. WishHolds'
  BY <1>2 DEF FoundationInv, WishHolds, workVars, appVars, wishVars, historyVars, Live
<1>12. QED BY <1>7, <1>8, <1>9, <1>10, <1>11 DEF FoundationInv, WorkInv

LEMMA TakeKeeps ==
  ASSUME FoundationInv, Take
  PROVE  FoundationInv'
<1>0. owner = "wait" /\ UNCHANGED <<appVars, wishVars, historyVars>> /\ queued \in Seq(Asked)
      /\ receipt \in [RequestIds -> Receipts]
  BY DEF Take, FoundationInv, WorkInv, QueueHolds, FoundationTypeOK, Receipts
<1>1. CASE queued = <<>>
  <2>1. owner' = "tick" /\ UNCHANGED <<receipt, queued, serving, step>>
    BY <1>1 DEF Take
  <2>2. WorkInv'
    BY <1>0, <2>1 DEF FoundationInv, WorkInv, QueueHolds, OwnerHolds, EffectsHold, Places, Up, historyVars
  <2>3. WishHolds'
    BY <1>0, <2>1 DEF FoundationInv, WishHolds, appVars, wishVars, historyVars, Live
  <2>4. FoundationTypeOK'
    BY <1>0, <2>1, SMTT(30) DEF FoundationInv, FoundationTypeOK, appVars, wishVars, historyVars
  <2>5. QED BY <2>2, <2>3, <2>4 DEF FoundationInv
<1>2. CASE queued # <<>>
  <2> DEFINE h == Head(queued)
             n == Len(queued)
  <2>1. /\ owner' = "serve" /\ step' = "attach" /\ serving' = h /\ queued' = Tail(queued)
        /\ receipt' = [receipt EXCEPT ![h.id] = "running"]
    BY <1>2 DEF Take
  <2>2. /\ n \in Nat /\ n > 0 /\ h = queued[1] /\ h \in Asked /\ h.id \in RequestIds
        /\ queued' \in Seq(Asked) /\ Len(queued') = n - 1
        /\ \A i \in 1..(n - 1) : queued'[i] = queued[i + 1]
        /\ \A i \in 1..n : queued[i].id \in RequestIds
    <3>1. n \in Nat /\ n > 0 /\ h = queued[1] /\ \A i \in 1..n : queued[i] \in Asked
      BY <1>0, <1>2
    <3>2. /\ queued' \in Seq(Asked) /\ Len(queued') = n - 1
          /\ \A i \in 1..(n - 1) : queued'[i] = queued[i + 1]
      BY <1>0, <1>2, <2>1
    <3>3. 1 \in 1..n
      BY <3>1
    <3>4. QED BY <3>1, <3>2, <3>3, AskedFields
  <2>3. /\ receipt' \in [RequestIds -> Receipts] /\ receipt'[h.id] = "running"
        /\ \A q \in RequestIds : q # h.id => receipt'[q] = receipt[q]
    BY <1>0, <2>1, <2>2 DEF Receipts
  <2>4. receipt[h.id] = "queued" /\ effects[h.id] = 0
    BY <2>2 DEF FoundationInv, WorkInv, QueueHolds, EffectsHold, Places
  <2>5. \A q \in RequestIds : receipt[q] # "running"
    BY <1>0 DEF FoundationInv, WorkInv, OwnerHolds, Up
  <2>6. QueueHolds'
    <3>1. \A i \in 1..(n - 1) : queued'[i].id # h.id /\ receipt'[queued'[i].id] = "queued"
      <4> SUFFICES ASSUME NEW i \in 1..(n - 1) PROVE queued'[i].id # h.id /\ receipt'[queued'[i].id] = "queued"
        OBVIOUS
      <4>1. i + 1 \in 1..n /\ 1 \in 1..n /\ i + 1 # 1
        BY <2>2
      <4>2. queued[i + 1].id # queued[1].id /\ receipt[queued[i + 1].id] = "queued"
        BY <4>1 DEF FoundationInv, WorkInv, QueueHolds, Places
      <4>3. QED BY <2>2, <2>3, <4>1, <4>2
    <3>2. \A i, j \in 1..(n - 1) : queued'[i].id = queued'[j].id => i = j
      <4> SUFFICES ASSUME NEW i \in 1..(n - 1), NEW j \in 1..(n - 1), queued'[i].id = queued'[j].id PROVE i = j
        OBVIOUS
      <4>0. i + 1 \in 1..n /\ j + 1 \in 1..n
        BY <2>2
      <4>1. queued'[i] = queued[i + 1] /\ queued'[j] = queued[j + 1]
        BY <2>2
      <4>2. i + 1 = j + 1
        BY <4>0, <4>1 DEF FoundationInv, WorkInv, QueueHolds, Places
      <4>3. QED BY <4>2
    <3>3. ASSUME NEW q \in RequestIds, receipt'[q] = "queued"
          PROVE  \E i \in 1..(n - 1) : queued'[i].id = q
      <4>1. q # h.id /\ receipt[q] = "queued"
        BY <2>3, <3>3
      <4>2. PICK i \in 1..n : queued[i].id = q
        BY <1>0, <4>1 DEF FoundationInv, WorkInv, QueueHolds, Places, Up
      <4>3. i # 1 /\ i - 1 \in 1..(n - 1) /\ queued'[i - 1] = queued[i]
        BY <2>2, <4>1, <4>2
      <4>4. QED BY <4>2, <4>3
    <3>4. Len(queued') <= MaxQueue /\ Up'
      BY <2>1, <2>2 DEF FoundationInv, WorkInv, QueueHolds, Up, FoundationAssumption
    <3>5. QED BY <2>2, <3>1, <3>2, <3>3, <3>4 DEF QueueHolds, Places
  <2>7. OwnerHolds'
    BY <1>0, <2>1, <2>2, <2>3, <2>4, <2>5 DEF OwnerHolds, Up, historyVars
  <2>8. EffectsHold'
    BY <1>0, <2>2, <2>3, <2>4 DEF FoundationInv, WorkInv, EffectsHold, historyVars
  <2>9. FoundationTypeOK'
    BY <1>0, <2>1, <2>2, <2>3, <2>6 DEF FoundationInv, FoundationTypeOK, QueueHolds, Receipts,
                                         appVars, wishVars, historyVars
  <2>10. WishHolds'
    BY <1>0, <2>1 DEF FoundationInv, WishHolds, appVars, wishVars, historyVars, Live
  <2>11. QED BY <2>6, <2>7, <2>8, <2>9, <2>10 DEF FoundationInv, WorkInv
<1>3. QED BY <1>1, <1>2

LEMMA WriteReceiptKeeps ==
  ASSUME FoundationInv, WriteReceipt
  PROVE  FoundationInv'
<1>1. /\ owner = "serve" /\ step \in {"done", "fails"} /\ serving \in Asked /\ serving.id \in RequestIds
      /\ receipt[serving.id] = "running" /\ receipt \in [RequestIds -> Receipts]
      /\ effects[serving.id] = IF step = "done" THEN 1 ELSE 0
      /\ receipt' = [receipt EXCEPT ![serving.id] = IF step = "done" THEN "completed" ELSE "failed"]
      /\ owner' = "tick" /\ serving' = NoRequest /\ step' = "none"
      /\ UNCHANGED <<queued, appVars, wishVars, historyVars>>
  BY DEF WriteReceipt, FoundationInv, WorkInv, OwnerHolds, FoundationTypeOK, Receipts, Asked
<1>2. /\ receipt' \in [RequestIds -> Receipts]
      /\ receipt'[serving.id] = IF step = "done" THEN "completed" ELSE "failed"
      /\ \A q \in RequestIds : q # serving.id => receipt'[q] = receipt[q]
  BY <1>1 DEF Receipts, Ended
<1>3. \A i \in Places : queued[i].id # serving.id /\ queued[i].id \in RequestIds
  <2>1. \A i \in Places : queued[i] \in Asked
    BY DEF FoundationInv, WorkInv, QueueHolds, Places
  <2>2. \A i \in Places : receipt[queued[i].id] = "queued"
    BY DEF FoundationInv, WorkInv, QueueHolds
  <2>3. QED BY <1>1, <2>1, <2>2, AskedFields
<1>4. QueueHolds'
  <2>1. \A i \in Places : receipt'[queued[i].id] = "queued"
    BY <1>2, <1>3 DEF FoundationInv, WorkInv, QueueHolds
  <2>2. \A r \in RequestIds : receipt'[r] = "queued" => receipt[r] = "queued"
    BY <1>2
  <2>3. QED BY <1>1, <2>1, <2>2 DEF FoundationInv, WorkInv, QueueHolds, Places, Up
<1>5. OwnerHolds'
  BY <1>1, <1>2 DEF FoundationInv, WorkInv, OwnerHolds, Up
<1>6. EffectsHold'
  BY <1>1, <1>2 DEF FoundationInv, WorkInv, EffectsHold, historyVars
<1>7. FoundationTypeOK' /\ WishHolds'
  BY <1>1, <1>2 DEF FoundationInv, FoundationTypeOK, Receipts, WishHolds, appVars, wishVars, historyVars, Live
<1>8. QED BY <1>4, <1>5, <1>6, <1>7 DEF FoundationInv, WorkInv

(***************************************************************************)
(* The operations                                                          *)
(***************************************************************************)
LEMMA OperationKeeps ==
  ASSUME FoundationInv,
         \/ Attach \/ ReleaseOperation \/ OpenOperation \/ RegisterOperation
         \/ CloseDrains \/ CloseWish \/ CloseStops
  PROVE  FoundationInv'
<1>0. /\ owner = "serve" /\ step # "done" /\ FoundationTypeOK
      /\ UNCHANGED <<receipt, queued, owner, serving>> /\ UNCHANGED services
  BY DEF Attach, ReleaseOperation, OpenOperation, RegisterOperation, CloseDrains, CloseWish, CloseStops,
         Step, Fails, intakeVars, historyVars, FoundationInv
<1>1. /\ step' = "done" => effects' = Counted
      /\ step' # "done" => effects' = effects
  <2>1. CASE Attach \/ CloseDrains \/ CloseWish
    <3>1. effects' = effects
      BY <2>1 DEF Attach, CloseDrains, CloseWish, historyVars
    <3>2. serving.kind \in Kinds
      BY <1>0 DEF FoundationInv, WorkInv, OwnerHolds, Asked
    <3>3. step' # "done"
      BY <2>1, <3>2 DEF Attach, CloseDrains, CloseWish, Step, Fails, Kinds
    <3>4. QED BY <3>1, <3>3
  <2>2. CASE ReleaseOperation \/ OpenOperation \/ RegisterOperation \/ CloseStops
    BY <2>2 DEF ReleaseOperation, OpenOperation, RegisterOperation, CloseStops, Step, Fails
  <2>3. QED BY <2>1, <2>2
<1>2. WorkInv' /\ effects' \in [RequestIds -> 0..2]
  BY <1>0, <1>1, ServeStep
<1>3. step' \in OpSteps /\ (step' = "stop" => CloseWish)
  <2>1. serving.kind \in Kinds
    BY <1>0 DEF FoundationInv, WorkInv, OwnerHolds, Asked
  <2>2. QED
    BY <2>1 DEF Attach, ReleaseOperation, OpenOperation, RegisterOperation, CloseDrains, CloseWish, CloseStops,
                Step, Fails, OpSteps, Kinds
<1>4. /\ session' \in Sessions \cup {NoSession} /\ recovered' \in BOOLEAN
      /\ backend' \in {"none", "live", "exited"} /\ ui' \in {"none", "live", "exited"}
      /\ Live(backend)' => Live(backend)
      /\ Live(ui)' => Live(ui)
  <2>1. CASE Attach
    <3>1. serving.from \in Sessions
      BY <1>0 DEF FoundationInv, WorkInv, OwnerHolds, Asked
    <3>2. QED BY <1>0, <2>1, <3>1 DEF Attach, FoundationTypeOK, appVars, Live
  <2>2. CASE ReleaseOperation \/ OpenOperation \/ RegisterOperation \/ CloseDrains \/ CloseWish
    BY <1>0, <2>2 DEF ReleaseOperation, OpenOperation, RegisterOperation, CloseDrains, CloseWish,
                      FoundationTypeOK, appVars, Live
  <2>3. CASE CloseStops
    BY <1>0, <2>3 DEF CloseStops, FoundationTypeOK, Live
  <2>4. QED BY <2>1, <2>2, <2>3
<1>5. /\ desired' \in BOOLEAN /\ desiredFile' \in BOOLEAN /\ pausing' \in BOOLEAN /\ closed' \in BOOLEAN
      /\ failures' \in 0..MaxRestarts
  <2>1. CASE OpenOperation
    <3>1. CASE /\ SetDesired(TRUE) /\ failures' = 0 /\ pausing' = FALSE /\ closed' = FALSE
      <4>1. 0 \in 0..MaxRestarts
        BY DEF FoundationAssumption
      <4>2. QED BY <3>1, <4>1 DEF SetDesired
    <3>2. CASE UNCHANGED <<wishVars, effects, closed>>
      BY <1>0, <3>2 DEF FoundationTypeOK, wishVars
    <3>3. QED BY <2>1, <3>1, <3>2 DEF OpenOperation
  <2>2. CASE CloseWish
    BY <1>0, <2>2 DEF CloseWish, SetDesired, FoundationTypeOK, wishVars, historyVars
  <2>3. CASE CloseStops
    BY <1>0, <2>3 DEF CloseStops, FoundationTypeOK, wishVars
  <2>4. CASE Attach \/ ReleaseOperation \/ RegisterOperation \/ CloseDrains
    BY <1>0, <2>4 DEF Attach, ReleaseOperation, RegisterOperation, CloseDrains, FoundationTypeOK, wishVars, historyVars
  <2>5. QED BY <2>1, <2>2, <2>3, <2>4
<1>6. FoundationTypeOK'
  BY <1>0, <1>2, <1>3, <1>4, <1>5 DEF FoundationTypeOK, OpSteps
<1>7. WishHolds'
  <2>1. CASE OpenOperation
    <3>1. step' # "stop"
      BY <2>1 DEF OpenOperation, Step, Fails
    <3>2. CASE closed' = FALSE
      BY <3>1, <3>2 DEF WishHolds
    <3>3. CASE UNCHANGED <<wishVars, effects, closed>>
      BY <1>4, <3>1, <3>3 DEF FoundationInv, WishHolds, wishVars
    <3>4. QED BY <2>1, <3>2, <3>3 DEF OpenOperation
  <2>2. CASE CloseWish
    <3>1. CASE SetDesired(FALSE) /\ UNCHANGED closed
      BY <1>4, <3>1 DEF FoundationInv, WishHolds, SetDesired
    <3>2. CASE UNCHANGED <<wishVars, closed>> /\ step' # "stop"
      BY <1>4, <3>2 DEF FoundationInv, WishHolds, wishVars
    <3>3. QED BY <2>2, <3>1, <3>2 DEF CloseWish, Step, Fails, historyVars
  <2>3. CASE CloseStops
    <3>1. step = "stop" /\ UNCHANGED wishVars
      BY <2>3 DEF CloseStops
    <3>2. CASE ui' = "none" /\ backend' = "none"
      BY <3>1, <3>2 DEF FoundationInv, WishHolds, wishVars, Live
    <3>3. CASE UNCHANGED closed
      BY <1>4, <3>1, <3>3 DEF FoundationInv, WishHolds, wishVars
    <3>4. QED BY <2>3, <3>2, <3>3 DEF CloseStops
  <2>4. CASE Attach \/ ReleaseOperation \/ RegisterOperation \/ CloseDrains
    <3>1. UNCHANGED <<wishVars, closed>>
      BY <2>4 DEF Attach, ReleaseOperation, RegisterOperation, CloseDrains, historyVars
    <3>2. step' # "stop"
      BY <1>3, <2>4 DEF Attach, ReleaseOperation, RegisterOperation, CloseDrains, CloseWish
    <3>3. QED BY <1>4, <3>1, <3>2 DEF FoundationInv, WishHolds, wishVars
  <2>5. QED BY <2>1, <2>2, <2>3, <2>4
<1>8. QED BY <1>2, <1>6, <1>7 DEF FoundationInv

(***************************************************************************)
(* The lifecycle of the application and of the service                     *)
(***************************************************************************)
LEMMA LifecycleKeeps ==
  ASSUME FoundationInv,
         IdleTick \/ Tick \/ TickFails \/ PauseEnds \/ FailureAges \/ ChildExits
  PROVE  FoundationInv'
<1>0. /\ UNCHANGED <<receipt, queued, serving, step, effects, closed, services, session>>
      /\ owner' = owner \/ (owner = "tick" /\ owner' = "wait")
      /\ FoundationTypeOK
  BY DEF IdleTick, Tick, TickFails, PauseEnds, FailureAges, ChildExits, Advancing, Waits,
         intakeVars, workVars, appVars, wishVars, historyVars, FoundationInv
<1>1. WorkInv'
  BY <1>0, Elsewhere
<1>2. /\ backend' \in {"none", "live", "exited"} /\ ui' \in {"none", "live", "exited"}
      /\ ~desired => (Live(backend)' => Live(backend)) /\ (Live(ui)' => Live(ui))
      /\ recovered' \in BOOLEAN
  <2>1. CASE IdleTick \/ PauseEnds \/ FailureAges \/ ChildExits
    BY <1>0, <2>1 DEF IdleTick, PauseEnds, FailureAges, ChildExits, appVars, FoundationTypeOK, Live
  <2>2. CASE Tick
    BY <1>0, <2>2 DEF Tick, Advancing, FoundationTypeOK
  <2>3. CASE TickFails
    BY <1>0, <2>3 DEF TickFails, Advancing, FoundationTypeOK
  <2>4. QED BY <2>1, <2>2, <2>3
<1>3. /\ desired' \in BOOLEAN /\ desiredFile' \in BOOLEAN /\ pausing' \in BOOLEAN
      /\ ~desired => ~desired'
      /\ ~desiredFile => ~desiredFile'
  <2>1. CASE TickFails
    <3>1. pausing' = TRUE /\ (SetDesired(FALSE) \/ UNCHANGED <<desired, desiredFile>>)
      BY <2>1 DEF TickFails
    <3>2. CASE SetDesired(FALSE)
      BY <3>1, <3>2 DEF SetDesired
    <3>3. CASE UNCHANGED <<desired, desiredFile>>
      BY <1>0, <3>1, <3>3 DEF FoundationTypeOK
    <3>4. QED BY <3>1, <3>2, <3>3
  <2>2. CASE IdleTick \/ Tick \/ PauseEnds \/ FailureAges \/ ChildExits
    <3>1. UNCHANGED <<desired, desiredFile>> /\ (pausing' = pausing \/ pausing' = FALSE)
      BY <2>2 DEF IdleTick, Tick, PauseEnds, FailureAges, ChildExits, wishVars
    <3>2. QED BY <1>0, <3>1 DEF FoundationTypeOK
  <2>3. QED BY <2>1, <2>2
<1>4. failures' \in 0..MaxRestarts
  <2>1. failures \in 0..MaxRestarts /\ MaxRestarts \in Nat \ {0}
    BY <1>0 DEF FoundationTypeOK, FoundationAssumption
  <2>2. CASE TickFails
    <3>1. failures' = IF failures < MaxRestarts THEN failures + 1 ELSE failures
      BY <2>2 DEF TickFails
    <3>2. QED BY <2>1, <3>1
  <2>3. CASE FailureAges
    <3>1. failures > 0 /\ failures' = failures - 1
      BY <2>3 DEF FailureAges
    <3>2. QED BY <2>1, <3>1
  <2>4. CASE IdleTick \/ Tick \/ PauseEnds \/ ChildExits
    BY <2>1, <2>4 DEF IdleTick, Tick, PauseEnds, ChildExits, wishVars
  <2>5. QED BY <2>2, <2>3, <2>4
<1>5. FoundationTypeOK'
  BY <1>0, <1>2, <1>3, <1>4 DEF FoundationTypeOK
<1>6. WishHolds'
  BY <1>0, <1>2, <1>3 DEF FoundationInv, WishHolds, Live
<1>7. QED BY <1>1, <1>5, <1>6 DEF FoundationInv

LEMMA ServiceKeeps ==
  ASSUME FoundationInv, ServiceEnds \/ ServiceStarts
  PROVE  FoundationInv'
<1>0. FoundationTypeOK /\ receipt \in [RequestIds -> Receipts]
  BY DEF FoundationInv, FoundationTypeOK, Receipts
<1>1. CASE ServiceEnds
  <2>1. /\ owner' = "gone" /\ serving' = NoRequest /\ step' = "none" /\ queued' = <<>>
        /\ session' = NoSession /\ backend' = "none" /\ ui' = "none" /\ recovered' = FALSE
        /\ UNCHANGED <<receipt, desired, desiredFile, failures, pausing, effects, closed, services>>
    BY <1>1 DEF ServiceEnds, wishVars, historyVars
  <2>2. WorkInv'
    BY <2>1 DEF FoundationInv, WorkInv, QueueHolds, OwnerHolds, EffectsHold, Places, Up, FoundationAssumption
  <2>3. DOMAIN queued' = {} /\ Len(queued') <= MaxQueue
    BY <2>1 DEF FoundationAssumption
  <2>4. FoundationTypeOK'
    BY <1>0, <2>1, <2>3 DEF FoundationTypeOK
  <2>5. WishHolds'
    BY <2>1 DEF FoundationInv, WishHolds, Live
  <2>6. QED BY <2>2, <2>4, <2>5 DEF FoundationInv
<1>2. CASE ServiceStarts
  <2>1. /\ owner = "gone" /\ owner' = "wait" /\ receipt' = Interrupted
        /\ desired' = desiredFile /\ failures' = 0 /\ pausing' = FALSE
        /\ services' \in 0..MaxServices
        /\ UNCHANGED <<queued, serving, step, appVars, desiredFile, effects, closed>>
    BY <1>0, <1>2 DEF ServiceStarts, Up, FoundationTypeOK, FoundationAssumption
  <2>2. /\ receipt' \in [RequestIds -> Receipts]
        /\ \A r \in RequestIds :
              /\ receipt'[r] \notin {"queued", "running"}
              /\ receipt'[r] = "none" => receipt[r] = "none"
              /\ receipt'[r] = "completed" => receipt[r] = "completed"
    BY <1>0, <2>1 DEF Interrupted, Receipts, Ended
  <2>3. queued = <<>> /\ serving = NoRequest
    BY <2>1 DEF FoundationInv, WorkInv, QueueHolds, OwnerHolds, Up
  <2>4. QueueHolds'
    BY <2>1, <2>2, <2>3 DEF QueueHolds, Places, Up, FoundationAssumption
  <2>5. OwnerHolds'
    BY <2>1, <2>2, <2>3 DEF OwnerHolds
  <2>6. EffectsHold'
    BY <2>1, <2>2 DEF FoundationInv, WorkInv, EffectsHold
  <2>7. FoundationTypeOK'
    <3>1. failures' \in 0..MaxRestarts
      BY <2>1 DEF FoundationAssumption
    <3>2. desired' \in BOOLEAN /\ desiredFile' \in BOOLEAN /\ pausing' \in BOOLEAN
      BY <1>0, <2>1 DEF FoundationTypeOK
    <3>3. /\ \A i \in DOMAIN queued' : queued'[i] \in Asked
          /\ Len(queued') <= MaxQueue
      BY <1>0, <2>1 DEF FoundationTypeOK
    <3>4. recovered' \in BOOLEAN /\ closed' \in BOOLEAN /\ effects' \in [RequestIds -> 0..2]
      BY <1>0, <2>1 DEF FoundationTypeOK, appVars
    <3>5. /\ serving' \in Asked \cup {NoRequest}
          /\ step' \in {"none", "attach", "wish", "stop", "done", "fails"} \cup Kinds
          /\ session' \in Sessions \cup {NoSession}
          /\ backend' \in {"none", "live", "exited"} /\ ui' \in {"none", "live", "exited"}
      BY <1>0, <2>1 DEF FoundationTypeOK, appVars
    <3>6. QED BY <2>1, <2>2, <3>1, <3>2, <3>3, <3>4, <3>5 DEF FoundationTypeOK, Receipts
  <2>8. WishHolds'
    BY <2>1 DEF FoundationInv, WishHolds, appVars, Live
  <2>9. QED BY <2>4, <2>5, <2>6, <2>7, <2>8 DEF FoundationInv, WorkInv
<1>3. QED BY <1>1, <1>2

LEMMA FoundationInvariant == FoundationSpec => []FoundationInv
<1>1. FoundationInv /\ [FoundationNext]_foundationVars => FoundationInv'
  <2> SUFFICES ASSUME FoundationInv, [FoundationNext]_foundationVars PROVE FoundationInv'
    OBVIOUS
  <2>1. ASSUME NEW r \in RequestIds, Dispatch(r) PROVE FoundationInv'
    BY <2>1, DispatchKeeps
  <2>2. CASE Take \/ WriteReceipt
    BY <2>2, TakeKeeps, WriteReceiptKeeps
  <2>3. CASE \/ Attach \/ ReleaseOperation \/ OpenOperation \/ RegisterOperation
             \/ CloseDrains \/ CloseWish \/ CloseStops
    BY <2>3, OperationKeeps
  <2>4. CASE IdleTick \/ Tick \/ TickFails \/ PauseEnds \/ FailureAges \/ ChildExits
    BY <2>4, LifecycleKeeps
  <2>5. CASE ServiceEnds \/ ServiceStarts
    BY <2>5, ServiceKeeps
  <2>6. CASE UNCHANGED foundationVars
    BY <2>6 DEF foundationVars, FoundationInv, FoundationTypeOK, WorkInv, QueueHolds, OwnerHolds,
                EffectsHold, WishHolds, Places, Up, Live
  <2>7. QED BY <2>1, <2>2, <2>3, <2>4, <2>5, <2>6 DEF FoundationNext
<1>2. QED BY FoundationInitial, <1>1, PTL DEF FoundationSpec

\* Receipts, queue, wish and children have the types the service gives them, for
\* any number of requests and restarts (foundation_service.py:62).
THEOREM FoundationTypeCorrect == FoundationSpec => []FoundationTypeOK
<1>1. FoundationInv => FoundationTypeOK
  BY DEF FoundationInv
<1>2. QED BY <1>1, FoundationInvariant, PTL

\* No request id takes effect twice, a completed receipt means it did once, and
\* while the service is up every receipt that is not final is going to become so
\* (foundation_service.py:99).
THEOREM ReceiptsTrue == FoundationSpec => []ReceiptsAreTrue
<1>1. FoundationInv => ReceiptsAreTrue
  <2> SUFFICES ASSUME FoundationInv PROVE ReceiptsAreTrue
    OBVIOUS
  <2>1. \A r \in RequestIds : effects[r] <= 1 /\ (receipt[r] = "completed" => effects[r] = 1)
    <3> SUFFICES ASSUME NEW r \in RequestIds
                 PROVE  effects[r] <= 1 /\ (receipt[r] = "completed" => effects[r] = 1)
      OBVIOUS
    <3>1. effects[r] \in 0..1 /\ (receipt[r] = "completed" => effects[r] = 1)
      BY DEF FoundationInv, WorkInv, EffectsHold
    <3>2. effects[r] <= 1
      BY <3>1
    <3>3. QED BY <3>1, <3>2
  <2>2. ASSUME Up, NEW r \in RequestIds, receipt[r] = "queued" PROVE InQueue(r)
    <3>1. PICK i \in Places : queued[i].id = r
      BY <2>2 DEF FoundationInv, WorkInv, QueueHolds
    <3>2. i \in DOMAIN queued
      BY DEF FoundationInv, WorkInv, QueueHolds, Places
    <3>3. QED BY <3>1, <3>2 DEF InQueue
  <2>3. ASSUME Up, NEW r \in RequestIds, receipt[r] = "running" PROVE serving # NoRequest /\ serving.id = r
    BY <2>3 DEF FoundationInv, WorkInv, OwnerHolds, FoundationAssumption
  <2>4. QED BY <2>1, <2>2, <2>3 DEF ReceiptsAreTrue
<1>2. QED BY <1>1, FoundationInvariant, PTL

\* After a close that succeeded no crash, restart, session or failure starts the
\* application again until an open does (foundation_service.py:242).
THEOREM ClosedIsClosed == FoundationSpec => []ClosedStaysClosed
<1>1. FoundationInv => ClosedStaysClosed
  BY DEF FoundationInv, WishHolds, ClosedStaysClosed
<1>2. QED BY <1>1, FoundationInvariant, PTL

-------------------------------------------------------------------------------
(***************************************************************************)
(* The parts side by side.                                                 *)
(***************************************************************************)

\* What TLC explores in the run `services` is, seen through the variables of
\* one part, a behaviour of that part's own specification: the parts do not
\* disturb each other, and what is proved of each of them holds of the run.
LEMMA ServicePartsRun ==
    ServicesSpec => /\ InputsSpec /\ RunSpec /\ LocksSpec /\ ComposerSpec /\ JobsSpec /\ CorpusSpec
                    /\ McpSpec /\ VaultSpec /\ BotSpec /\ FoundationSpec /\ BackgroundSpec
<1>1. ServicesInit => /\ InputsInit /\ RunInit /\ LocksInit /\ ComposerInit /\ JobsInit /\ CorpusInit
                      /\ McpInit /\ VaultInit /\ BotInit /\ FoundationInit /\ BackgroundInit
  BY DEF ServicesInit
<1>2. [ServicesNext]_servicesVars => [InputsNext]_inputsVars
  BY DEF ServicesNext, Others, servicesVars
<1>3. [ServicesNext]_servicesVars => [RunNext]_runVars
  BY DEF ServicesNext, Others, servicesVars
<1>4. [ServicesNext]_servicesVars => [LocksNext]_lockVars
  BY DEF ServicesNext, Others, servicesVars
<1>5. [ServicesNext]_servicesVars => [ComposerNext]_composerVars
  BY DEF ServicesNext, Others, servicesVars
<1>6. [ServicesNext]_servicesVars => [JobsNext]_jobVars
  BY DEF ServicesNext, Others, servicesVars
<1>7. [ServicesNext]_servicesVars => [CorpusNext]_corpusVars
  BY DEF ServicesNext, Others, servicesVars
<1>8. [ServicesNext]_servicesVars => [McpNext]_mcpVars
  BY DEF ServicesNext, Others, servicesVars
<1>9. [ServicesNext]_servicesVars => [VaultNext]_vaultVars
  BY DEF ServicesNext, Others, servicesVars
<1>10. [ServicesNext]_servicesVars => [BotNext]_botVars
  BY DEF ServicesNext, Others, servicesVars
<1>11. [ServicesNext]_servicesVars => [FoundationNext]_foundationVars
  BY DEF ServicesNext, Others, servicesVars
<1>12. [ServicesNext]_servicesVars => [BackgroundNext]_backgroundVars
  BY DEF ServicesNext, Others, servicesVars
<1>13. QED BY <1>1, <1>2, <1>3, <1>4, <1>5, <1>6, <1>7, <1>8, <1>9, <1>10, <1>11, <1>12, PTL
          DEF ServicesSpec, InputsSpec, RunSpec, LocksSpec, ComposerSpec, JobsSpec, CorpusSpec,
              McpSpec, VaultSpec, BotSpec, FoundationSpec, BackgroundSpec

\* Each part keeps its types, whatever the others do.
THEOREM ServicesTypeCorrect == ServicesSpec => []ServicesTypeOK
<1>1. (/\ InputsTypeOK /\ RunTypeOK /\ LocksTypeOK /\ ComposerTypeOK /\ JobsTypeOK /\ CorpusTypeOK
       /\ McpTypeOK /\ VaultTypeOK /\ BotTypeOK /\ FoundationTypeOK /\ BackgroundTypeOK) => ServicesTypeOK
  BY DEF ServicesTypeOK
<1>2. QED BY <1>1, ServicePartsRun, InputsTypeCorrect, RunTypeCorrect, LocksTypeCorrect, ComposerTypeCorrect,
             JobsTypeCorrect, CorpusTypeCorrect, McpTypeCorrect, VaultTypeCorrect, BotTypeCorrect,
             FoundationTypeCorrect, ChatTypeCorrect, PTL

===============================================================================
