---------------------------- MODULE EvidenceProofs -----------------------------
(********************************************************************************)
(* What the verdicts of a task say of the project they were reached on, for     *)
(* every set of criteria and every number of attempts, changes and disconnects. *)
(* The attempt's own verdicts and those a Resume would take over are followed   *)
(* separately (MindTold, JournalTold): a project may change under either.       *)
(* And what a run is told of its own repetitions, for every number of calls,    *)
(* executions of the command, broken attempts and Resumes.                      *)
(********************************************************************************)
EXTENDS TaskVerdicts, CommandProgress, SequenceTheorems, FiniteSetTheorems, WellFoundedInduction, TLAPS

\* The project has been edited, and the run does not know it yet.
EditLanded == looping = "calling" /\ calling.landed /\ calling.kind = "edit"

\* Changes to come stay within the bound.
InBounds ==
    /\ version + strays <= MaxChanges
    /\ looping = "calling" /\ ~calling.landed /\ calling.kind \in {"edit", "shell"} =>
          version + strays < MaxChanges

\* What a call under way has seen.
CallTold ==
    /\ looping \notin {"calling", "observed"} => calling = NoToolCall
    /\ looping = "observed" => calling.landed
    /\ calling.kind # "check" => calling.on = {}
    /\ calling.landed => calling.seen \subseteq metOnce
    /\ calling.landed /\ calling.kind = "check" /\ ~unreported => calling.seen = met
    /\ looping = "calling" /\ calling.landed /\ calling.kind = "shell" => unreported
    /\ calling.landed /\ calling.over => remote = "ended"
    /\ looping = "calling" /\ ~calling.landed /\ calling.kind = "redirect" => remote = "none"

\* What was confirmed of the past was once so, whatever went unreported since.
PastTold ==
    /\ met \subseteq metOnce
    /\ \A c \in Historical :
          mind.verdict[c] = "confirmed" \/ journaled.rows[c] = "confirmed" => c \in metOnce

\* The attempt's own verdicts, and those a Resume would take over, at every moment
\* and not only where the attempt comes to rest.
MindTold == ~unreported /\ ~EditLanded => \A c \in Criteria : Tells(c, mind.verdict[c])

JournalTold ==
    ~unreported /\ ~outdated /\ ~EditLanded => \A c \in Criteria : Tells(c, Kept(journaled)[c])

\* A completed run has ended, with the verdicts of the project's present epoch.
CompletedTold ==
    /\ looping # "ended" => journaled.spec = mind.spec /\ journaled.status # "completed"
    /\ journaled.status = "completed" =>
          /\ journaled.rowsEpoch = journaled.epoch /\ ~outdated
          /\ \A c \in Mandatory(journaled.spec) : journaled.rows[c] = "confirmed"

\* A redirected job that runs is waited for until the run forgets it, and the answer
\* that was accepted delivers the file.
AnswerTold ==
    /\ remote = "running" /\ ~forgotten /\ looping # "ended" =>
          mind.waits \/ (looping = "calling" /\ calling.kind = "redirect")
    /\ looping \in {"answering", "accepted"} =>
          /\ remote = "running" => forgotten
          /\ mind.answer = "complete" /\ mind.tried /\ ~unreported =>
                mind.receipt = [status |-> "published", of |-> version]

VerdictsInv ==
    /\ VerdictsTypeOK /\ InBounds /\ CallTold /\ PastTold
    /\ MindTold /\ JournalTold /\ CompletedTold /\ AnswerTold

USE VerdictsAssumption

(***************************************************************************)
(* The operators the model is built from                                   *)
(***************************************************************************)

VerdictMap == [Criteria -> Verdicts]
RowMap == [Criteria -> Verdicts \cup {"absent"}]

LEMMA InvalidateTyped ==
  ASSUME NEW v \in VerdictMap
  PROVE  /\ Invalidate(v) \in VerdictMap
         /\ \A c \in Criteria : Invalidate(v)[c] =
               IF c \notin Historical /\ v[c] \in {"confirmed", "failed"} THEN "unconfirmed" ELSE v[c]
  BY DEF Invalidate, VerdictMap, Verdicts

LEMMA FinalizedTyped ==
  ASSUME NEW v \in VerdictMap, NEW asks
  PROVE  /\ Finalized(asks, v) \in VerdictMap
         /\ \A c \in Criteria : Finalized(asks, v)[c] \in {v[c], "skipped"}
  BY DEF Finalized, VerdictMap, Verdicts

LEMMA ReportTyped ==
  ASSUME NEW v \in VerdictMap, NEW asks
  PROVE  /\ Report(asks, v) \in RowMap
         /\ \A c \in Criteria : Report(asks, v)[c] = IF c \in asks THEN v[c] ELSE "absent"
  BY DEF Report, VerdictMap, RowMap

LEMMA RefreshedTyped ==
  ASSUME NEW r \in Receipts
  PROVE  /\ Refreshed(r) \in Receipts
         /\ Refreshed(r).status = "published" => Refreshed(r).of = version
  BY DEF Refreshed, Receipts

LEMMA UndecidedTyped ==
  /\ Undecided \in VerdictMap /\ \A c \in Criteria : Undecided[c] = "unconfirmed"
  /\ NoRows \in RowMap /\ \A c \in Criteria : NoRows[c] = "absent"
  /\ NoReceipt \in Receipts /\ NoToolCall \in ToolCalls
  BY VerdictsAssumption DEF Undecided, NoRows, VerdictMap, RowMap, Verdicts, NoReceipt, Receipts, NoToolCall, ToolCalls

LEMMA KeptTyped ==
  ASSUME NEW j \in Journals
  PROVE  /\ Kept(j) \in VerdictMap
         /\ \A c \in Criteria : Kept(j)[c] =
               IF j.rowsEpoch = j.epoch /\ j.rows[c] \in {"confirmed", "failed", "skipped"}
               THEN j.rows[c] ELSE "unconfirmed"
  BY UndecidedTyped DEF Kept, RowsRestored, Journals, VerdictMap, Verdicts

LEMMA MindTyped ==
  ASSUME NEW m \in Minds
  PROVE  /\ m.spec \in SUBSET Criteria /\ m.verdict \in VerdictMap /\ m.receipt \in Receipts
         /\ m.tried \in BOOLEAN /\ m.waits \in BOOLEAN /\ m.corrected \in BOOLEAN /\ m.quoted \in BOOLEAN
         /\ m.answer \in {"complete", "degraded"} /\ m.stopped \in BOOLEAN
  BY DEF Minds, VerdictMap

LEMMA JournalTyped ==
  ASSUME NEW j \in Journals
  PROVE  /\ j.spec \in SUBSET Criteria /\ j.rows \in RowMap /\ j.receipt \in Receipts
         /\ j.rowsEpoch \in {-1} \cup Nat /\ j.epoch \in Nat
         /\ j.answer \in {"complete", "degraded"} /\ j.tried \in BOOLEAN /\ j.quoted \in BOOLEAN /\ j.resumable \in BOOLEAN
  BY DEF Journals, RowMap

LEMMA NothingTyped ==
  /\ Nothing \in Minds
  /\ Nothing.verdict = Undecided /\ Nothing.spec = {}
  BY UndecidedTyped DEF Nothing, Minds, VerdictMap

\* What a step leaves of the attempt's mind, field by field.
MindBecomes(spec, verdict, receipt, tried, waits, answer) ==
    /\ mind' \in Minds
    /\ mind'.spec = spec /\ mind'.verdict = verdict /\ mind'.receipt = receipt
    /\ mind'.tried = tried /\ mind'.waits = waits /\ mind'.answer = answer

JournalBecomes(status, spec, rows, rowsEpoch, epoch) ==
    /\ journaled' \in Journals
    /\ journaled'.status = status /\ journaled'.spec = spec /\ journaled'.rows = rows
    /\ journaled'.rowsEpoch = rowsEpoch /\ journaled'.epoch = epoch

LEMMA ObserveShape ==
  ASSUME VerdictsTypeOK, Observe
  PROVE  LET edit == calling.kind = "edit"
             r == IF calling.kind = "publish" /\ calling.copy = version
                  THEN [status |-> "published", of |-> version] ELSE Refreshed(mind.receipt)
         IN /\ MindBecomes(mind.spec, IF edit THEN Invalidate(mind.verdict) ELSE mind.verdict, r,
                           mind.tried \/ calling.kind = "publish",
                           (mind.waits \/ calling.kind = "redirect") /\ ~(calling.kind = "poll" /\ calling.over),
                           mind.answer)
            /\ edit => JournalBecomes(journaled.status, journaled.spec, NoRows, -1, journaled.epoch + 1)
            /\ ~edit => JournalBecomes(journaled.status, journaled.spec, journaled.rows, journaled.rowsEpoch, journaled.epoch)
<1> DEFINE edit == calling.kind = "edit"
           r == IF calling.kind = "publish" /\ calling.copy = version
                THEN [status |-> "published", of |-> version] ELSE Refreshed(mind.receipt)
           v == IF edit THEN Invalidate(mind.verdict) ELSE mind.verdict
           t == mind.tried \/ calling.kind = "publish"
           w == (mind.waits \/ calling.kind = "redirect") /\ ~(calling.kind = "poll" /\ calling.over)
<1>1. /\ mind' = [mind EXCEPT !.receipt = r, !.tried = t, !.verdict = v, !.waits = w]
      /\ journaled' = IF edit THEN [journaled EXCEPT !.receipt = r, !.tried = t, !.rows = NoRows,
                                        !.rowsEpoch = -1, !.epoch = @ + 1, !.completion = "unverified"]
                      ELSE [journaled EXCEPT !.receipt = r, !.tried = t]
  BY DEF Observe
<1>2. r \in Receipts
  BY RefreshedTyped, MindTyped, VerdictsAssumption DEF VerdictsTypeOK, Receipts
<1>3. v \in VerdictMap /\ t \in BOOLEAN /\ w \in BOOLEAN
  BY InvalidateTyped, MindTyped DEF VerdictsTypeOK
<1> HIDE DEF r, v, t, w, edit
<1>4. MindBecomes(mind.spec, v, r, t, w, mind.answer)
  BY <1>1, <1>2, <1>3 DEF VerdictsTypeOK, MindBecomes, Minds, VerdictMap
<1>5. CASE edit
  <2> DEFINE n == journaled.epoch + 1
  <2>1. journaled' = [journaled EXCEPT !.receipt = r, !.tried = t, !.rows = NoRows,
                          !.rowsEpoch = -1, !.epoch = n, !.completion = "unverified"]
    BY <1>1, <1>5
  <2>2. n \in Nat /\ -1 \in {-1} \cup Nat /\ NoRows \in RowMap
    BY JournalTyped, UndecidedTyped DEF VerdictsTypeOK
  <2> HIDE DEF n
  <2>3. JournalBecomes(journaled.status, journaled.spec, NoRows, -1, n)
    BY <2>1, <2>2, <1>2, <1>3 DEF VerdictsTypeOK, JournalBecomes, Journals, RowMap
  <2>4. QED BY <1>4, <1>5, <2>3 DEF r, v, t, w, edit, n
<1>6. CASE ~edit
  <2>1. JournalBecomes(journaled.status, journaled.spec, journaled.rows, journaled.rowsEpoch, journaled.epoch)
    BY <1>1, <1>2, <1>3, <1>6 DEF VerdictsTypeOK, JournalBecomes, Journals
  <2>2. QED BY <1>4, <1>6, <2>1 DEF r, v, t, w, edit
<1>7. QED BY <1>5, <1>6

JournalKept == JournalBecomes(journaled.status, journaled.spec, journaled.rows, journaled.rowsEpoch, journaled.epoch)

LEMMA StopToolShape ==
  ASSUME VerdictsTypeOK, StopTool
  PROVE  /\ MindBecomes(mind.spec, mind.verdict, Refreshed(mind.receipt), mind.tried \/ calling.kind = "publish",
                        mind.waits, mind.answer)
         /\ JournalKept
<1> DEFINE r == Refreshed(mind.receipt)
           t == mind.tried \/ calling.kind = "publish"
<1>1. /\ mind' = [mind EXCEPT !.receipt = r, !.tried = t, !.stopped = TRUE]
      /\ journaled' = [journaled EXCEPT !.receipt = r, !.tried = t]
  BY DEF StopTool
<1>2. r \in Receipts /\ t \in BOOLEAN
  BY RefreshedTyped, MindTyped DEF VerdictsTypeOK
<1> HIDE DEF r, t
<1>3. MindBecomes(mind.spec, mind.verdict, r, t, mind.waits, mind.answer)
  BY <1>1, <1>2 DEF VerdictsTypeOK, MindBecomes, Minds
<1>4. JournalKept
  BY <1>1, <1>2 DEF VerdictsTypeOK, JournalKept, JournalBecomes, Journals
<1>5. QED BY <1>3, <1>4 DEF r, t

LEMMA ClarifyShape ==
  ASSUME VerdictsTypeOK, Clarify
  PROVE  \E added \in SUBSET Clarifying :
            /\ MindBecomes(mind.spec \cup added, Invalidate(mind.verdict), mind.receipt, mind.tried, mind.waits, mind.answer)
            /\ JournalBecomes(journaled.status, mind.spec \cup added, journaled.rows, journaled.rowsEpoch, journaled.epoch)
<1>1. PICK added \in SUBSET Clarifying :
         /\ mind' = TaskWith(added)
         /\ journaled' = [journaled EXCEPT !.spec = mind.spec \cup added, !.receipt = mind.receipt, !.tried = mind.tried]
  BY DEF Clarify
<1> DEFINE v == Invalidate(mind.verdict)
           asks == mind.spec \cup added
<1>2. mind' = [mind EXCEPT !.spec = asks, !.verdict = v]
  BY <1>1 DEF TaskWith
<1>3. v \in VerdictMap /\ asks \in SUBSET Criteria
  BY InvalidateTyped, MindTyped, VerdictsAssumption DEF VerdictsTypeOK
<1> HIDE DEF v, asks
<1>4. MindBecomes(asks, v, mind.receipt, mind.tried, mind.waits, mind.answer)
  BY <1>2, <1>3 DEF VerdictsTypeOK, MindBecomes, Minds, VerdictMap
<1>5. journaled' = [journaled EXCEPT !.spec = asks, !.receipt = mind.receipt, !.tried = mind.tried]
  BY <1>1 DEF asks
<1>6. JournalBecomes(journaled.status, asks, journaled.rows, journaled.rowsEpoch, journaled.epoch)
  BY <1>3, <1>5, MindTyped DEF VerdictsTypeOK, JournalBecomes, Journals
<1>7. QED BY <1>4, <1>6 DEF v, asks

LEMMA SendBackShape ==
  ASSUME VerdictsTypeOK, SendBack
  PROVE  /\ MindBecomes(mind.spec, mind.verdict, mind'.receipt, mind.tried, mind.waits, mind.answer)
         /\ JournalKept
<1> DEFINE r == Refreshed(mind.receipt)
<1>1. \/ mind' = mind /\ journaled' = journaled
      \/ mind' = [mind EXCEPT !.quoted = TRUE] /\ journaled' = [journaled EXCEPT !.quoted = TRUE]
      \/ /\ mind' = [mind EXCEPT !.receipt = r, !.corrected = TRUE]
         /\ journaled' = [journaled EXCEPT !.receipt = r]
  BY DEF SendBack
<1>2. r \in Receipts
  BY RefreshedTyped, MindTyped DEF VerdictsTypeOK
<1> HIDE DEF r
<1>3. MindBecomes(mind.spec, mind.verdict, mind'.receipt, mind.tried, mind.waits, mind.answer)
  BY ZenonT(60), <1>1, <1>2 DEF VerdictsTypeOK, MindBecomes, Minds
<1>4. JournalKept
  BY ZenonT(60), <1>1, <1>2 DEF VerdictsTypeOK, JournalKept, JournalBecomes, Journals
<1>5. QED BY <1>3, <1>4

LEMMA AcceptShape ==
  ASSUME VerdictsTypeOK, AcceptAnswer
  PROVE  /\ MindBecomes(mind.spec, Finalized(mind.spec, mind.verdict), Refreshed(mind.receipt), mind.tried,
                        mind.waits, mind'.answer)
         /\ mind'.answer = "complete" /\ mind.tried => Refreshed(mind.receipt).status = "published"
<1> DEFINE r == Refreshed(mind.receipt)
           v == Finalized(mind.spec, mind.verdict)
           known == [mind EXCEPT !.receipt = r]
<1>1. PICK misquotes \in BOOLEAN :
         mind' = [known EXCEPT
            !.answer = IF \/ Undelivered(known) \/ misquotes
                          \/ \E c \in Mandatory(mind.spec) : mind.verdict[c] # "confirmed"
                       THEN "degraded" ELSE "complete",
            !.verdict = Finalized(mind.spec, @)]
  BY DEF AcceptAnswer
<1>2. r \in Receipts /\ v \in VerdictMap
  BY RefreshedTyped, FinalizedTyped, MindTyped DEF VerdictsTypeOK
<1> HIDE DEF r
<1>3. known \in Minds /\ known.receipt = r /\ known.tried = mind.tried /\ known.verdict = mind.verdict
      /\ known.spec = mind.spec /\ known.waits = mind.waits
  BY <1>2 DEF VerdictsTypeOK, Minds
<1> HIDE DEF known
<1>4. PICK a \in {"complete", "degraded"} :
         /\ mind' = [known EXCEPT !.answer = a, !.verdict = v]
         /\ a = "complete" => ~Undelivered(known)
  BY <1>1, <1>3
<1> HIDE DEF v
<1>5. MindBecomes(mind.spec, v, r, mind.tried, mind.waits, a) /\ mind'.answer = a
  BY <1>2, <1>3, <1>4 DEF MindBecomes, Minds, VerdictMap
<1>6. QED BY SMTT(60), <1>3, <1>4, <1>5 DEF Undelivered, MindBecomes, v, r

LEMMA JudgeShape ==
  ASSUME VerdictsTypeOK, Judge
  PROVE  /\ MindBecomes(mind.spec, mind'.verdict, mind.receipt, mind.tried, mind.waits, mind.answer)
         /\ \A c \in Criteria :
               \/ mind'.verdict[c] \in {mind.verdict[c], "unconfirmed"}
               \/ c \in calling.on \cap calling.seen /\ mind'.verdict[c] = "confirmed"
               \/ c \in calling.on \ calling.seen /\ mind'.verdict[c] = "failed"
<1>1. PICK refutes \in SUBSET (calling.on \ calling.seen), revokes \in SUBSET (calling.on \ calling.seen) :
         mind' = [mind EXCEPT !.verdict =
                    [c \in Criteria |->
                       IF c \in Historical /\ @[c] = "confirmed" THEN @[c]
                       ELSE IF c \in calling.on \cap calling.seen THEN "confirmed"
                       ELSE IF c \in refutes THEN "failed"
                       ELSE IF c \in revokes /\ @[c] # "skipped" THEN "unconfirmed" ELSE @[c]]]
  BY DEF Judge
<1> DEFINE v == [c \in Criteria |->
                  IF c \in Historical /\ mind.verdict[c] = "confirmed" THEN mind.verdict[c]
                  ELSE IF c \in calling.on \cap calling.seen THEN "confirmed"
                  ELSE IF c \in refutes THEN "failed"
                  ELSE IF c \in revokes /\ mind.verdict[c] # "skipped" THEN "unconfirmed" ELSE mind.verdict[c]]
<1>2. mind' = [mind EXCEPT !.verdict = v]
  BY <1>1
<1>3. mind.verdict \in VerdictMap
  BY MindTyped DEF VerdictsTypeOK
<1>4. /\ v \in VerdictMap
      /\ \A c \in Criteria :
            \/ v[c] \in {mind.verdict[c], "unconfirmed"}
            \/ c \in calling.on \cap calling.seen /\ v[c] = "confirmed"
            \/ c \in calling.on \ calling.seen /\ v[c] = "failed"
  BY <1>3 DEF VerdictMap, Verdicts
<1> HIDE DEF v
<1>5. MindBecomes(mind.spec, v, mind.receipt, mind.tried, mind.waits, mind.answer)
  BY <1>2, <1>4 DEF VerdictsTypeOK, MindBecomes, Minds, VerdictMap
<1>6. QED BY <1>4, <1>5 DEF MindBecomes

LEMMA FinalShape ==
  ASSUME VerdictsTypeOK, FinalResponse
  PROVE  mind' = mind /\ JournalKept
<1>1. mind.answer \in {"complete", "degraded"} /\ mind.receipt \in Receipts /\ mind.tried \in BOOLEAN
  BY MindTyped DEF VerdictsTypeOK
<1>2. QED BY <1>1 DEF FinalResponse, VerdictsTypeOK, JournalKept, JournalBecomes, Journals

LEMMA DoneShape ==
  ASSUME VerdictsTypeOK, NEW reason \in {"answer", "cancelled", "error"}, NEW answer \in {"complete", "degraded"},
         NEW completion \in {"none", "failed", "confirmed", "partial", "unverified"}, NEW verdicts \in RowMap,
         \/ DoneEvent(reason, answer, completion, verdicts, TRUE)
         \/ DoneEvent(reason, answer, completion, verdicts, completion \in {"partial", "unverified", "failed"})
  PROVE  /\ mind' = Nothing /\ looping' = "ended" /\ outdated' = FALSE /\ UNCHANGED <<worldVars, calling, unreported, forgotten>>
         /\ JournalBecomes(journaled'.status, journaled.spec, verdicts, journaled.epoch, journaled.epoch)
         /\ journaled'.status = "completed" =>
               completion = "confirmed" \/ (completion = "none" /\ reason = "answer")
<1> DEFINE status == IF /\ answer = "complete"
                        /\ completion = "confirmed" \/ (completion = "none" /\ reason = "answer")
                     THEN "completed" ELSE reason
<1>1. mind' = Nothing /\ looping' = "ended" /\ outdated' = FALSE /\ UNCHANGED <<worldVars, calling, unreported, forgotten>>
  BY DEF DoneEvent
<1>2. status \in {"completed", reason} /\ journaled.epoch \in Nat
      /\ (status = "completed" => completion = "confirmed" \/ (completion = "none" /\ reason = "answer"))
  BY JournalTyped DEF VerdictsTypeOK
<1>3. JournalBecomes(status, journaled.spec, verdicts, journaled.epoch, journaled.epoch)
  <2> DEFINE later == completion \in {"partial", "unverified", "failed"}
             Row(again) == [journaled EXCEPT !.status = status, !.answer = answer, !.completion = completion,
                                  !.rows = verdicts, !.rowsEpoch = journaled.epoch, !.resumable = again]
  <2>1. journaled' = Row(TRUE) \/ journaled' = Row(later)
    BY DEF DoneEvent
  <2>2. later \in BOOLEAN
    OBVIOUS
  <2> HIDE DEF status, later
  <2>3. CASE journaled' = Row(TRUE)
    BY <1>2, <2>3 DEF VerdictsTypeOK, JournalBecomes, Journals, RowMap
  <2>4. CASE journaled' = Row(later)
    BY <1>2, <2>2, <2>4 DEF VerdictsTypeOK, JournalBecomes, Journals, RowMap
  <2>5. QED BY <2>1, <2>3, <2>4
<1> HIDE DEF status
<1>4. journaled'.status = status
  BY <1>3 DEF JournalBecomes
<1>5. QED BY <1>1, <1>2, <1>3, <1>4

LEMMA DisconnectShape ==
  ASSUME VerdictsTypeOK, Disconnect
  PROVE  /\ mind' = Nothing
         /\ JournalBecomes("interrupted", journaled.spec, journaled.rows, journaled.rowsEpoch, journaled.epoch)
<1>1. journaled' = [journaled EXCEPT !.status = "interrupted", !.resumable = TRUE] /\ mind' = Nothing
  BY DEF Disconnect
<1>2. QED BY <1>1 DEF VerdictsTypeOK, JournalBecomes, Journals

LEMMA ResumeShape ==
  ASSUME VerdictsTypeOK, ResumeRun
  PROVE  /\ MindBecomes(journaled.spec, Kept(journaled), journaled.receipt, journaled.tried, FALSE, "complete")
         /\ JournalBecomes("running", journaled.spec, journaled.rows, journaled.rowsEpoch, journaled.epoch)
<1> DEFINE v == Kept(journaled)
<1>1. /\ mind' = [Nothing EXCEPT !.spec = journaled.spec, !.verdict = v,
                      !.receipt = journaled.receipt, !.tried = journaled.tried, !.quoted = journaled.quoted]
      /\ journaled' = [journaled EXCEPT !.status = "running", !.resumable = FALSE]
  BY DEF ResumeRun
<1>2. v \in VerdictMap
  BY KeptTyped DEF VerdictsTypeOK
<1> HIDE DEF v
<1>3. MindBecomes(journaled.spec, v, journaled.receipt, journaled.tried, FALSE, "complete")
  <2>1. Nothing \in Minds /\ Nothing.waits = FALSE /\ Nothing.answer = "complete"
    BY NothingTyped DEF Nothing
  <2>2. QED BY <1>1, <1>2, <2>1, JournalTyped DEF VerdictsTypeOK, MindBecomes, Minds, VerdictMap
<1>4. JournalBecomes("running", journaled.spec, journaled.rows, journaled.rowsEpoch, journaled.epoch)
  BY <1>1 DEF VerdictsTypeOK, JournalBecomes, Journals
<1>5. QED BY <1>3, <1>4 DEF v

LEMMA AskShape ==
  ASSUME VerdictsTypeOK, AskTool
  PROVE  /\ calling' \in ToolCalls /\ ~calling'.landed /\ calling'.kind # "none"
         /\ calling'.kind # "check" => calling'.on = {}
         /\ calling'.kind \in {"edit", "shell"} => version + strays < MaxChanges
<1>1. PICK kind \in {"edit", "check", "shell", "publish", "redirect", "poll"}, on \in SUBSET mind.spec :
         /\ (kind = "check") <=> (on # {})
         /\ kind \in {"edit", "shell"} => version + strays < MaxChanges
         /\ calling' = [NoToolCall EXCEPT !.kind = kind, !.on = on]
  BY DEF AskTool
<1>2. on \subseteq Criteria /\ NoToolCall \in ToolCalls /\ ~NoToolCall.landed
  BY MindTyped, UndecidedTyped DEF VerdictsTypeOK, NoToolCall
<1>3. QED BY <1>1, <1>2 DEF ToolCalls

LEMMA LandShape ==
  ASSUME VerdictsTypeOK, ToolLands
  PROVE  /\ calling' \in ToolCalls /\ calling'.landed /\ calling'.seen = met /\ calling'.copy = version
         /\ calling'.kind = calling.kind /\ calling'.on = calling.on /\ calling'.over = (remote = "ended")
<1> DEFINE over == remote = "ended"
<1>1. calling' = [calling EXCEPT !.landed = TRUE, !.seen = met, !.copy = version, !.over = over]
  BY DEF ToolLands
<1>2. met \in SUBSET Criteria /\ version \in 0..MaxChanges /\ over \in BOOLEAN /\ calling \in ToolCalls
  BY VerdictsAssumption DEF VerdictsTypeOK
<1> HIDE DEF over
<1>3. QED BY <1>1, <1>2 DEF ToolCalls, over

LEMMA CompletionMeans ==
  ASSUME NEW asks, NEW verdict
  PROVE  /\ Completion(asks, verdict) \in {"none", "failed", "confirmed", "partial", "unverified"}
         /\ Completion(asks, verdict) = "confirmed" => \A c \in Mandatory(asks) : verdict[c] = "confirmed"
         /\ Completion(asks, verdict) = "none" => asks = {}
  BY DEF Completion

Ends == AnswerDone \/ Cancelled \/ NoOutput \/ Raises

LEMMA EndShape ==
  ASSUME VerdictsTypeOK, Ends
  PROVE  /\ looping \in {"turn", "accepted"} /\ looping' = "ended" /\ mind' = Nothing /\ ~outdated'
         /\ UNCHANGED <<worldVars, calling, unreported, forgotten>>
         /\ JournalBecomes(journaled'.status, journaled.spec, journaled'.rows, journaled.epoch, journaled.epoch)
         /\ journaled'.rows = NoRows \/ journaled'.rows = Report(mind.spec, mind.verdict)
         /\ journaled'.status = "completed" =>
               /\ journaled'.rows = Report(mind.spec, mind.verdict)
               /\ \A c \in Mandatory(mind.spec) : mind.verdict[c] = "confirmed"
<1> DEFINE rows == Report(mind.spec, mind.verdict)
           completion == Completion(mind.spec, mind.verdict)
<1>1. /\ rows \in RowMap /\ NoRows \in RowMap /\ mind.answer \in {"complete", "degraded"}
      /\ journaled.answer \in {"complete", "degraded"}
      /\ completion \in {"none", "failed", "confirmed", "partial", "unverified"}
      /\ completion \in {"confirmed", "none"} => \A c \in Mandatory(mind.spec) : mind.verdict[c] = "confirmed"
  BY ReportTyped, UndecidedTyped, MindTyped, JournalTyped, CompletionMeans DEF VerdictsTypeOK, Mandatory
<1>2. CASE AnswerDone
  <2>1. /\ DoneEvent("answer", mind.answer, completion, rows, completion \in {"partial", "unverified", "failed"})
        /\ looping = "accepted"
    BY <1>2 DEF AnswerDone
  <2> HIDE DEF rows, completion
  <2>2. /\ mind' = Nothing /\ looping' = "ended" /\ outdated' = FALSE
        /\ UNCHANGED <<worldVars, calling, unreported, forgotten>>
        /\ JournalBecomes(journaled'.status, journaled.spec, rows, journaled.epoch, journaled.epoch)
        /\ journaled'.status = "completed" => completion \in {"confirmed", "none"}
    BY <1>1, <2>1, DoneShape
  <2>3. QED BY <1>1, <2>1, <2>2 DEF rows, JournalBecomes
<1>3. CASE Cancelled
  <2>1. DoneEvent("cancelled", journaled.answer, completion, rows, TRUE) /\ looping = "turn"
    BY <1>3 DEF Cancelled
  <2> HIDE DEF rows, completion
  <2>2. /\ mind' = Nothing /\ looping' = "ended" /\ outdated' = FALSE
        /\ UNCHANGED <<worldVars, calling, unreported, forgotten>>
        /\ JournalBecomes(journaled'.status, journaled.spec, rows, journaled.epoch, journaled.epoch)
        /\ journaled'.status = "completed" => completion \in {"confirmed", "none"}
    BY <1>1, <2>1, DoneShape
  <2>3. QED BY <1>1, <2>1, <2>2 DEF rows, JournalBecomes
<1>4. CASE NoOutput
  <2>1. DoneEvent("error", "degraded", "partial", rows, TRUE) /\ looping = "turn"
    BY <1>4 DEF NoOutput
  <2> HIDE DEF rows, completion
  <2>2. /\ mind' = Nothing /\ looping' = "ended" /\ outdated' = FALSE
        /\ UNCHANGED <<worldVars, calling, unreported, forgotten>>
        /\ JournalBecomes(journaled'.status, journaled.spec, rows, journaled.epoch, journaled.epoch)
        /\ journaled'.status = "completed" => completion \in {"confirmed", "none"} /\ FALSE
    BY <1>1, <2>1, DoneShape
  <2>3. QED BY <1>1, <2>1, <2>2 DEF rows, JournalBecomes
<1>5. CASE Raises
  <2>1. DoneEvent("error", journaled.answer, "none", NoRows, TRUE) /\ looping = "turn"
    BY <1>5 DEF Raises
  <2> HIDE DEF rows, completion
  <2>2. /\ mind' = Nothing /\ looping' = "ended" /\ outdated' = FALSE
        /\ UNCHANGED <<worldVars, calling, unreported, forgotten>>
        /\ JournalBecomes(journaled'.status, journaled.spec, NoRows, journaled.epoch, journaled.epoch)
        /\ journaled'.status = "completed" => completion \in {"confirmed", "none"} /\ FALSE
    BY <1>1, <2>1, DoneShape
  <2>3. QED BY <1>1, <2>1, <2>2 DEF rows, JournalBecomes
<1>6. QED BY <1>2, <1>3, <1>4, <1>5 DEF Ends

LEMMA VerdictsTypeStep ==
  ASSUME VerdictsTypeOK, InBounds, VerdictsNext
  PROVE  VerdictsTypeOK'
<1>1. CASE StrayLands
  <2>1. (met \subseteq Criteria /\ metOnce \subseteq Criteria /\ remote \in {"none", "running", "ended"})'
    BY <1>1 DEF StrayLands, Change, bounds, VerdictsTypeOK
  <2>2. (version \in 1..MaxChanges /\ strays \in 0..MaxChanges)'
    BY <1>1 DEF StrayLands, Change, bounds, VerdictsTypeOK, InBounds
  <2>3. (looping \in {"turn", "calling", "observed", "answering", "accepted", "ended"})'
    BY <1>1 DEF StrayLands, Change, bounds, VerdictsTypeOK
  <2>4. (calling \in ToolCalls)'
    BY <1>1, UndecidedTyped DEF StrayLands, Change, bounds, VerdictsTypeOK
  <2>5. (mind \in Minds /\ journaled \in Journals)'
    BY <1>1, NothingTyped DEF StrayLands, Change, bounds, VerdictsTypeOK, MindBecomes, JournalBecomes, JournalKept
  <2>6. (unreported \in BOOLEAN /\ outdated \in BOOLEAN /\ forgotten \in BOOLEAN)'
    BY <1>1 DEF StrayLands, Change, bounds, VerdictsTypeOK
  <2>7. QED BY <2>1, <2>2, <2>3, <2>4, <2>5, <2>6 DEF VerdictsTypeOK
<1>2. CASE RemoteEnds
  <2>1. (met \subseteq Criteria /\ metOnce \subseteq Criteria /\ remote \in {"none", "running", "ended"})'
    BY <1>2 DEF RemoteEnds, bounds, VerdictsTypeOK
  <2>2. (version \in 1..MaxChanges /\ strays \in 0..MaxChanges)'
    BY <1>2 DEF RemoteEnds, bounds, VerdictsTypeOK, InBounds
  <2>3. (looping \in {"turn", "calling", "observed", "answering", "accepted", "ended"})'
    BY <1>2 DEF RemoteEnds, bounds, VerdictsTypeOK
  <2>4. (calling \in ToolCalls)'
    BY <1>2, UndecidedTyped DEF RemoteEnds, bounds, VerdictsTypeOK
  <2>5. (mind \in Minds /\ journaled \in Journals)'
    BY <1>2, NothingTyped DEF RemoteEnds, bounds, VerdictsTypeOK, MindBecomes, JournalBecomes, JournalKept
  <2>6. (unreported \in BOOLEAN /\ outdated \in BOOLEAN /\ forgotten \in BOOLEAN)'
    BY <1>2 DEF RemoteEnds, bounds, VerdictsTypeOK
  <2>7. QED BY <2>1, <2>2, <2>3, <2>4, <2>5, <2>6 DEF VerdictsTypeOK
<1>3. CASE AskTool
  <2>1. (met \subseteq Criteria /\ metOnce \subseteq Criteria /\ remote \in {"none", "running", "ended"})'
    BY <1>3, AskShape DEF AskTool, worldVars, bounds, VerdictsTypeOK
  <2>2. (version \in 1..MaxChanges /\ strays \in 0..MaxChanges)'
    BY <1>3, AskShape DEF AskTool, worldVars, bounds, VerdictsTypeOK, InBounds
  <2>3. (looping \in {"turn", "calling", "observed", "answering", "accepted", "ended"})'
    BY <1>3, AskShape DEF AskTool, worldVars, bounds, VerdictsTypeOK
  <2>4. (calling \in ToolCalls)'
    BY <1>3, AskShape, UndecidedTyped DEF AskTool, worldVars, bounds, VerdictsTypeOK
  <2>5. (mind \in Minds /\ journaled \in Journals)'
    BY <1>3, AskShape, NothingTyped DEF AskTool, worldVars, bounds, VerdictsTypeOK, MindBecomes, JournalBecomes, JournalKept
  <2>6. (unreported \in BOOLEAN /\ outdated \in BOOLEAN /\ forgotten \in BOOLEAN)'
    BY <1>3, AskShape DEF AskTool, worldVars, bounds, VerdictsTypeOK
  <2>7. QED BY <2>1, <2>2, <2>3, <2>4, <2>5, <2>6 DEF VerdictsTypeOK
<1>4. CASE ToolLands
  <2>1. (met \subseteq Criteria /\ metOnce \subseteq Criteria /\ remote \in {"none", "running", "ended"})'
    BY <1>4, LandShape DEF ToolLands, Change, bounds, VerdictsTypeOK
  <2>2. (version \in 1..MaxChanges /\ strays \in 0..MaxChanges)'
    BY <1>4, LandShape DEF ToolLands, Change, bounds, VerdictsTypeOK, InBounds
  <2>3. (looping \in {"turn", "calling", "observed", "answering", "accepted", "ended"})'
    BY <1>4, LandShape DEF ToolLands, Change, bounds, VerdictsTypeOK
  <2>4. (calling \in ToolCalls)'
    BY <1>4, LandShape, UndecidedTyped DEF ToolLands, Change, bounds, VerdictsTypeOK
  <2>5. (mind \in Minds /\ journaled \in Journals)'
    BY <1>4, LandShape, NothingTyped DEF ToolLands, Change, bounds, VerdictsTypeOK, MindBecomes, JournalBecomes, JournalKept
  <2>6. (unreported \in BOOLEAN /\ outdated \in BOOLEAN /\ forgotten \in BOOLEAN)'
    BY <1>4, LandShape DEF ToolLands, Change, bounds, VerdictsTypeOK
  <2>7. QED BY <2>1, <2>2, <2>3, <2>4, <2>5, <2>6 DEF VerdictsTypeOK
<1>5. CASE Observe
  <2>1. (met \subseteq Criteria /\ metOnce \subseteq Criteria /\ remote \in {"none", "running", "ended"})'
    BY <1>5, ObserveShape DEF Observe, worldVars, bounds, VerdictsTypeOK
  <2>2. (version \in 1..MaxChanges /\ strays \in 0..MaxChanges)'
    BY <1>5, ObserveShape DEF Observe, worldVars, bounds, VerdictsTypeOK, InBounds
  <2>3. (looping \in {"turn", "calling", "observed", "answering", "accepted", "ended"})'
    BY <1>5, ObserveShape DEF Observe, worldVars, bounds, VerdictsTypeOK
  <2>4. (calling \in ToolCalls)'
    BY <1>5, ObserveShape, UndecidedTyped DEF Observe, worldVars, bounds, VerdictsTypeOK
  <2>5. (mind \in Minds /\ journaled \in Journals)'
    BY <1>5, ObserveShape, NothingTyped DEF Observe, worldVars, bounds, VerdictsTypeOK, MindBecomes, JournalBecomes, JournalKept
  <2>6. (unreported \in BOOLEAN /\ outdated \in BOOLEAN /\ forgotten \in BOOLEAN)'
    BY <1>5, ObserveShape DEF Observe, worldVars, bounds, VerdictsTypeOK
  <2>7. QED BY <2>1, <2>2, <2>3, <2>4, <2>5, <2>6 DEF VerdictsTypeOK
<1>6. CASE Judge
  <2>1. (met \subseteq Criteria /\ metOnce \subseteq Criteria /\ remote \in {"none", "running", "ended"})'
    BY <1>6, JudgeShape DEF Judge, worldVars, bounds, VerdictsTypeOK
  <2>2. (version \in 1..MaxChanges /\ strays \in 0..MaxChanges)'
    BY <1>6, JudgeShape DEF Judge, worldVars, bounds, VerdictsTypeOK, InBounds
  <2>3. (looping \in {"turn", "calling", "observed", "answering", "accepted", "ended"})'
    BY <1>6, JudgeShape DEF Judge, worldVars, bounds, VerdictsTypeOK
  <2>4. (calling \in ToolCalls)'
    BY <1>6, JudgeShape, UndecidedTyped DEF Judge, worldVars, bounds, VerdictsTypeOK
  <2>5. (mind \in Minds /\ journaled \in Journals)'
    BY <1>6, JudgeShape, NothingTyped DEF Judge, worldVars, bounds, VerdictsTypeOK, MindBecomes, JournalBecomes, JournalKept
  <2>6. (unreported \in BOOLEAN /\ outdated \in BOOLEAN /\ forgotten \in BOOLEAN)'
    BY <1>6, JudgeShape DEF Judge, worldVars, bounds, VerdictsTypeOK
  <2>7. QED BY <2>1, <2>2, <2>3, <2>4, <2>5, <2>6 DEF VerdictsTypeOK
<1>7. CASE StopTool
  <2>1. (met \subseteq Criteria /\ metOnce \subseteq Criteria /\ remote \in {"none", "running", "ended"})'
    BY <1>7, StopToolShape DEF StopTool, Abandon, bounds, VerdictsTypeOK
  <2>2. (version \in 1..MaxChanges /\ strays \in 0..MaxChanges)'
    BY <1>7, StopToolShape DEF StopTool, Abandon, bounds, VerdictsTypeOK, InBounds
  <2>3. (looping \in {"turn", "calling", "observed", "answering", "accepted", "ended"})'
    BY <1>7, StopToolShape DEF StopTool, Abandon, bounds, VerdictsTypeOK
  <2>4. (calling \in ToolCalls)'
    BY <1>7, StopToolShape, UndecidedTyped DEF StopTool, Abandon, bounds, VerdictsTypeOK
  <2>5. (mind \in Minds /\ journaled \in Journals)'
    BY <1>7, StopToolShape, NothingTyped DEF StopTool, Abandon, bounds, VerdictsTypeOK, MindBecomes, JournalBecomes, JournalKept
  <2>6. (unreported \in BOOLEAN /\ outdated \in BOOLEAN /\ forgotten \in BOOLEAN)'
    BY <1>7, StopToolShape DEF StopTool, Abandon, bounds, VerdictsTypeOK
  <2>7. QED BY <2>1, <2>2, <2>3, <2>4, <2>5, <2>6 DEF VerdictsTypeOK
<1>8. CASE Clarify
  <2>1. (met \subseteq Criteria /\ metOnce \subseteq Criteria /\ remote \in {"none", "running", "ended"})'
    BY <1>8, ClarifyShape DEF Clarify, bounds, VerdictsTypeOK
  <2>2. (version \in 1..MaxChanges /\ strays \in 0..MaxChanges)'
    BY <1>8, ClarifyShape DEF Clarify, bounds, VerdictsTypeOK, InBounds
  <2>3. (looping \in {"turn", "calling", "observed", "answering", "accepted", "ended"})'
    BY <1>8, ClarifyShape DEF Clarify, bounds, VerdictsTypeOK
  <2>4. (calling \in ToolCalls)'
    BY <1>8, ClarifyShape, UndecidedTyped DEF Clarify, bounds, VerdictsTypeOK
  <2>5. (mind \in Minds /\ journaled \in Journals)'
    BY <1>8, ClarifyShape, NothingTyped DEF Clarify, bounds, VerdictsTypeOK, MindBecomes, JournalBecomes, JournalKept
  <2>6. (unreported \in BOOLEAN /\ outdated \in BOOLEAN /\ forgotten \in BOOLEAN)'
    BY <1>8, ClarifyShape DEF Clarify, bounds, VerdictsTypeOK
  <2>7. QED BY <2>1, <2>2, <2>3, <2>4, <2>5, <2>6 DEF VerdictsTypeOK
<1>9. CASE SendBack
  <2>1. (met \subseteq Criteria /\ metOnce \subseteq Criteria /\ remote \in {"none", "running", "ended"})'
    BY <1>9, SendBackShape DEF SendBack, worldVars, bounds, VerdictsTypeOK
  <2>2. (version \in 1..MaxChanges /\ strays \in 0..MaxChanges)'
    BY <1>9, SendBackShape DEF SendBack, worldVars, bounds, VerdictsTypeOK, InBounds
  <2>3. (looping \in {"turn", "calling", "observed", "answering", "accepted", "ended"})'
    BY <1>9, SendBackShape DEF SendBack, worldVars, bounds, VerdictsTypeOK
  <2>4. (calling \in ToolCalls)'
    BY <1>9, SendBackShape, UndecidedTyped DEF SendBack, worldVars, bounds, VerdictsTypeOK
  <2>5. (mind \in Minds /\ journaled \in Journals)'
    BY <1>9, SendBackShape, NothingTyped DEF SendBack, worldVars, bounds, VerdictsTypeOK, MindBecomes, JournalBecomes, JournalKept
  <2>6. (unreported \in BOOLEAN /\ outdated \in BOOLEAN /\ forgotten \in BOOLEAN)'
    BY SMTT(60), <1>9, SendBackShape DEF SendBack, worldVars, bounds, VerdictsTypeOK
  <2>7. QED BY <2>1, <2>2, <2>3, <2>4, <2>5, <2>6 DEF VerdictsTypeOK
<1>10. CASE AcceptAnswer
  <2>1. (met \subseteq Criteria /\ metOnce \subseteq Criteria /\ remote \in {"none", "running", "ended"})'
    BY ZenonT(60), <1>10, AcceptShape DEF AcceptAnswer, worldVars, bounds, VerdictsTypeOK
  <2>2. (version \in 1..MaxChanges /\ strays \in 0..MaxChanges)'
    BY ZenonT(60), <1>10, AcceptShape DEF AcceptAnswer, worldVars, bounds, VerdictsTypeOK, InBounds
  <2>3. (looping \in {"turn", "calling", "observed", "answering", "accepted", "ended"})'
    BY ZenonT(60), <1>10, AcceptShape DEF AcceptAnswer, worldVars, bounds, VerdictsTypeOK
  <2>4. (calling \in ToolCalls)'
    BY ZenonT(60), <1>10, AcceptShape, UndecidedTyped DEF AcceptAnswer, worldVars, bounds, VerdictsTypeOK
  <2>5. (mind \in Minds /\ journaled \in Journals)'
    BY ZenonT(60), <1>10, AcceptShape, NothingTyped DEF AcceptAnswer, worldVars, bounds, VerdictsTypeOK, MindBecomes, JournalBecomes, JournalKept
  <2>6. (unreported \in BOOLEAN /\ outdated \in BOOLEAN /\ forgotten \in BOOLEAN)'
    BY <1>10, AcceptShape DEF AcceptAnswer, worldVars, bounds, VerdictsTypeOK
  <2>7. QED BY <2>1, <2>2, <2>3, <2>4, <2>5, <2>6 DEF VerdictsTypeOK
<1>11. CASE FinalResponse
  <2>1. (met \subseteq Criteria /\ metOnce \subseteq Criteria /\ remote \in {"none", "running", "ended"})'
    BY <1>11, FinalShape DEF FinalResponse, worldVars, bounds, VerdictsTypeOK
  <2>2. (version \in 1..MaxChanges /\ strays \in 0..MaxChanges)'
    BY <1>11, FinalShape DEF FinalResponse, worldVars, bounds, VerdictsTypeOK, InBounds
  <2>3. (looping \in {"turn", "calling", "observed", "answering", "accepted", "ended"})'
    BY <1>11, FinalShape DEF FinalResponse, worldVars, bounds, VerdictsTypeOK
  <2>4. (calling \in ToolCalls)'
    BY <1>11, FinalShape, UndecidedTyped DEF FinalResponse, worldVars, bounds, VerdictsTypeOK
  <2>5. (mind \in Minds /\ journaled \in Journals)'
    BY <1>11, FinalShape, NothingTyped DEF FinalResponse, worldVars, bounds, VerdictsTypeOK, MindBecomes, JournalBecomes, JournalKept
  <2>6. (unreported \in BOOLEAN /\ outdated \in BOOLEAN /\ forgotten \in BOOLEAN)'
    BY <1>11, FinalShape DEF FinalResponse, worldVars, bounds, VerdictsTypeOK
  <2>7. QED BY <2>1, <2>2, <2>3, <2>4, <2>5, <2>6 DEF VerdictsTypeOK
<1>12. CASE Ends
  <2>1. (met \subseteq Criteria /\ metOnce \subseteq Criteria /\ remote \in {"none", "running", "ended"})'
    BY <1>12, EndShape DEF worldVars, VerdictsTypeOK
  <2>2. (version \in 1..MaxChanges /\ strays \in 0..MaxChanges)'
    BY <1>12, EndShape DEF worldVars, VerdictsTypeOK, InBounds
  <2>3. (looping \in {"turn", "calling", "observed", "answering", "accepted", "ended"})'
    BY <1>12, EndShape DEF worldVars, VerdictsTypeOK
  <2>4. (calling \in ToolCalls)'
    BY <1>12, EndShape, UndecidedTyped DEF worldVars, VerdictsTypeOK
  <2>5. (mind \in Minds /\ journaled \in Journals)'
    BY <1>12, EndShape, NothingTyped DEF worldVars, VerdictsTypeOK, MindBecomes, JournalBecomes, JournalKept
  <2>6. (unreported \in BOOLEAN /\ outdated \in BOOLEAN /\ forgotten \in BOOLEAN)'
    <3>1. UNCHANGED <<unreported, forgotten>> /\ outdated' = FALSE
      BY <1>12, EndShape
    <3>2. QED BY <3>1 DEF VerdictsTypeOK
  <2>7. QED BY <2>1, <2>2, <2>3, <2>4, <2>5, <2>6 DEF VerdictsTypeOK
<1>13. CASE Disconnect
  <2>1. (met \subseteq Criteria /\ metOnce \subseteq Criteria /\ remote \in {"none", "running", "ended"})'
    BY <1>13, DisconnectShape DEF Disconnect, Abandon, worldVars, bounds, VerdictsTypeOK
  <2>2. (version \in 1..MaxChanges /\ strays \in 0..MaxChanges)'
    BY <1>13, DisconnectShape DEF Disconnect, Abandon, worldVars, bounds, VerdictsTypeOK, InBounds
  <2>3. (looping \in {"turn", "calling", "observed", "answering", "accepted", "ended"})'
    BY <1>13, DisconnectShape DEF Disconnect, Abandon, worldVars, bounds, VerdictsTypeOK
  <2>4. (calling \in ToolCalls)'
    BY <1>13, DisconnectShape, UndecidedTyped DEF Disconnect, Abandon, worldVars, bounds, VerdictsTypeOK
  <2>5. (mind \in Minds /\ journaled \in Journals)'
    BY <1>13, DisconnectShape, NothingTyped DEF Disconnect, Abandon, worldVars, bounds, VerdictsTypeOK, MindBecomes, JournalBecomes, JournalKept
  <2>6. (unreported \in BOOLEAN /\ outdated \in BOOLEAN /\ forgotten \in BOOLEAN)'
    BY <1>13, DisconnectShape DEF Disconnect, Abandon, worldVars, bounds, VerdictsTypeOK
  <2>7. QED BY <2>1, <2>2, <2>3, <2>4, <2>5, <2>6 DEF VerdictsTypeOK
<1>14. CASE ResumeRun
  <2>1. (met \subseteq Criteria /\ metOnce \subseteq Criteria /\ remote \in {"none", "running", "ended"})'
    BY <1>14, ResumeShape DEF ResumeRun, worldVars, bounds, VerdictsTypeOK
  <2>2. (version \in 1..MaxChanges /\ strays \in 0..MaxChanges)'
    BY <1>14, ResumeShape DEF ResumeRun, worldVars, bounds, VerdictsTypeOK, InBounds
  <2>3. (looping \in {"turn", "calling", "observed", "answering", "accepted", "ended"})'
    BY <1>14, ResumeShape DEF ResumeRun, worldVars, bounds, VerdictsTypeOK
  <2>4. (calling \in ToolCalls)'
    BY <1>14, ResumeShape, UndecidedTyped DEF ResumeRun, worldVars, bounds, VerdictsTypeOK
  <2>5. (mind \in Minds /\ journaled \in Journals)'
    BY <1>14, ResumeShape, NothingTyped DEF ResumeRun, worldVars, bounds, VerdictsTypeOK, MindBecomes, JournalBecomes, JournalKept
  <2>6. (unreported \in BOOLEAN /\ outdated \in BOOLEAN /\ forgotten \in BOOLEAN)'
    BY <1>14, ResumeShape DEF ResumeRun, worldVars, bounds, VerdictsTypeOK
  <2>7. QED BY <2>1, <2>2, <2>3, <2>4, <2>5, <2>6 DEF VerdictsTypeOK
<1>15. QED BY <1>1, <1>2, <1>3, <1>4, <1>5, <1>6, <1>7, <1>8, <1>9, <1>10, <1>11, <1>12, <1>13, <1>14 DEF VerdictsNext, Ends

LEMMA KeptNext ==
  ASSUME journaled' \in Journals
  PROVE  \A c \in Criteria : Kept(journaled)'[c] =
            IF journaled'.rowsEpoch = journaled'.epoch /\ journaled'.rows[c] \in {"confirmed", "failed", "skipped"}
            THEN journaled'.rows[c] ELSE "unconfirmed"
  BY KeptTyped

\* The journal's verdicts hold on when neither they nor the project change.
LEMMA JournalStays ==
  ASSUME VerdictsTypeOK, JournalTold, journaled' \in Journals,
         UNCHANGED <<met, metOnce, journaled.rows, journaled.rowsEpoch, journaled.epoch>>,
         ~unreported' /\ ~outdated' /\ ~EditLanded' => ~unreported /\ ~outdated /\ ~EditLanded
  PROVE  JournalTold'
<1>1. \A c \in Criteria : Kept(journaled)'[c] = Kept(journaled)[c]
  BY KeptNext, KeptTyped DEF VerdictsTypeOK
<1>2. QED BY <1>1 DEF JournalTold, Tells

LEMMA VerdictsToldStep ==
  ASSUME VerdictsInv, VerdictsNext, VerdictsTypeOK'
  PROVE  InBounds' /\ CallTold' /\ PastTold' /\ MindTold' /\ JournalTold' /\ CompletedTold' /\ AnswerTold'
<1>0. VerdictsTypeOK /\ InBounds /\ CallTold /\ PastTold /\ MindTold /\ JournalTold /\ CompletedTold /\ AnswerTold
  BY DEF VerdictsInv
<1>1. CASE StrayLands
  <2>1. InBounds'
    BY <1>0, <1>1, UndecidedTyped DEF StrayLands, Change, bounds, InBounds, VerdictsTypeOK
  <2>2. CallTold'
    BY <1>0, <1>1, UndecidedTyped DEF StrayLands, Change, bounds, CallTold, PastTold, NoToolCall, VerdictsTypeOK
  <2>3. PastTold'
    BY <1>0, <1>1, InvalidateTyped, FinalizedTyped, ReportTyped, UndecidedTyped, NothingTyped, KeptTyped, MindTyped DEF StrayLands, Change, bounds, PastTold, CallTold, VerdictsTypeOK, MindBecomes, JournalBecomes, JournalKept
  <2>4. MindTold'
    BY <1>0, <1>1, InvalidateTyped, FinalizedTyped, UndecidedTyped, NothingTyped, MindTyped DEF StrayLands, Change, bounds, MindTold, PastTold, CallTold, JournalTold, EditLanded, Tells, VerdictsTypeOK, MindBecomes, JournalBecomes, JournalKept
  <2>5. JournalTold'
    BY <1>0, <1>1, ReportTyped, UndecidedTyped, KeptTyped, MindTyped, JournalTyped DEF StrayLands, Change, bounds, JournalTold, MindTold, PastTold, CallTold, EditLanded, Tells, VerdictsTypeOK, MindBecomes, JournalBecomes, JournalKept
  <2>6. CompletedTold'
    BY <1>0, <1>1, ReportTyped, NothingTyped DEF StrayLands, Change, bounds, CompletedTold, Mandatory, VerdictsTypeOK, MindBecomes, JournalBecomes, JournalKept
  <2>7. AnswerTold'
    BY <1>0, <1>1 DEF StrayLands, Change, bounds, AnswerTold, CallTold, VerdictsTypeOK, MindBecomes, JournalBecomes, JournalKept
  <2>8. QED BY <2>1, <2>2, <2>3, <2>4, <2>5, <2>6, <2>7
<1>2. CASE RemoteEnds
  <2>1. InBounds'
    BY <1>0, <1>2, UndecidedTyped DEF RemoteEnds, bounds, InBounds, VerdictsTypeOK
  <2>2. CallTold'
    BY <1>0, <1>2, UndecidedTyped DEF RemoteEnds, bounds, CallTold, PastTold, NoToolCall, VerdictsTypeOK
  <2>3. PastTold'
    BY <1>0, <1>2, InvalidateTyped, FinalizedTyped, ReportTyped, UndecidedTyped, NothingTyped, KeptTyped, MindTyped DEF RemoteEnds, bounds, PastTold, CallTold, VerdictsTypeOK, MindBecomes, JournalBecomes, JournalKept
  <2>4. MindTold'
    BY <1>0, <1>2, InvalidateTyped, FinalizedTyped, UndecidedTyped, NothingTyped, MindTyped DEF RemoteEnds, bounds, MindTold, PastTold, CallTold, JournalTold, EditLanded, Tells, VerdictsTypeOK, MindBecomes, JournalBecomes, JournalKept
  <2>5. JournalTold'
    BY <1>0, <1>2, ReportTyped, UndecidedTyped, KeptTyped, MindTyped, JournalTyped DEF RemoteEnds, bounds, JournalTold, MindTold, PastTold, CallTold, EditLanded, Tells, VerdictsTypeOK, MindBecomes, JournalBecomes, JournalKept
  <2>6. CompletedTold'
    BY <1>0, <1>2, ReportTyped, NothingTyped DEF RemoteEnds, bounds, CompletedTold, Mandatory, VerdictsTypeOK, MindBecomes, JournalBecomes, JournalKept
  <2>7. AnswerTold'
    BY <1>0, <1>2 DEF RemoteEnds, bounds, AnswerTold, CallTold, VerdictsTypeOK, MindBecomes, JournalBecomes, JournalKept
  <2>8. QED BY <2>1, <2>2, <2>3, <2>4, <2>5, <2>6, <2>7
<1>3. CASE AskTool
  <2>1. InBounds'
    BY <1>0, <1>3, AskShape, UndecidedTyped DEF AskTool, worldVars, bounds, InBounds, VerdictsTypeOK
  <2>2. CallTold'
    BY <1>0, <1>3, AskShape, UndecidedTyped DEF AskTool, worldVars, bounds, CallTold, PastTold, NoToolCall, VerdictsTypeOK
  <2>3. PastTold'
    BY <1>0, <1>3, AskShape, InvalidateTyped, FinalizedTyped, ReportTyped, UndecidedTyped, NothingTyped, KeptTyped, MindTyped DEF AskTool, worldVars, bounds, PastTold, CallTold, VerdictsTypeOK, MindBecomes, JournalBecomes, JournalKept
  <2>4. MindTold'
    BY <1>0, <1>3, AskShape, InvalidateTyped, FinalizedTyped, UndecidedTyped, NothingTyped, MindTyped DEF AskTool, worldVars, bounds, MindTold, PastTold, CallTold, JournalTold, EditLanded, Tells, VerdictsTypeOK, MindBecomes, JournalBecomes, JournalKept
  <2>5. JournalTold'
    BY <1>0, <1>3, AskShape, ReportTyped, UndecidedTyped, KeptTyped, MindTyped, JournalTyped DEF AskTool, worldVars, bounds, JournalTold, MindTold, PastTold, CallTold, EditLanded, Tells, VerdictsTypeOK, MindBecomes, JournalBecomes, JournalKept
  <2>6. CompletedTold'
    BY <1>0, <1>3, AskShape, ReportTyped, NothingTyped DEF AskTool, worldVars, bounds, CompletedTold, Mandatory, VerdictsTypeOK, MindBecomes, JournalBecomes, JournalKept
  <2>7. AnswerTold'
    BY <1>0, <1>3, AskShape DEF AskTool, worldVars, bounds, AnswerTold, CallTold, VerdictsTypeOK, MindBecomes, JournalBecomes, JournalKept
  <2>8. QED BY <2>1, <2>2, <2>3, <2>4, <2>5, <2>6, <2>7
<1>4. CASE ToolLands
  <2>1. InBounds'
    BY <1>0, <1>4, LandShape, UndecidedTyped DEF ToolLands, Change, bounds, InBounds, VerdictsTypeOK
  <2>2. CallTold'
    <3>1. /\ looping = "calling" /\ looping' = "calling" /\ met \subseteq metOnce
          /\ metOnce \subseteq metOnce' /\ unreported' = (unreported \/ calling.kind = "shell")
          /\ calling.kind \notin {"edit", "shell"} => met' = met
          /\ remote' = IF calling.kind = "redirect" THEN "running" ELSE remote
          /\ calling.kind = "redirect" => remote = "none"
      BY <1>0, <1>4 DEF ToolLands, Change, CallTold, PastTold
    <3>2. QED BY <1>0, <1>4, <3>1, LandShape DEF CallTold, VerdictsTypeOK
  <2>3. PastTold'
    BY <1>0, <1>4, LandShape, InvalidateTyped, FinalizedTyped, ReportTyped, UndecidedTyped, NothingTyped, KeptTyped, MindTyped DEF ToolLands, Change, bounds, PastTold, CallTold, VerdictsTypeOK, MindBecomes, JournalBecomes, JournalKept
  <2>4. MindTold'
    BY ZenonT(60), <1>0, <1>4, LandShape, InvalidateTyped, FinalizedTyped, UndecidedTyped, NothingTyped, MindTyped DEF ToolLands, Change, bounds, MindTold, PastTold, CallTold, JournalTold, EditLanded, Tells, VerdictsTypeOK, MindBecomes, JournalBecomes, JournalKept
  <2>5. JournalTold'
    BY ZenonT(60), <1>0, <1>4, LandShape, ReportTyped, UndecidedTyped, KeptTyped, MindTyped, JournalTyped DEF ToolLands, Change, bounds, JournalTold, MindTold, PastTold, CallTold, EditLanded, Tells, VerdictsTypeOK, MindBecomes, JournalBecomes, JournalKept
  <2>6. CompletedTold'
    BY <1>0, <1>4, LandShape, ReportTyped, NothingTyped DEF ToolLands, Change, bounds, CompletedTold, Mandatory, VerdictsTypeOK, MindBecomes, JournalBecomes, JournalKept
  <2>7. AnswerTold'
    BY <1>0, <1>4, LandShape DEF ToolLands, Change, bounds, AnswerTold, CallTold, VerdictsTypeOK, MindBecomes, JournalBecomes, JournalKept
  <2>8. QED BY <2>1, <2>2, <2>3, <2>4, <2>5, <2>6, <2>7
<1>5. CASE Observe
  <2>1. InBounds'
    BY <1>0, <1>5, ObserveShape, UndecidedTyped DEF Observe, worldVars, bounds, InBounds, VerdictsTypeOK
  <2>2. CallTold'
    BY <1>0, <1>5, ObserveShape, UndecidedTyped DEF Observe, worldVars, bounds, CallTold, PastTold, NoToolCall, VerdictsTypeOK
  <2>3. PastTold'
    BY <1>0, <1>5, ObserveShape, InvalidateTyped, FinalizedTyped, ReportTyped, UndecidedTyped, NothingTyped, KeptTyped, MindTyped DEF Observe, worldVars, bounds, PastTold, CallTold, VerdictsTypeOK, MindBecomes, JournalBecomes, JournalKept
  <2>4. MindTold'
    BY <1>0, <1>5, ObserveShape, InvalidateTyped, FinalizedTyped, UndecidedTyped, NothingTyped, MindTyped DEF Observe, worldVars, bounds, MindTold, PastTold, CallTold, JournalTold, EditLanded, Tells, VerdictsTypeOK, MindBecomes, JournalBecomes, JournalKept
  <2>5. JournalTold'
    <3>1. /\ looping' = "observed" /\ UNCHANGED <<met, metOnce>>
          /\ calling.kind # "edit" => UNCHANGED <<unreported, outdated>>
      BY <1>0, <1>5 DEF Observe, worldVars, VerdictsTypeOK
    <3>2. CASE calling.kind = "edit"
      <4>1. /\ journaled' \in Journals /\ journaled'.rowsEpoch = -1 /\ journaled'.epoch = journaled.epoch + 1
            /\ journaled.epoch \in Nat
        BY <1>0, <1>5, <3>2, ObserveShape, JournalTyped DEF JournalBecomes, VerdictsTypeOK
      <4>2. \A c \in Criteria : Kept(journaled)'[c] = "unconfirmed"
        BY <4>1, KeptNext
      <4>3. QED BY <4>2 DEF JournalTold, Tells
    <3>3. CASE calling.kind # "edit"
      <4>1. JournalKept /\ ~EditLanded
        BY <1>0, <1>5, <3>3, ObserveShape DEF JournalKept, EditLanded
      <4>2. QED BY <1>0, <3>1, <3>3, <4>1, JournalStays DEF JournalKept, JournalBecomes
    <3>4. QED BY <3>2, <3>3
  <2>6. CompletedTold'
    BY <1>0, <1>5, ObserveShape, ReportTyped, NothingTyped DEF Observe, worldVars, bounds, CompletedTold, Mandatory, VerdictsTypeOK, MindBecomes, JournalBecomes, JournalKept
  <2>7. AnswerTold'
    BY <1>0, <1>5, ObserveShape DEF Observe, worldVars, bounds, AnswerTold, CallTold, VerdictsTypeOK, MindBecomes, JournalBecomes, JournalKept
  <2>8. QED BY <2>1, <2>2, <2>3, <2>4, <2>5, <2>6, <2>7
<1>6. CASE Judge
  <2>1. InBounds'
    BY <1>0, <1>6, JudgeShape, UndecidedTyped DEF Judge, worldVars, bounds, InBounds, VerdictsTypeOK
  <2>2. CallTold'
    BY <1>0, <1>6, JudgeShape, UndecidedTyped DEF Judge, worldVars, bounds, CallTold, PastTold, NoToolCall, VerdictsTypeOK
  <2>3. PastTold'
    BY <1>0, <1>6, JudgeShape, InvalidateTyped, FinalizedTyped, ReportTyped, UndecidedTyped, NothingTyped, KeptTyped, MindTyped DEF Judge, worldVars, bounds, PastTold, CallTold, VerdictsTypeOK, MindBecomes, JournalBecomes, JournalKept
  <2>4. MindTold'
    BY <1>0, <1>6, JudgeShape, InvalidateTyped, FinalizedTyped, UndecidedTyped, NothingTyped, MindTyped DEF Judge, worldVars, bounds, MindTold, PastTold, CallTold, JournalTold, EditLanded, Tells, VerdictsTypeOK, MindBecomes, JournalBecomes, JournalKept
  <2>5. JournalTold'
    BY <1>0, <1>6, JudgeShape, ReportTyped, UndecidedTyped, KeptTyped, MindTyped, JournalTyped DEF Judge, worldVars, bounds, JournalTold, MindTold, PastTold, CallTold, EditLanded, Tells, VerdictsTypeOK, MindBecomes, JournalBecomes, JournalKept
  <2>6. CompletedTold'
    BY <1>0, <1>6, JudgeShape, ReportTyped, NothingTyped DEF Judge, worldVars, bounds, CompletedTold, Mandatory, VerdictsTypeOK, MindBecomes, JournalBecomes, JournalKept
  <2>7. AnswerTold'
    BY <1>0, <1>6, JudgeShape DEF Judge, worldVars, bounds, AnswerTold, CallTold, VerdictsTypeOK, MindBecomes, JournalBecomes, JournalKept
  <2>8. QED BY <2>1, <2>2, <2>3, <2>4, <2>5, <2>6, <2>7
<1>7. CASE StopTool
  <2>1. InBounds'
    BY <1>0, <1>7, StopToolShape, UndecidedTyped DEF StopTool, Abandon, bounds, InBounds, VerdictsTypeOK
  <2>2. CallTold'
    BY <1>0, <1>7, StopToolShape, UndecidedTyped DEF StopTool, Abandon, bounds, CallTold, PastTold, NoToolCall, VerdictsTypeOK
  <2>3. PastTold'
    BY <1>0, <1>7, StopToolShape, InvalidateTyped, FinalizedTyped, ReportTyped, UndecidedTyped, NothingTyped, KeptTyped, MindTyped DEF StopTool, Abandon, bounds, PastTold, CallTold, VerdictsTypeOK, MindBecomes, JournalBecomes, JournalKept
  <2>4. MindTold'
    <3>1. /\ mind'.verdict = mind.verdict /\ looping = "calling" /\ UNCHANGED <<met, metOnce>>
          /\ unreported' = (unreported \/ (calling.kind = "edit" /\ calling.landed))
      BY <1>0, <1>7, StopToolShape DEF StopTool, Abandon, MindBecomes
    <3>2. QED BY <1>0, <3>1 DEF MindTold, EditLanded, Tells
  <2>5. JournalTold'
    <3>1. /\ JournalKept /\ looping = "calling" /\ UNCHANGED <<met, metOnce, outdated>>
          /\ unreported' = (unreported \/ (calling.kind = "edit" /\ calling.landed))
      BY <1>0, <1>7, StopToolShape DEF StopTool, Abandon
    <3>2. QED BY <1>0, <3>1, JournalStays DEF JournalKept, JournalBecomes, EditLanded
  <2>6. CompletedTold'
    BY <1>0, <1>7, StopToolShape, ReportTyped, NothingTyped DEF StopTool, Abandon, bounds, CompletedTold, Mandatory, VerdictsTypeOK, MindBecomes, JournalBecomes, JournalKept
  <2>7. AnswerTold'
    BY <1>0, <1>7, StopToolShape DEF StopTool, Abandon, bounds, AnswerTold, CallTold, VerdictsTypeOK, MindBecomes, JournalBecomes, JournalKept
  <2>8. QED BY <2>1, <2>2, <2>3, <2>4, <2>5, <2>6, <2>7
<1>8. CASE Clarify
  <2>1. InBounds'
    BY <1>0, <1>8, ClarifyShape, UndecidedTyped DEF Clarify, bounds, InBounds, VerdictsTypeOK
  <2>2. CallTold'
    <3>1. /\ looping \in {"turn", "answering"} /\ looping' = "turn" /\ calling' = calling /\ remote' = remote
          /\ unreported' = unreported /\ met' \subseteq metOnce' /\ metOnce \subseteq metOnce'
      BY <1>8 DEF Clarify
    <3>2. calling' = NoToolCall
      BY <1>0, <3>1 DEF CallTold
    <3>3. QED BY <3>1, <3>2 DEF CallTold, NoToolCall
  <2>3. PastTold'
    <3>1. /\ looping \in {"turn", "answering"} /\ looping' = "turn" /\ calling' = calling /\ remote' = remote
          /\ unreported' = unreported /\ met' \subseteq metOnce' /\ metOnce \subseteq metOnce'
      BY <1>8 DEF Clarify
    <3>2. mind'.verdict = Invalidate(mind.verdict) /\ journaled'.rows = journaled.rows
      BY <1>0, <1>8, ClarifyShape DEF MindBecomes, JournalBecomes
    <3>3. \A c \in Criteria : Invalidate(mind.verdict)[c] =
             IF c \notin Historical /\ mind.verdict[c] \in {"confirmed", "failed"} THEN "unconfirmed" ELSE mind.verdict[c]
      BY <1>0, InvalidateTyped, MindTyped DEF VerdictsTypeOK
    <3>4. QED BY <1>0, <3>1, <3>2, <3>3, VerdictsAssumption DEF PastTold
  <2>4. MindTold'
    <3>1. /\ looping \in {"turn", "answering"} /\ looping' = "turn" /\ calling' = calling /\ remote' = remote
          /\ unreported' = unreported /\ met' \subseteq metOnce' /\ metOnce \subseteq metOnce'
      BY <1>8 DEF Clarify
    <3>2. mind'.verdict = Invalidate(mind.verdict) /\ journaled'.rows = journaled.rows
      BY <1>0, <1>8, ClarifyShape DEF MindBecomes, JournalBecomes
    <3>3. \A c \in Criteria : Invalidate(mind.verdict)[c] =
             IF c \notin Historical /\ mind.verdict[c] \in {"confirmed", "failed"} THEN "unconfirmed" ELSE mind.verdict[c]
      BY <1>0, InvalidateTyped, MindTyped DEF VerdictsTypeOK
    <3>4. QED BY <1>0, <3>1, <3>2, <3>3 DEF MindTold, PastTold, Tells
  <2>5. JournalTold'
    BY <1>0, <1>8, ClarifyShape, ReportTyped, UndecidedTyped, KeptTyped, MindTyped, JournalTyped DEF Clarify, bounds, JournalTold, MindTold, PastTold, CallTold, EditLanded, Tells, VerdictsTypeOK, MindBecomes, JournalBecomes, JournalKept
  <2>6. CompletedTold'
    BY <1>0, <1>8, ClarifyShape, ReportTyped, NothingTyped DEF Clarify, bounds, CompletedTold, Mandatory, VerdictsTypeOK, MindBecomes, JournalBecomes, JournalKept
  <2>7. AnswerTold'
    BY <1>0, <1>8, ClarifyShape DEF Clarify, bounds, AnswerTold, CallTold, VerdictsTypeOK, MindBecomes, JournalBecomes, JournalKept
  <2>8. QED BY <2>1, <2>2, <2>3, <2>4, <2>5, <2>6, <2>7
<1>9. CASE SendBack
  <2>1. InBounds'
    BY <1>0, <1>9, SendBackShape, UndecidedTyped DEF SendBack, worldVars, bounds, InBounds, VerdictsTypeOK
  <2>2. CallTold'
    BY <1>0, <1>9, SendBackShape, UndecidedTyped DEF SendBack, worldVars, bounds, CallTold, PastTold, NoToolCall, VerdictsTypeOK
  <2>3. PastTold'
    BY <1>0, <1>9, SendBackShape, InvalidateTyped, FinalizedTyped, ReportTyped, UndecidedTyped, NothingTyped, KeptTyped, MindTyped DEF SendBack, worldVars, bounds, PastTold, CallTold, VerdictsTypeOK, MindBecomes, JournalBecomes, JournalKept
  <2>4. MindTold'
    BY <1>0, <1>9, SendBackShape, InvalidateTyped, FinalizedTyped, UndecidedTyped, NothingTyped, MindTyped DEF SendBack, worldVars, bounds, MindTold, PastTold, CallTold, JournalTold, EditLanded, Tells, VerdictsTypeOK, MindBecomes, JournalBecomes, JournalKept
  <2>5. JournalTold'
    BY <1>0, <1>9, SendBackShape, ReportTyped, UndecidedTyped, KeptTyped, MindTyped, JournalTyped DEF SendBack, worldVars, bounds, JournalTold, MindTold, PastTold, CallTold, EditLanded, Tells, VerdictsTypeOK, MindBecomes, JournalBecomes, JournalKept
  <2>6. CompletedTold'
    BY <1>0, <1>9, SendBackShape, ReportTyped, NothingTyped DEF SendBack, worldVars, bounds, CompletedTold, Mandatory, VerdictsTypeOK, MindBecomes, JournalBecomes, JournalKept
  <2>7. AnswerTold'
    BY SMTT(60), <1>0, <1>9, SendBackShape DEF SendBack, worldVars, bounds, AnswerTold, CallTold, VerdictsTypeOK, MindBecomes, JournalBecomes, JournalKept
  <2>8. QED BY <2>1, <2>2, <2>3, <2>4, <2>5, <2>6, <2>7
<1>10. CASE AcceptAnswer
  <2>1. InBounds'
    BY ZenonT(60), <1>0, <1>10, AcceptShape, UndecidedTyped DEF AcceptAnswer, worldVars, bounds, InBounds, VerdictsTypeOK
  <2>2. CallTold'
    BY <1>0, <1>10, AcceptShape, UndecidedTyped DEF AcceptAnswer, worldVars, bounds, CallTold, PastTold, NoToolCall, VerdictsTypeOK
  <2>3. PastTold'
    <3>1. /\ looping = "turn" /\ looping' = "answering" /\ ~mind.waits
          /\ UNCHANGED <<met, metOnce, version, remote, journaled, unreported, forgotten>>
      BY <1>10 DEF AcceptAnswer, worldVars
    <3>2. /\ mind'.verdict = Finalized(mind.spec, mind.verdict)
          /\ \A c \in Criteria : mind'.verdict[c] \in {mind.verdict[c], "skipped"}
      BY <1>0, <1>10, AcceptShape, FinalizedTyped, MindTyped DEF MindBecomes, VerdictsTypeOK
    <3>3. QED BY <1>0, <3>1, <3>2, VerdictsAssumption DEF PastTold
  <2>4. MindTold'
    <3>1. /\ looping = "turn" /\ looping' = "answering" /\ ~mind.waits
          /\ UNCHANGED <<met, metOnce, version, remote, journaled, unreported, forgotten>>
      BY <1>10 DEF AcceptAnswer, worldVars
    <3>2. /\ mind'.verdict = Finalized(mind.spec, mind.verdict)
          /\ \A c \in Criteria : mind'.verdict[c] \in {mind.verdict[c], "skipped"}
      BY <1>0, <1>10, AcceptShape, FinalizedTyped, MindTyped DEF MindBecomes, VerdictsTypeOK
    <3>3. QED BY SMTT(60), <1>0, <3>1, <3>2 DEF MindTold, EditLanded, Tells
  <2>5. JournalTold'
    BY ZenonT(60), <1>0, <1>10, AcceptShape, ReportTyped, UndecidedTyped, KeptTyped, MindTyped, JournalTyped DEF AcceptAnswer, worldVars, bounds, JournalTold, MindTold, PastTold, CallTold, EditLanded, Tells, VerdictsTypeOK, MindBecomes, JournalBecomes, JournalKept
  <2>6. CompletedTold'
    BY <1>0, <1>10, AcceptShape, ReportTyped, NothingTyped DEF AcceptAnswer, worldVars, bounds, CompletedTold, Mandatory, VerdictsTypeOK, MindBecomes, JournalBecomes, JournalKept
  <2>7. AnswerTold'
    <3>1. /\ looping = "turn" /\ looping' = "answering" /\ ~mind.waits
          /\ UNCHANGED <<met, metOnce, version, remote, journaled, unreported, forgotten>>
      BY <1>10 DEF AcceptAnswer, worldVars
    <3>2. /\ mind'.verdict = Finalized(mind.spec, mind.verdict)
          /\ \A c \in Criteria : mind'.verdict[c] \in {mind.verdict[c], "skipped"}
      BY <1>0, <1>10, AcceptShape, FinalizedTyped, MindTyped DEF MindBecomes, VerdictsTypeOK
    <3>3. /\ mind'.receipt = Refreshed(mind.receipt) /\ mind'.tried = mind.tried /\ mind'.receipt \in Receipts
          /\ mind'.answer = "complete" /\ mind.tried => mind'.receipt.status = "published"
          /\ mind'.receipt.status = "published" => mind'.receipt.of = version
      BY <1>0, <1>10, AcceptShape, RefreshedTyped, MindTyped DEF MindBecomes, VerdictsTypeOK
    <3>4. mind'.receipt.status = "published" => mind'.receipt = [status |-> "published", of |-> version]
      BY <3>3 DEF Receipts
    <3>5. remote = "running" => forgotten
      BY <1>0, <3>1 DEF AnswerTold
    <3>6. QED BY <3>1, <3>3, <3>4, <3>5 DEF AnswerTold
  <2>8. QED BY <2>1, <2>2, <2>3, <2>4, <2>5, <2>6, <2>7
<1>11. CASE FinalResponse
  <2>1. InBounds'
    BY <1>0, <1>11, FinalShape, UndecidedTyped DEF FinalResponse, worldVars, bounds, InBounds, VerdictsTypeOK
  <2>2. CallTold'
    BY <1>0, <1>11, FinalShape, UndecidedTyped DEF FinalResponse, worldVars, bounds, CallTold, PastTold, NoToolCall, VerdictsTypeOK
  <2>3. PastTold'
    BY <1>0, <1>11, FinalShape, InvalidateTyped, FinalizedTyped, ReportTyped, UndecidedTyped, NothingTyped, KeptTyped, MindTyped DEF FinalResponse, worldVars, bounds, PastTold, CallTold, VerdictsTypeOK, MindBecomes, JournalBecomes, JournalKept
  <2>4. MindTold'
    BY <1>0, <1>11, FinalShape, InvalidateTyped, FinalizedTyped, UndecidedTyped, NothingTyped, MindTyped DEF FinalResponse, worldVars, bounds, MindTold, PastTold, CallTold, JournalTold, EditLanded, Tells, VerdictsTypeOK, MindBecomes, JournalBecomes, JournalKept
  <2>5. JournalTold'
    <3>1. /\ JournalKept /\ looping # "calling" /\ UNCHANGED <<met, metOnce, unreported, outdated>>
      BY <1>0, <1>11, FinalShape DEF FinalResponse, worldVars
    <3>2. QED BY <1>0, <3>1, JournalStays DEF JournalKept, JournalBecomes, EditLanded
  <2>6. CompletedTold'
    BY <1>0, <1>11, FinalShape, ReportTyped, NothingTyped DEF FinalResponse, worldVars, bounds, CompletedTold, Mandatory, VerdictsTypeOK, MindBecomes, JournalBecomes, JournalKept
  <2>7. AnswerTold'
    BY <1>0, <1>11, FinalShape DEF FinalResponse, worldVars, bounds, AnswerTold, CallTold, VerdictsTypeOK, MindBecomes, JournalBecomes, JournalKept
  <2>8. QED BY <2>1, <2>2, <2>3, <2>4, <2>5, <2>6, <2>7
<1>12. CASE Ends
  <2>1. InBounds'
    BY <1>0, <1>12, EndShape, UndecidedTyped DEF worldVars, InBounds, VerdictsTypeOK
  <2>2. CallTold'
    BY <1>0, <1>12, EndShape, UndecidedTyped DEF worldVars, CallTold, PastTold, NoToolCall, VerdictsTypeOK
  <2>3. PastTold'
    BY <1>0, <1>12, EndShape, InvalidateTyped, FinalizedTyped, ReportTyped, UndecidedTyped, NothingTyped, KeptTyped, MindTyped DEF worldVars, PastTold, CallTold, VerdictsTypeOK, MindBecomes, JournalBecomes, JournalKept
  <2>4. MindTold'
    BY <1>0, <1>12, EndShape, InvalidateTyped, FinalizedTyped, UndecidedTyped, NothingTyped, MindTyped DEF worldVars, MindTold, PastTold, CallTold, JournalTold, EditLanded, Tells, VerdictsTypeOK, MindBecomes, JournalBecomes, JournalKept
  <2>5. JournalTold'
    BY <1>0, <1>12, EndShape, ReportTyped, UndecidedTyped, KeptTyped, MindTyped, JournalTyped DEF worldVars, JournalTold, MindTold, PastTold, CallTold, EditLanded, Tells, VerdictsTypeOK, MindBecomes, JournalBecomes, JournalKept
  <2>6. CompletedTold'
    <3>1. /\ looping \in {"turn", "accepted"} /\ looping' = "ended" /\ outdated' = FALSE
          /\ journaled'.spec = mind.spec /\ journaled'.rowsEpoch = journaled'.epoch
          /\ journaled'.status = "completed" => /\ journaled'.rows = Report(mind.spec, mind.verdict)
                                                /\ \A c \in Mandatory(mind.spec) : mind.verdict[c] = "confirmed"
      BY <1>0, <1>12, EndShape DEF JournalBecomes, CompletedTold
    <3>2. \A c \in Mandatory(mind.spec) : Report(mind.spec, mind.verdict)[c] = mind.verdict[c]
      BY <1>0, ReportTyped, MindTyped DEF VerdictsTypeOK, Mandatory
    <3>3. QED BY <3>1, <3>2 DEF CompletedTold
  <2>7. AnswerTold'
    BY <1>0, <1>12, EndShape DEF worldVars, AnswerTold, CallTold, VerdictsTypeOK, MindBecomes, JournalBecomes, JournalKept
  <2>8. QED BY <2>1, <2>2, <2>3, <2>4, <2>5, <2>6, <2>7
<1>13. CASE Disconnect
  <2>1. InBounds'
    BY <1>0, <1>13, DisconnectShape, UndecidedTyped DEF Disconnect, Abandon, worldVars, bounds, InBounds, VerdictsTypeOK
  <2>2. CallTold'
    BY <1>0, <1>13, DisconnectShape, UndecidedTyped DEF Disconnect, Abandon, worldVars, bounds, CallTold, PastTold, NoToolCall, VerdictsTypeOK
  <2>3. PastTold'
    BY <1>0, <1>13, DisconnectShape, InvalidateTyped, FinalizedTyped, ReportTyped, UndecidedTyped, NothingTyped, KeptTyped, MindTyped DEF Disconnect, Abandon, worldVars, bounds, PastTold, CallTold, VerdictsTypeOK, MindBecomes, JournalBecomes, JournalKept
  <2>4. MindTold'
    BY <1>0, <1>13, DisconnectShape, InvalidateTyped, FinalizedTyped, UndecidedTyped, NothingTyped, MindTyped DEF Disconnect, Abandon, worldVars, bounds, MindTold, PastTold, CallTold, JournalTold, EditLanded, Tells, VerdictsTypeOK, MindBecomes, JournalBecomes, JournalKept
  <2>5. JournalTold'
    <3>1. /\ JournalBecomes("interrupted", journaled.spec, journaled.rows, journaled.rowsEpoch, journaled.epoch)
          /\ UNCHANGED <<met, metOnce, outdated>>
          /\ IF looping = "calling" THEN unreported' = (unreported \/ (calling.kind = "edit" /\ calling.landed))
             ELSE unreported' = unreported
      BY <1>0, <1>13, DisconnectShape DEF Disconnect, Abandon, worldVars
    <3>2. QED BY <1>0, <3>1, JournalStays DEF JournalBecomes, EditLanded
  <2>6. CompletedTold'
    BY <1>0, <1>13, DisconnectShape, ReportTyped, NothingTyped DEF Disconnect, Abandon, worldVars, bounds, CompletedTold, Mandatory, VerdictsTypeOK, MindBecomes, JournalBecomes, JournalKept
  <2>7. AnswerTold'
    BY <1>0, <1>13, DisconnectShape DEF Disconnect, Abandon, worldVars, bounds, AnswerTold, CallTold, VerdictsTypeOK, MindBecomes, JournalBecomes, JournalKept
  <2>8. QED BY <2>1, <2>2, <2>3, <2>4, <2>5, <2>6, <2>7
<1>14. CASE ResumeRun
  <2>1. InBounds'
    BY <1>0, <1>14, ResumeShape, UndecidedTyped DEF ResumeRun, worldVars, bounds, InBounds, VerdictsTypeOK
  <2>2. CallTold'
    BY <1>0, <1>14, ResumeShape, UndecidedTyped DEF ResumeRun, worldVars, bounds, CallTold, PastTold, NoToolCall, VerdictsTypeOK
  <2>3. PastTold'
    BY <1>0, <1>14, ResumeShape, InvalidateTyped, FinalizedTyped, ReportTyped, UndecidedTyped, NothingTyped, KeptTyped, MindTyped DEF ResumeRun, worldVars, bounds, PastTold, CallTold, VerdictsTypeOK, MindBecomes, JournalBecomes, JournalKept
  <2>4. MindTold'
    BY <1>0, <1>14, ResumeShape, InvalidateTyped, FinalizedTyped, UndecidedTyped, NothingTyped, MindTyped DEF ResumeRun, worldVars, bounds, MindTold, PastTold, CallTold, JournalTold, EditLanded, Tells, VerdictsTypeOK, MindBecomes, JournalBecomes, JournalKept
  <2>5. JournalTold'
    <3>1. /\ JournalBecomes("running", journaled.spec, journaled.rows, journaled.rowsEpoch, journaled.epoch)
          /\ UNCHANGED <<met, metOnce, outdated>> /\ unreported' = (unreported \/ outdated) /\ looping = "ended"
      BY <1>0, <1>14, ResumeShape DEF ResumeRun, worldVars
    <3>2. QED BY <1>0, <3>1, JournalStays DEF JournalBecomes, EditLanded
  <2>6. CompletedTold'
    BY <1>0, <1>14, ResumeShape, ReportTyped, NothingTyped DEF ResumeRun, worldVars, bounds, CompletedTold, Mandatory, VerdictsTypeOK, MindBecomes, JournalBecomes, JournalKept
  <2>7. AnswerTold'
    BY <1>0, <1>14, ResumeShape DEF ResumeRun, worldVars, bounds, AnswerTold, CallTold, VerdictsTypeOK, MindBecomes, JournalBecomes, JournalKept
  <2>8. QED BY <2>1, <2>2, <2>3, <2>4, <2>5, <2>6, <2>7
<1>15. QED BY <1>1, <1>2, <1>3, <1>4, <1>5, <1>6, <1>7, <1>8, <1>9, <1>10, <1>11, <1>12, <1>13, <1>14 DEF VerdictsNext, Ends

LEMMA VerdictsInitial ==
  ASSUME VerdictsInit
  PROVE  VerdictsInv
<1>1. PICK asks \in {{}, Criteria \ Clarifying} :
         /\ mind = [Nothing EXCEPT !.spec = asks]
         /\ journaled = [status |-> "running", resumable |-> FALSE, completion |-> "none",
                         answer |-> "complete", spec |-> asks, rows |-> NoRows, rowsEpoch |-> 0,
                         epoch |-> 0, receipt |-> NoReceipt, tried |-> FALSE, quoted |-> FALSE]
  BY DEF VerdictsInit
<1>2. /\ met \in SUBSET Criteria /\ metOnce = met /\ version = 1 /\ strays = 0 /\ remote = "none"
      /\ looping = "turn" /\ calling = NoToolCall
      /\ unreported = FALSE /\ outdated = FALSE /\ forgotten = FALSE
  BY DEF VerdictsInit
<1>3. asks \subseteq Criteria
  OBVIOUS
<1>4. mind \in Minds /\ mind.spec = asks /\ mind.verdict = Undecided
  BY <1>1, <1>3, NothingTyped DEF Minds
<1>5. /\ journaled \in Journals /\ journaled.rows = NoRows /\ journaled.spec = asks
      /\ journaled.status = "running"
  BY <1>1, <1>3, UndecidedTyped DEF Journals, RowMap
<1>6. VerdictsTypeOK
  <2>1. version \in 1..MaxChanges /\ strays \in 0..MaxChanges
    BY <1>2, VerdictsAssumption
  <2>2. calling \in ToolCalls
    BY <1>2, UndecidedTyped
  <2>3. met \subseteq Criteria /\ metOnce \subseteq Criteria
    BY <1>2
  <2>4. QED BY <1>2, <1>4, <1>5, <2>1, <2>2, <2>3 DEF VerdictsTypeOK
<1>7. InBounds
  BY <1>2 DEF InBounds
<1>8. CallTold
  BY <1>2 DEF CallTold, NoToolCall
<1>9. PastTold
  BY <1>2, <1>4, <1>5, UndecidedTyped DEF PastTold
<1>10. MindTold
  BY <1>4, UndecidedTyped DEF MindTold, Tells
<1>11. JournalTold
  BY <1>5, KeptTyped, UndecidedTyped DEF JournalTold, Tells
<1>12. CompletedTold
  BY <1>2, <1>4, <1>5 DEF CompletedTold
<1>13. AnswerTold
  BY <1>2 DEF AnswerTold
<1>14. QED BY <1>6, <1>7, <1>8, <1>9, <1>10, <1>11, <1>12, <1>13 DEF VerdictsInv

LEMMA VerdictsInductive == VerdictsInv /\ [VerdictsNext]_verdictVars => VerdictsInv'
<1>1. ASSUME VerdictsInv, VerdictsNext PROVE VerdictsInv'
  <2>1. VerdictsTypeOK'
    BY <1>1, VerdictsTypeStep DEF VerdictsInv
  <2>2. QED BY <1>1, <2>1, VerdictsToldStep DEF VerdictsInv
<1>2. ASSUME VerdictsInv, UNCHANGED verdictVars PROVE VerdictsInv'
  <2>1. VerdictsTypeOK' /\ InBounds'
    BY <1>2 DEF VerdictsInv, VerdictsTypeOK, InBounds, verdictVars
  <2>2. CallTold' /\ PastTold'
    BY <1>2 DEF VerdictsInv, CallTold, PastTold, verdictVars
  <2>3. UNCHANGED <<met, metOnce, mind, journaled, unreported, outdated, looping, calling>>
    BY <1>2 DEF verdictVars
  <2>4. MindTold'
    BY <1>2, <2>3 DEF VerdictsInv, MindTold, EditLanded, Tells
  <2>5. JournalTold'
    BY <1>2, <2>3, JournalStays DEF VerdictsInv, VerdictsTypeOK, EditLanded
  <2>6. CompletedTold' /\ AnswerTold'
    BY <1>2 DEF VerdictsInv, CompletedTold, AnswerTold, verdictVars
  <2>7. QED BY <2>1, <2>2, <2>4, <2>5, <2>6 DEF VerdictsInv
<1>3. QED BY <1>1, <1>2

\* A verdict, a completed run and an answer are what the project supports: where the
\* attempt comes to rest, the invariant says so of the criteria of its task.
LEMMA InvariantHolds ==
  ASSUME VerdictsInv
  PROVE  VerdictsHold
<1>0. VerdictsTypeOK /\ CallTold /\ PastTold /\ MindTold /\ JournalTold /\ CompletedTold /\ AnswerTold
  BY DEF VerdictsInv
<1>1. mind.spec \subseteq Criteria /\ journaled.spec \subseteq Criteria
  BY <1>0, MindTyped, JournalTyped DEF VerdictsTypeOK
<1>2. VerdictsAreCurrent
  BY <1>0, <1>1 DEF VerdictsAreCurrent, MindTold, JournalTold, EditLanded
<1>3. CompletedIsEarned
  <2> SUFFICES ASSUME journaled.status = "completed"
               PROVE  /\ \A c \in Mandatory(journaled.spec) : journaled.rows[c] = "confirmed"
                      /\ ~unreported => \A c \in Mandatory(journaled.spec) \ Historical : c \in met
    BY DEF CompletedIsEarned
  <2>1. /\ looping = "ended" /\ ~outdated /\ journaled.rowsEpoch = journaled.epoch
        /\ \A c \in Mandatory(journaled.spec) : journaled.rows[c] = "confirmed"
    BY <1>0 DEF CompletedTold
  <2>2. \A c \in Mandatory(journaled.spec) : c \in Criteria /\ Kept(journaled)[c] = "confirmed"
    BY <1>0, <1>1, <2>1, KeptTyped DEF Mandatory, VerdictsTypeOK
  <2>3. ~unreported => \A c \in Mandatory(journaled.spec) \ Historical : c \in met
    BY <1>0, <2>1, <2>2 DEF JournalTold, EditLanded, Tells
  <2>4. QED BY <2>1, <2>3
<1>4. AnswerIsWhole
  BY <1>0 DEF AnswerIsWhole, AnswerTold
<1>5. QED BY <1>2, <1>3, <1>4 DEF VerdictsHold

\* The attempt, its journal and the project always have the shapes the model declares.
THEOREM VerdictsTypeCorrect == VerdictsSpec => []VerdictsTypeOK
<1>1. VerdictsInv => VerdictsTypeOK
  BY DEF VerdictsInv
<1>2. QED BY VerdictsInitial, VerdictsInductive, <1>1, PTL DEF VerdictsSpec

\* What a run says of its task is so (taskspec.py, task_outcomes.py,
\* answer_acceptance.py, run_journal.py): the verdicts of a working attempt and those
\* a Resume takes over hold of the project, a completed run has every mandatory
\* criterion confirmed, an answer called complete delivers the bytes the file has.
THEOREM VerdictsAlwaysHold == VerdictsSpec => []VerdictsHold
<1>1. QED BY VerdictsInitial, VerdictsInductive, InvariantHolds, PTL DEF VerdictsSpec


HIDE VerdictsAssumption

-------------------------------------------------------------------------------
(**********************************************************************************)
(* What a run knows of its own repetitions.  The snapshot lags behind the attempt *)
(* by at most the call under way (CountsFit, SeenFits), the last six calls are    *)
(* those that were asked for (SequenceFits), and every hint has its executions    *)
(* (HintsFit).                                                                    *)
(**********************************************************************************)

Sights == [at : Nat, terminal : BOOLEAN]
Sightings == UNION {[D -> Sights] : D \in SUBSET Nat}
Outcomes == [result : Results \cup {"none"}, count : Nat, notified : BOOLEAN]
Trackers == [calls : [WebCalls -> Nat], sequence : Seq(WebCalls), epoch : Nat, result : Outcomes, seen : Sightings]
Executions == [at : Nat, result : Results \cup {"none"}, job : BOOLEAN]

ProgressTyped ==
    /\ tracker \in Trackers /\ kept \in Trackers /\ answerOnly \in BOOLEAN
    /\ epochs \in 0..MaxEpochs /\ unkept \in Nat /\ breaks \in Nat /\ unkept <= breaks /\ breaks <= MaxBreaks
    /\ runs \in Seq(Executions) /\ Len(runs) <= MaxRuns /\ untold \subseteq 1..Len(runs)
    /\ dispatched \in Seq(WebCalls) /\ attempted \in Seq(WebCalls) /\ revived \in BOOLEAN

DoingFits ==
    /\ doing.at \in {"thinking", "batch", "web", "command", "over"}
    /\ doing.at = "web" => doing.call \in WebCalls
    /\ doing.at = "command" => doing.call \in 1..Len(runs)

\* What was dispatched is counted, in the attempt and in its snapshot, but for a call
\* under way and the counts that were lost; and what is counted was asked for.
CountsFit ==
    /\ \A c \in WebCalls : Times(dispatched, c) <= kept.calls[c] + unkept + (IF doing.at = "web" THEN 1 ELSE 0)
    /\ doing.at # "over" => \A c \in WebCalls : Times(dispatched, c) <= tracker.calls[c] + unkept
    /\ \A c \in WebCalls : Times(dispatched, c) <= 5 + unkept
    /\ ~revived => \A c \in WebCalls : tracker.calls[c] <= Times(attempted, c)
    /\ ~revived /\ doing.at = "over" => \A c \in WebCalls : kept.calls[c] <= Times(attempted, c)

\* A call of the sequence is counted.
Numbered(t) == Len(t.sequence) <= 6 /\ \A i \in DOMAIN t.sequence : t.calls[t.sequence[i]] >= 1

\* The sequence is the last six calls that were asked for.  The snapshot agrees with
\* the attempt, or the user has just written.
SequenceFits ==
    /\ Numbered(tracker) /\ Numbered(kept)
    /\ unkept = 0 /\ ~revived =>
         (IF doing.at = "over" THEN kept ELSE tracker).sequence = LastSix(attempted)
    /\ doing.at \notin {"web", "over"} =>
         kept.sequence = tracker.sequence \/ (tracker.calls = NoCounts /\ tracker.sequence = <<>>)
    /\ doing.at = "web" /\ unkept = 0 /\ ~revived =>
         Streak(attempted, doing.call) <= 4 /\ ~Alternating(LastSix(attempted))

\* An execution was first seen on the code it ran on, unless its start was not
\* observed; and one that is marked as counted is over.
SeenRight(t, rs, un) ==
    \A i \in DOMAIN t.seen :
        /\ i \in 1..Len(rs) /\ (t.seen[i].at = rs[i].at \/ i \in un)
        /\ t.seen[i].terminal => rs[i].result \in Results

\* The snapshot has seen every execution but the one under way and those of which
\* nobody was told.
SeenFits ==
    /\ SeenRight(tracker, runs, untold) /\ SeenRight(kept, runs, untold)
    /\ doing.at # "over" => kept.seen = tracker.seen
    /\ \A i \in 1..Len(runs) :
        i \in DOMAIN kept.seen \/ i \in untold \/ (doing.at = "command" /\ doing.call = i /\ runs[i].at = epochs)

\* The executions a hint counts.
Counting(t, rs) ==
    {i \in DOMAIN t.seen : t.seen[i].terminal /\ t.seen[i].at = t.epoch /\ rs[i].result = t.result.result}
HintRight(t, rs) ==
    /\ t.result.count <= Cardinality(Counting(t, rs))
    /\ t.result.notified => t.result.count >= 3
HintsFit == HintRight(tracker, runs) /\ HintRight(kept, runs)

ProgressInv == ProgressTyped /\ DoingFits /\ CountsFit /\ SequenceFits /\ SeenFits /\ HintsFit

USE ProgressAssumption

(***************************************************************************)
(* The operators of the model                                              *)
(***************************************************************************)

LEMMA LatestPlace ==
  ASSUME NEW n \in Nat, NEW T \in SUBSET (1..n), T # {}
  PROVE  \E i \in T : \A j \in T : j <= i
<1> DEFINE S == {n - d : d \in T}
<1>a. \A d \in 1..n : d \in Nat /\ n - d \in Nat
  OBVIOUS
<1>1. S # {} /\ S \subseteq Nat
  BY <1>a
<1>2. PICK m \in S : \A k \in S : ~(<<k, m>> \in OpToRel(<, Nat))
  BY <1>1, NatLessThanWellFounded, WFMin
<1>3. PICK c \in T : m = n - c
  BY <1>2
<1>4. \A d \in T : d <= c
  <2>1. SUFFICES ASSUME NEW d \in T PROVE d <= c
    OBVIOUS
  <2>2. c \in Nat /\ d \in Nat /\ n - d \in S /\ n - d \in Nat /\ m \in Nat
    BY <1>a, <1>1, <1>2
  <2>3. (n - d) < m => <<n - d, m>> \in OpToRel(<, Nat)
    BY <2>2 DEF OpToRel
  <2>4. ~((n - d) < m)
    BY <1>2, <2>2, <2>3
  <2>5. QED BY <1>3, <2>2, <2>4
<1>5. QED BY <1>4

\* What Streak returns: the distance of the last other call.
LEMMA StreakIs ==
  ASSUME NEW s \in Seq(WebCalls), NEW c
  PROVE  /\ Streak(s, c) \in Nat
         /\ \A i \in 1..Len(s) : s[i] # c => Streak(s, c) <= Len(s) - i
         /\ Streak(s, c) < Len(s) => \E i \in 1..Len(s) : s[i] # c /\ Streak(s, c) = Len(s) - i
<1> DEFINE others == {i \in 1..Len(s) : s[i] # c}
           m == CHOOSE i \in others : \A j \in others : j <= i
<1>1. Len(s) \in Nat
  BY LenProperties
<1>2. CASE others = {}
  <2>1. Streak(s, c) = Len(s) - 0
    BY <1>2 DEF Streak
  <2>2. QED BY <1>1, <1>2, <2>1
<1>3. CASE others # {}
  <2>1. Streak(s, c) = Len(s) - m
    BY <1>3 DEF Streak
  <2>2. \E i \in others : \A j \in others : j <= i
    BY <1>1, <1>3, LatestPlace
  <2>3. m \in others /\ \A j \in others : j <= m
    BY <2>2
  <2> HIDE DEF m
  <2>4. QED BY <1>1, <2>1, <2>3
<1>4. QED BY <1>2, <1>3

LEMMA LastSixIs ==
  ASSUME NEW s \in Seq(WebCalls)
  PROVE  /\ LastSix(s) \in Seq(WebCalls) /\ Len(LastSix(s)) <= 6
         /\ Len(LastSix(s)) = IF Len(s) > 6 THEN 6 ELSE Len(s)
         /\ \A i \in 1..Len(LastSix(s)) : LastSix(s)[i] = s[Len(s) - Len(LastSix(s)) + i]
<1>1. Len(s) \in Nat /\ \A i \in 1..Len(s) : s[i] \in WebCalls
  BY LenProperties, ElementOfSeq
<1>2. CASE Len(s) > 6
  <2> DEFINE t == SubSeq(s, Len(s) - 5, Len(s))
  <2>1. LastSix(s) = t
    BY <1>2 DEF LastSix
  <2>2. Len(s) - 5 \in Int /\ \A i \in (Len(s) - 5)..Len(s) : s[i] \in WebCalls
    BY <1>1, <1>2
  <2>3. /\ t \in Seq(WebCalls)
        /\ Len(t) = (IF Len(s) - 5 <= Len(s) THEN Len(s) - (Len(s) - 5) + 1 ELSE 0)
        /\ \A i \in 1..(Len(s) - (Len(s) - 5) + 1) : t[i] = s[(Len(s) - 5) + i - 1]
    BY <1>1, <2>2, SubSeqProperties
  <2> HIDE DEF t
  <2>4. Len(t) = 6 /\ Len(s) - (Len(s) - 5) + 1 = 6 /\ \A i \in 1..6 : (Len(s) - 5) + i - 1 = Len(s) - 6 + i
    BY <1>1, <2>3
  <2>5. \A i \in 1..6 : t[i] = s[Len(s) - 6 + i]
    BY <2>3, <2>4
  <2>6. Len(LastSix(s)) = 6 /\ LastSix(s) \in Seq(WebCalls) /\ \A i \in 1..6 : LastSix(s)[i] = s[Len(s) - 6 + i]
    BY <2>1, <2>3, <2>4, <2>5
  <2>7. \A i \in 1..Len(LastSix(s)) : LastSix(s)[i] = s[Len(s) - Len(LastSix(s)) + i]
    <3> DEFINE q == LastSix(s)
    <3> HIDE DEF q
    <3>1. Len(q) = 6 /\ \A i \in 1..6 : q[i] = s[Len(s) - 6 + i]
      BY <2>6 DEF q
    <3>2. \A i \in 1..Len(q) : q[i] = s[Len(s) - Len(q) + i]
      BY <3>1
    <3>3. QED BY <3>2 DEF q
  <2>8. QED BY <1>2, <2>6, <2>7
<1>3. CASE ~(Len(s) > 6)
  <2>1. LastSix(s) = s
    BY <1>3 DEF LastSix
  <2>2. \A i \in 1..Len(s) : Len(s) - Len(s) + i = i
    BY <1>1
  <2>3. QED BY <1>1, <1>3, <2>1, <2>2
<1>4. QED BY <1>2, <1>3

\* The last six of a sequence that grows are found from its last six alone.
LEMMA LastSixGrows ==
  ASSUME NEW s \in Seq(WebCalls), NEW c \in WebCalls
  PROVE  LastSix(Append(LastSix(s), c)) = LastSix(Append(s, c))
<1> DEFINE t == LastSix(s)
           a == Append(s, c)
           b == Append(t, c)
           p == LastSix(a)
           q == LastSix(b)
<1>1. /\ t \in Seq(WebCalls) /\ Len(s) \in Nat /\ Len(t) = (IF Len(s) > 6 THEN 6 ELSE Len(s))
      /\ \A i \in 1..Len(t) : t[i] = s[Len(s) - Len(t) + i]
  BY LastSixIs, LenProperties
<1>2. a \in Seq(WebCalls) /\ Len(a) = Len(s) + 1 /\ (\A i \in 1..Len(s) : a[i] = s[i]) /\ a[Len(s) + 1] = c
  BY AppendProperties
<1> HIDE DEF t, a
<1>3. b \in Seq(WebCalls) /\ Len(b) = Len(t) + 1 /\ (\A i \in 1..Len(t) : b[i] = t[i]) /\ b[Len(t) + 1] = c
  <2>1. t \in Seq(WebCalls)
    BY <1>1
  <2>2. QED BY <2>1, AppendProperties
<1> HIDE DEF b
<1>4. /\ p \in Seq(WebCalls) /\ Len(p) = (IF Len(a) > 6 THEN 6 ELSE Len(a))
      /\ \A i \in 1..Len(p) : p[i] = a[Len(a) - Len(p) + i]
  BY <1>2, LastSixIs
<1>5. /\ q \in Seq(WebCalls) /\ Len(q) = (IF Len(b) > 6 THEN 6 ELSE Len(b))
      /\ \A i \in 1..Len(q) : q[i] = b[Len(b) - Len(q) + i]
  BY <1>3, LastSixIs
<1> HIDE DEF p, q
<1>6. Len(p) = Len(q)
  BY <1>1, <1>2, <1>3, <1>4, <1>5
<1>7. ASSUME NEW i \in 1..Len(q) PROVE q[i] = p[i]
  <2> DEFINE j == Len(b) - Len(q) + i
  <2>a. Len(t) \in Nat /\ Len(s) \in Nat /\ Len(b) = Len(t) + 1 /\ Len(a) = Len(s) + 1 /\ Len(p) = Len(q)
    BY <1>1, <1>2, <1>3, <1>6
  <2>b. Len(q) \in Nat /\ Len(q) <= Len(b) /\ i \in Int /\ 1 <= i /\ i <= Len(q)
    BY <1>5, <2>a
  <2>c. j \in 1..Len(b)
    BY <2>a, <2>b
  <2>d. Len(a) - Len(p) + i = Len(s) - Len(t) + j
    BY <2>a, <2>b
  <2>1. /\ Len(t) \in Nat /\ Len(q) \in Nat /\ j \in 1..Len(b)
        /\ Len(a) - Len(p) + i = Len(s) - Len(t) + j
    BY <2>a, <2>b, <2>c, <2>d
  <2>2. q[i] = b[j] /\ p[i] = a[Len(s) - Len(t) + j]
    BY <1>4, <1>5, <1>6, <2>1
  <2> HIDE DEF j
  <2>3. CASE j <= Len(t)
    <3>1. j \in 1..Len(t) /\ Len(s) - Len(t) + j \in 1..Len(s)
      BY <1>1, <1>3, <2>1, <2>3
    <3>2. QED BY <1>1, <1>2, <1>3, <2>2, <3>1
  <2>4. CASE ~(j <= Len(t))
    <3>a. Len(t) \in Nat /\ Len(s) \in Nat /\ Len(b) = Len(t) + 1 /\ j \in Int /\ j <= Len(b)
      BY <2>a, <2>c
    <3>b. j = Len(t) + 1
      BY <2>4, <3>a
    <3>1. j = Len(t) + 1 /\ Len(s) - Len(t) + j = Len(s) + 1
      BY <3>a, <3>b
    <3>2. QED BY <1>2, <1>3, <2>2, <3>1
  <2>5. QED BY <2>3, <2>4
<1>8. q = p
  BY <1>4, <1>5, <1>6, <1>7, SeqEqual
<1>9. QED BY <1>8 DEF p, q, a, b, t

\* A streak that is short within the last six is short.
LEMMA ShortStreak ==
  ASSUME NEW s \in Seq(WebCalls), NEW c, Streak(LastSix(s), c) <= 4
  PROVE  Streak(s, c) <= 4
<1> DEFINE t == LastSix(s)
<1>1. /\ t \in Seq(WebCalls) /\ Len(s) \in Nat /\ Len(t) = (IF Len(s) > 6 THEN 6 ELSE Len(s))
      /\ \A i \in 1..Len(t) : t[i] = s[Len(s) - Len(t) + i]
  BY LastSixIs, LenProperties
<1>2. CASE Len(s) > 6
  <2>1. Streak(t, c) \in Nat /\ Streak(t, c) < Len(t) /\ Len(t) = 6
    BY <1>1, <1>2, StreakIs
  <2>2. PICK i \in 1..6 : t[i] # c /\ Streak(t, c) = 6 - i
    <3> HIDE DEF t
    <3>1. t \in Seq(WebCalls) /\ Streak(t, c) < Len(t)
      BY <1>1, <2>1
    <3>2. \E i \in 1..Len(t) : t[i] # c /\ Streak(t, c) = Len(t) - i
      BY <3>1, StreakIs
    <3>3. QED BY <2>1, <3>2
  <2>3. Len(s) - 6 + i \in 1..Len(s) /\ s[Len(s) - 6 + i] # c
    BY <1>1, <1>2, <2>1, <2>2
  <2>4. Streak(s, c) <= Len(s) - (Len(s) - 6 + i) /\ Streak(s, c) \in Nat
    BY <2>3, StreakIs
  <2>5. QED BY <1>1, <2>1, <2>2, <2>4
<1>3. CASE ~(Len(s) > 6)
  BY <1>3 DEF LastSix
<1>4. QED BY <1>2, <1>3

LEMMA TimesAre ==
  ASSUME NEW s \in Seq(WebCalls), NEW c \in WebCalls
  PROVE  /\ \A d : Times(s, d) \in Nat /\ Times(<<>>, d) = 0
         /\ \A d : Times(Append(s, c), d) = IF d = c THEN Times(s, d) + 1 ELSE Times(s, d)
<1> DEFINE a == Append(s, c)
           P(u, d) == {i \in 1..Len(u) : u[i] = d}
<1>1. Len(s) \in Nat /\ Len(a) = Len(s) + 1 /\ (\A i \in 1..Len(s) : a[i] = s[i]) /\ a[Len(s) + 1] = c
  BY LenProperties, AppendProperties
<1>2. \A d : Times(<<>>, d) = 0
  <2>1. Len(<<>>) = 0
    BY EmptySeq
  <2>2. \A d : {i \in 1..Len(<<>>) : <<>>[i] = d} = {}
    BY <2>1
  <2>3. QED BY <2>2, FS_EmptySet DEF Times
<1>3. ASSUME NEW d
      PROVE  /\ Times(s, d) \in Nat
             /\ Times(a, d) = IF d = c THEN Times(s, d) + 1 ELSE Times(s, d)
  <2> HIDE DEF a
  <2>1. IsFiniteSet(1..Len(s)) /\ P(s, d) \subseteq 1..Len(s)
    <3>1. 1 \in Int /\ Len(s) \in Int
      BY <1>1
    <3>2. IsFiniteSet(1..Len(s))
      BY <3>1, FS_Interval
    <3>3. QED BY <3>2
  <2>2. IsFiniteSet(P(s, d))
    BY <2>1, FS_Subset
  <2>3. Cardinality(P(s, d)) \in Nat
    BY <2>2, FS_CardinalityType
  <2>4. P(a, d) = IF d = c THEN P(s, d) \cup {Len(s) + 1} ELSE P(s, d)
    <3>1. 1..Len(a) = (1..Len(s)) \cup {Len(s) + 1}
      BY <1>1
    <3>2. QED BY <1>1, <3>1
  <2>5. Len(s) + 1 \notin P(s, d)
    BY <1>1
  <2>6. Cardinality(P(s, d) \cup {Len(s) + 1}) = Cardinality(P(s, d)) + 1
    BY <2>2, <2>5, FS_AddElement
  <2>7. Times(s, d) = Cardinality(P(s, d)) /\ Times(a, d) = Cardinality(P(a, d))
    BY DEF Times
  <2>8. QED BY <2>3, <2>4, <2>6, <2>7
<1>4. QED BY <1>2, <1>3

(***************************************************************************)
(* What an operation makes of a tracker                                    *)
(***************************************************************************)

LEMMA SightsAre ==
  ASSUME NEW s \in Sightings
  PROVE  DOMAIN s \subseteq Nat /\ s \in [DOMAIN s -> Sights] /\ \A i \in DOMAIN s : s[i] \in Sights
  BY DEF Sightings

LEMMA NoSights == <<>> \in Sightings /\ \A i : i \notin DOMAIN <<>>
<1>1. <<>> \in Seq(Sights) /\ Len(<<>>) = 0
  BY EmptySeq
<1>2. <<>> \in [1..0 -> Sights] /\ DOMAIN <<>> = 1..0
  BY <1>1, LenProperties
<1>3. 1..0 \in SUBSET Nat /\ \A i : i \notin 1..0
  OBVIOUS
<1>4. QED BY <1>2, <1>3 DEF Sightings

LEMMA FreshTracker ==
  /\ NewTracker \in Trackers /\ NewTracker.calls = NoCounts /\ NewTracker.sequence = <<>> /\ NewTracker.seen = <<>>
  /\ NewTracker.result = NoResult /\ NewTracker.epoch = 0
  /\ NoResult \in Outcomes /\ NoResult.count = 0 /\ ~NoResult.notified
  /\ NoCounts \in [WebCalls -> Nat] /\ \A c \in WebCalls : NoCounts[c] = 0
<1>1. NoResult \in Outcomes /\ NoResult.count = 0 /\ ~NoResult.notified
  BY DEF NoResult, Outcomes
<1>2. NoCounts \in [WebCalls -> Nat] /\ \A c \in WebCalls : NoCounts[c] = 0
  BY DEF NoCounts
<1>3. <<>> \in Seq(WebCalls) /\ <<>> \in Sightings
  BY EmptySeq, NoSights
<1>4. QED BY <1>1, <1>2, <1>3 DEF NewTracker, Trackers

LEMMA CountedIs ==
  ASSUME tracker \in Trackers, NEW c \in WebCalls
  PROVE  /\ CountedCall(c) \in Trackers
         /\ CountedCall(c).calls[c] = tracker.calls[c] + 1 /\ \A d \in WebCalls : d # c => CountedCall(c).calls[d] = tracker.calls[d]
         /\ CountedCall(c).sequence = LastSix(Append(tracker.sequence, c))
         /\ CountedCall(c).epoch = tracker.epoch /\ CountedCall(c).result = tracker.result /\ CountedCall(c).seen = tracker.seen
<1> DEFINE cs == [tracker.calls EXCEPT ![c] = tracker.calls[c] + 1]
           q == LastSix(Append(tracker.sequence, c))
<1>1. tracker.calls \in [WebCalls -> Nat] /\ tracker.sequence \in Seq(WebCalls) /\ tracker.calls[c] + 1 \in Nat
  BY DEF Trackers
<1>2. cs \in [WebCalls -> Nat] /\ cs[c] = tracker.calls[c] + 1 /\ \A d \in WebCalls : d # c => cs[d] = tracker.calls[d]
  BY <1>1
<1>3. q \in Seq(WebCalls)
  <2>1. Append(tracker.sequence, c) \in Seq(WebCalls)
    BY <1>1, AppendProperties
  <2>2. QED BY <2>1, LastSixIs
<1>4. CountedCall(c) = [tracker EXCEPT !.calls = cs, !.sequence = q]
  BY DEF CountedCall, Trackers
<1> HIDE DEF cs, q
<1>5. /\ CountedCall(c) \in Trackers /\ CountedCall(c).calls = cs /\ CountedCall(c).sequence = q
      /\ CountedCall(c).epoch = tracker.epoch /\ CountedCall(c).result = tracker.result /\ CountedCall(c).seen = tracker.seen
  BY <1>2, <1>3, <1>4 DEF Trackers
<1>6. QED BY <1>2, <1>5 DEF q

LEMMA CountingIs ==
  ASSUME NEW t \in Trackers, NEW rs \in Seq(Executions), NEW un, SeenRight(t, rs, un)
  PROVE  /\ Counting(t, rs) \subseteq 1..Len(rs) /\ IsFiniteSet(Counting(t, rs)) /\ Cardinality(Counting(t, rs)) \in Nat
         /\ Cardinality(Counting(t, rs)) <= Len(rs)
<1>1. Counting(t, rs) \subseteq 1..Len(rs) /\ Len(rs) \in Nat
  BY LenProperties DEF Counting, SeenRight
<1>2. IsFiniteSet(1..Len(rs)) /\ Cardinality(1..Len(rs)) = (IF 1 > Len(rs) THEN 0 ELSE Len(rs) - 1 + 1)
  <2>1. 1 \in Int /\ Len(rs) \in Int
    BY <1>1
  <2>2. QED BY <2>1, FS_Interval
<1>3. IsFiniteSet(Counting(t, rs)) /\ Cardinality(Counting(t, rs)) <= Cardinality(1..Len(rs))
  BY <1>1, <1>2, FS_Subset
<1>4. Cardinality(Counting(t, rs)) \in Nat
  BY <1>3, FS_CardinalityType
<1>5. QED BY <1>1, <1>2, <1>3, <1>4

\* No execution is counted of which the result was forgotten.
LEMMA NothingCounted ==
  ASSUME NEW t \in Trackers, t.result = NoResult, NEW rs \in Seq(Executions), NEW un, SeenRight(t, rs, un)
  PROVE  HintRight(t, rs)
<1>1. Cardinality(Counting(t, rs)) \in Nat
  BY CountingIs
<1>2. QED BY <1>1, FreshTracker DEF HintRight

LEMMA SyncedIs ==
  ASSUME NEW t \in Trackers, epochs \in Nat, NEW rs \in Seq(Executions), NEW un, SeenRight(t, rs, un)
  PROVE  /\ Synced(t) \in Trackers /\ Synced(t).calls = t.calls /\ Synced(t).sequence = t.sequence /\ Synced(t).seen = t.seen
         /\ Synced(t).epoch = epochs
         /\ HintRight(t, rs) => HintRight(Synced(t), rs)
<1>1. CASE t.epoch = epochs
  BY <1>1 DEF Synced
<1>2. CASE t.epoch # epochs
  <2>1. /\ Synced(t) \in Trackers /\ Synced(t).calls = t.calls /\ Synced(t).sequence = t.sequence /\ Synced(t).seen = t.seen
        /\ Synced(t).epoch = epochs /\ Synced(t).result = NoResult
    BY <1>2, FreshTracker DEF Synced, Trackers
  <2>2. SeenRight(Synced(t), rs, un)
    BY <2>1 DEF SeenRight
  <2>3. QED BY <2>1, <2>2, NothingCounted
<1>3. QED BY <1>1, <1>2

LEMMA NotedIs ==
  ASSUME NEW t \in Trackers, epochs \in Nat, NEW i \in Nat
  PROVE  /\ Noted(t, i) \in Trackers /\ Noted(t, i).calls = t.calls /\ Noted(t, i).sequence = t.sequence
         /\ Noted(t, i).epoch = t.epoch /\ Noted(t, i).result = t.result
         /\ DOMAIN Noted(t, i).seen = DOMAIN t.seen \cup {i} /\ (\A j \in DOMAIN t.seen : Noted(t, i).seen[j] = t.seen[j])
         /\ i \notin DOMAIN t.seen => Noted(t, i).seen[i].at = epochs /\ ~Noted(t, i).seen[i].terminal
<1>1. CASE i \in DOMAIN t.seen
  BY <1>1 DEF Noted
<1>2. CASE i \notin DOMAIN t.seen
  <2> DEFINE n == [at |-> epochs, terminal |-> FALSE]
             D == DOMAIN t.seen \cup {i}
             s == [j \in D |-> IF j = i THEN n ELSE t.seen[j]]
  <2>1. n \in Sights /\ n.at = epochs /\ ~n.terminal
    BY DEF Sights
  <2>2. t.seen \in Sightings
    BY DEF Trackers
  <2>3. D \in SUBSET Nat /\ \A j \in DOMAIN t.seen : t.seen[j] \in Sights
    BY <2>2, SightsAre
  <2>4. Noted(t, i) = [t EXCEPT !.seen = s]
    BY <1>2 DEF Noted
  <2> HIDE DEF n
  <2>5. s \in [D -> Sights] /\ DOMAIN s = D /\ s[i] = n /\ \A j \in DOMAIN t.seen : s[j] = t.seen[j]
    BY <1>2, <2>1, <2>3
  <2> HIDE DEF s
  <2>6. s \in Sightings
    BY <2>3, <2>5 DEF Sightings
  <2>7. /\ Noted(t, i) \in Trackers /\ Noted(t, i).calls = t.calls /\ Noted(t, i).sequence = t.sequence
        /\ Noted(t, i).epoch = t.epoch /\ Noted(t, i).result = t.result /\ Noted(t, i).seen = s
    BY <2>4, <2>6 DEF Trackers
  <2>8. QED BY <1>2, <2>1, <2>5, <2>7
<1>3. QED BY <1>1, <1>2

\* A hint survives what happens to the executions: more of them, and results.
LEMMA HintMoves ==
  ASSUME NEW t \in Trackers, NEW rs \in Seq(Executions), NEW rs2 \in Seq(Executions), NEW un, NEW un2, un \subseteq un2,
         Len(rs) <= Len(rs2),
         \A i \in 1..Len(rs) : rs2[i].at = rs[i].at /\ (rs[i].result \in Results => rs2[i].result = rs[i].result),
         SeenRight(t, rs, un), HintRight(t, rs)
  PROVE  SeenRight(t, rs2, un2) /\ HintRight(t, rs2)
<1>1. Len(rs) \in Nat /\ Len(rs2) \in Nat
  BY LenProperties
<1>2. SeenRight(t, rs2, un2)
  <2>1. SUFFICES ASSUME NEW i \in DOMAIN t.seen
                 PROVE  /\ i \in 1..Len(rs2) /\ (t.seen[i].at = rs2[i].at \/ i \in un2)
                        /\ t.seen[i].terminal => rs2[i].result \in Results
    BY DEF SeenRight
  <2>2. /\ i \in 1..Len(rs) /\ (t.seen[i].at = rs[i].at \/ i \in un)
        /\ t.seen[i].terminal => rs[i].result \in Results
    BY DEF SeenRight
  <2>3. QED BY <1>1, <2>2
<1>3. Counting(t, rs) \subseteq Counting(t, rs2)
  BY DEF SeenRight, Counting
<1>4. IsFiniteSet(Counting(t, rs2)) /\ Cardinality(Counting(t, rs2)) \in Nat /\ Cardinality(Counting(t, rs)) \in Nat
  BY <1>2, CountingIs
<1>5. Cardinality(Counting(t, rs)) <= Cardinality(Counting(t, rs2))
  BY <1>3, <1>4, FS_Subset
<1>6. t.result.count \in Nat
  BY DEF Trackers, Outcomes
<1>7. QED BY <1>2, <1>4, <1>5, <1>6 DEF HintRight

\* A hint survives a sighting that is not counted.
LEMMA HintKept ==
  ASSUME NEW t \in Trackers, NEW w \in Trackers, NEW rs \in Seq(Executions), NEW un,
         SeenRight(t, rs, un), SeenRight(w, rs, un), HintRight(t, rs),
         w.result = t.result, Counting(t, rs) \subseteq Counting(w, rs)
  PROVE  HintRight(w, rs)
<1>1. IsFiniteSet(Counting(w, rs)) /\ Cardinality(Counting(w, rs)) \in Nat /\ Cardinality(Counting(t, rs)) \in Nat
  BY CountingIs
<1>2. Cardinality(Counting(t, rs)) <= Cardinality(Counting(w, rs))
  BY <1>1, FS_Subset
<1>3. t.result.count \in Nat
  BY DEF Trackers, Outcomes
<1>4. QED BY <1>1, <1>2, <1>3 DEF HintRight

\* What an observation makes of the record of an execution.
LEMMA SightIs ==
  ASSUME NEW t \in Trackers, epochs \in Nat, NEW rs \in Seq(Executions), NEW un, NEW i \in 1..Len(rs),
         SeenRight(t, rs, un), HintRight(t, rs), t.epoch = epochs,
         i \notin DOMAIN t.seen => rs[i].at = epochs \/ i \in un
  PROVE  SeenRight(Noted(t, i), rs, un) /\ HintRight(Noted(t, i), rs)
<1> DEFINE w == Noted(t, i)
<1>1. i \in Nat
  BY LenProperties
<1>2. /\ w \in Trackers /\ w.epoch = t.epoch /\ w.result = t.result
      /\ DOMAIN w.seen = DOMAIN t.seen \cup {i} /\ (\A j \in DOMAIN t.seen : w.seen[j] = t.seen[j])
      /\ i \notin DOMAIN t.seen => w.seen[i].at = epochs /\ ~w.seen[i].terminal
  BY <1>1, NotedIs
<1> HIDE DEF w
<1>3. SeenRight(w, rs, un)
  <2>1. SUFFICES ASSUME NEW j \in DOMAIN w.seen
                 PROVE  /\ j \in 1..Len(rs) /\ (w.seen[j].at = rs[j].at \/ j \in un)
                        /\ w.seen[j].terminal => rs[j].result \in Results
    BY DEF SeenRight
  <2>2. CASE j \in DOMAIN t.seen
    BY <1>2, <2>2 DEF SeenRight
  <2>3. CASE j \notin DOMAIN t.seen
    BY <1>2, <2>3
  <2>4. QED BY <2>2, <2>3
<1>4. Counting(t, rs) \subseteq Counting(w, rs)
  BY <1>2 DEF Counting
<1>5. HintRight(w, rs)
  BY <1>2, <1>3, <1>4, HintKept
<1>6. QED BY <1>3, <1>5 DEF w

\* What the end of an execution makes of the tracker.
LEMMA TerminalIs ==
  ASSUME NEW t \in Trackers, epochs \in Nat, NEW rs \in Seq(Executions), NEW un, NEW i \in DOMAIN t.seen,
         rs[i].result \in Results, t.epoch = epochs, SeenRight(t, rs, un), HintRight(t, rs)
  PROVE  /\ CountTerminal(t, i, rs[i].result) \in Trackers
         /\ CountTerminal(t, i, rs[i].result).calls = t.calls /\ CountTerminal(t, i, rs[i].result).sequence = t.sequence
         /\ DOMAIN CountTerminal(t, i, rs[i].result).seen = DOMAIN t.seen
         /\ SeenRight(CountTerminal(t, i, rs[i].result), rs, un) /\ HintRight(CountTerminal(t, i, rs[i].result), rs)
<1> DEFINE came == rs[i].result
           w == CountTerminal(t, i, came)
           n == [t.seen[i] EXCEPT !.terminal = TRUE]
           s == [t.seen EXCEPT ![i] = n]
           again == t.result.result = came
           k == IF again THEN t.result.count + 1 ELSE 1
           hinted == again /\ (t.result.notified \/ k >= 3)
           r == [result |-> came, count |-> k, notified |-> hinted]
<1>1. t.seen \in Sightings /\ t.seen[i] \in Sights /\ t.result.count \in Nat /\ t.result.notified \in BOOLEAN
  <2>1. t.seen \in Sightings /\ t.result \in Outcomes
    BY DEF Trackers
  <2>2. QED BY <2>1, SightsAre DEF Outcomes
<1>2. n \in Sights /\ n.at = t.seen[i].at /\ n.terminal
  BY <1>1 DEF Sights
<1>3. /\ DOMAIN s = DOMAIN t.seen /\ s[i] = n /\ (\A j \in DOMAIN t.seen : j # i => s[j] = t.seen[j])
      /\ s \in Sightings
  <2>1. t.seen \in [DOMAIN t.seen -> Sights] /\ DOMAIN t.seen \in SUBSET Nat
    BY <1>1, SightsAre
  <2> HIDE DEF n
  <2>2. DOMAIN s = DOMAIN t.seen /\ s[i] = n /\ (\A j \in DOMAIN t.seen : j # i => s[j] = t.seen[j])
    BY <2>1
  <2>3. s \in [DOMAIN t.seen -> Sights]
    BY <1>2, <2>1
  <2>4. QED BY <2>1, <2>2, <2>3 DEF Sightings
<1>4. k \in Nat /\ hinted \in BOOLEAN /\ r \in Outcomes /\ r.result = came /\ r.count = k /\ r.notified = hinted
  <2>1. 1 \in Nat /\ t.result.count + 1 \in Nat
    BY <1>1
  <2>2. k \in Nat
    BY <2>1
  <2>3. hinted \in BOOLEAN
    OBVIOUS
  <2> HIDE DEF k, hinted
  <2>4. QED BY <2>2, <2>3 DEF Outcomes
<1>5. CASE t.seen[i].terminal
  BY <1>5 DEF CountTerminal
<1>6. ASSUME ~t.seen[i].terminal, w \in Trackers, w.calls = t.calls, w.sequence = t.sequence, w.epoch = t.epoch, w.seen = s
      PROVE  /\ DOMAIN w.seen = DOMAIN t.seen /\ SeenRight(w, rs, un)
             /\ IsFiniteSet(Counting(w, rs)) /\ Cardinality(Counting(w, rs)) \in Nat
  <2> HIDE DEF w, s, n
  <2>1. DOMAIN w.seen = DOMAIN t.seen
    BY <1>3, <1>6
  <2>2. SeenRight(w, rs, un)
    <3>1. SUFFICES ASSUME NEW j \in DOMAIN w.seen
                   PROVE  /\ j \in 1..Len(rs) /\ (w.seen[j].at = rs[j].at \/ j \in un)
                          /\ w.seen[j].terminal => rs[j].result \in Results
      BY DEF SeenRight
    <3>2. CASE j = i
      BY <1>2, <1>3, <1>6, <2>1, <3>2 DEF SeenRight
    <3>3. CASE j # i
      BY <1>3, <1>6, <2>1, <3>3 DEF SeenRight
    <3>4. QED BY <3>2, <3>3
  <2>3. QED BY <1>6, <2>1, <2>2, CountingIs
<1>7. CASE ~t.seen[i].terminal /\ t.seen[i].at # epochs
  <2>1. w = [t EXCEPT !.seen = s]
    BY <1>7 DEF CountTerminal
  <2> HIDE DEF s, n, w
  <2>2. /\ w \in Trackers /\ w.calls = t.calls /\ w.sequence = t.sequence /\ w.epoch = t.epoch /\ w.seen = s
        /\ w.result = t.result
    BY <1>3, <2>1 DEF Trackers
  <2>3. DOMAIN w.seen = DOMAIN t.seen /\ SeenRight(w, rs, un)
    BY <1>6, <1>7, <2>2
  <2>4. Counting(t, rs) \subseteq Counting(w, rs)
    BY <1>2, <1>3, <1>7, <2>2 DEF Counting
  <2>5. HintRight(w, rs)
    BY <2>2, <2>3, <2>4, HintKept
  <2>6. QED BY <2>2, <2>3, <2>5 DEF w
<1>8. CASE ~t.seen[i].terminal /\ t.seen[i].at = epochs
  <2>1. w = [t EXCEPT !.seen = s, !.result = r]
    BY <1>8 DEF CountTerminal
  <2> HIDE DEF s, n, w, r
  <2>2. /\ w \in Trackers /\ w.calls = t.calls /\ w.sequence = t.sequence /\ w.epoch = t.epoch /\ w.seen = s
        /\ w.result = r
    BY <1>3, <1>4, <2>1 DEF Trackers
  <2>3. /\ DOMAIN w.seen = DOMAIN t.seen /\ SeenRight(w, rs, un)
        /\ IsFiniteSet(Counting(w, rs)) /\ Cardinality(Counting(w, rs)) \in Nat
    BY <1>6, <1>8, <2>2
  <2>4. i \in Counting(w, rs)
    BY <1>2, <1>3, <1>4, <1>8, <2>2 DEF Counting
  <2>5. k <= Cardinality(Counting(w, rs))
    <3>1. CASE again
      <4>1. Counting(t, rs) \subseteq Counting(w, rs) /\ i \notin Counting(t, rs)
        BY <1>3, <1>4, <1>8, <2>2, <3>1 DEF Counting
      <4>2. IsFiniteSet(Counting(t, rs)) /\ Cardinality(Counting(t, rs)) \in Nat
        BY CountingIs
      <4>3. Cardinality(Counting(t, rs) \cup {i}) = Cardinality(Counting(t, rs)) + 1
        BY <4>1, <4>2, FS_AddElement
      <4>4. Counting(t, rs) \cup {i} \subseteq Counting(w, rs)
        BY <2>4, <4>1
      <4>5. Cardinality(Counting(t, rs) \cup {i}) <= Cardinality(Counting(w, rs))
        BY <2>3, <4>4, FS_Subset
      <4>6. t.result.count <= Cardinality(Counting(t, rs))
        BY DEF HintRight
      <4>7. k = t.result.count + 1
        BY <3>1
      <4> HIDE DEF k
      <4>8. QED BY <1>1, <2>3, <4>2, <4>3, <4>5, <4>6, <4>7
    <3>2. CASE ~again
      <4>1. k = 1 /\ {i} \subseteq Counting(w, rs)
        BY <2>4, <3>2
      <4>2. Cardinality({i}) = 1
        BY FS_Singleton
      <4>3. Cardinality({i}) <= Cardinality(Counting(w, rs))
        BY <2>3, <4>1, FS_Subset
      <4>4. QED BY <4>1, <4>2, <4>3
    <3>3. QED BY <3>1, <3>2
  <2>6. hinted => k >= 3
    <3>1. t.result.notified => t.result.count >= 3
      BY DEF HintRight
    <3>2. again => k = t.result.count + 1
      OBVIOUS
    <3>3. ASSUME hinted PROVE k >= 3
      <4>1. again /\ (t.result.notified \/ k >= 3)
        BY <3>3
      <4>2. CASE t.result.notified
        BY <1>1, <3>1, <3>2, <4>1, <4>2
      <4>3. QED BY <4>1, <4>2
    <3>4. QED BY <3>3
  <2>7. HintRight(w, rs)
    BY <1>4, <2>2, <2>5, <2>6 DEF HintRight
  <2>8. QED BY <2>2, <2>3, <2>7 DEF w
<1>9. QED BY <1>5, <1>7, <1>8

(***************************************************************************)
(* The steps                                                               *)
(***************************************************************************)

\* What a Web call that is asked for makes of the tracker and of the requests.
LEMMA AskedIs ==
  ASSUME ProgressInv, NEW c \in WebCalls, tracker' = Synced(CountedCall(c)), attempted' = Append(attempted, c)
  PROVE  /\ tracker' \in Trackers /\ tracker'.calls = CountedCall(c).calls /\ tracker'.sequence = CountedCall(c).sequence
         /\ tracker'.calls[c] = tracker.calls[c] + 1 /\ (\A d \in WebCalls : tracker.calls[d] \in Nat /\ kept.calls[d] \in Nat)
         /\ (\A d \in WebCalls : d # c => tracker'.calls[d] = tracker.calls[d])
         /\ (\A d \in WebCalls : tracker'.calls[d] >= tracker.calls[d])
         /\ tracker'.seen = tracker.seen /\ SeenRight(tracker', runs, untold) /\ HintRight(tracker', runs)
         /\ Numbered(tracker')
         /\ attempted' \in Seq(WebCalls)
         /\ (\A d \in WebCalls : Times(attempted', d) = IF d = c THEN Times(attempted, d) + 1 ELSE Times(attempted, d))
         /\ (\A d \in WebCalls : Times(attempted, d) \in Nat)
         /\ (tracker.sequence = LastSix(attempted) => tracker'.sequence = LastSix(attempted'))
<1> DEFINE u == CountedCall(c)
<1>0. /\ tracker \in Trackers /\ kept \in Trackers /\ runs \in Seq(Executions) /\ attempted \in Seq(WebCalls) /\ epochs \in Nat
      /\ SeenRight(tracker, runs, untold) /\ HintRight(tracker, runs) /\ Numbered(tracker)
  BY DEF ProgressInv, ProgressTyped, SequenceFits, SeenFits, HintsFit
<1>1. /\ u \in Trackers
      /\ u.calls[c] = tracker.calls[c] + 1 /\ \A d \in WebCalls : d # c => u.calls[d] = tracker.calls[d]
      /\ u.sequence = LastSix(Append(tracker.sequence, c))
      /\ u.epoch = tracker.epoch /\ u.result = tracker.result /\ u.seen = tracker.seen
  BY <1>0, CountedIs
<1> HIDE DEF u
<1>2. SeenRight(u, runs, untold)
  BY <1>0, <1>1 DEF SeenRight
<1>3. HintRight(u, runs)
  <2>1. Counting(tracker, runs) \subseteq Counting(u, runs)
    BY <1>1 DEF Counting
  <2>2. QED BY <1>0, <1>1, <1>2, <2>1, HintKept
<1>4. /\ tracker' \in Trackers /\ tracker'.calls = u.calls /\ tracker'.sequence = u.sequence /\ tracker'.seen = u.seen
      /\ tracker'.epoch = epochs /\ HintRight(tracker', runs)
  <2>1. tracker' = Synced(u)
    BY DEF u
  <2>2. QED BY <1>0, <1>1, <1>2, <1>3, <2>1, SyncedIs
<1>5. SeenRight(tracker', runs, untold)
  BY <1>0, <1>1, <1>4 DEF SeenRight
<1>6. \A d \in WebCalls : tracker.calls[d] \in Nat /\ kept.calls[d] \in Nat
  BY <1>0 DEF Trackers
<1>7. \A d \in WebCalls : tracker'.calls[d] >= tracker.calls[d]
  BY <1>1, <1>4, <1>6
<1>8. tracker.sequence \in Seq(WebCalls) /\ Append(tracker.sequence, c) \in Seq(WebCalls)
  <2>1. tracker.sequence \in Seq(WebCalls)
    BY <1>0 DEF Trackers
  <2>2. QED BY <2>1, AppendProperties
<1>9. Numbered(tracker')
  <2> DEFINE s == tracker.sequence
             a == Append(s, c)
             q == LastSix(a)
  <2>1. s \in Seq(WebCalls) /\ Len(a) = Len(s) + 1 /\ Len(s) \in Nat /\ (\A i \in 1..Len(s) : a[i] = s[i]) /\ a[Len(s) + 1] = c
    BY <1>8, AppendProperties, LenProperties
  <2>2. \A i \in 1..Len(s) : s[i] \in WebCalls /\ tracker.calls[s[i]] >= 1
    <3>1. \A i \in 1..Len(s) : s[i] \in WebCalls /\ i \in DOMAIN s
      BY <2>1, ElementOfSeq, LenProperties
    <3>2. QED BY <1>0, <3>1 DEF Numbered
  <2>3. a \in Seq(WebCalls)
    BY <1>8
  <2> HIDE DEF s, a
  <2>4. \A i \in 1..Len(a) : a[i] \in WebCalls /\ tracker'.calls[a[i]] >= 1
    <3>1. SUFFICES ASSUME NEW i \in 1..Len(a) PROVE a[i] \in WebCalls /\ tracker'.calls[a[i]] >= 1
      OBVIOUS
    <3>2. CASE i \in 1..Len(s)
      <4>1. a[i] = s[i] /\ s[i] \in WebCalls /\ tracker.calls[s[i]] >= 1
        BY <2>1, <2>2, <3>2
      <4>2. tracker'.calls[s[i]] >= tracker.calls[s[i]] /\ tracker.calls[s[i]] \in Nat
        BY <1>6, <1>7, <4>1
      <4>3. tracker'.calls[s[i]] \in Nat
        BY <1>4, <4>1 DEF Trackers
      <4>4. QED BY <4>1, <4>2, <4>3
    <3>3. CASE i \notin 1..Len(s)
      <4>1. a[i] = c
        BY <2>1, <3>1, <3>3
      <4>2. QED BY <1>1, <1>4, <1>6, <4>1
    <3>4. QED BY <3>2, <3>3
  <2>5. /\ q \in Seq(WebCalls) /\ Len(q) <= 6 /\ Len(q) = (IF Len(a) > 6 THEN 6 ELSE Len(a))
        /\ \A i \in 1..Len(q) : q[i] = a[Len(a) - Len(q) + i]
    BY <2>3, LastSixIs
  <2>6. tracker'.sequence = q
    BY <1>1, <1>4 DEF a, s
  <2> HIDE DEF q
  <2>7. Len(q) \in Nat /\ Len(a) \in Nat /\ DOMAIN q = 1..Len(q)
    BY <2>1, <2>3, <2>5, LenProperties
  <2>8. ASSUME NEW i \in 1..Len(q) PROVE Len(a) - Len(q) + i \in 1..Len(a)
    BY <2>5, <2>7
  <2>9. \A i \in DOMAIN q : tracker'.calls[q[i]] >= 1
    BY <2>4, <2>5, <2>7, <2>8
  <2>10. QED BY <2>5, <2>6, <2>9 DEF Numbered
<1>10. /\ attempted' \in Seq(WebCalls)
       /\ (\A d \in WebCalls : Times(attempted', d) = IF d = c THEN Times(attempted, d) + 1 ELSE Times(attempted, d))
       /\ (\A d \in WebCalls : Times(attempted, d) \in Nat)
  BY <1>0, TimesAre, AppendProperties
<1>11. tracker.sequence = LastSix(attempted) => tracker'.sequence = LastSix(attempted')
  BY <1>0, <1>1, <1>4, LastSixGrows
<1>12. QED BY <1>1, <1>4, <1>5, <1>6, <1>7, <1>9, <1>10, <1>11 DEF u

LEMMA CountsAre ==
  ASSUME ProgressInv
  PROVE  \A c \in WebCalls : /\ tracker.calls[c] \in Nat /\ kept.calls[c] \in Nat
                             /\ Times(dispatched, c) \in Nat /\ Times(attempted, c) \in Nat
<1>1. tracker \in Trackers /\ kept \in Trackers /\ dispatched \in Seq(WebCalls) /\ attempted \in Seq(WebCalls)
  BY DEF ProgressInv, ProgressTyped
<1>2. \A c \in WebCalls : tracker.calls[c] \in Nat /\ kept.calls[c] \in Nat
  BY <1>1 DEF Trackers
<1>3. QED BY <1>1, <1>2, TimesAre

LEMMA ProgressStays ==
  ASSUME ProgressInv, [ProgressNext]_progressVars
  PROVE  ProgressInv'
<1>0. ProgressTyped /\ DoingFits /\ CountsFit /\ SequenceFits /\ SeenFits /\ HintsFit
  BY DEF ProgressInv
<1>1. CASE Batch
  <2>0. /\ doing.at = "thinking" /\ doing'.at = "batch"
        /\ UNCHANGED <<tracker, kept, answerOnly, epochs, runs, breaks, dispatched, attempted, unkept, revived, untold>>
    BY <1>1 DEF Batch, Resting
  <2>1. ProgressTyped'
    BY <1>0, <2>0 DEF ProgressTyped
  <2>2. DoingFits'
    BY <1>0, <2>0 DEF DoingFits
  <2>3. CountsFit'
    BY <1>0, <2>0 DEF CountsFit
  <2>4. SequenceFits'
    BY <1>0, <2>0 DEF SequenceFits
  <2>5. SeenFits'
    BY <1>0, <2>0 DEF SeenFits
  <2>6. HintsFit'
    BY <1>0, <2>0 DEF HintsFit
  <2>7. QED BY <2>1, <2>2, <2>3, <2>4, <2>5, <2>6 DEF ProgressInv
<1>2. CASE BatchEnds
  <2>0. /\ doing.at = "batch" /\ doing'.at = "thinking"
        /\ UNCHANGED <<tracker, kept, answerOnly, epochs, runs, breaks, dispatched, attempted, unkept, revived, untold>>
    BY <1>2 DEF BatchEnds, Resting
  <2>1. ProgressTyped'
    BY <1>0, <2>0 DEF ProgressTyped
  <2>2. DoingFits'
    BY <1>0, <2>0 DEF DoingFits
  <2>3. CountsFit'
    BY <1>0, <2>0 DEF CountsFit
  <2>4. SequenceFits'
    BY <1>0, <2>0 DEF SequenceFits
  <2>5. SeenFits'
    BY <1>0, <2>0 DEF SeenFits
  <2>6. HintsFit'
    BY <1>0, <2>0 DEF HintsFit
  <2>7. QED BY <2>1, <2>2, <2>3, <2>4, <2>5, <2>6 DEF ProgressInv
<1>3. ASSUME NEW c \in WebCalls, AskWeb(c), TooOften(CountedCall(c), c) PROVE ProgressInv'
  <2>0. /\ doing.at = "batch" /\ kept' = tracker' /\ answerOnly' = TRUE
        /\ tracker' \in Trackers
        /\ tracker'.calls[c] = tracker.calls[c] + 1 /\ (\A d \in WebCalls : d # c => tracker'.calls[d] = tracker.calls[d])
        /\ (\A d \in WebCalls : tracker'.calls[d] >= tracker.calls[d])
        /\ tracker'.seen = tracker.seen /\ SeenRight(tracker', runs, untold) /\ HintRight(tracker', runs)
        /\ Numbered(tracker')
        /\ attempted' \in Seq(WebCalls)
        /\ (\A d \in WebCalls : Times(attempted', d) = IF d = c THEN Times(attempted, d) + 1 ELSE Times(attempted, d))
        /\ (tracker.sequence = LastSix(attempted) => tracker'.sequence = LastSix(attempted'))
        /\ (\A d \in WebCalls : /\ tracker.calls[d] \in Nat /\ kept.calls[d] \in Nat
                             /\ Times(dispatched, d) \in Nat /\ Times(attempted, d) \in Nat)
        /\ UNCHANGED <<doing, epochs, runs, breaks, dispatched, unkept, revived, untold>>
    <3>1. /\ tracker' = Synced(CountedCall(c)) /\ attempted' = Append(attempted, c)
          /\ doing.at = "batch" /\ kept' = tracker' /\ answerOnly' = TRUE
          /\ UNCHANGED <<doing, epochs, runs, breaks, dispatched, unkept, revived, untold>>
      BY <1>3 DEF AskWeb
    <3>2. QED BY <3>1, AskedIs, CountsAre
  <2>1. ProgressTyped'
    BY <1>0, <2>0 DEF ProgressTyped
  <2>2. DoingFits'
    BY <1>0, <2>0 DEF DoingFits
  <2>3. CountsFit'
    <3>a. unkept \in Nat /\ unkept' \in Nat
      BY <1>0, <2>0 DEF ProgressTyped
    <3>b. \A d \in WebCalls : Times(dispatched, d) <= kept.calls[d] + unkept /\ Times(dispatched, d) <= 5 + unkept
      <4>1. SUFFICES ASSUME NEW d \in WebCalls PROVE Times(dispatched, d) <= kept.calls[d] + unkept /\ Times(dispatched, d) <= 5 + unkept
        OBVIOUS
      <4>2. Times(dispatched, d) <= kept.calls[d] + unkept + (IF doing.at = "web" THEN 1 ELSE 0) /\ Times(dispatched, d) <= 5 + unkept
        BY <1>0 DEF CountsFit
      <4>3. kept.calls[d] \in Nat /\ kept.calls[d] + unkept \in Nat /\ doing.at # "web"
        <5>1. kept.calls[d] \in Nat
          BY CountsAre
        <5>2. doing.at # "web"
          BY <2>0
        <5>3. QED BY <3>a, <5>1, <5>2
      <4> DEFINE n == kept.calls[d] + unkept
      <4>4. Times(dispatched, d) <= n + (IF doing.at = "web" THEN 1 ELSE 0) /\ n \in Nat
        BY <4>2, <4>3
      <4> HIDE DEF n
      <4>5. Times(dispatched, d) <= n
        BY <4>3, <4>4
      <4>6. QED BY <4>2, <4>5 DEF n
    <3>c. (\A d \in WebCalls : Times(dispatched, d) <= tracker.calls[d] + unkept) /\ (~revived => \A d \in WebCalls : tracker.calls[d] <= Times(attempted, d))
      BY <1>0, <2>0 DEF CountsFit
    <3>d. /\ kept' = tracker' /\ dispatched' = dispatched /\ unkept' = unkept /\ revived' = revived
          /\ \A d \in WebCalls : /\ tracker.calls[d] \in Nat /\ Times(dispatched, d) \in Nat /\ Times(attempted, d) \in Nat
                                /\ tracker'.calls[d] = (IF d = c THEN tracker.calls[d] + 1 ELSE tracker.calls[d])
                                /\ Times(attempted', d) = (IF d = c THEN Times(attempted, d) + 1 ELSE Times(attempted, d))
      BY <2>0
    <3>e. \A d \in WebCalls : tracker.calls[d] <= tracker'.calls[d] /\ tracker'.calls[d] \in Nat
      BY <3>d
    <3>2. ASSUME NEW d \in WebCalls PROVE Times(dispatched', d) <= tracker'.calls[d] + unkept'
      <4>1. Times(dispatched, d) <= tracker.calls[d] + unkept /\ tracker.calls[d] <= tracker'.calls[d]
        BY <3>c, <3>e
      <4>2. tracker.calls[d] \in Nat /\ tracker'.calls[d] \in Nat /\ Times(dispatched, d) \in Nat
        BY <3>d, <3>e
      <4>3. Times(dispatched, d) <= tracker'.calls[d] + unkept
        BY <3>a, <4>1, <4>2
      <4>4. QED BY <3>d, <4>3
    <3>1. ASSUME NEW d \in WebCalls PROVE Times(dispatched', d) <= kept'.calls[d] + unkept'
      BY <3>d, <3>2
    <3>3. ASSUME NEW d \in WebCalls PROVE Times(dispatched', d) <= 5 + unkept'
      BY <3>b, <3>d
    <3>4. ASSUME NEW d \in WebCalls PROVE ~revived' => tracker'.calls[d] <= Times(attempted', d)
      <4>1. ~revived' => tracker.calls[d] <= Times(attempted, d)
        BY <3>c, <3>d
      <4>2. CASE d = c
        BY <3>d, <4>1, <4>2
      <4>3. CASE d # c
        BY <3>d, <4>1, <4>3
      <4>4. QED BY <4>2, <4>3
    <3>5. \A d \in WebCalls : Times(dispatched', d) <= kept'.calls[d] + unkept' + (IF doing'.at = "web" THEN 1 ELSE 0)
      <4>1. \A d \in WebCalls : kept'.calls[d] \in Nat
        BY <2>0 DEF Trackers
      <4>2. doing'.at # "web"
        BY <2>0
      <4>3. QED BY <3>a, <3>1, <4>1, <4>2
    <3>6. doing'.at # "over"
      BY <2>0
    <3>7. QED BY <3>2, <3>3, <3>4, <3>5, <3>6 DEF CountsFit
  <2>4. SequenceFits'
    BY <1>0, <2>0 DEF SequenceFits
  <2>5. SeenFits'
    BY <1>0, <2>0 DEF SeenFits
  <2>6. HintsFit'
    BY <1>0, <2>0 DEF HintsFit
  <2>7. QED BY <2>1, <2>2, <2>3, <2>4, <2>5, <2>6 DEF ProgressInv
<1>4. ASSUME NEW c \in WebCalls, AskWeb(c), ~TooOften(CountedCall(c), c) PROVE ProgressInv'
  <2>0. /\ doing.at = "batch" /\ doing'.at = "web" /\ doing'.call = c
        /\ dispatched' \in Seq(WebCalls)
        /\ (\A d \in WebCalls : Times(dispatched', d) = IF d = c THEN Times(dispatched, d) + 1 ELSE Times(dispatched, d))
        /\ Streak(tracker'.sequence, c) <= 4 /\ ~Alternating(tracker'.sequence) /\ tracker'.calls[c] <= 5
        /\ tracker' \in Trackers
        /\ tracker'.calls[c] = tracker.calls[c] + 1 /\ (\A d \in WebCalls : d # c => tracker'.calls[d] = tracker.calls[d])
        /\ (\A d \in WebCalls : tracker'.calls[d] >= tracker.calls[d])
        /\ tracker'.seen = tracker.seen /\ SeenRight(tracker', runs, untold) /\ HintRight(tracker', runs)
        /\ Numbered(tracker')
        /\ attempted' \in Seq(WebCalls)
        /\ (\A d \in WebCalls : Times(attempted', d) = IF d = c THEN Times(attempted, d) + 1 ELSE Times(attempted, d))
        /\ (tracker.sequence = LastSix(attempted) => tracker'.sequence = LastSix(attempted'))
        /\ (\A d \in WebCalls : /\ tracker.calls[d] \in Nat /\ kept.calls[d] \in Nat
                             /\ Times(dispatched, d) \in Nat /\ Times(attempted, d) \in Nat)
        /\ UNCHANGED <<kept, answerOnly, epochs, runs, breaks, unkept, revived, untold>>
    <3>1. /\ tracker' = Synced(CountedCall(c)) /\ attempted' = Append(attempted, c) /\ dispatched' = Append(dispatched, c)
          /\ doing.at = "batch" /\ doing'.at = "web" /\ doing'.call = c
          /\ UNCHANGED <<kept, answerOnly, epochs, runs, breaks, unkept, revived, untold>>
      BY <1>4 DEF AskWeb
    <3>2. /\ dispatched' \in Seq(WebCalls)
          /\ (\A d \in WebCalls : Times(dispatched', d) = IF d = c THEN Times(dispatched, d) + 1 ELSE Times(dispatched, d))
      <4>1. dispatched \in Seq(WebCalls)
        BY <1>0 DEF ProgressTyped
      <4>2. QED BY <3>1, <4>1, TimesAre, AppendProperties
    <3>3. /\ tracker'.calls = CountedCall(c).calls /\ tracker'.sequence = CountedCall(c).sequence /\ tracker' \in Trackers
      BY <3>1, AskedIs
    <3>4. ~(Streak(tracker'.sequence, c) >= 5) /\ ~(tracker'.calls[c] >= 6) /\ ~Alternating(tracker'.sequence)
      BY <1>4, <3>3 DEF TooOften
    <3>5. Streak(tracker'.sequence, c) <= 4 /\ tracker'.calls[c] <= 5
      <4>1. tracker'.sequence \in Seq(WebCalls) /\ tracker'.calls[c] \in Nat
        BY <3>3 DEF Trackers
      <4>2. Streak(tracker'.sequence, c) \in Nat
        BY <4>1, StreakIs
      <4>3. QED BY <3>4, <4>1, <4>2
    <3>6. QED BY <3>1, <3>2, <3>4, <3>5, AskedIs, CountsAre
  <2>1. ProgressTyped'
    BY <1>0, <2>0 DEF ProgressTyped
  <2>2. DoingFits'
    BY <1>0, <2>0 DEF DoingFits
  <2>3. CountsFit'
    <3>a. unkept \in Nat /\ unkept' \in Nat
      BY <1>0, <2>0 DEF ProgressTyped
    <3>b. \A d \in WebCalls : Times(dispatched, d) <= kept.calls[d] + unkept /\ Times(dispatched, d) <= 5 + unkept
      <4>1. SUFFICES ASSUME NEW d \in WebCalls PROVE Times(dispatched, d) <= kept.calls[d] + unkept /\ Times(dispatched, d) <= 5 + unkept
        OBVIOUS
      <4>2. Times(dispatched, d) <= kept.calls[d] + unkept + (IF doing.at = "web" THEN 1 ELSE 0) /\ Times(dispatched, d) <= 5 + unkept
        BY <1>0 DEF CountsFit
      <4>3. kept.calls[d] \in Nat /\ kept.calls[d] + unkept \in Nat /\ doing.at # "web"
        <5>1. kept.calls[d] \in Nat
          BY CountsAre
        <5>2. doing.at # "web"
          BY <2>0
        <5>3. QED BY <3>a, <5>1, <5>2
      <4> DEFINE n == kept.calls[d] + unkept
      <4>4. Times(dispatched, d) <= n + (IF doing.at = "web" THEN 1 ELSE 0) /\ n \in Nat
        BY <4>2, <4>3
      <4> HIDE DEF n
      <4>5. Times(dispatched, d) <= n
        BY <4>3, <4>4
      <4>6. QED BY <4>2, <4>5 DEF n
    <3>c. (\A d \in WebCalls : Times(dispatched, d) <= tracker.calls[d] + unkept) /\ (~revived => \A d \in WebCalls : tracker.calls[d] <= Times(attempted, d))
      BY <1>0, <2>0 DEF CountsFit
    <3>d. /\ kept' = kept /\ unkept' = unkept /\ revived' = revived /\ tracker'.calls[c] <= 5
          /\ \A d \in WebCalls : /\ tracker.calls[d] \in Nat /\ kept.calls[d] \in Nat
                                /\ Times(dispatched, d) \in Nat /\ Times(attempted, d) \in Nat
                                /\ Times(dispatched', d) = (IF d = c THEN Times(dispatched, d) + 1 ELSE Times(dispatched, d))
                                /\ Times(attempted', d) = (IF d = c THEN Times(attempted, d) + 1 ELSE Times(attempted, d))
                                /\ tracker'.calls[d] = (IF d = c THEN tracker.calls[d] + 1 ELSE tracker.calls[d])
      BY <2>0
    <3>1. ASSUME NEW d \in WebCalls PROVE Times(dispatched', d) <= kept'.calls[d] + unkept' + 1
      <4>1. CASE d = c
        BY <3>a, <3>b, <3>c, <3>d, <4>1
      <4>2. CASE d # c
        BY <3>a, <3>b, <3>c, <3>d, <4>2
      <4>3. QED BY <4>1, <4>2
    <3>2. ASSUME NEW d \in WebCalls PROVE Times(dispatched', d) <= tracker'.calls[d] + unkept'
      <4>1. CASE d = c
        BY <3>a, <3>b, <3>c, <3>d, <4>1
      <4>2. CASE d # c
        BY <3>a, <3>b, <3>c, <3>d, <4>2
      <4>3. QED BY <4>1, <4>2
    <3>3. ASSUME NEW d \in WebCalls PROVE Times(dispatched', d) <= 5 + unkept'
      <4>1. CASE d = c
        BY <3>a, <3>b, <3>c, <3>d, <4>1
      <4>2. CASE d # c
        BY <3>a, <3>b, <3>c, <3>d, <4>2
      <4>3. QED BY <4>1, <4>2
    <3>4. ASSUME NEW d \in WebCalls PROVE ~revived' => tracker'.calls[d] <= Times(attempted', d)
      <4>1. CASE d = c
        BY <3>a, <3>b, <3>c, <3>d, <4>1
      <4>2. CASE d # c
        BY <3>a, <3>b, <3>c, <3>d, <4>2
      <4>3. QED BY <4>1, <4>2
    <3>5. \A d \in WebCalls : Times(dispatched', d) <= kept'.calls[d] + unkept' + (IF doing'.at = "web" THEN 1 ELSE 0)
      BY <2>0, <3>1
    <3>6. doing'.at # "over"
      BY <2>0
    <3>7. QED BY <3>2, <3>3, <3>4, <3>5, <3>6 DEF CountsFit
  <2>4. SequenceFits'
    <3>1. unkept' = 0 /\ ~revived' => tracker'.sequence = LastSix(attempted')
      BY <1>0, <2>0 DEF SequenceFits
    <3>2. unkept' = 0 /\ ~revived' => Streak(attempted', c) <= 4 /\ ~Alternating(LastSix(attempted'))
      <4>1. ASSUME unkept' = 0 /\ ~revived'
            PROVE  Streak(attempted', c) <= 4 /\ ~Alternating(LastSix(attempted'))
        <5>1. Streak(LastSix(attempted'), c) <= 4 /\ ~Alternating(LastSix(attempted'))
          BY <2>0, <3>1, <4>1
        <5>2. attempted' \in Seq(WebCalls)
          BY <2>0
        <5>3. QED BY <5>1, <5>2, ShortStreak
      <4>2. QED BY <4>1
    <3>3. Numbered(tracker') /\ Numbered(kept')
      BY <1>0, <2>0 DEF SequenceFits
    <3>4. QED BY <2>0, <3>1, <3>2, <3>3 DEF SequenceFits
  <2>5. SeenFits'
    BY <1>0, <2>0 DEF SeenFits
  <2>6. HintsFit'
    BY <1>0, <2>0 DEF HintsFit
  <2>7. QED BY <2>1, <2>2, <2>3, <2>4, <2>5, <2>6 DEF ProgressInv
<1>5. CASE WebReturns
  <2>0. /\ doing.at = "web" /\ doing'.at = "batch" /\ kept' = tracker
        /\ (\A d \in WebCalls : /\ tracker.calls[d] \in Nat /\ kept.calls[d] \in Nat
                             /\ Times(dispatched, d) \in Nat /\ Times(attempted, d) \in Nat)
        /\ UNCHANGED <<tracker, answerOnly, epochs, runs, breaks, dispatched, attempted, unkept, revived, untold>>
    BY <1>5, CountsAre DEF WebReturns, Resting
  <2>1. ProgressTyped'
    BY <1>0, <2>0 DEF ProgressTyped
  <2>2. DoingFits'
    BY <1>0, <2>0 DEF DoingFits
  <2>3. CountsFit'
    <3>a. unkept \in Nat /\ unkept' \in Nat
      BY <1>0, <2>0 DEF ProgressTyped
    <3>b. \A d \in WebCalls : Times(dispatched, d) <= kept.calls[d] + unkept + 1 /\ Times(dispatched, d) <= 5 + unkept
      <4>1. SUFFICES ASSUME NEW d \in WebCalls PROVE Times(dispatched, d) <= kept.calls[d] + unkept + 1 /\ Times(dispatched, d) <= 5 + unkept
        OBVIOUS
      <4>2. Times(dispatched, d) <= kept.calls[d] + unkept + (IF doing.at = "web" THEN 1 ELSE 0) /\ Times(dispatched, d) <= 5 + unkept
        BY <1>0 DEF CountsFit
      <4>3. kept.calls[d] \in Nat /\ kept.calls[d] + unkept \in Nat /\ doing.at = "web"
        <5>1. kept.calls[d] \in Nat
          BY CountsAre
        <5>2. doing.at = "web"
          BY <2>0
        <5>3. QED BY <3>a, <5>1, <5>2
      <4> DEFINE n == kept.calls[d] + unkept
      <4>4. Times(dispatched, d) <= n + (IF doing.at = "web" THEN 1 ELSE 0) /\ n \in Nat
        BY <4>2, <4>3
      <4> HIDE DEF n
      <4>5. Times(dispatched, d) <= n + 1
        BY <4>3, <4>4
      <4>6. QED BY <4>2, <4>5 DEF n
    <3>c. (\A d \in WebCalls : Times(dispatched, d) <= tracker.calls[d] + unkept) /\ (~revived => \A d \in WebCalls : tracker.calls[d] <= Times(attempted, d))
      BY <1>0, <2>0 DEF CountsFit
    <3>1. ASSUME NEW d \in WebCalls PROVE Times(dispatched', d) <= kept'.calls[d] + unkept'
      BY <2>0, <3>a, <3>b, <3>c
    <3>2. ASSUME NEW d \in WebCalls PROVE Times(dispatched', d) <= tracker'.calls[d] + unkept'
      BY <2>0, <3>a, <3>b, <3>c
    <3>3. ASSUME NEW d \in WebCalls PROVE Times(dispatched', d) <= 5 + unkept'
      BY <2>0, <3>a, <3>b, <3>c
    <3>4. ASSUME NEW d \in WebCalls PROVE ~revived' => tracker'.calls[d] <= Times(attempted', d)
      BY <2>0, <3>a, <3>b, <3>c
    <3>5. \A d \in WebCalls : Times(dispatched', d) <= kept'.calls[d] + unkept' + (IF doing'.at = "web" THEN 1 ELSE 0)
      <4>1. \A d \in WebCalls : kept'.calls[d] \in Nat
        BY <2>0 DEF Trackers
      <4>2. doing'.at # "web"
        BY <2>0
      <4>3. QED BY <3>a, <3>1, <4>1, <4>2
    <3>6. doing'.at # "over"
      BY <2>0
    <3>7. QED BY <3>2, <3>3, <3>4, <3>5, <3>6 DEF CountsFit
  <2>4. SequenceFits'
    BY <1>0, <2>0 DEF SequenceFits
  <2>5. SeenFits'
    BY <1>0, <2>0 DEF SeenFits
  <2>6. HintsFit'
    BY <1>0, <2>0 DEF HintsFit
  <2>7. QED BY <2>1, <2>2, <2>3, <2>4, <2>5, <2>6 DEF ProgressInv
<1>6. CASE RunCommand
  <2>0. /\ doing.at = "batch" /\ doing'.at = "command" /\ doing'.call = Len(runs) + 1 /\ Len(runs) \in Nat
        /\ runs' \in Seq(Executions) /\ Len(runs') = Len(runs) + 1 /\ Len(runs') <= MaxRuns /\ runs'[Len(runs) + 1].at = epochs
        /\ SeenRight(tracker, runs', untold) /\ HintRight(tracker, runs') /\ SeenRight(kept, runs', untold) /\ HintRight(kept, runs')
        /\ UNCHANGED <<tracker, kept, answerOnly, epochs, breaks, dispatched, attempted, unkept, revived, untold>>
    <3>1. PICK came \in Results \cup {"none"} :
            runs' = Append(runs, [at |-> epochs, result |-> came, job |-> came = "none"])
      BY <1>6 DEF RunCommand
    <3>2. /\ doing.at = "batch" /\ doing'.at = "command" /\ doing'.call = Len(runs) + 1 /\ Len(runs) < MaxRuns
          /\ UNCHANGED <<tracker, kept, answerOnly, epochs, breaks, dispatched, attempted, unkept, revived, untold>>
      BY <1>6 DEF RunCommand
    <3> DEFINE e == [at |-> epochs, result |-> came, job |-> came = "none"]
    <3>3. e \in Executions /\ e.at = epochs
      BY <1>0, <3>1 DEF ProgressTyped, Executions
    <3> HIDE DEF e
    <3>4. runs \in Seq(Executions) /\ Len(runs) \in Nat /\ MaxRuns \in Nat
      BY <1>0, LenProperties DEF ProgressTyped
    <3>5. runs' = Append(runs, e)
      BY <3>1 DEF e
    <3>6. runs' \in Seq(Executions) /\ Len(runs') = Len(runs) + 1 /\ (\A i \in 1..Len(runs) : runs'[i] = runs[i]) /\ runs'[Len(runs) + 1] = e
      BY <3>3, <3>4, <3>5, AppendProperties
    <3>7. tracker \in Trackers /\ kept \in Trackers
      BY <1>0 DEF ProgressTyped
    <3>8. SeenRight(tracker, runs', untold) /\ HintRight(tracker, runs') /\ SeenRight(kept, runs', untold) /\ HintRight(kept, runs')
      <4>1. /\ SeenRight(tracker, runs, untold) /\ HintRight(tracker, runs) /\ SeenRight(kept, runs, untold) /\ HintRight(kept, runs)
        BY <1>0 DEF SeenFits, HintsFit
      <4>2. Len(runs) <= Len(runs') /\ untold \subseteq untold
        BY <3>4, <3>6
      <4>3. QED BY <3>4, <3>6, <3>7, <4>1, <4>2, HintMoves
    <3>9. Len(runs') <= MaxRuns
      BY <3>2, <3>4, <3>6
    <3>10. QED BY <3>2, <3>3, <3>4, <3>6, <3>8, <3>9
  <2>1. ProgressTyped'
    BY <1>0, <2>0 DEF ProgressTyped
  <2>2. DoingFits'
    BY <1>0, <2>0 DEF DoingFits
  <2>3. CountsFit'
    BY <1>0, <2>0 DEF CountsFit
  <2>4. SequenceFits'
    BY <1>0, <2>0 DEF SequenceFits
  <2>5. SeenFits'
    <3>1. \A i \in 1..Len(runs) : i \in DOMAIN kept.seen \/ i \in untold
      BY <1>0, <2>0 DEF SeenFits
    <3>2. ASSUME NEW i \in 1..Len(runs')
          PROVE  i \in DOMAIN kept.seen \/ i \in untold \/ (i = Len(runs) + 1 /\ runs'[i].at = epochs)
      <4>1. i \in 1..Len(runs) \/ i = Len(runs) + 1
        BY <2>0
      <4>2. QED BY <2>0, <3>1, <4>1
    <3>3. \A i \in 1..Len(runs') : i \in DOMAIN kept.seen \/ i \in untold \/ (i = Len(runs) + 1 /\ runs'[i].at = epochs)
      BY <3>2
    <3>4. QED BY <1>0, <2>0, <3>3 DEF SeenFits
  <2>6. HintsFit'
    BY <1>0, <2>0 DEF HintsFit
  <2>7. QED BY <2>1, <2>2, <2>3, <2>4, <2>5, <2>6 DEF ProgressInv
<1>7. ASSUME NEW i \in 1..Len(runs), JobEnds(i) PROVE ProgressInv'
  <2>0. /\ runs' \in Seq(Executions) /\ Len(runs') = Len(runs) /\ Len(runs) \in Nat
        /\ (\A j \in 1..Len(runs) : runs'[j].at = runs[j].at)
        /\ SeenRight(tracker, runs', untold) /\ HintRight(tracker, runs') /\ SeenRight(kept, runs', untold) /\ HintRight(kept, runs')
        /\ UNCHANGED <<tracker, kept, doing, answerOnly, epochs, breaks, dispatched, attempted, unkept, revived, untold>>
    <3>1. PICK came \in Results : runs' = [runs EXCEPT ![i].result = came]
      BY <1>7 DEF JobEnds
    <3>2. /\ runs[i].result = "none"
          /\ UNCHANGED <<tracker, kept, doing, answerOnly, epochs, breaks, dispatched, attempted, unkept, revived, untold>>
      BY <1>7 DEF JobEnds
    <3>3. runs \in Seq(Executions) /\ Len(runs) \in Nat /\ "none" \notin Results
      BY <1>0, LenProperties DEF ProgressTyped
    <3>4. runs[i] \in Executions
      BY <3>3, ElementOfSeq
    <3> DEFINE e == [runs[i] EXCEPT !.result = came]
    <3>5. e \in Executions /\ e.at = runs[i].at
      BY <3>1, <3>4 DEF Executions
    <3> HIDE DEF e
    <3>6. runs' = [runs EXCEPT ![i] = e]
      BY <3>1 DEF e
    <3>7. /\ runs' \in Seq(Executions) /\ Len(runs') = Len(runs) /\ (\A j \in 1..Len(runs) : j # i => runs'[j] = runs[j])
          /\ runs'[i] = e
      BY <3>3, <3>5, <3>6, ExceptSeq
    <3>8. tracker \in Trackers /\ kept \in Trackers
      BY <1>0 DEF ProgressTyped
    <3>9. \A j \in 1..Len(runs) : runs'[j].at = runs[j].at /\ (runs[j].result \in Results => runs'[j].result = runs[j].result)
      BY <3>2, <3>3, <3>5, <3>7
    <3>10. SeenRight(tracker, runs', untold) /\ HintRight(tracker, runs') /\ SeenRight(kept, runs', untold) /\ HintRight(kept, runs')
      <4>1. /\ SeenRight(tracker, runs, untold) /\ HintRight(tracker, runs) /\ SeenRight(kept, runs, untold) /\ HintRight(kept, runs)
        BY <1>0 DEF SeenFits, HintsFit
      <4>2. Len(runs) <= Len(runs') /\ untold \subseteq untold
        BY <3>3, <3>7
      <4>3. QED BY <3>3, <3>7, <3>8, <3>9, <4>1, <4>2, HintMoves
    <3>11. QED BY <3>2, <3>3, <3>7, <3>9, <3>10
  <2>1. ProgressTyped'
    BY <1>0, <2>0 DEF ProgressTyped
  <2>2. DoingFits'
    BY <1>0, <2>0 DEF DoingFits
  <2>3. CountsFit'
    BY <1>0, <2>0 DEF CountsFit
  <2>4. SequenceFits'
    BY <1>0, <2>0 DEF SequenceFits
  <2>5. SeenFits'
    BY <1>0, <2>0 DEF SeenFits
  <2>6. HintsFit'
    BY <1>0, <2>0 DEF HintsFit
  <2>7. QED BY <2>1, <2>2, <2>3, <2>4, <2>5, <2>6 DEF ProgressInv
<1>8. ASSUME NEW i \in 1..Len(runs), LookAtJob(i) PROVE ProgressInv'
  <2>0. /\ doing.at = "batch" /\ doing'.at = "command" /\ doing'.call = i
        /\ UNCHANGED <<tracker, kept, answerOnly, epochs, runs, breaks, dispatched, attempted, unkept, revived, untold>>
    BY <1>8 DEF LookAtJob
  <2>1. ProgressTyped'
    BY <1>0, <2>0 DEF ProgressTyped
  <2>2. DoingFits'
    BY <1>0, <2>0 DEF DoingFits
  <2>3. CountsFit'
    BY <1>0, <2>0 DEF CountsFit
  <2>4. SequenceFits'
    BY <1>0, <2>0 DEF SequenceFits
  <2>5. SeenFits'
    BY <1>0, <2>0 DEF SeenFits
  <2>6. HintsFit'
    BY <1>0, <2>0 DEF HintsFit
  <2>7. QED BY <2>1, <2>2, <2>3, <2>4, <2>5, <2>6 DEF ProgressInv
<1>9. CASE Observed
  <2>0. /\ doing.at = "command" /\ doing'.at = "batch" /\ doing.call \in 1..Len(runs) /\ kept' = tracker'
        /\ tracker' \in Trackers /\ tracker'.calls = tracker.calls /\ tracker'.sequence = tracker.sequence
        /\ SeenRight(tracker', runs, untold) /\ HintRight(tracker', runs)
        /\ DOMAIN tracker'.seen = DOMAIN kept.seen \cup {doing.call}
        /\ (\A d \in WebCalls : /\ tracker.calls[d] \in Nat /\ kept.calls[d] \in Nat
                             /\ Times(dispatched, d) \in Nat /\ Times(attempted, d) \in Nat)
        /\ UNCHANGED <<answerOnly, epochs, runs, breaks, dispatched, attempted, unkept, revived, untold>>
    <3> DEFINE i == doing.call
               v == Synced(tracker)
               w == Noted(v, i)
    <3>1. /\ doing.at = "command" /\ doing'.at = "batch" /\ kept' = tracker'
          /\ tracker' = IF runs[i].result = "none" THEN w ELSE CountTerminal(w, i, runs[i].result)
          /\ UNCHANGED <<answerOnly, epochs, runs, breaks, dispatched, attempted, unkept, revived, untold>>
      BY <1>9 DEF Observed, Resting
    <3>2. /\ i \in 1..Len(runs) /\ tracker \in Trackers /\ runs \in Seq(Executions) /\ epochs \in Nat
          /\ SeenRight(tracker, runs, untold) /\ HintRight(tracker, runs) /\ kept.seen = tracker.seen
          /\ (i \notin DOMAIN tracker.seen => runs[i].at = epochs \/ i \in untold)
      BY <1>0, <3>1 DEF ProgressTyped, DoingFits, SeenFits, HintsFit
    <3>3. /\ i \in Nat /\ runs[i].result \in Results \cup {"none"}
      <4>1. runs[i] \in Executions /\ Len(runs) \in Nat
        BY <3>2, ElementOfSeq, LenProperties
      <4>2. QED BY <3>2, <4>1 DEF Executions
    <3>4. /\ v \in Trackers /\ v.calls = tracker.calls /\ v.sequence = tracker.sequence /\ v.seen = tracker.seen
          /\ v.epoch = epochs /\ HintRight(v, runs)
      BY <3>2, SyncedIs
    <3> HIDE DEF i, v
    <3>5. SeenRight(v, runs, untold)
      BY <3>2, <3>4 DEF SeenRight
    <3>6. /\ w \in Trackers /\ w.calls = tracker.calls /\ w.sequence = tracker.sequence /\ w.epoch = epochs
          /\ DOMAIN w.seen = DOMAIN kept.seen \cup {i}
      <4>1. w \in Trackers /\ w.calls = v.calls /\ w.sequence = v.sequence /\ w.epoch = v.epoch /\ DOMAIN w.seen = DOMAIN v.seen \cup {i}
        <5>1. v \in Trackers /\ epochs \in Nat /\ i \in Nat
          BY <3>2, <3>3, <3>4
        <5>2. QED BY <5>1, NotedIs
      <4>2. QED BY <3>2, <3>4, <4>1
    <3>7. SeenRight(w, runs, untold) /\ HintRight(w, runs)
      BY <3>2, <3>4, <3>5, SightIs
    <3> HIDE DEF w
    <3>8. /\ tracker' \in Trackers /\ tracker'.calls = tracker.calls /\ tracker'.sequence = tracker.sequence
          /\ SeenRight(tracker', runs, untold) /\ HintRight(tracker', runs)
          /\ DOMAIN tracker'.seen = DOMAIN kept.seen \cup {i}
      <4>1. CASE runs[i].result = "none"
        BY <3>1, <3>6, <3>7, <4>1
      <4>2. CASE runs[i].result \in Results
        <5>1. i \in DOMAIN w.seen /\ "none" \notin Results
          BY <3>6
        <5>2. tracker' = CountTerminal(w, i, runs[i].result)
          BY <3>1, <4>2, <5>1
        <5>3. QED BY <3>2, <3>6, <3>7, <4>2, <5>1, <5>2, TerminalIs
      <4>3. QED BY <3>3, <4>1, <4>2
    <3>9. QED BY <3>1, <3>2, <3>8, CountsAre DEF i
  <2>1. ProgressTyped'
    BY <1>0, <2>0 DEF ProgressTyped
  <2>2. DoingFits'
    BY <1>0, <2>0 DEF DoingFits
  <2>3. CountsFit'
    <3>a. unkept \in Nat /\ unkept' \in Nat
      BY <1>0, <2>0 DEF ProgressTyped
    <3>b. \A d \in WebCalls : Times(dispatched, d) <= kept.calls[d] + unkept /\ Times(dispatched, d) <= 5 + unkept
      <4>1. SUFFICES ASSUME NEW d \in WebCalls PROVE Times(dispatched, d) <= kept.calls[d] + unkept /\ Times(dispatched, d) <= 5 + unkept
        OBVIOUS
      <4>2. Times(dispatched, d) <= kept.calls[d] + unkept + (IF doing.at = "web" THEN 1 ELSE 0) /\ Times(dispatched, d) <= 5 + unkept
        BY <1>0 DEF CountsFit
      <4>3. kept.calls[d] \in Nat /\ kept.calls[d] + unkept \in Nat /\ doing.at # "web"
        <5>1. kept.calls[d] \in Nat
          BY CountsAre
        <5>2. doing.at # "web"
          BY <2>0
        <5>3. QED BY <3>a, <5>1, <5>2
      <4> DEFINE n == kept.calls[d] + unkept
      <4>4. Times(dispatched, d) <= n + (IF doing.at = "web" THEN 1 ELSE 0) /\ n \in Nat
        BY <4>2, <4>3
      <4> HIDE DEF n
      <4>5. Times(dispatched, d) <= n
        BY <4>3, <4>4
      <4>6. QED BY <4>2, <4>5 DEF n
    <3>c. (\A d \in WebCalls : Times(dispatched, d) <= tracker.calls[d] + unkept) /\ (~revived => \A d \in WebCalls : tracker.calls[d] <= Times(attempted, d))
      BY <1>0, <2>0 DEF CountsFit
    <3>1. ASSUME NEW d \in WebCalls PROVE Times(dispatched', d) <= kept'.calls[d] + unkept'
      BY <2>0, <3>a, <3>b, <3>c
    <3>2. ASSUME NEW d \in WebCalls PROVE Times(dispatched', d) <= tracker'.calls[d] + unkept'
      BY <2>0, <3>a, <3>b, <3>c
    <3>3. ASSUME NEW d \in WebCalls PROVE Times(dispatched', d) <= 5 + unkept'
      BY <2>0, <3>a, <3>b, <3>c
    <3>4. ASSUME NEW d \in WebCalls PROVE ~revived' => tracker'.calls[d] <= Times(attempted', d)
      BY <2>0, <3>a, <3>b, <3>c
    <3>5. \A d \in WebCalls : Times(dispatched', d) <= kept'.calls[d] + unkept' + (IF doing'.at = "web" THEN 1 ELSE 0)
      <4>1. \A d \in WebCalls : kept'.calls[d] \in Nat
        BY <2>0 DEF Trackers
      <4>2. doing'.at # "web"
        BY <2>0
      <4>3. QED BY <3>a, <3>1, <4>1, <4>2
    <3>6. doing'.at # "over"
      BY <2>0
    <3>7. QED BY <3>2, <3>3, <3>4, <3>5, <3>6 DEF CountsFit
  <2>4. SequenceFits'
    <3>1. Numbered(tracker')
      BY <1>0, <2>0 DEF SequenceFits, Numbered
    <3>2. QED BY <1>0, <2>0, <3>1 DEF SequenceFits
  <2>5. SeenFits'
    BY <1>0, <2>0 DEF SeenFits
  <2>6. HintsFit'
    BY <1>0, <2>0 DEF HintsFit
  <2>7. QED BY <2>1, <2>2, <2>3, <2>4, <2>5, <2>6 DEF ProgressInv
<1>10. CASE Edited
  <2>0. /\ doing.at = "batch" /\ kept' = tracker' /\ epochs' \in 0..MaxEpochs
        /\ tracker' \in Trackers /\ tracker'.calls = tracker.calls /\ tracker'.sequence = tracker.sequence /\ tracker'.seen = tracker.seen
        /\ SeenRight(tracker', runs, untold) /\ HintRight(tracker', runs)
        /\ (\A d \in WebCalls : /\ tracker.calls[d] \in Nat /\ kept.calls[d] \in Nat
                             /\ Times(dispatched, d) \in Nat /\ Times(attempted, d) \in Nat)
        /\ UNCHANGED <<doing, answerOnly, runs, breaks, dispatched, attempted, unkept, revived, untold>>
    <3>1. /\ doing.at = "batch" /\ epochs < MaxEpochs /\ epochs' = epochs + 1 /\ kept' = tracker'
          /\ tracker' = [tracker EXCEPT !.epoch = epochs', !.result = NoResult]
          /\ UNCHANGED <<doing, answerOnly, runs, breaks, dispatched, attempted, unkept, revived, untold>>
      BY <1>10 DEF Edited
    <3>2. /\ tracker \in Trackers /\ runs \in Seq(Executions) /\ epochs \in 0..MaxEpochs /\ SeenRight(tracker, runs, untold)
      BY <1>0 DEF ProgressTyped, SeenFits
    <3>3. epochs' \in 0..MaxEpochs /\ epochs' \in Nat
      BY <3>1, <3>2
    <3>4. /\ tracker' \in Trackers /\ tracker'.calls = tracker.calls /\ tracker'.sequence = tracker.sequence
          /\ tracker'.seen = tracker.seen /\ tracker'.result = NoResult
      BY <3>1, <3>2, <3>3, FreshTracker DEF Trackers
    <3>5. SeenRight(tracker', runs, untold)
      BY <3>2, <3>4 DEF SeenRight
    <3>6. HintRight(tracker', runs)
      BY <3>2, <3>4, <3>5, NothingCounted
    <3>7. QED BY <3>1, <3>3, <3>4, <3>5, <3>6, CountsAre
  <2>1. ProgressTyped'
    BY <1>0, <2>0 DEF ProgressTyped
  <2>2. DoingFits'
    BY <1>0, <2>0 DEF DoingFits
  <2>3. CountsFit'
    <3>a. unkept \in Nat /\ unkept' \in Nat
      BY <1>0, <2>0 DEF ProgressTyped
    <3>b. \A d \in WebCalls : Times(dispatched, d) <= kept.calls[d] + unkept /\ Times(dispatched, d) <= 5 + unkept
      <4>1. SUFFICES ASSUME NEW d \in WebCalls PROVE Times(dispatched, d) <= kept.calls[d] + unkept /\ Times(dispatched, d) <= 5 + unkept
        OBVIOUS
      <4>2. Times(dispatched, d) <= kept.calls[d] + unkept + (IF doing.at = "web" THEN 1 ELSE 0) /\ Times(dispatched, d) <= 5 + unkept
        BY <1>0 DEF CountsFit
      <4>3. kept.calls[d] \in Nat /\ kept.calls[d] + unkept \in Nat /\ doing.at # "web"
        <5>1. kept.calls[d] \in Nat
          BY CountsAre
        <5>2. doing.at # "web"
          BY <2>0
        <5>3. QED BY <3>a, <5>1, <5>2
      <4> DEFINE n == kept.calls[d] + unkept
      <4>4. Times(dispatched, d) <= n + (IF doing.at = "web" THEN 1 ELSE 0) /\ n \in Nat
        BY <4>2, <4>3
      <4> HIDE DEF n
      <4>5. Times(dispatched, d) <= n
        BY <4>3, <4>4
      <4>6. QED BY <4>2, <4>5 DEF n
    <3>c. (\A d \in WebCalls : Times(dispatched, d) <= tracker.calls[d] + unkept) /\ (~revived => \A d \in WebCalls : tracker.calls[d] <= Times(attempted, d))
      BY <1>0, <2>0 DEF CountsFit
    <3>1. ASSUME NEW d \in WebCalls PROVE Times(dispatched', d) <= kept'.calls[d] + unkept'
      BY <2>0, <3>a, <3>b, <3>c
    <3>2. ASSUME NEW d \in WebCalls PROVE Times(dispatched', d) <= tracker'.calls[d] + unkept'
      BY <2>0, <3>a, <3>b, <3>c
    <3>3. ASSUME NEW d \in WebCalls PROVE Times(dispatched', d) <= 5 + unkept'
      BY <2>0, <3>a, <3>b, <3>c
    <3>4. ASSUME NEW d \in WebCalls PROVE ~revived' => tracker'.calls[d] <= Times(attempted', d)
      BY <2>0, <3>a, <3>b, <3>c
    <3>5. \A d \in WebCalls : Times(dispatched', d) <= kept'.calls[d] + unkept' + (IF doing'.at = "web" THEN 1 ELSE 0)
      <4>1. \A d \in WebCalls : kept'.calls[d] \in Nat
        BY <2>0 DEF Trackers
      <4>2. doing'.at # "web"
        BY <2>0
      <4>3. QED BY <3>a, <3>1, <4>1, <4>2
    <3>6. doing'.at # "over"
      BY <2>0
    <3>7. QED BY <3>2, <3>3, <3>4, <3>5, <3>6 DEF CountsFit
  <2>4. SequenceFits'
    <3>1. Numbered(tracker')
      BY <1>0, <2>0 DEF SequenceFits, Numbered
    <3>2. QED BY <1>0, <2>0, <3>1 DEF SequenceFits
  <2>5. SeenFits'
    BY <1>0, <2>0 DEF SeenFits
  <2>6. HintsFit'
    BY <1>0, <2>0 DEF HintsFit
  <2>7. QED BY <2>1, <2>2, <2>3, <2>4, <2>5, <2>6 DEF ProgressInv
<1>11. CASE UserWrites
  <2>0. /\ doing.at = "thinking" /\ epochs' \in 0..MaxEpochs /\ unkept' = 0 /\ revived' = FALSE
        /\ tracker' \in Trackers /\ tracker'.calls = NoCounts /\ tracker'.sequence = <<>> /\ tracker'.seen = tracker.seen
        /\ (\A c \in WebCalls : tracker'.calls[c] = 0) /\ Numbered(tracker')
        /\ SeenRight(tracker', runs, untold) /\ HintRight(tracker', runs)
        /\ dispatched' \in Seq(WebCalls) /\ attempted' \in Seq(WebCalls) /\ LastSix(attempted') = <<>>
        /\ (\A c \in WebCalls : Times(dispatched', c) = 0 /\ Times(attempted', c) = 0)
        /\ (\A d \in WebCalls : /\ tracker.calls[d] \in Nat /\ kept.calls[d] \in Nat
                             /\ Times(dispatched, d) \in Nat /\ Times(attempted, d) \in Nat)
        /\ UNCHANGED <<kept, doing, answerOnly, runs, breaks, untold>>
    <3>1. /\ doing.at = "thinking" /\ epochs < MaxEpochs /\ epochs' = epochs + 1
          /\ tracker' = [tracker EXCEPT !.calls = NoCounts, !.sequence = <<>>]
          /\ dispatched' = <<>> /\ attempted' = <<>> /\ unkept' = 0 /\ revived' = FALSE
          /\ UNCHANGED <<kept, doing, answerOnly, runs, breaks, untold>>
      BY <1>11 DEF UserWrites
    <3>2. /\ tracker \in Trackers /\ runs \in Seq(Executions) /\ epochs \in 0..MaxEpochs
          /\ SeenRight(tracker, runs, untold) /\ HintRight(tracker, runs)
      BY <1>0 DEF ProgressTyped, SeenFits, HintsFit
    <3>3. epochs' \in 0..MaxEpochs
      BY <3>1, <3>2
    <3>4. <<>> \in Seq(WebCalls) /\ Len(<<>>) = 0 /\ DOMAIN <<>> = {}
      <4>1. <<>> \in Seq(WebCalls) /\ Len(<<>>) = 0
        BY EmptySeq
      <4>2. QED BY <4>1, NoSights
    <3>5. /\ tracker' \in Trackers /\ tracker'.calls = NoCounts /\ tracker'.sequence = <<>>
          /\ tracker'.seen = tracker.seen /\ tracker'.result = tracker.result /\ tracker'.epoch = tracker.epoch
      BY <3>1, <3>2, <3>4, FreshTracker DEF Trackers
    <3>6. SeenRight(tracker', runs, untold)
      BY <3>2, <3>5 DEF SeenRight
    <3>7. HintRight(tracker', runs)
      <4>1. Counting(tracker, runs) \subseteq Counting(tracker', runs)
        BY <3>5 DEF Counting
      <4>2. QED BY <3>2, <3>5, <3>6, <4>1, HintKept
    <3>8. Numbered(tracker')
      BY <3>4, <3>5 DEF Numbered
    <3>9. LastSix(attempted') = <<>>
      BY <3>1, <3>4 DEF LastSix
    <3>10. \A c \in WebCalls : Times(<<>>, c) = 0
      BY <3>4, TimesAre
    <3>11. QED BY <3>1, <3>3, <3>4, <3>5, <3>6, <3>7, <3>8, <3>9, <3>10, CountsAre, FreshTracker
  <2>1. ProgressTyped'
    <3>1. 0 \in Nat /\ 0 <= breaks
      BY <1>0 DEF ProgressTyped
    <3>2. QED BY <1>0, <2>0, <3>1 DEF ProgressTyped
  <2>2. DoingFits'
    BY <1>0, <2>0 DEF DoingFits
  <2>3. CountsFit'
    BY <1>0, <2>0 DEF CountsFit
  <2>4. SequenceFits'
    BY <1>0, <2>0 DEF SequenceFits
  <2>5. SeenFits'
    BY <1>0, <2>0 DEF SeenFits
  <2>6. HintsFit'
    BY <1>0, <2>0 DEF HintsFit
  <2>7. QED BY <2>1, <2>2, <2>3, <2>4, <2>5, <2>6 DEF ProgressInv
<1>12. CASE AttemptBreaks
  <2>0. /\ doing.at # "over" /\ doing'.at = "over" /\ breaks < MaxBreaks /\ breaks' = breaks + 1
        /\ tracker' \in Trackers /\ (\A c \in WebCalls : tracker'.calls[c] = 0) /\ Numbered(tracker')
        /\ SeenRight(tracker', runs, untold') /\ HintRight(tracker', runs) /\ SeenRight(kept, runs, untold') /\ HintRight(kept, runs)
        /\ (doing.at = "web" => unkept' = unkept + 1) /\ (doing.at # "web" => unkept' = unkept)
        /\ (~revived' => ~revived /\ \A c \in WebCalls : kept.calls[c] <= tracker.calls[c]) /\ revived' \in BOOLEAN
        /\ untold \subseteq untold' /\ untold' \subseteq 1..Len(runs)
        /\ (doing.at = "command" => doing.call \in DOMAIN kept.seen \/ doing.call \in untold')
        /\ (\A d \in WebCalls : /\ tracker.calls[d] \in Nat /\ kept.calls[d] \in Nat
                             /\ Times(dispatched, d) \in Nat /\ Times(attempted, d) \in Nat)
        /\ UNCHANGED <<kept, answerOnly, epochs, runs, dispatched, attempted>>
    <3>1. /\ doing.at # "over" /\ doing'.at = "over" /\ breaks < MaxBreaks /\ breaks' = breaks + 1
          /\ tracker' = NewTracker
          /\ unkept' = (IF doing.at = "web" THEN unkept + 1 ELSE unkept)
          /\ revived' = (revived \/ \E c \in WebCalls : tracker.calls[c] < kept.calls[c])
          /\ untold' = (IF doing.at = "command" /\ doing.call \notin DOMAIN tracker.seen THEN untold \cup {doing.call} ELSE untold)
          /\ UNCHANGED <<kept, answerOnly, epochs, runs, dispatched, attempted>>
      BY <1>12 DEF AttemptBreaks, Resting
    <3>2. /\ runs \in Seq(Executions) /\ kept \in Trackers /\ untold \subseteq 1..Len(runs)
          /\ SeenRight(kept, runs, untold) /\ HintRight(kept, runs) /\ kept.seen = tracker.seen
          /\ (doing.at = "command" => doing.call \in 1..Len(runs))
      BY <1>0, <3>1 DEF ProgressTyped, DoingFits, SeenFits, HintsFit
    <3>3. /\ untold \subseteq untold' /\ untold' \subseteq 1..Len(runs)
          /\ (doing.at = "command" => doing.call \in DOMAIN kept.seen \/ doing.call \in untold')
      BY <3>1, <3>2
    <3>4. tracker' \in Trackers /\ tracker'.calls = NoCounts /\ tracker'.sequence = <<>> /\ tracker'.seen = <<>> /\ tracker'.result = NoResult
      BY <3>1, FreshTracker
    <3>5. \A c \in WebCalls : tracker'.calls[c] = 0
      BY <3>4, FreshTracker
    <3>6. Numbered(tracker') /\ SeenRight(tracker', runs, untold')
      <4>1. Len(<<>>) = 0 /\ \A i : i \notin DOMAIN <<>>
        BY EmptySeq, NoSights
      <4>2. QED BY <3>4, <4>1 DEF Numbered, SeenRight
    <3>7. HintRight(tracker', runs)
      BY <3>2, <3>4, <3>6, NothingCounted
    <3>8. SeenRight(kept, runs, untold')
      BY <3>2, <3>3 DEF SeenRight
    <3>9. (~revived' => ~revived /\ \A c \in WebCalls : kept.calls[c] <= tracker.calls[c]) /\ revived' \in BOOLEAN
      <4>1. \A c \in WebCalls : ~(tracker.calls[c] < kept.calls[c]) => kept.calls[c] <= tracker.calls[c]
        BY CountsAre
      <4>2. revived \in BOOLEAN
        BY <1>0 DEF ProgressTyped
      <4> DEFINE lost == \E c \in WebCalls : tracker.calls[c] < kept.calls[c]
      <4>3. ~lost => \A c \in WebCalls : kept.calls[c] <= tracker.calls[c]
        BY <4>1
      <4>4. revived' = (revived \/ lost) /\ lost \in BOOLEAN
        BY <3>1
      <4> HIDE DEF lost
      <4>5. QED BY <4>2, <4>3, <4>4
    <3>10. (doing.at = "web" => unkept' = unkept + 1) /\ (doing.at # "web" => unkept' = unkept)
      BY <3>1
    <3>11. QED BY <3>1, <3>2, <3>3, <3>4, <3>5, <3>6, <3>7, <3>8, <3>9, <3>10, CountsAre
  <2>1. ProgressTyped'
    <3>1. breaks' \in Nat /\ breaks' <= MaxBreaks /\ unkept' \in Nat /\ unkept' <= breaks'
      BY <1>0, <2>0 DEF ProgressTyped
    <3>2. QED BY <1>0, <2>0, <3>1 DEF ProgressTyped
  <2>2. DoingFits'
    BY <1>0, <2>0 DEF DoingFits
  <2>3. CountsFit'
    <3>1. unkept \in Nat
      BY <1>0 DEF ProgressTyped
    <3>2. ASSUME NEW c \in WebCalls
          PROVE  Times(dispatched, c) <= kept.calls[c] + unkept' /\ Times(dispatched, c) <= 5 + unkept'
      <4>1. Times(dispatched, c) <= kept.calls[c] + unkept + (IF doing.at = "web" THEN 1 ELSE 0) /\ Times(dispatched, c) <= 5 + unkept
        BY <1>0 DEF CountsFit
      <4>2. kept.calls[c] \in Nat /\ Times(dispatched, c) \in Nat
        BY <2>0
      <4>3. CASE doing.at = "web"
        <5>1. unkept' = unkept + 1
          BY <2>0, <4>3
        <5>2. Times(dispatched, c) <= kept.calls[c] + unkept + 1
          BY <4>1, <4>3
        <5>3. QED BY <3>1, <4>1, <4>2, <5>1, <5>2
      <4>4. CASE doing.at # "web"
        BY <2>0, <3>1, <4>1, <4>2, <4>4
      <4>5. QED BY <4>3, <4>4
    <3>3. ~revived' => \A c \in WebCalls : kept.calls[c] <= Times(attempted, c)
      BY <1>0, <2>0 DEF CountsFit
    <3>4. \A c \in WebCalls : tracker'.calls[c] <= Times(attempted, c)
      BY <2>0
    <3>a. \A c \in WebCalls : Times(dispatched, c) <= kept.calls[c] + unkept' + (IF doing'.at = "web" THEN 1 ELSE 0)
      <4>1. unkept' \in Nat /\ doing'.at # "web"
        BY <1>0, <2>0, <3>1
      <4>2. QED BY <2>0, <3>2, <4>1
    <3>5. QED BY <2>0, <3>a, <3>2, <3>3, <3>4 DEF CountsFit
  <2>4. SequenceFits'
    <3>1. ASSUME unkept' = 0 /\ ~revived' PROVE kept.sequence = LastSix(attempted)
      <4>1. unkept = 0 /\ ~revived /\ doing.at \notin {"web", "over"}
        <5>1. unkept \in Nat
          BY <1>0 DEF ProgressTyped
        <5>2. doing.at # "web"
          BY <2>0, <3>1, <5>1
        <5>3. QED BY <2>0, <3>1, <5>2
      <4>2. tracker.sequence = LastSix(attempted)
        BY <1>0, <4>1 DEF SequenceFits
      <4>3. CASE kept.sequence = tracker.sequence
        BY <4>2, <4>3
      <4>4. CASE tracker.calls = NoCounts /\ tracker.sequence = <<>>
        <5>1. \A c \in WebCalls : kept.calls[c] <= 0
          BY <2>0, <3>1, <4>4, FreshTracker
        <5>2. kept.sequence \in Seq(WebCalls) /\ Numbered(kept)
          BY <1>0 DEF ProgressTyped, Trackers, SequenceFits
        <5>3. \A i \in 1..Len(kept.sequence) : FALSE
          <6>1. SUFFICES ASSUME NEW i \in 1..Len(kept.sequence) PROVE FALSE
            OBVIOUS
          <6>2. kept.sequence[i] \in WebCalls /\ i \in DOMAIN kept.sequence
            BY <5>2, ElementOfSeq, LenProperties
          <6>3. kept.calls[kept.sequence[i]] >= 1 /\ kept.calls[kept.sequence[i]] <= 0 /\ kept.calls[kept.sequence[i]] \in Nat
            BY <2>0, <5>1, <5>2, <6>2 DEF Numbered
          <6>4. QED BY <6>3
        <5>4. Len(kept.sequence) = 0
          <6>1. Len(kept.sequence) \in Nat
            BY <5>2, LenProperties
          <6>2. QED BY <5>3, <6>1
        <5>5. kept.sequence = <<>>
          BY <5>2, <5>4, EmptySeq
        <5>6. QED BY <4>2, <4>4, <5>5
      <4>5. QED BY <1>0, <4>1, <4>3, <4>4 DEF SequenceFits
    <3>2. QED BY <1>0, <2>0, <3>1 DEF SequenceFits
  <2>5. SeenFits'
    BY <1>0, <2>0 DEF SeenFits
  <2>6. HintsFit'
    BY <1>0, <2>0 DEF HintsFit
  <2>7. QED BY <2>1, <2>2, <2>3, <2>4, <2>5, <2>6 DEF ProgressInv
<1>13. CASE TakeUp
  <2>0. /\ doing.at = "over" /\ doing'.at = "thinking" /\ tracker' = kept /\ answerOnly' = FALSE
        /\ (\A d \in WebCalls : /\ tracker.calls[d] \in Nat /\ kept.calls[d] \in Nat
                             /\ Times(dispatched, d) \in Nat /\ Times(attempted, d) \in Nat)
        /\ UNCHANGED <<kept, epochs, runs, breaks, dispatched, attempted, unkept, revived, untold>>
    BY <1>13, CountsAre DEF TakeUp, Resting
  <2>1. ProgressTyped'
    BY <1>0, <2>0 DEF ProgressTyped
  <2>2. DoingFits'
    BY <1>0, <2>0 DEF DoingFits
  <2>3. CountsFit'
    <3>a. unkept \in Nat /\ unkept' \in Nat
      BY <1>0, <2>0 DEF ProgressTyped
    <3>b. \A d \in WebCalls : Times(dispatched, d) <= kept.calls[d] + unkept /\ Times(dispatched, d) <= 5 + unkept
      <4>1. SUFFICES ASSUME NEW d \in WebCalls PROVE Times(dispatched, d) <= kept.calls[d] + unkept /\ Times(dispatched, d) <= 5 + unkept
        OBVIOUS
      <4>2. Times(dispatched, d) <= kept.calls[d] + unkept + (IF doing.at = "web" THEN 1 ELSE 0) /\ Times(dispatched, d) <= 5 + unkept
        BY <1>0 DEF CountsFit
      <4>3. kept.calls[d] \in Nat /\ kept.calls[d] + unkept \in Nat /\ doing.at # "web"
        <5>1. kept.calls[d] \in Nat
          BY CountsAre
        <5>2. doing.at # "web"
          BY <2>0
        <5>3. QED BY <3>a, <5>1, <5>2
      <4> DEFINE n == kept.calls[d] + unkept
      <4>4. Times(dispatched, d) <= n + (IF doing.at = "web" THEN 1 ELSE 0) /\ n \in Nat
        BY <4>2, <4>3
      <4> HIDE DEF n
      <4>5. Times(dispatched, d) <= n
        BY <4>3, <4>4
      <4>6. QED BY <4>2, <4>5 DEF n
    <3>c. ~revived => \A d \in WebCalls : kept.calls[d] <= Times(attempted, d)
      BY <1>0, <2>0 DEF CountsFit
    <3>1. ASSUME NEW d \in WebCalls PROVE Times(dispatched', d) <= kept'.calls[d] + unkept'
      BY <2>0, <3>a, <3>b, <3>c
    <3>2. ASSUME NEW d \in WebCalls PROVE Times(dispatched', d) <= tracker'.calls[d] + unkept'
      BY <2>0, <3>a, <3>b, <3>c
    <3>3. ASSUME NEW d \in WebCalls PROVE Times(dispatched', d) <= 5 + unkept'
      BY <2>0, <3>a, <3>b, <3>c
    <3>4. ASSUME NEW d \in WebCalls PROVE ~revived' => tracker'.calls[d] <= Times(attempted', d)
      BY <2>0, <3>a, <3>b, <3>c
    <3>5. \A d \in WebCalls : Times(dispatched', d) <= kept'.calls[d] + unkept' + (IF doing'.at = "web" THEN 1 ELSE 0)
      <4>1. \A d \in WebCalls : kept'.calls[d] \in Nat
        BY <2>0 DEF Trackers
      <4>2. doing'.at # "web"
        BY <2>0
      <4>3. QED BY <3>a, <3>1, <4>1, <4>2
    <3>6. doing'.at # "over"
      BY <2>0
    <3>7. QED BY <3>2, <3>3, <3>4, <3>5, <3>6 DEF CountsFit
  <2>4. SequenceFits'
    BY <1>0, <2>0 DEF SequenceFits
  <2>5. SeenFits'
    BY <1>0, <2>0 DEF SeenFits
  <2>6. HintsFit'
    BY <1>0, <2>0 DEF HintsFit
  <2>7. QED BY <2>1, <2>2, <2>3, <2>4, <2>5, <2>6 DEF ProgressInv
<1>14. CASE UNCHANGED progressVars
  <2>0. /\ UNCHANGED <<tracker, kept, doing, answerOnly, epochs, runs, breaks, dispatched, attempted, unkept, revived, untold>>
    BY <1>14 DEF progressVars
  <2>1. ProgressTyped'
    BY <1>0, <2>0 DEF ProgressTyped
  <2>2. DoingFits'
    BY <1>0, <2>0 DEF DoingFits
  <2>3. CountsFit'
    BY <1>0, <2>0 DEF CountsFit
  <2>4. SequenceFits'
    BY <1>0, <2>0 DEF SequenceFits
  <2>5. SeenFits'
    BY <1>0, <2>0 DEF SeenFits
  <2>6. HintsFit'
    BY <1>0, <2>0 DEF HintsFit
  <2>7. QED BY <2>1, <2>2, <2>3, <2>4, <2>5, <2>6 DEF ProgressInv
<1>15. QED BY <1>1, <1>2, <1>3, <1>4, <1>5, <1>6, <1>7, <1>8, <1>9, <1>10, <1>11, <1>12, <1>13, <1>14 DEF ProgressNext

LEMMA ProgressStarts == ProgressInit => ProgressInv
<1> SUFFICES ASSUME ProgressInit PROVE ProgressInv
  OBVIOUS
<1>1. /\ tracker = NewTracker /\ kept = NewTracker /\ doing.at = "thinking" /\ answerOnly = FALSE
      /\ epochs = 0 /\ runs = <<>> /\ breaks = 0
      /\ dispatched = <<>> /\ attempted = <<>> /\ unkept = 0 /\ revived = FALSE /\ untold = {}
  BY DEF ProgressInit, Resting
<1>2. /\ Len(<<>>) = 0 /\ DOMAIN <<>> = {} /\ <<>> \in Seq(WebCalls) /\ <<>> \in Seq(Executions)
      /\ MaxRuns \in Nat /\ MaxEpochs \in Nat /\ MaxBreaks \in Nat
  BY EmptySeq, NoSights
<1>3. SeenRight(NewTracker, <<>>, {}) /\ Numbered(NewTracker)
  BY <1>2, FreshTracker DEF SeenRight, Numbered
<1>4. HintRight(NewTracker, <<>>)
  BY <1>2, <1>3, FreshTracker, NothingCounted
<1>5. \A c \in WebCalls : Times(<<>>, c) = 0
  BY <1>2, TimesAre
<1>6. LastSix(<<>>) = <<>>
  BY <1>2 DEF LastSix
<1>7. ProgressTyped
  <2>1. 0 \in 0..MaxEpochs /\ 0 <= MaxBreaks /\ 0 <= MaxRuns /\ 0 \in Nat
    BY <1>2
  <2>2. tracker \in Trackers /\ kept \in Trackers /\ answerOnly \in BOOLEAN /\ revived \in BOOLEAN
    BY <1>1, FreshTracker
  <2>3. epochs \in 0..MaxEpochs /\ unkept \in Nat /\ breaks \in Nat /\ unkept <= breaks /\ breaks <= MaxBreaks
    BY <1>1, <2>1
  <2>4. runs \in Seq(Executions) /\ Len(runs) <= MaxRuns /\ untold \subseteq 1..Len(runs)
    BY <1>1, <1>2, <2>1
  <2>5. dispatched \in Seq(WebCalls) /\ attempted \in Seq(WebCalls)
    BY <1>1, <1>2
  <2>6. QED BY <2>2, <2>3, <2>4, <2>5 DEF ProgressTyped
<1>8. DoingFits
  BY <1>1 DEF DoingFits
<1>9. CountsFit
  BY <1>1, <1>5, FreshTracker DEF CountsFit
<1>10. SequenceFits
  BY <1>1, <1>3, <1>6, FreshTracker DEF SequenceFits
<1>11. SeenFits
  BY <1>1, <1>2, <1>3 DEF SeenFits
<1>12. HintsFit
  BY <1>1, <1>4 DEF HintsFit
<1>13. QED BY <1>7, <1>8, <1>9, <1>10, <1>11, <1>12 DEF ProgressInv

LEMMA ProgressKept == ProgressSpec => []ProgressInv
BY ProgressStarts, ProgressStays, PTL DEF ProgressSpec

\* What is counted of an execution is one of those the hint is about.
LEMMA CountedOnes ==
  ASSUME ProgressInv
  PROVE  /\ HintsAreEarned /\ tracker.result.count \in 0..MaxRuns /\ kept.result.count \in 0..MaxRuns
<1> DEFINE equal == {i \in 1..Len(runs) : runs[i].at = tracker.epoch /\ runs[i].result = tracker.result.result}
           B == equal \cup untold
<1>1. /\ tracker \in Trackers /\ kept \in Trackers /\ runs \in Seq(Executions) /\ Len(runs) <= MaxRuns /\ untold \subseteq 1..Len(runs)
      /\ SeenRight(tracker, runs, untold) /\ SeenRight(kept, runs, untold) /\ HintRight(tracker, runs) /\ HintRight(kept, runs)
  BY DEF ProgressInv, ProgressTyped, SeenFits, HintsFit
<1>2. /\ Cardinality(Counting(tracker, runs)) \in Nat /\ Cardinality(Counting(tracker, runs)) <= Len(runs)
      /\ Cardinality(Counting(kept, runs)) \in Nat /\ Cardinality(Counting(kept, runs)) <= Len(runs)
      /\ IsFiniteSet(1..Len(runs)) /\ Len(runs) \in Nat
  <2>1. Len(runs) \in Nat /\ 1 \in Int
    BY <1>1, LenProperties
  <2>2. QED BY <1>1, <2>1, CountingIs, FS_Interval
<1>3. /\ tracker.result.count \in Nat /\ kept.result.count \in Nat
      /\ tracker.result.count <= Cardinality(Counting(tracker, runs)) /\ kept.result.count <= Cardinality(Counting(kept, runs))
      /\ (tracker.result.notified => tracker.result.count >= 3)
  BY <1>1 DEF Trackers, Outcomes, HintRight
<1>4. tracker.result.count \in 0..MaxRuns /\ kept.result.count \in 0..MaxRuns
  BY <1>1, <1>2, <1>3
<1>5. Counting(tracker, runs) \subseteq B
  BY <1>1 DEF Counting, SeenRight
<1>6. IsFiniteSet(B)
  BY <1>1, <1>2, FS_Subset
<1> DEFINE n == Cardinality(B)
<1>7. Cardinality(Counting(tracker, runs)) <= n /\ n \in Nat
  BY <1>5, <1>6, FS_Subset, FS_CardinalityType
<1> HIDE DEF n
<1>8. tracker.result.count <= n /\ (tracker.result.notified => n >= 3)
  BY <1>2, <1>3, <1>7
<1>9. QED BY <1>4, <1>8 DEF HintsAreEarned, n

\* The tracker and its snapshot count, and the loop is at one of its places: the types
\* of command_progress.py, for every number of calls, executions, epochs and Resumes.
THEOREM ProgressTypeCorrect == ProgressSpec => []ProgressTypeOK
<1>1. ASSUME ProgressInv PROVE ProgressTypeOK
  <2>1. ASSUME NEW t \in {tracker, kept}
        PROVE  /\ t.calls \in [WebCalls -> Nat]
               /\ t.sequence \in Seq(WebCalls) /\ Len(t.sequence) <= 6
               /\ t.result.count \in 0..MaxRuns /\ t.result.notified \in BOOLEAN
    <3>1. t \in Trackers /\ Numbered(t)
      BY <1>1 DEF ProgressInv, ProgressTyped, SequenceFits
    <3>2. t.result.count \in 0..MaxRuns
      BY <1>1, CountedOnes
    <3>3. QED BY <3>1, <3>2 DEF Trackers, Outcomes, Numbered
  <2>2. doing.at \in {"thinking", "batch", "web", "command", "over"}
    BY <1>1 DEF ProgressInv, DoingFits
  <2>3. epochs \in 0..MaxEpochs /\ unkept \in 0..MaxBreaks
    BY <1>1 DEF ProgressInv, ProgressTyped
  <2>4. QED BY <2>1, <2>2, <2>3 DEF ProgressTypeOK
<1>2. QED BY <1>1, ProgressKept, PTL

\* What the run is told of its repetitions is so, and it cannot go on repeating:
\* before_dispatch and observe of command_progress.py, with the snapshots of the run
\* journal and Resumes between any two of them.
THEOREM RepeatsAlwaysHold == ProgressSpec => []RepeatsHold
<1>1. ASSUME ProgressInv PROVE RepeatsHold
  <2>1. WebRepeatsEnd
    BY <1>1 DEF ProgressInv, CountsFit, SequenceFits, WebRepeatsEnd
  <2>2. RefusalsAreEarned
    BY <1>1 DEF ProgressInv, CountsFit, RefusalsAreEarned
  <2>3. HintsAreEarned
    BY <1>1, CountedOnes
  <2>4. QED BY <2>1, <2>2, <2>3 DEF RepeatsHold
<1>2. QED BY <1>1, ProgressKept, PTL

===============================================================================
