----------------------------- MODULE TaskVerdicts -----------------------------
(***************************************************************************)
(* What a run of the code agent believes about its task: the verdicts of   *)
(* its success criteria (CriteriaTracker of taskspec.py), the file it      *)
(* publishes and its receipt (task_outcomes.py), the redirected job it     *)
(* must wait for, the checks of a final answer (answer_acceptance.py), and *)
(* what the journal keeps of them for a Resume (run_journal.py).           *)
(*                                                                         *)
(* The project is reduced to which criteria it meets and to a version of   *)
(* the one file that may be published.  A call runs on a thread of its own *)
(* (_exec_with_heartbeat); a Stop or a closed stream leaves that thread    *)
(* behind, and it goes on.  Which text is a criterion, which tool is a     *)
(* verifier of it and how its output is read are not modelled: a check     *)
(* names the criteria it is a verdict on.                                  *)
(***************************************************************************)
EXTENDS Integers, FiniteSets

CONSTANTS
    Criteria,       \* the success criteria the task may have
    Conditional,    \* those the task asks for only in some case ("if there is ...")
    Historical,     \* those about something that happened, not about how things are
    Clarifying,     \* those the user adds while the run works
    MaxChanges,     \* bound: changes of the project
    MaxClarified,   \* bound: messages of the user applied
    MaxTries        \* bound: the first attempt and its Resumes

ASSUME VerdictsAssumption ==
    /\ Conditional \cup Historical \cup Clarifying \subseteq Criteria
    /\ MaxChanges \in Nat \ {0} /\ {MaxClarified, MaxTries} \subseteq Nat

VARIABLES
    met,        \* the criteria the project meets now
    metOnce,    \* history: the criteria it has met at some time
    version,    \* the bytes of the file that may be published
    looping,    \* where the attempt is
    calling,    \* the tool call under way
    strays,     \* abandoned threads that will still change the project: "edit" or nothing
    mind,       \* RunObservations and AnswerAcceptance: what the attempt knows
    journaled,  \* state.json
    remote,     \* the redirected SSH job
    clarified, tries,
    unreported, \* history: the project has changed and no tool_call event said so since
    outdated,   \* history: the user changed the task after the journal's verdicts were written
    forgotten   \* history: a Resume forgot the redirected job

verdictVars == <<met, metOnce, version, looping, calling, strays, mind, journaled, remote,
                 clarified, tries, unreported, outdated, forgotten>>
worldVars == <<met, metOnce, version, strays, remote>>
bounds == <<clarified, tries>>

NoToolCall == [kind |-> "none", on |-> {}, seen |-> {}, copy |-> 0, over |-> FALSE, landed |-> FALSE]
NoReceipt == [status |-> "none", of |-> 0]
NoRows == [c \in Criteria |-> "absent"]
Undecided == [c \in Criteria |-> "unconfirmed"]
Nothing ==      \* what an attempt begins with
    [spec |-> {}, verdict |-> Undecided, receipt |-> NoReceipt, tried |-> FALSE, waits |-> FALSE,
     corrected |-> FALSE, quoted |-> FALSE, answer |-> "complete", stopped |-> FALSE]

Mandatory(asks) == asks \ Conditional

\* completion_status
Completion(asks, verdict) ==
    CASE asks = {} -> "none"
      [] \E c \in Mandatory(asks) : verdict[c] = "failed" -> "failed"
      [] \A c \in Mandatory(asks) : verdict[c] = "confirmed" -> "confirmed"
      [] \E c \in asks : verdict[c] = "confirmed" -> "partial"
      [] OTHER -> "unverified"

\* Mutant of Invalidate: only red verdicts are dropped after a change.
InvalidateFailed(verdict) ==
    [c \in Criteria |-> IF c \notin Historical /\ verdict[c] = "failed"
                        THEN "unconfirmed" ELSE verdict[c]]

\* invalidate_after_mutation: what was seen of the present holds no longer.
Invalidate(verdict) ==
    [c \in Criteria |-> IF c \notin Historical /\ verdict[c] \in {"confirmed", "failed"}
                        THEN "unconfirmed" ELSE verdict[c]]

\* finalize_conditionals
Finalized(asks, verdict) ==
    [c \in Criteria |-> IF c \in asks \cap Conditional /\ verdict[c] \in {"unconfirmed", "failed"}
                        THEN "skipped" ELSE verdict[c]]

\* report and restore_report: rows of the criteria of the task, by their text.
Report(asks, verdict) == [c \in Criteria |-> IF c \in asks THEN verdict[c] ELSE "absent"]
RowsRestored(verdicts) ==
    [c \in Criteria |-> IF verdicts[c] \in {"confirmed", "failed", "skipped"} THEN verdicts[c] ELSE "unconfirmed"]

\* refresh_deliveries: a receipt of other bytes is stale, until the file is published again.
Refreshed(publication) ==
    IF publication.status = "published" /\ publication.of # version
    THEN [publication EXCEPT !.status = "stale"] ELSE publication

Undelivered(w) == w.tried /\ w.receipt.status # "published"

---------------------------------------------------------------------------
(* The project, and the threads that change it *)

\* The project meets other criteria than before, and the file has other bytes.
Change ==
    /\ version < MaxChanges /\ version' = version + 1
    /\ \E now \in SUBSET Criteria : met' = now /\ metOnce' = metOnce \cup now

\* An abandoned edit is written all the same.
StrayLands ==
    /\ strays > 0 /\ strays' = strays - 1
    /\ Change /\ unreported' = TRUE
    /\ UNCHANGED <<looping, calling, mind, journaled, remote, bounds, outdated, forgotten>>

RemoteEnds ==
    /\ remote = "running" /\ remote' = "ended"
    /\ UNCHANGED <<met, metOnce, version, looping, calling, strays, mind, journaled, bounds,
                   unreported, outdated, forgotten>>

---------------------------------------------------------------------------
(* A tool call *)

\* An edit, a check of some criteria, a command that changes files and names none
\* of them, a publication, a command moved to a background job, a look at that job.
AskTool ==
    /\ looping = "turn" /\ looping' = "calling"
    /\ \E kind \in {"edit", "check", "shell", "publish", "redirect", "poll"} :
       \E on \in SUBSET mind.spec :
          /\ (kind = "check") <=> (on # {})
          /\ kind \in {"edit", "shell"} => version + strays < MaxChanges
          /\ kind = "redirect" => remote = "none"
          /\ kind = "poll" => remote # "none"
          /\ calling' = [NoToolCall EXCEPT !.kind = kind, !.on = on]
    /\ UNCHANGED <<worldVars, mind, journaled, bounds, unreported, outdated, forgotten>>

\* The executor's thread does what it was asked.
ToolLands ==
    /\ looping = "calling" /\ ~calling.landed
    /\ calling' = [calling EXCEPT !.landed = TRUE, !.seen = met, !.copy = version,
                            !.over = remote = "ended"]
    /\ IF calling.kind \in {"edit", "shell"} THEN Change ELSE UNCHANGED <<met, metOnce, version>>
    /\ remote' = IF calling.kind = "redirect" THEN "running" ELSE remote
    /\ unreported' = (unreported \/ calling.kind = "shell")
    /\ UNCHANGED <<looping, strays, mind, journaled, bounds, outdated, forgotten>>

\* observe_result and append_event of the tool_call event: a reported change voids
\* the verdicts in memory and in the journal; a publication counts if the file still
\* has the bytes that were copied.
Observe ==
    LET changed == calling.kind = "edit"
        publishing == calling.kind = "publish"
        known == Refreshed(mind.receipt)
        publication == IF publishing /\ calling.copy = version
                   THEN [status |-> "published", of |-> version] ELSE known
        tried == mind.tried \/ publishing
    IN
    /\ looping = "calling" /\ calling.landed /\ looping' = "observed"
    /\ mind' = [mind EXCEPT !.receipt = publication, !.tried = tried,
                            !.verdict = IF changed THEN Invalidate(@) ELSE @,
                            !.waits = (@ \/ calling.kind = "redirect")
                                      /\ ~(calling.kind = "poll" /\ calling.over)]
    /\ journaled' = IF changed
                THEN [journaled EXCEPT !.receipt = publication, !.tried = tried, !.rows = NoRows,
                                   !.rowsEpoch = -1, !.epoch = @ + 1, !.completion = "unverified"]
                ELSE [journaled EXCEPT !.receipt = publication, !.tried = tried]
    /\ unreported' = (unreported /\ ~changed)
    /\ outdated' = (outdated /\ ~changed)
    /\ UNCHANGED <<worldVars, calling, bounds, forgotten>>

\* complete_result, after the event was yielded: the call is a verdict on its criteria.
\* A check that was not green refutes a criterion, revokes an earlier verdict on it or
\* says nothing of it; a fact of the past once confirmed is not judged again, one
\* asked for conditionally cannot fail.
Judge ==
    /\ looping = "observed" /\ looping' = "turn" /\ calling' = NoToolCall
    /\ \E refutes, revokes \in SUBSET (calling.on \ calling.seen) :
          /\ refutes \cap (revokes \cup Conditional) = {}
          /\ mind' = [mind EXCEPT !.verdict =
                       [c \in Criteria |->
                          IF c \in Historical /\ @[c] = "confirmed" THEN @[c]
                          ELSE IF c \in calling.on \cap calling.seen THEN "confirmed"
                          ELSE IF c \in refutes THEN "failed"
                          ELSE IF c \in revokes /\ @[c] # "skipped" THEN "unconfirmed" ELSE @[c]]]
    /\ UNCHANGED <<worldVars, journaled, bounds, unreported, outdated, forgotten>>

\* What a call that nobody waits for any more still does.
Abandon ==
    LET changes == calling.kind \in {"edit", "shell"} IN
    /\ strays' = IF changes /\ ~calling.landed THEN strays + 1 ELSE strays
    /\ unreported' = (unreported \/ (calling.kind = "edit" /\ calling.landed))
    /\ remote' = IF calling.kind = "redirect" /\ ~calling.landed THEN "running" ELSE remote
    /\ forgotten' = (forgotten \/ calling.kind = "redirect")
    /\ calling' = NoToolCall
    /\ UNCHANGED <<met, metOnce, version>>

\* A Stop during the call: its result is cancelled_by_user, which changes nothing
\* and judges nothing.
StopTool ==
    /\ looping = "calling" /\ looping' = "turn"
    /\ LET publication == Refreshed(mind.receipt)
           tried == mind.tried \/ calling.kind = "publish" IN
       /\ mind' = [mind EXCEPT !.receipt = publication, !.tried = tried, !.stopped = TRUE]
       /\ journaled' = [journaled EXCEPT !.receipt = publication, !.tried = tried]
    /\ Abandon
    /\ UNCHANGED <<bounds, outdated>>

---------------------------------------------------------------------------
(* The user's messages and the answer *)

\* apply_user_clarification: the task is merged with the message, every verdict goes.
TaskWith(added) ==
    [mind EXCEPT !.spec = @ \cup added, !.verdict = Invalidate(@)]

\* The journal learns the new task with the event; its verdicts stay as they are.
\* What the criteria ask for may be another thing after what the user said.
Clarify ==
    /\ looping \in {"turn", "answering"} /\ looping' = "turn" /\ ~mind.stopped
    /\ clarified < MaxClarified /\ clarified' = clarified + 1
    /\ \E added \in SUBSET Clarifying :
          /\ mind' = TaskWith(added)
          /\ journaled' = [journaled EXCEPT !.spec = mind.spec \cup added, !.receipt = mind.receipt,
                                    !.tried = mind.tried]
    /\ \E now \in SUBSET Criteria :
          /\ now \cap Historical = met \cap Historical
          /\ met' = now /\ metOnce' = metOnce \cup now
    /\ outdated' = TRUE
    /\ UNCHANGED <<version, strays, remote, calling, tries, unreported, forgotten>>

\* evaluate sends the answer back: a job it must wait for, a quotation its source
\* does not have, or files it does not deliver; each of the last two once.
SendBack ==
    /\ looping = "turn" /\ ~mind.stopped
    /\ LET publication == Refreshed(mind.receipt) IN
       \/ mind.waits /\ UNCHANGED <<mind, journaled>>
       \/ /\ ~mind.waits /\ ~mind.quoted
          /\ mind' = [mind EXCEPT !.quoted = TRUE] /\ journaled' = [journaled EXCEPT !.quoted = TRUE]
       \/ /\ ~mind.waits /\ Undelivered([mind EXCEPT !.receipt = publication]) /\ ~mind.corrected
          /\ mind' = [mind EXCEPT !.receipt = publication, !.corrected = TRUE]
          /\ journaled' = [journaled EXCEPT !.receipt = publication]
    /\ UNCHANGED <<worldVars, looping, calling, bounds, unreported, outdated, forgotten>>

\* evaluate accepts it: as degraded if a requirement is not confirmed, a file not
\* delivered or a quotation not found.  What was conditional is skipped.
AcceptAnswer ==
    /\ looping = "turn" /\ looping' = "answering" /\ ~mind.stopped /\ ~mind.waits
    /\ LET known == [mind EXCEPT !.receipt = Refreshed(mind.receipt)] IN
       /\ Undelivered(known) => mind.corrected
       /\ \E misquotes \in (IF mind.quoted THEN BOOLEAN ELSE {FALSE}) :
             mind' = [known EXCEPT
                !.answer = IF \/ Undelivered(known) \/ misquotes
                              \/ \E c \in Mandatory(mind.spec) : mind.verdict[c] # "confirmed"
                           THEN "degraded" ELSE "complete",
                !.verdict = Finalized(mind.spec, @)]
    /\ UNCHANGED <<worldVars, calling, journaled, bounds, unreported, outdated, forgotten>>

\* final_response, when no message came meanwhile.
FinalResponse ==
    /\ looping = "answering" /\ looping' = "accepted"
    /\ journaled' = [journaled EXCEPT !.answer = mind.answer, !.receipt = mind.receipt, !.tried = mind.tried]
    /\ UNCHANGED <<worldVars, calling, mind, bounds, unreported, outdated, forgotten>>

---------------------------------------------------------------------------
(* How an attempt ends, and the next *)

\* append_event of done: completed is what the verifiers say, not that the run went well.
DoneEvent(reason, answer, completion, verdicts, again) ==
    /\ looping' = "ended"
    /\ journaled' = [journaled EXCEPT
         !.status = IF /\ answer = "complete"
                       /\ completion = "confirmed" \/ (completion = "none" /\ reason = "answer")
                    THEN "completed" ELSE reason,
         !.answer = answer, !.completion = completion, !.rows = verdicts, !.rowsEpoch = journaled.epoch,
         !.resumable = again]
    /\ outdated' = FALSE /\ mind' = Nothing
    /\ UNCHANGED <<worldVars, calling, bounds, unreported, forgotten>>

AnswerDone ==
    LET completion == Completion(mind.spec, mind.verdict) IN
    /\ looping = "accepted"
    /\ DoneEvent("answer", mind.answer, completion, Report(mind.spec, mind.verdict),
            completion \in {"partial", "unverified", "failed"})

\* A Stop seen between steps keeps the verdicts; the answer's status is what it was.
Cancelled ==
    /\ looping = "turn"
    /\ DoneEvent("cancelled", journaled.answer, Completion(mind.spec, mind.verdict),
            Report(mind.spec, mind.verdict), TRUE)

\* The model's output is cut or empty.
NoOutput ==
    /\ looping = "turn" /\ ~mind.stopped
    /\ DoneEvent("error", "degraded", "partial", Report(mind.spec, mind.verdict), TRUE)

\* The wrapper's done after an exception names no criteria.
Raises ==
    /\ looping = "turn"
    /\ DoneEvent("error", journaled.answer, "none", NoRows, TRUE)

\* The client goes away where the stream yields: finish(interrupted).
Disconnect ==
    /\ looping \in {"turn", "calling", "observed", "accepted"} /\ looping' = "ended"
    /\ journaled' = [journaled EXCEPT !.status = "interrupted", !.resumable = TRUE]
    /\ IF looping = "calling" THEN Abandon
       ELSE calling' = NoToolCall /\ UNCHANGED <<worldVars, unreported, forgotten>>
    /\ mind' = Nothing
    /\ UNCHANGED <<bounds, outdated>>

\* The verdicts a Resume takes over: those of the project's present epoch.
Kept(s) == IF s.rowsEpoch = s.epoch THEN RowsRestored(s.rows) ELSE Undecided

\* RunObservations of a resumed run; the redirected jobs were only in memory.
ResumeRun ==
    /\ looping = "ended" /\ looping' = "turn" /\ journaled.resumable
    /\ tries < MaxTries /\ tries' = tries + 1
    /\ mind' = [Nothing EXCEPT !.spec = journaled.spec, !.verdict = Kept(journaled),
                   !.receipt = journaled.receipt, !.tried = journaled.tried, !.quoted = journaled.quoted]
    /\ journaled' = [journaled EXCEPT !.status = "running", !.resumable = FALSE]
    /\ unreported' = (unreported \/ outdated)
    /\ forgotten' = (forgotten \/ remote = "running")
    /\ UNCHANGED <<worldVars, calling, clarified, outdated>>

---------------------------------------------------------------------------
VerdictsInit ==
    /\ met \in SUBSET Criteria /\ metOnce = met /\ version = 1 /\ strays = 0 /\ remote = "none"
    /\ looping = "turn" /\ calling = NoToolCall
    /\ \E asks \in {{}, Criteria \ Clarifying} :
         /\ mind = [Nothing EXCEPT !.spec = asks]
         /\ journaled = [status |-> "running", resumable |-> FALSE, completion |-> "none",
                     answer |-> "complete", spec |-> asks, rows |-> NoRows, rowsEpoch |-> 0,
                     epoch |-> 0, receipt |-> NoReceipt, tried |-> FALSE, quoted |-> FALSE]
    /\ clarified = 0 /\ tries = 1
    /\ unreported = FALSE /\ outdated = FALSE /\ forgotten = FALSE

VerdictsNext ==
    \/ StrayLands \/ RemoteEnds
    \/ AskTool \/ ToolLands \/ Observe \/ Judge \/ StopTool
    \/ Clarify \/ SendBack \/ AcceptAnswer \/ FinalResponse
    \/ AnswerDone \/ Cancelled \/ NoOutput \/ Raises \/ Disconnect \/ ResumeRun

VerdictsSpec == VerdictsInit /\ [][VerdictsNext]_verdictVars

---------------------------------------------------------------------------
Verdicts == {"unconfirmed", "confirmed", "failed", "skipped"}
Receipts == [status : {"none", "published", "stale"}, of : 0..MaxChanges]
ToolCalls == [kind : {"none", "edit", "check", "shell", "publish", "redirect", "poll"},
              on : SUBSET Criteria, seen : SUBSET Criteria, copy : 0..MaxChanges,
              over : BOOLEAN, landed : BOOLEAN]
Minds == [spec : SUBSET Criteria, verdict : [Criteria -> Verdicts], receipt : Receipts, tried : BOOLEAN,
          waits : BOOLEAN, corrected : BOOLEAN, quoted : BOOLEAN, answer : {"complete", "degraded"},
          stopped : BOOLEAN]
Journals == [status : {"running", "completed", "answer", "cancelled", "error", "interrupted"},
             resumable : BOOLEAN, completion : {"none", "failed", "confirmed", "partial", "unverified"},
             answer : {"complete", "degraded"}, spec : SUBSET Criteria,
             rows : [Criteria -> Verdicts \cup {"absent"}], rowsEpoch : {-1} \cup Nat, epoch : Nat,
             receipt : Receipts, tried : BOOLEAN, quoted : BOOLEAN]

\* What the run, its journal and the project hold.
VerdictsTypeOK ==
    /\ met \subseteq Criteria /\ metOnce \subseteq Criteria
    /\ version \in 1..MaxChanges /\ strays \in 0..MaxChanges
    /\ looping \in {"turn", "calling", "observed", "answering", "accepted", "ended"}
    /\ calling \in ToolCalls /\ mind \in Minds /\ journaled \in Journals
    /\ remote \in {"none", "running", "ended"}
    /\ unreported \in BOOLEAN /\ outdated \in BOOLEAN /\ forgotten \in BOOLEAN

\* A verdict tells how things are: green means met now (or once, for what is of the
\* past), red means not met.
Tells(c, verdict) ==
    /\ verdict = "confirmed" => c \in (IF c \in Historical THEN metOnce ELSE met)
    /\ verdict = "failed" /\ c \notin Historical => c \notin met

\* The verdicts of a working attempt, and those a Resume would take over, hold of the
\* project as it is now, through edits, messages of the user, Stops, lost clients and
\* Resumes.  They need not if the project changed with no tool_call event to say so
\* (a command, an edit its run did not wait for), or if the user changed the task
\* after the journal's verdicts were written and the attempt never came to its end.
VerdictsAreCurrent ==
    /\ looping \in {"turn", "observed", "answering", "accepted"} /\ ~unreported =>
         \A c \in mind.spec : Tells(c, mind.verdict[c])
    /\ looping = "ended" /\ ~unreported /\ ~outdated =>
         \A c \in journaled.spec : Tells(c, Kept(journaled)[c])

\* A run is completed only when every mandatory criterion of its latest task is
\* confirmed, and not while its project is known to have changed since.
CompletedIsEarned ==
    journaled.status = "completed" =>
        /\ \A c \in Mandatory(journaled.spec) : journaled.rows[c] = "confirmed"
        /\ ~unreported => \A c \in Mandatory(journaled.spec) \ Historical : c \in met

\* An answer called complete delivers the bytes the file has and leaves no job of the
\* run going, unless the run forgot the job.
AnswerIsWhole ==
    looping = "accepted" /\ mind.answer = "complete" =>
        /\ mind.tried /\ ~unreported => mind.receipt = [status |-> "published", of |-> version]
        /\ remote = "running" => forgotten

\* What a run says of its task is so: its verdicts, that it is completed, and what
\* its answer delivers.
VerdictsHold == VerdictsAreCurrent /\ CompletedIsEarned /\ AnswerIsWhole

=============================================================================
