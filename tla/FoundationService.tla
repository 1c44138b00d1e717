--------------------------- MODULE FoundationService ---------------------------
(***************************************************************************)
(* The Windows Foundation of scripts/foundation_service.py: the pipe thread *)
(* that turns a request into a receipt file and a queue entry, the owner    *)
(* thread that serves one operation at a time and then advances the         *)
(* application's lifecycle, and the files that survive a restart of the     *)
(* service (receipts, desired.json).  The release operations themselves are *)
(* ReleaseManager's; here one of them takes effect or fails.                *)
(*                                                                          *)
(* A child belongs to a job that ends with the service's handle to it.      *)
(***************************************************************************)
EXTENDS Naturals, Sequences

CONSTANTS
    RequestIds,       \* request ids
    Sessions,       \* interactive sessions, as _session_key tells them apart
    NoRequest, NoSession,
    MaxQueue,       \* the queue's maxsize
    MaxRestarts,    \* failures within the window that end the retries
    MaxServices     \* bound: services started

Kinds == {"open", "close", "register", "release"}
Asked == [id : RequestIds, kind : Kinds, from : Sessions]

ASSUME FoundationAssumption ==
    /\ NoRequest \notin Asked /\ NoSession \notin Sessions
    /\ MaxQueue \in Nat \ {0} /\ MaxRestarts \in Nat \ {0} /\ MaxServices \in Nat

VARIABLES
    receipt,    \* operations/<request_id>.json: the status
    queued,     \* self.queue: requests, each with the session it came from
    owner,      \* where the owner thread is: "gone", "wait", "serve" or "tick"
    serving,    \* the request it is in
    step,       \* how far that operation is
    session,    \* self.host (and with it self.manager)
    backend, ui,\* the children: "none", "live" or "exited"
    desired,    \* self.desired
    desiredFile,\* desired.json
    recovered,  \* self.recovered
    failures,   \* len(self.restarts)
    pausing,    \* retry_at is not reached
    effects,    \* history: how often each request's effect took place (2: two or more)
    closed,     \* history: the last open or close to succeed was a close
    services    \* services started

foundationVars == <<receipt, queued, owner, serving, step, session, backend, ui, desired,
                    desiredFile, recovered, failures, pausing, effects, closed, services>>
intakeVars == <<receipt, queued>>
workVars == <<owner, serving, step>>
appVars == <<session, backend, ui, recovered>>
wishVars == <<desired, desiredFile, failures, pausing>>
historyVars == <<effects, closed, services>>

Ended == {"completed", "failed", "interrupted"}
Up == owner # "gone"
InQueue(r) == \E i \in DOMAIN queued : queued[i].id = r
Live(child) == child = "live"

---------------------------------------------------------------------------
(* dispatch, on the pipe's thread under self.lock *)

\* A request id that has a receipt gets that receipt back and changes nothing; a
\* new one gets its receipt and its queue entry, if the queue has room.  (A crash
\* between the two leaves what a crash after both does.)
Dispatch(r) ==
    /\ Up /\ receipt[r] = "none" /\ Len(queued) < MaxQueue
    /\ \E k \in Kinds, s \in Sessions : queued' = Append(queued, [id |-> r, kind |-> k, from |-> s])
    /\ receipt' = [receipt EXCEPT ![r] = "queued"]
    /\ UNCHANGED <<workVars, appVars, wishVars, historyVars>>

---------------------------------------------------------------------------
(* _operation, on the owner's thread *)

\* The queue is asked for a quarter of a second; empty, the lifecycle is advanced.
Take ==
    /\ owner = "wait"
    /\ IF queued = <<>>
       THEN owner' = "tick" /\ UNCHANGED <<receipt, queued, serving, step>>
       ELSE /\ owner' = "serve" /\ step' = "attach"
            /\ serving' = Head(queued) /\ queued' = Tail(queued)
            /\ receipt' = [receipt EXCEPT ![Head(queued).id] = "running"]
    /\ UNCHANGED <<appVars, wishVars, historyVars>>

Step(s) == step' = s /\ UNCHANGED <<owner, serving>>
Fails == Step("fails")
Counted == [effects EXCEPT ![serving.id] = IF @ = 2 THEN 2 ELSE @ + 1]

\* _attach: the session of the request becomes the host unless the children of
\* another one live.
Attach ==
    /\ owner = "serve" /\ step = "attach"
    /\ LET s == serving.from
           free == session = NoSession \/ ~(Live(backend) \/ Live(ui))
       IN \/ s = session /\ Step(serving.kind) /\ UNCHANGED appVars
          \/ /\ s # session /\ free
             /\ backend' = "none" /\ ui' = "none"
             /\ recovered' = (session = NoSession /\ recovered)
             /\ \/ session' = s /\ Step(serving.kind)
                \/ session' = NoSession /\ Fails      \* no manager could be built
          \* the children live, or an old handle cannot be closed
          \/ s # session /\ session # NoSession /\ Fails /\ UNCHANGED appVars
    /\ UNCHANGED <<intakeVars, wishVars, historyVars>>

\* Mutant of SetDesired: that the application is to stay closed is not saved.
SetDesiredUnsaved(wish) == desired' = wish /\ desiredFile' = (wish \/ desiredFile)

\* _set_desired
SetDesired(wish) == desired' = wish /\ desiredFile' = wish

\* prepare, verify, request, confirm, rollback
ReleaseOperation ==
    /\ owner = "serve" /\ step = "release"
    /\ \/ Step("done") /\ effects' = Counted
       \/ Fails /\ UNCHANGED effects
    /\ UNCHANGED <<intakeVars, appVars, wishVars, closed, services>>

OpenOperation ==
    /\ owner = "serve" /\ step = "open"
    /\ \/ /\ SetDesired(TRUE) /\ failures' = 0 /\ pausing' = FALSE
          /\ effects' = Counted /\ closed' = FALSE /\ Step("done")
       \/ Fails /\ UNCHANGED <<wishVars, effects, closed>>
    /\ UNCHANGED <<intakeVars, appVars, services>>

RegisterOperation ==
    /\ owner = "serve" /\ step = "register"
    /\ effects' = Counted /\ Step("done")
    /\ UNCHANGED <<intakeVars, appVars, wishVars, closed, services>>

\* A live backend is asked to drain; with work left, or without an answer, the
\* close is refused.
CloseDrains ==
    /\ owner = "serve" /\ step = "close"
    /\ \/ Step("wish")
       \/ Live(backend) /\ Fails
    /\ UNCHANGED <<intakeVars, appVars, wishVars, historyVars>>

CloseWish ==
    /\ owner = "serve" /\ step = "wish"
    /\ \/ SetDesired(FALSE) /\ UNCHANGED <<failures, pausing>> /\ Step("stop")
       \/ UNCHANGED wishVars /\ Fails
    /\ UNCHANGED <<intakeVars, appVars, historyVars>>

\* The desktop, then the backend; a stop that fails keeps its handle.
CloseStops ==
    /\ owner = "serve" /\ step = "stop"
    /\ \/ /\ ui' = "none" /\ backend' = "none" /\ Step("done")
          /\ effects' = Counted /\ closed' = TRUE
       \/ /\ \/ Live(ui) /\ UNCHANGED <<ui, backend>>
             \/ Live(backend) /\ ui' = "none" /\ UNCHANGED backend
          /\ Fails /\ UNCHANGED <<effects, closed>>
    /\ UNCHANGED <<intakeVars, session, recovered, wishVars, services>>

\* The receipt is written last, whatever happened.
WriteReceipt ==
    /\ owner = "serve" /\ step \in {"done", "fails"}
    /\ receipt' = [receipt EXCEPT ![serving.id] = IF step = "done" THEN "completed" ELSE "failed"]
    /\ owner' = "tick" /\ serving' = NoRequest /\ step' = "none"
    /\ UNCHANGED <<queued, appVars, wishVars, historyVars>>

---------------------------------------------------------------------------
(* advance_lifecycle *)

Advancing == owner = "tick" /\ session # NoSession /\ desired /\ ~pausing
Waits == owner' = "wait" /\ UNCHANGED <<serving, step>>

\* Nothing to do: no session, not desired, or the pause after a failure.
IdleTick ==
    /\ owner = "tick" /\ ~Advancing
    /\ Waits
    /\ UNCHANGED <<intakeVars, appVars, wishVars, historyVars>>

\* _tick: recovery once, then the active release is launched, or an approved one
\* is switched to.
Tick ==
    /\ Advancing
    /\ backend # "exited" /\ ui # "exited"
    /\ recovered' = TRUE
    /\ \/ backend' = "live" /\ ui' = "live"
       \/ backend = "live" /\ UNCHANGED <<backend, ui>>
    /\ Waits
    /\ UNCHANGED <<intakeVars, session, wishVars, historyVars>>

\* A child has exited, or recovery, launch or switch raises: what can be stopped
\* is stopped, and the failures within the window are counted.
TickFails ==
    /\ Advancing
    /\ \/ ui' = "none" /\ backend' = "none" /\ recovered' = FALSE
       \/ /\ ui' \in {"none", "live"} /\ backend' \in {"none", "live"}
          /\ Live(ui') \/ Live(backend')
          /\ recovered' \in {recovered, TRUE}
    /\ failures' = IF failures < MaxRestarts THEN failures + 1 ELSE failures
    /\ pausing' = TRUE
    /\ IF failures' >= MaxRestarts THEN SetDesired(FALSE) ELSE UNCHANGED <<desired, desiredFile>>
    /\ Waits
    /\ UNCHANGED <<intakeVars, session, historyVars>>

---------------------------------------------------------------------------
(* Time, the children, the end and the start of the service *)

PauseEnds ==
    /\ pausing
    /\ pausing' = FALSE
    /\ UNCHANGED <<intakeVars, workVars, appVars, desired, desiredFile, failures, historyVars>>

\* Failures older than the window are dropped (when the next one is counted).
FailureAges ==
    /\ failures > 0
    /\ failures' = failures - 1
    /\ UNCHANGED <<intakeVars, workVars, appVars, desired, desiredFile, pausing, historyVars>>

ChildExits ==
    /\ \/ Live(backend) /\ backend' = "exited" /\ UNCHANGED ui
       \/ Live(ui) /\ ui' = "exited" /\ UNCHANGED backend
    /\ UNCHANGED <<intakeVars, workVars, session, recovered, wishVars, historyVars>>

\* The service is stopped or dies, the owner wherever it is: the queue and the
\* children go with it, the receipts stay as they are.
ServiceEnds ==
    /\ Up
    /\ owner' = "gone" /\ serving' = NoRequest /\ step' = "none"
    /\ queued' = <<>>
    /\ session' = NoSession /\ backend' = "none" /\ ui' = "none" /\ recovered' = FALSE
    /\ UNCHANGED <<receipt, wishVars, historyVars>>

\* Mutant of Interrupted: an operation that was only queued keeps its receipt.
InterruptedRunning == [r \in RequestIds |-> IF receipt[r] = "running" THEN "interrupted" ELSE receipt[r]]

\* What was queued or running when the service ended did not succeed.
Interrupted == [r \in RequestIds |-> IF receipt[r] \in {"queued", "running"} THEN "interrupted" ELSE receipt[r]]

ServiceStarts ==
    /\ ~Up /\ services < MaxServices
    /\ services' = services + 1
    /\ owner' = "wait"
    /\ receipt' = Interrupted
    /\ desired' = desiredFile /\ failures' = 0 /\ pausing' = FALSE
    /\ UNCHANGED <<queued, serving, step, appVars, desiredFile, effects, closed>>

---------------------------------------------------------------------------
FoundationInit ==
    /\ receipt = [r \in RequestIds |-> "none"]
    /\ queued = <<>>
    /\ owner = "gone" /\ serving = NoRequest /\ step = "none"
    /\ session = NoSession /\ backend = "none" /\ ui = "none" /\ recovered = FALSE
    /\ desired = FALSE /\ desiredFile \in BOOLEAN /\ failures = 0 /\ pausing = FALSE
    /\ effects = [r \in RequestIds |-> 0] /\ closed = FALSE /\ services = 0

FoundationNext ==
    \/ \E r \in RequestIds : Dispatch(r)
    \/ Take \/ Attach
    \/ ReleaseOperation \/ OpenOperation \/ RegisterOperation
    \/ CloseDrains \/ CloseWish \/ CloseStops \/ WriteReceipt
    \/ IdleTick \/ Tick \/ TickFails
    \/ PauseEnds \/ FailureAges \/ ChildExits \/ ServiceEnds \/ ServiceStarts

FoundationSpec == FoundationInit /\ [][FoundationNext]_foundationVars

---------------------------------------------------------------------------
(* Properties *)

\* Receipts, queue, owner and application have their types.
FoundationTypeOK ==
    /\ receipt \in [RequestIds -> {"none", "queued", "running"} \cup Ended]
    /\ \A i \in DOMAIN queued : queued[i] \in Asked
    /\ Len(queued) <= MaxQueue
    /\ serving \in Asked \cup {NoRequest}
    /\ owner \in {"gone", "wait", "serve", "tick"}
    /\ step \in {"none", "attach", "wish", "stop", "done", "fails"} \cup Kinds
    /\ session \in Sessions \cup {NoSession}
    /\ backend \in {"none", "live", "exited"} /\ ui \in {"none", "live", "exited"}
    /\ desired \in BOOLEAN /\ desiredFile \in BOOLEAN /\ recovered \in BOOLEAN
    /\ failures \in 0..MaxRestarts /\ pausing \in BOOLEAN
    /\ effects \in [RequestIds -> 0..2] /\ closed \in BOOLEAN /\ services \in 0..MaxServices

\* A repeated request id never repeats an operation, over any number of restarts
\* of the service; a completed receipt means the operation took effect; and while
\* the service is up somebody is going to finish every receipt that is not final,
\* so a client that waits for one does not wait for ever.
ReceiptsAreTrue ==
    /\ \A r \in RequestIds : effects[r] <= 1 /\ (receipt[r] = "completed" => effects[r] = 1)
    /\ Up => \A r \in RequestIds :
          /\ receipt[r] = "queued" => InQueue(r)
          /\ receipt[r] = "running" => serving # NoRequest /\ serving.id = r

\* After a close that succeeded, no crash of the service, no session that
\* registers and no failure in between starts the application again, until an
\* open does; nor is a child left running behind it.
ClosedStaysClosed == closed => ~Live(backend) /\ ~Live(ui)

=============================================================================
