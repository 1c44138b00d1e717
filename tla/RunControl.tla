------------------------------ MODULE RunControl ------------------------------
(***************************************************************************)
(* Ownership of one run id of the code agent: the registries of            *)
(* code_agent/run_control.py, the session token of loop_helpers.py, the    *)
(* Stop marker and the processes of tools/_shell.py, the cancel handle of  *)
(* openai_compatible.py, and those who use them: POST /stream and /resume, *)
(* the delivery session and its slices, the agent loop as far as it starts *)
(* and ends work, POST /cancel, and a client that goes away.               *)
(*                                                                         *)
(* A stream is one call of /stream (First) or /resume with this run id.    *)
(* Each runs in a thread of its own, so does each Stop, and so does every  *)
(* tool call.  _REGISTRY_LOCK makes its critical sections steps; the       *)
(* cleanup lock of the run id is held over several and is a variable.      *)
(***************************************************************************)
EXTENDS Naturals, FiniteSets

CONSTANTS
    Streams, First,     \* calls of /stream and /resume; First is the /stream
    Stops,              \* bound: calls of _cancel_live_run
    None,
    MaxSlices,          \* bound: slices of a delivery session
    MaxControlFails            \* bound: calls that fail (a close, a kill, a begin)

ASSUME RunControlAssumption ==
    /\ First \in Streams /\ None \notin Streams \cup Stops
    /\ MaxSlices \in Nat \ {0} /\ MaxControlFails \in Nat

VARIABLES
    streamPc, slice,          \* where each stream is, and its slice
    out,                \* how the slice that has just ended did
    ev,                 \* the cancel event of its slice is set
    token,              \* the cancel event of its session is set
    resp, closed,       \* its provider response is open; its cancel handle is closed
    child,              \* its tool's thread: none, spawning, or a registered process
    liveRun,               \* _CANCEL_REGISTRY and _UPSTREAM_HANDLE_REGISTRY
    sessionOf,            \* _SESSION_CANCEL: the stream that owns the session
    requested, finished, prepared,  \* _CANCEL_REQUESTED, _FINISHED_RUNS, _PREPARED_RUNS
    failed,             \* _FAILED_CANCEL_HANDLES: whose handle is retained
    killed,             \* _KILLED_RUN_IDS: the Stop marker
    resumable,          \* the journal's state says so
    lock,               \* the cleanup lock: the Stop that holds it
    stop,               \* each Stop in progress
    gone,               \* the Stop that a stream without a client makes
    controlFails,              \* how many calls have failed
    stale               \* history: one of the crossings below has happened

streamVars == <<streamPc, slice, out, ev, token, resp, closed>>
registry == <<liveRun, requested, finished, prepared, failed>>
controlVars == <<streamVars, registry, child, sessionOf, killed, resumable, lock, stop, gone, controlFails, stale>>

NoStop == [at |-> "idle", target |-> {}, handle |-> None, err |-> FALSE]
Underway == {"headers", "session", "claimed", "running", "calling", "model", "tool", "ended", "gap"}
Active == {s \in Streams : streamPc[s] \in Underway}
CleanupFree == lock = None
ControlFail == controlFails < MaxControlFails /\ controlFails' = controlFails + 1
StreamTo(s, p) == streamPc' = [streamPc EXCEPT ![s] = p]
End(s) == StreamTo(s, "done") /\ UNCHANGED out
Unregister(s) == sessionOf' = IF sessionOf = s THEN None ELSE sessionOf

---------------------------------------------------------------------------
(* The routes *)

\* A generation clears the Stop marker while an abandoned tool has yet to start
\* its process.
Orphans == killed /\ \E z \in Streams : child[z] = "spawning"

\* A Stop that this generation overtakes.
StopUnderway == \E k \in Stops : stop[k].at \notin {"idle", "ok", "failed"}

\* Mutant of Prepare: the request to cancel outlives the Resume.
PrepareKeeps(s, resume) ==
    /\ streamPc[s] = (IF resume THEN "asked" ELSE "idle") /\ CleanupFree
    /\ \/ /\ liveRun # None \/ prepared
          /\ StreamTo(s, "headers")
          /\ stale' = TRUE
          /\ UNCHANGED <<registry, killed, out>>
       \/ /\ liveRun = None /\ ~prepared /\ failed # None
          /\ End(s)                                         \* HTTP 409
          /\ UNCHANGED <<registry, killed, stale>>
       \/ /\ liveRun = None /\ ~prepared /\ failed = None
          /\ StreamTo(s, "headers")
          /\ prepared' = TRUE /\ finished' = FALSE
          /\ (IF resume THEN killed' = FALSE ELSE UNCHANGED killed) /\ UNCHANGED requested
          /\ stale' = (stale \/ StopUnderway \/ Orphans)
          /\ UNCHANGED <<liveRun, failed, out>>
    /\ UNCHANGED <<slice, ev, token, resp, closed, child, sessionOf, resumable, lock, stop, gone, controlFails>>

\* prepare_run: the next generation, unless one is live or prepared already.
\* stale: a Stop of an earlier generation is still under way, or this stream
\* joins a generation of another, which a Stop may have reached already or may
\* reach without reaching this one.
Prepare(s, resume) ==
    /\ streamPc[s] = (IF resume THEN "asked" ELSE "idle") /\ CleanupFree
    /\ \/ /\ liveRun # None \/ prepared
          /\ StreamTo(s, "headers")
          /\ stale' = TRUE
          /\ UNCHANGED <<registry, killed, out>>
       \/ /\ liveRun = None /\ ~prepared /\ failed # None
          /\ End(s)                                         \* HTTP 409
          /\ UNCHANGED <<registry, killed, stale>>
       \/ /\ liveRun = None /\ ~prepared /\ failed = None
          /\ StreamTo(s, "headers")
          /\ prepared' = TRUE /\ finished' = FALSE
          /\ IF resume THEN requested' = FALSE /\ killed' = FALSE
                       ELSE UNCHANGED <<requested, killed>>
          /\ stale' = (stale \/ StopUnderway \/ Orphans)
          /\ UNCHANGED <<liveRun, failed, out>>
    /\ UNCHANGED <<slice, ev, token, resp, closed, child, sessionOf, resumable, lock, stop, gone, controlFails>>

Stream == Prepare(First, FALSE)

\* A Resume reads the journal's state before it prepares anything.
Ask(s) ==
    /\ s # First /\ streamPc[s] = "idle" /\ resumable
    /\ StreamTo(s, "asked")
    /\ UNCHANGED <<slice, out, ev, token, resp, closed, registry, child, sessionOf, killed, resumable, lock, stop, gone, controlFails, stale>>

Resume(s) == s # First /\ Prepare(s, TRUE)

\* The client goes away before the generator starts, or the continuation of a
\* resume cannot be built: the generation stays prepared.
Vanish(s) ==
    /\ streamPc[s] = "headers"
    /\ End(s)
    /\ UNCHANGED <<slice, ev, token, resp, closed, registry, child, sessionOf, killed,
                   resumable, lock, stop, gone, controlFails, stale>>

---------------------------------------------------------------------------
(* The delivery session and its slices *)

\* Mutant of OpenSession: the second stream takes the session over.
OpenSessionOver(s) ==
    /\ streamPc[s] = "headers"
    /\ sessionOf' = s
    /\ token' = [token EXCEPT ![s] = FALSE]
    /\ StreamTo(s, "session")
    /\ UNCHANGED <<slice, out, ev, resp, closed, registry, child, killed, resumable, lock, stop, gone, controlFails, stale>>

\* register_session: a second stream of a live session is refused.
OpenSession(s) ==
    /\ streamPc[s] = "headers"
    /\ \/ sessionOf # None /\ End(s) /\ UNCHANGED <<sessionOf, token>>
       \/ /\ sessionOf = None
          /\ sessionOf' = s
          /\ token' = [token EXCEPT ![s] = FALSE]
          /\ StreamTo(s, "session") /\ UNCHANGED out
    /\ UNCHANGED <<slice, ev, resp, closed, registry, child, killed, resumable, lock, stop, gone, controlFails, stale>>

Refuse(s) ==
    /\ StreamTo(s, "ended") /\ out' = [out EXCEPT ![s] = "error"]
    /\ resumable' = TRUE
    /\ UNCHANGED <<ev, closed, liveRun>>

\* _register_run: an error if the id is live, its cleanup is incomplete or the
\* backend drains; else a Stop since prepare_run is taken over.  A later slice
\* clears the marks of a Stop, and asks the session's token (Consult).
ClaimRun(s) ==
    LET resume == s # First \/ slice[s] > 1
        fresh == (resume /\ ~prepared) \/ ~requested
    IN
    /\ streamPc[s] = "session" /\ CleanupFree
    /\ \/ /\ liveRun # None \/ failed # None
          /\ Refuse(s)
          /\ UNCHANGED <<requested, finished, prepared, killed, controlFails, stale>>
       \/ /\ liveRun = None /\ failed = None
          /\ finished' = FALSE /\ prepared' = FALSE
          /\ IF fresh THEN requested' = FALSE /\ killed' = FALSE
                      ELSE UNCHANGED <<requested, killed>>
          /\ \/ /\ liveRun' = s
                /\ ev' = [ev EXCEPT ![s] = ~fresh]
                /\ closed' = [closed EXCEPT ![s] = ~fresh]
                /\ StreamTo(s, "claimed")
                /\ resumable' = FALSE
                /\ UNCHANGED <<out, controlFails>>
             \/ ControlFail /\ Refuse(s)
          /\ stale' = (stale \/ Orphans \/ (prepared /\ slice[s] > 1))
    /\ UNCHANGED <<slice, token, resp, failed, child, sessionOf, lock, stop, gone>>

\* Mutant of Consult: the slice does not ask the session's token.
ConsultNothing(s) ==
    /\ streamPc[s] = "claimed"
    /\ StreamTo(s, "running")
    /\ UNCHANGED <<slice, out, ev, token, resp, closed, registry, child, sessionOf, killed, resumable, lock, stop, gone, controlFails, stale>>

Consult(s) ==
    /\ streamPc[s] = "claimed"
    /\ ev' = [ev EXCEPT ![s] = @ \/ (sessionOf # None /\ token[sessionOf])]
    /\ StreamTo(s, "running")
    /\ UNCHANGED <<slice, out, token, resp, closed, registry, child, sessionOf, killed, resumable, lock, stop, gone, controlFails, stale>>

\* The loop has found no Stop and calls the model ...
CallModel(s) ==
    /\ streamPc[s] = "running" /\ ~ev[s]
    /\ StreamTo(s, "calling")
    /\ UNCHANGED <<slice, out, ev, token, resp, closed, registry, child, sessionOf, killed, resumable, lock, stop, gone, controlFails, stale>>

\* ... whose response is bound to the handle: a closed handle closes it at once.
Bind(s) ==
    /\ streamPc[s] = "calling"
    /\ \/ ~closed[s] /\ StreamTo(s, "model") /\ resp' = [resp EXCEPT ![s] = TRUE] /\ UNCHANGED controlFails
       \/ closed[s] /\ StreamTo(s, "running") /\ UNCHANGED <<resp, controlFails>>
       \/ closed[s] /\ ControlFail /\ StreamTo(s, "running") /\ resp' = [resp EXCEPT ![s] = TRUE]
    /\ UNCHANGED <<slice, out, ev, token, closed, registry, child, sessionOf, killed, resumable, lock, stop, gone, stale>>

\* The model answers, or its response has been closed under the loop.
Answer(s) ==
    /\ streamPc[s] = "model"
    /\ StreamTo(s, "running")
    /\ resp' = [resp EXCEPT ![s] = FALSE]
    /\ UNCHANGED <<slice, out, ev, token, closed, registry, child, sessionOf, killed, resumable, lock, stop, gone, controlFails, stale>>

\* A tool runs in a daemon thread, which the loop leaves alone when stopped.
UseTool(s) ==
    /\ streamPc[s] = "running" /\ ~ev[s] /\ child[s] = "none"
    /\ StreamTo(s, "tool")
    /\ child' = [child EXCEPT ![s] = "spawning"]
    /\ UNCHANGED <<slice, out, ev, token, resp, closed, registry, sessionOf, killed, resumable, lock, stop, gone, controlFails, stale>>

\* Mutant of ToolDone: the loop waits for the tool's thread.
ToolDoneWaits(s) ==
    /\ streamPc[s] = "tool" /\ child[s] = "none"
    /\ StreamTo(s, "running")
    /\ UNCHANGED <<slice, out, ev, token, resp, closed, registry, child, sessionOf, killed, resumable, lock, stop, gone, controlFails, stale>>

ToolDone(s) ==
    /\ streamPc[s] = "tool"
    /\ child[s] = "none" \/ ev[s]
    /\ StreamTo(s, "running")
    /\ UNCHANGED <<slice, out, ev, token, resp, closed, registry, child, sessionOf, killed, resumable, lock, stop, gone, controlFails, stale>>

\* Mutant of Spawn: the marker is tested before the process is registered.
SpawnUnmarked(s) ==
    /\ child[s] = "spawning"
    /\ child' = [child EXCEPT ![s] = "registered"]
    /\ UNCHANGED <<streamVars, registry, sessionOf, killed, resumable, lock, stop, gone, controlFails, stale>>

\* _register_shell_proc: the process is killed if the run has been stopped.  (A kill
\* that is sent is assumed to end it; _shell.py 133 goes on when the call raises.)
Spawn(s) ==
    /\ child[s] = "spawning"
    /\ child' = [child EXCEPT ![s] = IF killed THEN "none" ELSE "registered"]
    /\ UNCHANGED <<streamVars, registry, sessionOf, killed, resumable, lock, stop, gone, controlFails, stale>>

Exit(s) ==
    /\ child[s] = "registered"
    /\ child' = [child EXCEPT ![s] = "none"]
    /\ UNCHANGED <<streamVars, registry, sessionOf, killed, resumable, lock, stop, gone, controlFails, stale>>

\* _unregister_run: a response that cannot be closed keeps its handle.
Release(s) ==
    /\ CleanupFree
    /\ liveRun' = None /\ requested' = FALSE /\ finished' = TRUE
    /\ closed' = [closed EXCEPT ![s] = TRUE]
    /\ \/ resp' = [resp EXCEPT ![s] = FALSE] /\ UNCHANGED <<failed, controlFails>>
       \/ resp[s] /\ ControlFail /\ failed' = s /\ UNCHANGED resp
    /\ UNCHANGED prepared

EndSlice(s) ==
    /\ streamPc[s] = "running" /\ liveRun = s
    /\ Release(s)
    /\ StreamTo(s, "ended")
    /\ \E how \in {"finished", "error", "limit", "cancelled"} :
          /\ how = "limit" => slice[s] < MaxSlices
          /\ how = "cancelled" => ev[s]
          /\ out' = [out EXCEPT ![s] = how]
          /\ resumable' = (how \in {"limit", "error"})
          \* stale: stopped without the token, and yet it goes on
          /\ stale' = (stale \/ (how = "limit" /\ ev[s] /\ ~token[s]))
    /\ UNCHANGED <<slice, ev, token, child, sessionOf, killed, lock, stop, gone>>

\* Mutant of AfterSlice: the session goes on after an error too.
AfterSliceRetries(s) ==
    /\ streamPc[s] = "ended"
    /\ \/ out[s] \in {"limit", "error"} /\ ~token[s] /\ StreamTo(s, "gap") /\ UNCHANGED sessionOf
       \/ StreamTo(s, "done") /\ Unregister(s)
    /\ out' = [out EXCEPT ![s] = "none"]
    /\ UNCHANGED <<slice, ev, token, resp, closed, registry, child, killed, resumable, lock, stop, gone, controlFails, stale>>

\* A structural task goes on after a context limit, unless it is stopped.
AfterSlice(s) ==
    /\ streamPc[s] = "ended"
    /\ \/ out[s] = "limit" /\ ~token[s] /\ StreamTo(s, "gap") /\ UNCHANGED sessionOf
       \/ StreamTo(s, "done") /\ Unregister(s)
    /\ out' = [out EXCEPT ![s] = "none"]
    /\ UNCHANGED <<slice, ev, token, resp, closed, registry, child, killed, resumable, lock, stop, gone, controlFails, stale>>

\* After the boundary: a Stop in the gap ends the session, else the next slice
\* is built, which may fail.
NextSlice(s) ==
    /\ streamPc[s] = "gap"
    /\ \/ /\ token[s]
          /\ End(s) /\ Unregister(s) /\ resumable' = TRUE
          /\ UNCHANGED <<slice, controlFails>>
       \/ /\ ~token[s]
          /\ StreamTo(s, "session") /\ slice' = [slice EXCEPT ![s] = @ + 1]
          /\ UNCHANGED <<out, sessionOf, resumable, controlFails>>
       \/ /\ ~token[s] /\ ControlFail
          /\ StreamTo(s, "done") /\ Unregister(s)
          /\ UNCHANGED <<out, slice, resumable>>
    /\ UNCHANGED <<ev, token, resp, closed, registry, child, killed, lock, stop, gone, stale>>

---------------------------------------------------------------------------
(* A client that goes away: GeneratorExit at a yield of the stream *)

Gone(s) ==
    /\ streamPc[s] \in {"running", "model", "tool", "gap"} /\ gone[s] = None
    /\ \E k \in Stops :
          /\ stop[k] = NoStop
          /\ stop' = [stop EXCEPT ![k] = [NoStop EXCEPT !.at = "session", !.target = Active]]
          /\ gone' = [gone EXCEPT ![s] = k]
    /\ StreamTo(s, "closing")
    /\ UNCHANGED <<slice, out, ev, token, resp, closed, registry, child, sessionOf, killed, resumable, lock, controlFails, stale>>

\* close_events(), whatever became of the Stop.
Closed(s) ==
    /\ streamPc[s] = "closing" /\ stop[gone[s]].at \in {"ok", "failed"}
    /\ IF liveRun = s THEN Release(s) /\ resumable' = TRUE
                   ELSE UNCHANGED <<registry, closed, resp, controlFails, resumable>>
    /\ End(s) /\ Unregister(s)
    /\ UNCHANGED <<slice, ev, token, child, killed, lock, stop, gone, stale>>

---------------------------------------------------------------------------
(* Stop: request_session_cancel, then request_cancel *)

StopTo(k, p) == stop' = [stop EXCEPT ![k].at = p]

\* A Stop meets the streams that are under way when it first finds any.
Meet(k, p) == stop' = [stop EXCEPT ![k].at = p, ![k].target = IF @ = {} THEN Active ELSE @]

StopToken(k) ==
    /\ stop[k].at \in {"idle", "session"}
    /\ token' = IF sessionOf = None THEN token ELSE [token EXCEPT ![sessionOf] = TRUE]
    /\ Meet(k, "flag")
    /\ UNCHANGED <<streamPc, slice, out, ev, resp, closed, registry, child, sessionOf, killed, resumable, lock, gone, controlFails, stale>>

\* The flags of request_cancel.  stale: a session that began after the token was
\* looked for has ended a slice, so that neither flag reaches its next one.
StopFlag(k) ==
    /\ stop[k].at = "flag"
    /\ requested' = (requested \/ liveRun # None \/ ~finished)
    /\ ev' = IF liveRun = None THEN ev ELSE [ev EXCEPT ![liveRun] = TRUE]
    /\ stale' = (stale \/ (liveRun = None /\ finished /\ sessionOf # None /\ ~token[sessionOf]))
    /\ Meet(k, "wait")
    /\ UNCHANGED <<streamPc, slice, out, token, resp, closed, liveRun, finished, prepared, failed, child, sessionOf, killed, resumable, lock, gone, controlFails>>

\* _cleanup_cancelled_run under the cleanup lock: it looks again.
StopEnter(k) ==
    /\ stop[k].at = "wait" /\ CleanupFree
    /\ lock' = k
    /\ ev' = IF liveRun = None THEN ev ELSE [ev EXCEPT ![liveRun] = TRUE]
    /\ stop' = [stop EXCEPT ![k].at = "close", ![k].handle = IF liveRun # None THEN liveRun ELSE failed,
                            ![k].target = IF @ = {} THEN Active ELSE @]
    /\ UNCHANGED <<streamPc, slice, out, token, resp, closed, registry, child, sessionOf, killed, resumable, gone, controlFails, stale>>

\* The provider's response is closed; a failure keeps the handle for a retry.
StopClose(k) ==
    LET h == stop[k].handle IN
    /\ stop[k].at = "close"
    /\ \/ h = None /\ StopTo(k, "kill") /\ UNCHANGED <<resp, closed, failed, controlFails>>
       \/ /\ h # None
          /\ closed' = [closed EXCEPT ![h] = TRUE]
          /\ \/ resp' = [resp EXCEPT ![h] = FALSE] /\ failed' = (IF failed = h THEN None ELSE failed)
                /\ StopTo(k, "kill") /\ UNCHANGED controlFails
             \/ resp[h] /\ ControlFail /\ failed' = h /\ UNCHANGED resp
                /\ stop' = [stop EXCEPT ![k].at = "kill", ![k].err = TRUE]
    /\ UNCHANGED <<streamPc, slice, out, ev, token, liveRun, requested, finished, prepared, child, sessionOf, killed, resumable, lock, gone, stale>>

\* Every process of the run id is killed, then callbacks and servers stopped.
StopKill(k) ==
    /\ stop[k].at = "kill"
    /\ killed' = TRUE
    /\ \/ child' = [s \in Streams |-> IF child[s] = "registered" THEN "none" ELSE child[s]]
          /\ StopTo(k, "return") /\ UNCHANGED controlFails
       \/ /\ ControlFail /\ stop' = [stop EXCEPT ![k].at = "return", ![k].err = TRUE]
          /\ UNCHANGED child
    /\ UNCHANGED <<streamVars, registry, sessionOf, resumable, lock, gone, stale>>

StopReturn(k) ==
    /\ stop[k].at = "return"
    /\ lock' = None
    /\ stop' = [stop EXCEPT ![k] = [NoStop EXCEPT !.at = IF stop[k].err THEN "failed" ELSE "ok",
                                                  !.target = stop[k].target]]
    /\ UNCHANGED <<streamVars, registry, child, sessionOf, killed, resumable, gone, controlFails, stale>>

---------------------------------------------------------------------------
ControlInit ==
    /\ streamPc = [s \in Streams |-> "idle"] /\ slice = [s \in Streams |-> 1]
    /\ out = [s \in Streams |-> "none"]
    /\ ev = [s \in Streams |-> FALSE] /\ token = [s \in Streams |-> FALSE]
    /\ resp = [s \in Streams |-> FALSE] /\ closed = [s \in Streams |-> FALSE]
    /\ child = [s \in Streams |-> "none"]
    /\ liveRun = None /\ sessionOf = None /\ failed = None /\ lock = None
    /\ requested = FALSE /\ finished = FALSE /\ prepared = FALSE
    /\ killed = FALSE /\ resumable = FALSE
    /\ stop = [k \in Stops |-> NoStop]
    /\ gone = [s \in Streams |-> None]
    /\ controlFails = 0 /\ stale = FALSE

Generator(s) ==
    \/ Vanish(s) \/ OpenSession(s) \/ ClaimRun(s) \/ Consult(s) \/ CallModel(s) \/ Bind(s) \/ Answer(s)
    \/ UseTool(s) \/ ToolDone(s) \/ EndSlice(s) \/ AfterSlice(s) \/ NextSlice(s) \/ Closed(s)

ToolThread(s) == Spawn(s) \/ Exit(s)

Cancel(k) ==
    \/ StopFlag(k) \/ StopEnter(k) \/ StopClose(k) \/ StopKill(k) \/ StopReturn(k)

ControlNext ==
    \/ Stream \/ \E s \in Streams : Ask(s) \/ Resume(s)
    \/ \E s \in Streams : Generator(s) \/ ToolThread(s) \/ Gone(s)
    \/ \E k \in Stops : StopToken(k) \/ Cancel(k)

\* Each stream, tool thread and Stop is a thread that the system goes on running.
\* A model that answers, a tool that returns and a loop that ends are no part of it.
Obliged(s) ==
    \/ Resume(s) \/ Vanish(s) \/ OpenSession(s) \/ ClaimRun(s) \/ Consult(s) \/ Bind(s) \/ ToolDone(s)
    \/ AfterSlice(s) \/ NextSlice(s) \/ Closed(s)
    \/ streamPc[s] = "model" /\ ~resp[s] /\ Answer(s)
    \/ streamPc[s] = "running" /\ ev[s] /\ EndSlice(s)

ControlSpec == ControlInit /\ [][ControlNext]_controlVars

ControlFairSpec ==
    /\ ControlSpec
    /\ \A s \in Streams : WF_controlVars(Obliged(s))
    /\ \A k \in Stops : WF_controlVars(Cancel(k)) /\ WF_controlVars(stop[k].at = "session" /\ StopToken(k))

---------------------------------------------------------------------------
(* Properties *)

Working == {"claimed", "running", "calling", "model", "tool"}

StreamPlaces == Underway \cup {"idle", "asked", "closing", "done"}
StreamOutcomes == {"none", "finished", "error", "limit", "cancelled"}
StopStages == {"idle", "session", "flag", "wait", "close", "kill", "return", "ok", "failed"}
StopRecords == [at : StopStages, target : SUBSET Streams, handle : Streams \cup {None}, err : BOOLEAN]

\* Every part of the state has its type.
ControlTypeOK ==
    /\ streamPc \in [Streams -> StreamPlaces]
    /\ slice \in [Streams -> 1..MaxSlices]
    /\ out \in [Streams -> StreamOutcomes]
    /\ ev \in [Streams -> BOOLEAN] /\ token \in [Streams -> BOOLEAN]
    /\ resp \in [Streams -> BOOLEAN] /\ closed \in [Streams -> BOOLEAN]
    /\ child \in [Streams -> {"none", "spawning", "registered"}]
    /\ liveRun \in Streams \cup {None} /\ sessionOf \in Streams \cup {None} /\ failed \in Streams \cup {None}
    /\ requested \in BOOLEAN /\ finished \in BOOLEAN /\ prepared \in BOOLEAN
    /\ killed \in BOOLEAN /\ resumable \in BOOLEAN /\ stale \in BOOLEAN
    /\ lock \in Stops \cup {None}
    /\ stop \in [Stops -> StopRecords]
    /\ gone \in [Streams -> Stops \cup {None}]
    /\ controlFails \in 0..MaxControlFails

\* A run id has one generation at a time: whoever works is the live run and owns
\* the session, whatever streams, resumes and Stops of the id overlap; and an open
\* provider response has an owner through which a Stop can close it.
OneGeneration ==
    \A s \in Streams :
        /\ streamPc[s] \in Working => liveRun = s /\ sessionOf = s
        /\ liveRun = s => streamPc[s] \in Working \cup {"closing"}
        /\ resp[s] => liveRun = s \/ failed = s

\* An acknowledged Stop has left nothing of the streams it met, if no later
\* generation crossed it: no process, and no response with an open handle.
AckMeansClean ==
    \A k \in Stops : stop[k].at = "ok" /\ ~stale =>
        \A s \in stop[k].target : child[s] # "registered" /\ (resp[s] => closed[s])

Works(s) == streamPc[s] = "running" /\ streamPc'[s] \in {"calling", "tool"}

\* The same but for the Stop whose two flags fell on either side of a slice.
StopEndsSessionUnsplit ==
    [][\A k \in Stops : stop[k].at = "ok" /\ ~stale => \A s \in stop[k].target : ~Works(s)]_controlVars

Met(s) == \E k \in Stops : s \in stop[k].target

\* A Stop is kept "until an explicit Resume starts a fresh execution generation":
\* a resumed run is cancelled by a Stop that came after the Resume only.
ResumeIsFresh == \A s \in Streams \ {First} : liveRun = s /\ ev[s] => Met(s)

\* The same but for a Resume that overtakes a Stop or joins a generation of another,
\* live or prepared and never started.
ResumeIsFreshUncrossed == ~stale => ResumeIsFresh

\* Every stream that an acknowledged Stop met comes to its end.
StopTerminates ==
    \A k \in Stops : \A s \in Streams :
        (stop[k].at = "ok" /\ s \in stop[k].target) ~> (streamPc[s] = "done" \/ stale)

=============================================================================
