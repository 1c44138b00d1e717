--------------------------- MODULE RunControlProofs ---------------------------
(****************************************************************************)
(* What a Stop of a run guarantees, and what a tab of the console does, for *)
(* every value of the constants.                                            *)
(****************************************************************************)
EXTENDS RunControl, TerminalSessions, SequenceTheorems, TLAPS

-------------------------------------------------------------------------------
(***************************************************************************)
(* What a Stop of a run id guarantees for every number of streams, Resumes, *)
(* Stops and slices.  None of the properties is inductive.  That a Stop     *)
(* leaves nothing behind rests on where each stream it met can still go     *)
(* (Doomed): the flag that will reach it differs with its place, and        *)
(* another stream, a later slice or a lock must not take that flag away.    *)
(***************************************************************************)
InSession == {"session", "claimed", "running", "calling", "model", "tool", "ended", "gap", "closing"}

\* The session belongs to the stream that is in it; an open response has an owner,
\* and a retained handle is the live run's own.
Owned ==
    /\ \A s \in Streams : streamPc[s] \in InSession <=> sessionOf = s
    /\ OneGeneration
    /\ liveRun # None => failed \in {None, liveRun}

\* A generation that is prepared is not live yet; a stream is in its first slice
\* until it has opened its session, and goes on only where a slice is left.
Prepared ==
    /\ prepared => liveRun = None /\ ~finished
    /\ \A s \in Streams :
          /\ streamPc[s] \in {"idle", "asked", "headers"} => slice[s] = 1
          /\ streamPc[s] = "gap" => slice[s] < MaxSlices
          /\ out[s] = "limit" => streamPc[s] = "ended" /\ slice[s] < MaxSlices

\* The cleanup lock is held over three steps, and what a Stop closes stays the
\* handle of the run for as long as it holds the lock.
CleanupLocked ==
    \A k \in Stops :
        /\ stop[k].at \in {"close", "kill", "return"} <=> lock = k
        /\ stop[k].at = "close" => stop[k].handle = IF liveRun # None THEN liveRun ELSE failed

\* A Stop has met only streams that were under way; the Stop of a lost client has
\* met its stream.
MetOnce ==
    /\ \A k \in Stops :
          /\ stop[k].at = "idle" => stop[k] = NoStop
          /\ \A s \in stop[k].target : streamPc[s] \notin {"idle", "asked"}
    /\ \A s \in Streams : streamPc[s] = "closing" => Met(s)

ControlSafe == ControlTypeOK /\ Owned /\ Prepared /\ CleanupLocked /\ MetOnce

IsUnderway(k) == stop[k].at \notin {"idle", "ok", "failed"}

\* The generation of the stream has been prepared and not claimed.
Starting(s) == streamPc[s] = "headers" \/ (streamPc[s] = "session" /\ slice[s] = 1)

\* The stream is between two slices of its session.
Between(s) ==
    \/ streamPc[s] = "gap"
    \/ streamPc[s] = "session" /\ slice[s] > 1
    \/ streamPc[s] = "ended" /\ out[s] = "limit"

\* Wherever the stream is, a flag is set that keeps it from the model and the tools.
Doomed(s) ==
    /\ Starting(s) => requested
    /\ Between(s) => token[s]
    /\ streamPc[s] = "claimed" => ev[s] \/ token[s]
    /\ streamPc[s] \in {"running", "calling", "model", "tool"} => ev[s]

\* Without a crossing: a prepared generation has one stream, a Stop under way has
\* met every stream, and whoever is to be cancelled has been met.
Uncrossed ==
    /\ \A s \in Streams : Starting(s) => prepared
    /\ \A s, t \in Streams : Starting(s) /\ Starting(t) => s = t
    /\ \A k \in Stops : IsUnderway(k) => Active \subseteq stop[k].target
    /\ \A s \in Streams \ {First} :
          /\ requested /\ Starting(s) => Met(s)
          /\ liveRun = s /\ ev[s] => Met(s)
    /\ \A s \in Streams : sessionOf = s /\ token[s] => Met(s)
    /\ \A k \in Stops, s \in Streams :
          stop[k].at = "flag" /\ Between(s) /\ ~token[s] => finished

\* What a Stop has done to a stream it met, stage by stage.
Reached(k, s) ==
    LET clean == stop[k].at = "ok" \/ ~stop[k].err
    IN  /\ stop[k].at \in {"wait", "close", "kill", "return", "ok", "failed"} => Doomed(s)
        /\ stop[k].at \in {"kill", "return", "ok", "failed"} /\ streamPc[s] = "calling" => closed[s]
        /\ stop[k].at \in {"kill", "return", "ok"} /\ clean /\ resp[s] => closed[s]
        /\ stop[k].at \in {"return", "ok"} /\ clean =>
              child[s] # "registered" /\ (child[s] = "spawning" => killed)

StoppedBy(k) == \A s \in stop[k].target : Reached(k, s)

Stopped == \A k \in Stops : StoppedBy(k)

ControlInv == ControlSafe /\ (~stale => Uncrossed /\ Stopped)

USE RunControlAssumption

(***************************************************************************)
(* Types                                                                   *)
(***************************************************************************)

LEMMA RecordTyped ==
  ASSUME NEW r \in StopRecords
  PROVE  r.at \in StopStages /\ r.target \in SUBSET Streams /\ r.handle \in Streams \cup {None} /\ r.err \in BOOLEAN
  BY DEF StopRecords

LEMMA RecordMade ==
  ASSUME NEW r \in StopRecords, NEW p \in StopStages, NEW T \in SUBSET Streams,
         NEW h \in Streams \cup {None}, NEW b \in BOOLEAN
  PROVE  /\ [r EXCEPT !.at = p] \in StopRecords
         /\ [r EXCEPT !.at = p, !.target = T] \in StopRecords
         /\ [r EXCEPT !.at = p, !.err = b] \in StopRecords
         /\ [r EXCEPT !.at = p, !.handle = h, !.target = T] \in StopRecords
         /\ [NoStop EXCEPT !.at = p, !.target = T] \in StopRecords
  BY DEF StopRecords, NoStop, StopStages

\* The step of one Stop leaves the others as they are.
OnlyStop(k) == \A j \in Stops : j # k => stop'[j] = stop[j]

\* What a step of a Stop does to its record.
StopBecomes(k, p, T, h, b) ==
    /\ stop' \in [Stops -> StopRecords] /\ OnlyStop(k)
    /\ stop'[k].at = p /\ stop'[k].target = T /\ stop'[k].handle = h /\ stop'[k].err = b

TargetNow(k) == IF stop[k].target = {} THEN Active ELSE stop[k].target

LEMMA MeetShape ==
  ASSUME ControlTypeOK, NEW k \in Stops, NEW p \in StopStages, Meet(k, p)
  PROVE  StopBecomes(k, p, TargetNow(k), stop[k].handle, stop[k].err)
<1>1. TargetNow(k) \in SUBSET Streams /\ stop \in [Stops -> StopRecords]
  BY RecordTyped DEF Active, TargetNow, ControlTypeOK
<1>2. stop' = [stop EXCEPT ![k] = [stop[k] EXCEPT !.at = p, !.target = TargetNow(k)]]
  BY DEF Meet, TargetNow
<1>3. [stop[k] EXCEPT !.at = p, !.target = TargetNow(k)] \in StopRecords
  BY <1>1, RecordMade, RecordTyped
<1>4. QED BY <1>1, <1>2, <1>3 DEF StopBecomes, OnlyStop, StopRecords

LEMMA EnterShape ==
  ASSUME ControlTypeOK, NEW k \in Stops, StopEnter(k)
  PROVE  StopBecomes(k, "close", TargetNow(k), IF liveRun # None THEN liveRun ELSE failed, stop[k].err)
<1> DEFINE h == IF liveRun # None THEN liveRun ELSE failed
<1>1. TargetNow(k) \in SUBSET Streams /\ h \in Streams \cup {None} /\ stop \in [Stops -> StopRecords]
  BY RecordTyped DEF Active, TargetNow, ControlTypeOK
<1>2. stop' = [stop EXCEPT ![k] = [stop[k] EXCEPT !.at = "close", !.handle = h, !.target = TargetNow(k)]]
  BY DEF StopEnter, TargetNow
<1> HIDE DEF h
<1>3. [stop[k] EXCEPT !.at = "close", !.handle = h, !.target = TargetNow(k)] \in StopRecords
  BY <1>1, RecordMade, RecordTyped DEF StopStages
<1>4. StopBecomes(k, "close", TargetNow(k), h, stop[k].err)
  BY <1>1, <1>2, <1>3 DEF StopBecomes, OnlyStop, StopRecords
<1>5. QED BY <1>4 DEF h

LEMMA StageShape ==
  ASSUME ControlTypeOK, NEW k \in Stops, NEW p \in StopStages, StopTo(k, p)
  PROVE  StopBecomes(k, p, stop[k].target, stop[k].handle, stop[k].err)
<1>1. stop' = [stop EXCEPT ![k] = [stop[k] EXCEPT !.at = p]]
  BY DEF StopTo
<1>2. [stop[k] EXCEPT !.at = p] \in StopRecords
  BY RecordMade, RecordTyped DEF ControlTypeOK
<1>3. QED BY SMTT(60), <1>1, <1>2, RecordTyped DEF ControlTypeOK, StopBecomes, OnlyStop, StopRecords

LEMMA ErrorShape ==
  ASSUME ControlTypeOK, NEW k \in Stops, NEW p \in StopStages,
         stop' = [stop EXCEPT ![k].at = p, ![k].err = TRUE]
  PROVE  StopBecomes(k, p, stop[k].target, stop[k].handle, TRUE)
<1>1. stop' = [stop EXCEPT ![k] = [stop[k] EXCEPT !.at = p, !.err = TRUE]]
  OBVIOUS
<1>2. [stop[k] EXCEPT !.at = p, !.err = TRUE] \in StopRecords
  BY RecordMade, RecordTyped DEF ControlTypeOK
<1>3. QED BY <1>1, <1>2, RecordTyped DEF ControlTypeOK, StopBecomes, OnlyStop, StopRecords

LEMMA ReturnShape ==
  ASSUME ControlTypeOK, NEW k \in Stops, StopReturn(k)
  PROVE  StopBecomes(k, IF stop[k].err THEN "failed" ELSE "ok", stop[k].target, None, FALSE)
<1> DEFINE p == IF stop[k].err THEN "failed" ELSE "ok"
<1>1. stop' = [stop EXCEPT ![k] = [NoStop EXCEPT !.at = p, !.target = stop[k].target]]
  BY SMTT(60) DEF StopReturn
<1>2. [NoStop EXCEPT !.at = p, !.target = stop[k].target] \in StopRecords
  BY ZenonT(60), RecordMade, RecordTyped DEF ControlTypeOK, StopStages
<1>3. QED BY <1>1, <1>2, RecordTyped DEF ControlTypeOK, StopBecomes, OnlyStop, StopRecords, NoStop

LEMMA GoneShape ==
  ASSUME ControlTypeOK, NEW k \in Stops,
         stop' = [stop EXCEPT ![k] = [NoStop EXCEPT !.at = "session", !.target = Active]]
  PROVE  StopBecomes(k, "session", Active, None, FALSE)
<1>1. Active \in SUBSET Streams
  BY DEF Active
<1>2. [NoStop EXCEPT !.at = "session", !.target = Active] \in StopRecords
  BY <1>1, RecordMade DEF StopStages, ControlTypeOK
<1>3. QED BY <1>1, <1>2 DEF ControlTypeOK, StopBecomes, OnlyStop, StopRecords, NoStop

\* What is left of a generation: its handle is closed, or retained with the response.
LEMMA ReleaseShape ==
  ASSUME ControlTypeOK, NEW s \in Streams, Release(s)
  PROVE  /\ lock = None /\ liveRun' = None /\ requested' = FALSE /\ finished' = TRUE /\ prepared' = prepared
         /\ closed' \in [Streams -> BOOLEAN] /\ closed'[s]
         /\ \A t \in Streams : closed[t] => closed'[t]
         /\ \A t \in Streams : t # s => closed'[t] = closed[t]
         /\ resp' \in [Streams -> BOOLEAN]
         /\ \A t \in Streams : t # s => resp'[t] = resp[t]
         /\ \/ failed' = failed /\ ~resp'[s]
            \/ failed' = s /\ resp' = resp
         /\ failed' \in Streams \cup {None}
         /\ controlFails' \in 0..MaxControlFails
<1>1. /\ lock = None /\ liveRun' = None /\ requested' = FALSE /\ finished' = TRUE /\ prepared' = prepared
      /\ closed' = [closed EXCEPT ![s] = TRUE]
  BY DEF Release, CleanupFree
<1>2. CASE resp' = [resp EXCEPT ![s] = FALSE] /\ UNCHANGED <<failed, controlFails>>
  BY <1>1, <1>2 DEF ControlTypeOK
<1>3. CASE resp[s] /\ ControlFail /\ failed' = s /\ UNCHANGED resp
  BY <1>1, <1>3 DEF ControlTypeOK, ControlFail
<1>4. QED BY <1>2, <1>3 DEF Release

LEMMA ControlTypeStep ==
  ASSUME ControlTypeOK, Prepared, ControlNext
  PROVE  ControlTypeOK'
<1>1. CASE Stream
  <2>1. streamPc' \in [Streams -> StreamPlaces]
    BY <1>1 DEF Stream, Prepare, StreamTo, End, ControlTypeOK, StreamPlaces, Underway
  <2>2. out' \in [Streams -> StreamOutcomes]
    BY <1>1 DEF Stream, Prepare, StreamTo, End, ControlTypeOK, StreamOutcomes
  <2>3. prepared' \in BOOLEAN /\ finished' \in BOOLEAN /\ requested' \in BOOLEAN /\ killed' \in BOOLEAN /\ stale' \in BOOLEAN
    <3>1. CASE liveRun # None \/ prepared
      BY <1>1, <3>1 DEF Stream, Prepare, ControlTypeOK, registry
    <3>2. CASE ~(liveRun # None \/ prepared)
      BY <1>1, <3>2 DEF Stream, Prepare, ControlTypeOK, registry, StopUnderway, Orphans
    <3>3. QED BY <3>1, <3>2
  <2>4. QED BY <1>1, <2>1, <2>2, <2>3 DEF Stream, Prepare, StreamTo, End, registry, ControlTypeOK
<1>2. ASSUME NEW s \in Streams, Ask(s) PROVE ControlTypeOK'
  <2>1. streamPc' \in [Streams -> StreamPlaces]
    BY <1>2 DEF Ask, StreamTo, ControlTypeOK, StreamPlaces, Underway
  <2>2. QED BY <1>2, <2>1 DEF Ask, registry, ControlTypeOK
<1>3. ASSUME NEW s \in Streams, Resume(s) PROVE ControlTypeOK'
  <2>1. streamPc' \in [Streams -> StreamPlaces]
    BY <1>3 DEF Resume, Prepare, StreamTo, End, ControlTypeOK, StreamPlaces, Underway
  <2>2. out' \in [Streams -> StreamOutcomes]
    BY <1>3 DEF Resume, Prepare, StreamTo, End, ControlTypeOK, StreamOutcomes
  <2>3. prepared' \in BOOLEAN /\ finished' \in BOOLEAN /\ requested' \in BOOLEAN /\ killed' \in BOOLEAN /\ stale' \in BOOLEAN
    <3>1. CASE liveRun # None \/ prepared
      BY <1>3, <3>1 DEF Resume, Prepare, ControlTypeOK, registry
    <3>2. CASE ~(liveRun # None \/ prepared)
      BY <1>3, <3>2 DEF Resume, Prepare, ControlTypeOK, registry, StopUnderway, Orphans
    <3>3. QED BY <3>1, <3>2
  <2>4. QED BY <1>3, <2>1, <2>2, <2>3 DEF Resume, Prepare, StreamTo, End, registry, ControlTypeOK
<1>4. ASSUME NEW s \in Streams, Vanish(s) PROVE ControlTypeOK'
  <2>1. streamPc' \in [Streams -> StreamPlaces]
    BY <1>4 DEF Vanish, StreamTo, End, ControlTypeOK, StreamPlaces, Underway
  <2>2. QED BY <1>4, <2>1 DEF Vanish, StreamTo, End, registry, ControlTypeOK
<1>5. ASSUME NEW s \in Streams, OpenSession(s) PROVE ControlTypeOK'
  <2>1. streamPc' \in [Streams -> StreamPlaces]
    BY <1>5 DEF OpenSession, StreamTo, End, ControlTypeOK, StreamPlaces, Underway
  <2>2. token' \in [Streams -> BOOLEAN]
    BY <1>5 DEF OpenSession, StreamTo, End, ControlTypeOK
  <2>3. sessionOf' \in Streams \cup {None}
    BY <1>5 DEF OpenSession, StreamTo, End, ControlTypeOK
  <2>4. QED BY <1>5, <2>1, <2>2, <2>3 DEF OpenSession, StreamTo, End, registry, ControlTypeOK
<1>6. ASSUME NEW s \in Streams, ClaimRun(s) PROVE ControlTypeOK'
  <2>1. streamPc' \in [Streams -> StreamPlaces]
    BY <1>6 DEF ClaimRun, StreamTo, Refuse, ControlFail, ControlTypeOK, StreamPlaces, Underway
  <2>2. out' \in [Streams -> StreamOutcomes]
    BY <1>6 DEF ClaimRun, StreamTo, Refuse, ControlFail, ControlTypeOK, StreamOutcomes
  <2>3. ev' \in [Streams -> BOOLEAN] /\ closed' \in [Streams -> BOOLEAN]
    BY <1>6 DEF ClaimRun, StreamTo, Refuse, ControlFail, ControlTypeOK
  <2>4. liveRun' \in Streams \cup {None}
    BY <1>6 DEF ClaimRun, StreamTo, Refuse, ControlFail, ControlTypeOK
  <2>5. finished' \in BOOLEAN /\ prepared' \in BOOLEAN /\ requested' \in BOOLEAN /\ killed' \in BOOLEAN /\ resumable' \in BOOLEAN /\ stale' \in BOOLEAN
    BY <1>6 DEF ClaimRun, StreamTo, Refuse, ControlFail, ControlTypeOK
  <2>6. controlFails' \in 0..MaxControlFails
    BY <1>6 DEF ClaimRun, StreamTo, Refuse, ControlFail, ControlTypeOK
  <2>7. QED BY <1>6, <2>1, <2>2, <2>3, <2>4, <2>5, <2>6 DEF ClaimRun, StreamTo, Refuse, ControlFail, ControlTypeOK
<1>7. ASSUME NEW s \in Streams, Consult(s) PROVE ControlTypeOK'
  <2>1. streamPc' \in [Streams -> StreamPlaces]
    BY <1>7 DEF Consult, StreamTo, ControlTypeOK, StreamPlaces, Underway
  <2>2. ev' \in [Streams -> BOOLEAN]
    BY <1>7 DEF Consult, StreamTo, ControlTypeOK
  <2>3. QED BY <1>7, <2>1, <2>2 DEF Consult, StreamTo, registry, ControlTypeOK
<1>8. ASSUME NEW s \in Streams, CallModel(s) PROVE ControlTypeOK'
  <2>1. streamPc' \in [Streams -> StreamPlaces]
    BY <1>8 DEF CallModel, StreamTo, ControlTypeOK, StreamPlaces, Underway
  <2>2. QED BY <1>8, <2>1 DEF CallModel, StreamTo, registry, ControlTypeOK
<1>9. ASSUME NEW s \in Streams, Bind(s) PROVE ControlTypeOK'
  <2>1. streamPc' \in [Streams -> StreamPlaces]
    BY <1>9 DEF Bind, StreamTo, ControlFail, ControlTypeOK, StreamPlaces, Underway
  <2>2. resp' \in [Streams -> BOOLEAN]
    BY <1>9 DEF Bind, StreamTo, ControlFail, ControlTypeOK
  <2>3. controlFails' \in 0..MaxControlFails
    BY <1>9 DEF Bind, StreamTo, ControlFail, ControlTypeOK
  <2>4. QED BY <1>9, <2>1, <2>2, <2>3 DEF Bind, StreamTo, ControlFail, registry, ControlTypeOK
<1>10. ASSUME NEW s \in Streams, Answer(s) PROVE ControlTypeOK'
  <2>1. streamPc' \in [Streams -> StreamPlaces]
    BY <1>10 DEF Answer, StreamTo, ControlTypeOK, StreamPlaces, Underway
  <2>2. resp' \in [Streams -> BOOLEAN]
    BY <1>10 DEF Answer, StreamTo, ControlTypeOK
  <2>3. QED BY <1>10, <2>1, <2>2 DEF Answer, StreamTo, registry, ControlTypeOK
<1>11. ASSUME NEW s \in Streams, UseTool(s) PROVE ControlTypeOK'
  <2>1. streamPc' \in [Streams -> StreamPlaces]
    BY <1>11 DEF UseTool, StreamTo, ControlTypeOK, StreamPlaces, Underway
  <2>2. child' \in [Streams -> {"none", "spawning", "registered"}]
    BY <1>11 DEF UseTool, StreamTo, ControlTypeOK
  <2>3. QED BY <1>11, <2>1, <2>2 DEF UseTool, StreamTo, registry, ControlTypeOK
<1>12. ASSUME NEW s \in Streams, ToolDone(s) PROVE ControlTypeOK'
  <2>1. streamPc' \in [Streams -> StreamPlaces]
    BY <1>12 DEF ToolDone, StreamTo, ControlTypeOK, StreamPlaces, Underway
  <2>2. QED BY <1>12, <2>1 DEF ToolDone, StreamTo, registry, ControlTypeOK
<1>13. ASSUME NEW s \in Streams, EndSlice(s) PROVE ControlTypeOK'
  <2>1. PICK how \in {"finished", "error", "limit", "cancelled"} :
           /\ out' = [out EXCEPT ![s] = how] /\ resumable' = (how \in {"limit", "error"})
           /\ stale' = (stale \/ (how = "limit" /\ ev[s] /\ ~token[s]))
    BY <1>13 DEF EndSlice
  <2>2. streamPc' \in [Streams -> StreamPlaces] /\ out' \in [Streams -> StreamOutcomes]
    BY <1>13, <2>1 DEF EndSlice, StreamTo, ControlTypeOK, StreamPlaces, Underway, StreamOutcomes
  <2>3. resumable' \in BOOLEAN /\ stale' \in BOOLEAN
    BY <2>1
  <2>4. QED BY <1>13, <2>2, <2>3, ReleaseShape DEF EndSlice, ControlTypeOK
<1>14. ASSUME NEW s \in Streams, AfterSlice(s) PROVE ControlTypeOK'
  <2>1. streamPc' \in [Streams -> StreamPlaces]
    BY <1>14 DEF AfterSlice, StreamTo, Unregister, ControlTypeOK, StreamPlaces, Underway
  <2>2. out' \in [Streams -> StreamOutcomes]
    BY <1>14 DEF AfterSlice, StreamTo, Unregister, ControlTypeOK, StreamOutcomes
  <2>3. sessionOf' \in Streams \cup {None}
    BY <1>14 DEF AfterSlice, StreamTo, Unregister, ControlTypeOK
  <2>4. QED BY <1>14, <2>1, <2>2, <2>3 DEF AfterSlice, StreamTo, Unregister, registry, ControlTypeOK
<1>15. ASSUME NEW s \in Streams, NextSlice(s) PROVE ControlTypeOK'
  <2>1. streamPc' \in [Streams -> StreamPlaces]
    BY <1>15 DEF NextSlice, StreamTo, Unregister, End, ControlFail, ControlTypeOK, StreamPlaces, Underway
  <2>2. slice' \in [Streams -> 1..MaxSlices]
    BY <1>15 DEF NextSlice, StreamTo, Unregister, End, ControlFail, ControlTypeOK, Prepared
  <2>3. sessionOf' \in Streams \cup {None}
    BY <1>15 DEF NextSlice, StreamTo, Unregister, End, ControlFail, ControlTypeOK
  <2>4. resumable' \in BOOLEAN
    BY <1>15 DEF NextSlice, StreamTo, Unregister, End, ControlFail, ControlTypeOK
  <2>5. controlFails' \in 0..MaxControlFails
    BY <1>15 DEF NextSlice, StreamTo, Unregister, End, ControlFail, ControlTypeOK
  <2>6. QED BY <1>15, <2>1, <2>2, <2>3, <2>4, <2>5 DEF NextSlice, StreamTo, Unregister, End, ControlFail, registry, ControlTypeOK
<1>16. ASSUME NEW s \in Streams, Closed(s) PROVE ControlTypeOK'
  <2>1. /\ streamPc' \in [Streams -> StreamPlaces] /\ sessionOf' \in Streams \cup {None}
        /\ UNCHANGED <<slice, out, ev, token, child, killed, lock, stop, gone, stale>>
    BY <1>16 DEF Closed, StreamTo, End, Unregister, ControlTypeOK, StreamPlaces, Underway
  <2>2. CASE liveRun = s
    BY ZenonT(60), <1>16, <2>1, <2>2, ReleaseShape DEF Closed, ControlTypeOK
  <2>3. CASE liveRun # s
    BY <1>16, <2>1, <2>3 DEF Closed, registry, ControlTypeOK
  <2>4. QED BY <2>2, <2>3
<1>17. ASSUME NEW s \in Streams, Spawn(s) PROVE ControlTypeOK'
  <2>1. child' \in [Streams -> {"none", "spawning", "registered"}]
    BY <1>17 DEF Spawn, ControlTypeOK
  <2>2. QED BY <1>17, <2>1 DEF Spawn, streamVars, registry, ControlTypeOK
<1>18. ASSUME NEW s \in Streams, Exit(s) PROVE ControlTypeOK'
  <2>1. child' \in [Streams -> {"none", "spawning", "registered"}]
    BY <1>18 DEF Exit, ControlTypeOK
  <2>2. QED BY <1>18, <2>1 DEF Exit, streamVars, registry, ControlTypeOK
<1>19. ASSUME NEW s \in Streams, Gone(s) PROVE ControlTypeOK'
  <2>1. streamPc' \in [Streams -> StreamPlaces]
    BY <1>19 DEF Gone, StreamTo, ControlTypeOK, StreamPlaces, Underway
  <2>2. stop' \in [Stops -> StopRecords]
    BY <1>19, GoneShape DEF Gone, StopBecomes
  <2>3. gone' \in [Streams -> Stops \cup {None}]
    BY <1>19 DEF Gone, StreamTo, ControlTypeOK
  <2>4. QED BY <1>19, <2>1, <2>2, <2>3 DEF Gone, StreamTo, registry, ControlTypeOK
<1>20. ASSUME NEW k \in Stops, StopToken(k) PROVE ControlTypeOK'
  <2>1. token' \in [Streams -> BOOLEAN]
    BY <1>20 DEF StopToken, Meet, ControlTypeOK
  <2>2. stop' \in [Stops -> StopRecords]
    BY <1>20, MeetShape DEF StopToken, StopBecomes, StopStages
  <2>3. QED BY <1>20, <2>1, <2>2 DEF StopToken, Meet, registry, ControlTypeOK
<1>21. ASSUME NEW k \in Stops, StopFlag(k) PROVE ControlTypeOK'
  <2>1. requested' \in BOOLEAN /\ stale' \in BOOLEAN
    BY <1>21 DEF StopFlag, Meet, ControlTypeOK
  <2>2. ev' \in [Streams -> BOOLEAN]
    BY <1>21 DEF StopFlag, Meet, ControlTypeOK
  <2>3. stop' \in [Stops -> StopRecords]
    BY <1>21, MeetShape DEF StopFlag, StopBecomes, StopStages
  <2>4. QED BY <1>21, <2>1, <2>2, <2>3 DEF StopFlag, Meet, ControlTypeOK
<1>22. ASSUME NEW k \in Stops, StopEnter(k) PROVE ControlTypeOK'
  <2>1. lock' \in Stops \cup {None}
    BY <1>22 DEF StopEnter, ControlTypeOK
  <2>2. ev' \in [Streams -> BOOLEAN]
    BY <1>22 DEF StopEnter, ControlTypeOK
  <2>3. stop' \in [Stops -> StopRecords]
    BY <1>22, EnterShape DEF StopBecomes
  <2>4. QED BY <1>22, <2>1, <2>2, <2>3 DEF StopEnter, registry, ControlTypeOK
<1>23. ASSUME NEW k \in Stops, StopClose(k) PROVE ControlTypeOK'
  <2>1. resp' \in [Streams -> BOOLEAN] /\ closed' \in [Streams -> BOOLEAN]
    BY <1>23 DEF StopClose, StopTo, ControlFail, ControlTypeOK
  <2>2. failed' \in Streams \cup {None}
    BY <1>23, RecordTyped DEF StopClose, ControlTypeOK, StopTo
  <2>3. controlFails' \in 0..MaxControlFails
    BY <1>23 DEF StopClose, StopTo, ControlFail, ControlTypeOK
  <2>4. stop' \in [Stops -> StopRecords]
    BY <1>23, StageShape, ErrorShape DEF StopClose, StopBecomes, StopStages
  <2>5. QED BY <1>23, <2>1, <2>2, <2>3, <2>4 DEF StopClose, StopTo, ControlFail, ControlTypeOK
<1>24. ASSUME NEW k \in Stops, StopKill(k) PROVE ControlTypeOK'
  <2>1. killed' \in BOOLEAN
    BY <1>24 DEF StopKill, StopTo, ControlFail, ControlTypeOK
  <2>2. child' \in [Streams -> {"none", "spawning", "registered"}]
    BY <1>24 DEF StopKill, StopTo, ControlFail, ControlTypeOK
  <2>3. controlFails' \in 0..MaxControlFails
    BY <1>24 DEF StopKill, StopTo, ControlFail, ControlTypeOK
  <2>4. stop' \in [Stops -> StopRecords]
    BY <1>24, StageShape, ErrorShape DEF StopKill, StopBecomes, StopStages
  <2>5. QED BY <1>24, <2>1, <2>2, <2>3, <2>4 DEF StopKill, StopTo, ControlFail, streamVars, registry, ControlTypeOK
<1>25. ASSUME NEW k \in Stops, StopReturn(k) PROVE ControlTypeOK'
  <2>1. lock' \in Stops \cup {None}
    BY <1>25 DEF StopReturn, ControlTypeOK
  <2>2. stop' \in [Stops -> StopRecords]
    BY <1>25 DEF StopReturn, ControlTypeOK, StopRecords, StopStages, NoStop
  <2>3. QED BY <1>25, <2>1, <2>2 DEF StopReturn, streamVars, registry, ControlTypeOK
<1>26. QED BY <1>1, <1>2, <1>3, <1>4, <1>5, <1>6, <1>7, <1>8, <1>9, <1>10, <1>11, <1>12, <1>13, <1>14, <1>15, <1>16, <1>17, <1>18, <1>19, <1>20, <1>21, <1>22, <1>23, <1>24, <1>25 DEF ControlNext, Generator, ToolThread, Cancel

(***************************************************************************)
(* Ownership                                                               *)
(***************************************************************************)

\* A stream that neither begins nor is closed leaves what the Stops have met.
LEMMA MetByNone ==
  ASSUME ControlTypeOK, MetOnce, NEW s \in Streams, NEW p, StreamTo(s, p), stop' = stop,
         p \in {"idle", "asked"} => streamPc[s] \in {"idle", "asked"}, p # "closing"
  PROVE  MetOnce'
<1>1. streamPc'[s] = p /\ \A t \in Streams : t # s => streamPc'[t] = streamPc[t]
  BY DEF StreamTo, ControlTypeOK
<1>2. \A t \in Streams : Met(t)' <=> Met(t)
  BY DEF Met
<1>3. \A k \in Stops : \A t \in stop[k].target : streamPc'[t] \notin {"idle", "asked"}
  BY <1>1, RecordTyped DEF MetOnce, ControlTypeOK
<1>4. QED BY <1>1, <1>2, <1>3 DEF MetOnce

\* A Stop meets streams that are under way and forgets none.
LEMMA MetByStop ==
  ASSUME ControlTypeOK, MetOnce, NEW k \in Stops, NEW p, NEW T \in {stop[k].target, TargetNow(k)}, NEW h, NEW b,
         StopBecomes(k, p, T, h, b), p # "idle", streamPc' = streamPc
  PROVE  MetOnce'
<1>1. \A s \in T : streamPc[s] \notin {"idle", "asked"}
  BY DEF MetOnce, TargetNow, Active, Underway
<1>2. /\ \A j \in Stops : stop'[j].at = "idle" => stop'[j] = NoStop
      /\ \A j \in Stops : \A s \in stop'[j].target : streamPc'[s] \notin {"idle", "asked"}
  BY <1>1 DEF StopBecomes, OnlyStop, MetOnce
<1>3. ASSUME NEW s \in Streams, Met(s) PROVE Met(s)'
  <2>1. PICK j \in Stops : s \in stop[j].target
    BY <1>3 DEF Met
  <2>2. s \in stop'[j].target
    BY <2>1 DEF StopBecomes, OnlyStop, TargetNow
  <2>3. QED BY <2>2 DEF Met
<1>4. QED BY <1>2, <1>3 DEF MetOnce

LEMMA NobodyCleans ==
  ASSUME ControlTypeOK, CleanupLocked, lock = None, lock' = lock, stop' = stop
  PROVE  CleanupLocked'
  BY DEF CleanupLocked, ControlTypeOK

\* Who is released was the only owner of a response.
LEMMA ReleaseOwner ==
  ASSUME ControlTypeOK, Owned, NEW s \in Streams, liveRun = s, Release(s)
  PROVE  /\ \A t \in Streams : resp'[t] => failed' = t
         /\ \A t \in Streams \ {s} : streamPc[t] \notin Working
<1>1. \A t \in Streams \ {s} : ~resp[t] /\ streamPc[t] \notin Working
  BY DEF Owned, OneGeneration, ControlTypeOK
<1>2. QED BY <1>1, ReleaseShape DEF Owned, OneGeneration

LEMMA ControlSafeStep ==
  ASSUME ControlSafe, ControlNext
  PROVE  ControlSafe'
<1>0. ControlTypeOK /\ Owned /\ Prepared /\ CleanupLocked /\ MetOnce /\ ControlTypeOK'
  BY ControlTypeStep DEF ControlSafe
<1>1. CASE Stream
  <2>1. Owned'
    BY <1>0, <1>1 DEF Stream, Prepare, StreamTo, End, registry, Owned, OneGeneration, Working, InSession, ControlTypeOK
  <2>2. Prepared'
    BY <1>0, <1>1 DEF Stream, Prepare, StreamTo, End, registry, Prepared, Owned, OneGeneration, Working, ControlTypeOK
  <2>3. CleanupLocked'
    BY <1>0, <1>1 DEF Stream, Prepare, StreamTo, End, registry, CleanupLocked, CleanupFree, ControlTypeOK
  <2>4. MetOnce'
    BY <1>0, <1>1, MetByNone, First \in Streams DEF Stream, Prepare, End
  <2>5. QED BY <1>0, <2>1, <2>2, <2>3, <2>4 DEF ControlSafe
<1>2. ASSUME NEW s \in Streams, Ask(s) PROVE Owned' /\ Prepared' /\ CleanupLocked' /\ MetOnce'
  <2>1. Owned'
    BY <1>0, <1>2 DEF Ask, StreamTo, registry, Owned, OneGeneration, Working, InSession, ControlTypeOK
  <2>2. Prepared'
    BY <1>0, <1>2 DEF Ask, StreamTo, registry, Prepared, Owned, OneGeneration, Working, ControlTypeOK
  <2>3. CleanupLocked'
    BY <1>0, <1>2 DEF Ask, StreamTo, registry, CleanupLocked, CleanupFree, ControlTypeOK
  <2>4. MetOnce'
    BY <1>0, <1>2 DEF Ask, StreamTo, registry, MetOnce, Met, ControlTypeOK, Active, Underway, InSession
  <2>5. QED BY <2>1, <2>2, <2>3, <2>4
<1>3. ASSUME NEW s \in Streams, Resume(s) PROVE Owned' /\ Prepared' /\ CleanupLocked' /\ MetOnce'
  <2>1. Owned'
    BY <1>0, <1>3 DEF Resume, Prepare, StreamTo, End, registry, Owned, OneGeneration, Working, InSession, ControlTypeOK
  <2>2. Prepared'
    BY <1>0, <1>3 DEF Resume, Prepare, StreamTo, End, registry, Prepared, Owned, OneGeneration, Working, ControlTypeOK
  <2>3. CleanupLocked'
    BY <1>0, <1>3 DEF Resume, Prepare, StreamTo, End, registry, CleanupLocked, CleanupFree, ControlTypeOK
  <2>4. MetOnce'
    BY <1>0, <1>3, MetByNone DEF Resume, Prepare, End
  <2>5. QED BY <2>1, <2>2, <2>3, <2>4
<1>4. ASSUME NEW s \in Streams, Vanish(s) PROVE Owned' /\ Prepared' /\ CleanupLocked' /\ MetOnce'
  <2>1. Owned'
    BY <1>0, <1>4 DEF Vanish, StreamTo, End, registry, Owned, OneGeneration, Working, InSession, ControlTypeOK
  <2>2. Prepared'
    BY <1>0, <1>4 DEF Vanish, StreamTo, End, registry, Prepared, Owned, OneGeneration, Working, ControlTypeOK
  <2>3. CleanupLocked'
    BY <1>0, <1>4 DEF Vanish, StreamTo, End, registry, CleanupLocked, CleanupFree, ControlTypeOK
  <2>4. MetOnce'
    BY <1>0, <1>4 DEF Vanish, StreamTo, End, registry, MetOnce, Met, ControlTypeOK, Active, Underway, InSession
  <2>5. QED BY <2>1, <2>2, <2>3, <2>4
<1>5. ASSUME NEW s \in Streams, OpenSession(s) PROVE Owned' /\ Prepared' /\ CleanupLocked' /\ MetOnce'
  <2>1. Owned'
    BY <1>0, <1>5 DEF OpenSession, StreamTo, End, registry, Owned, OneGeneration, Working, InSession, ControlTypeOK
  <2>2. Prepared'
    BY <1>0, <1>5 DEF OpenSession, StreamTo, End, registry, Prepared, Owned, OneGeneration, Working, ControlTypeOK
  <2>3. CleanupLocked'
    BY <1>0, <1>5 DEF OpenSession, StreamTo, End, registry, CleanupLocked, CleanupFree, ControlTypeOK
  <2>4. MetOnce'
    BY <1>0, <1>5, MetByNone DEF OpenSession, End
  <2>5. QED BY <2>1, <2>2, <2>3, <2>4
<1>6. ASSUME NEW s \in Streams, ClaimRun(s) PROVE Owned' /\ Prepared' /\ CleanupLocked' /\ MetOnce'
  <2>1. Owned'
    BY <1>0, <1>6 DEF ClaimRun, StreamTo, Refuse, registry, Owned, OneGeneration, Working, InSession, ControlTypeOK
  <2>2. Prepared'
    BY <1>0, <1>6 DEF ClaimRun, StreamTo, Refuse, registry, Prepared, Owned, OneGeneration, Working, ControlTypeOK
  <2>3. CleanupLocked'
    BY <1>0, <1>6 DEF ClaimRun, StreamTo, Refuse, registry, CleanupLocked, CleanupFree, ControlTypeOK
  <2>4. MetOnce'
    BY <1>0, <1>6, MetByNone DEF ClaimRun, Refuse
  <2>5. QED BY <2>1, <2>2, <2>3, <2>4
<1>7. ASSUME NEW s \in Streams, Consult(s) PROVE Owned' /\ Prepared' /\ CleanupLocked' /\ MetOnce'
  <2>1. Owned'
    BY <1>0, <1>7 DEF Consult, StreamTo, registry, Owned, OneGeneration, Working, InSession, ControlTypeOK
  <2>2. Prepared'
    BY <1>0, <1>7 DEF Consult, StreamTo, registry, Prepared, Owned, OneGeneration, Working, ControlTypeOK
  <2>3. CleanupLocked'
    BY <1>0, <1>7 DEF Consult, StreamTo, registry, CleanupLocked, CleanupFree, ControlTypeOK
  <2>4. MetOnce'
    BY <1>0, <1>7 DEF Consult, StreamTo, registry, MetOnce, Met, ControlTypeOK, Active, Underway, InSession
  <2>5. QED BY <2>1, <2>2, <2>3, <2>4
<1>8. ASSUME NEW s \in Streams, CallModel(s) PROVE Owned' /\ Prepared' /\ CleanupLocked' /\ MetOnce'
  <2>1. Owned'
    BY <1>0, <1>8 DEF CallModel, StreamTo, registry, Owned, OneGeneration, Working, InSession, ControlTypeOK
  <2>2. Prepared'
    BY <1>0, <1>8 DEF CallModel, StreamTo, registry, Prepared, Owned, OneGeneration, Working, ControlTypeOK
  <2>3. CleanupLocked'
    BY <1>0, <1>8 DEF CallModel, StreamTo, registry, CleanupLocked, CleanupFree, ControlTypeOK
  <2>4. MetOnce'
    BY <1>0, <1>8 DEF CallModel, StreamTo, registry, MetOnce, Met, ControlTypeOK, Active, Underway, InSession
  <2>5. QED BY <2>1, <2>2, <2>3, <2>4
<1>9. ASSUME NEW s \in Streams, Bind(s) PROVE Owned' /\ Prepared' /\ CleanupLocked' /\ MetOnce'
  <2>1. Owned'
    BY <1>0, <1>9 DEF Bind, StreamTo, registry, Owned, OneGeneration, Working, InSession, ControlTypeOK
  <2>2. Prepared'
    BY <1>0, <1>9 DEF Bind, StreamTo, registry, Prepared, Owned, OneGeneration, Working, ControlTypeOK
  <2>3. CleanupLocked'
    BY <1>0, <1>9 DEF Bind, StreamTo, registry, CleanupLocked, CleanupFree, ControlTypeOK
  <2>4. MetOnce'
    BY <1>0, <1>9, MetByNone DEF Bind
  <2>5. QED BY <2>1, <2>2, <2>3, <2>4
<1>10. ASSUME NEW s \in Streams, Answer(s) PROVE Owned' /\ Prepared' /\ CleanupLocked' /\ MetOnce'
  <2>1. Owned'
    BY <1>0, <1>10 DEF Answer, StreamTo, registry, Owned, OneGeneration, Working, InSession, ControlTypeOK
  <2>2. Prepared'
    BY <1>0, <1>10 DEF Answer, StreamTo, registry, Prepared, Owned, OneGeneration, Working, ControlTypeOK
  <2>3. CleanupLocked'
    BY <1>0, <1>10 DEF Answer, StreamTo, registry, CleanupLocked, CleanupFree, ControlTypeOK
  <2>4. MetOnce'
    BY <1>0, <1>10 DEF Answer, StreamTo, registry, MetOnce, Met, ControlTypeOK, Active, Underway, InSession
  <2>5. QED BY <2>1, <2>2, <2>3, <2>4
<1>11. ASSUME NEW s \in Streams, UseTool(s) PROVE Owned' /\ Prepared' /\ CleanupLocked' /\ MetOnce'
  <2>1. Owned'
    BY <1>0, <1>11 DEF UseTool, StreamTo, registry, Owned, OneGeneration, Working, InSession, ControlTypeOK
  <2>2. Prepared'
    BY <1>0, <1>11 DEF UseTool, StreamTo, registry, Prepared, Owned, OneGeneration, Working, ControlTypeOK
  <2>3. CleanupLocked'
    BY <1>0, <1>11 DEF UseTool, StreamTo, registry, CleanupLocked, CleanupFree, ControlTypeOK
  <2>4. MetOnce'
    BY <1>0, <1>11 DEF UseTool, StreamTo, registry, MetOnce, Met, ControlTypeOK, Active, Underway, InSession
  <2>5. QED BY <2>1, <2>2, <2>3, <2>4
<1>12. ASSUME NEW s \in Streams, ToolDone(s) PROVE Owned' /\ Prepared' /\ CleanupLocked' /\ MetOnce'
  <2>1. Owned'
    BY <1>0, <1>12 DEF ToolDone, StreamTo, registry, Owned, OneGeneration, Working, InSession, ControlTypeOK
  <2>2. Prepared'
    BY <1>0, <1>12 DEF ToolDone, StreamTo, registry, Prepared, Owned, OneGeneration, Working, ControlTypeOK
  <2>3. CleanupLocked'
    BY <1>0, <1>12 DEF ToolDone, StreamTo, registry, CleanupLocked, CleanupFree, ControlTypeOK
  <2>4. MetOnce'
    BY <1>0, <1>12 DEF ToolDone, StreamTo, registry, MetOnce, Met, ControlTypeOK, Active, Underway, InSession
  <2>5. QED BY <2>1, <2>2, <2>3, <2>4
<1>13. ASSUME NEW s \in Streams, EndSlice(s) PROVE Owned' /\ Prepared' /\ CleanupLocked' /\ MetOnce'
  <2>1. Owned'
    <3>1. /\ streamPc[s] = "running" /\ streamPc'[s] = "ended" /\ liveRun = s /\ liveRun' = None /\ sessionOf' = sessionOf
          /\ \A t \in Streams : t # s => streamPc'[t] = streamPc[t]
      BY <1>0, <1>13, ReleaseShape DEF EndSlice, StreamTo, ControlTypeOK
    <3>2. OneGeneration'
      BY <1>0, <1>13, <3>1, ReleaseOwner DEF EndSlice, OneGeneration, Working
    <3>3. QED BY <1>0, <3>1, <3>2 DEF Owned, InSession
  <2>2. Prepared'
    <3>1. ~prepared /\ prepared' = prepared
      BY <1>0, <1>13, ReleaseShape DEF EndSlice, Prepared
    <3>2. /\ streamPc'[s] = "ended" /\ slice' = slice /\ (out'[s] = "limit" => slice[s] < MaxSlices)
          /\ \A t \in Streams : t # s => streamPc'[t] = streamPc[t] /\ out'[t] = out[t]
      BY <1>0, <1>13 DEF EndSlice, StreamTo, ControlTypeOK
    <3>3. QED BY <1>0, <3>1, <3>2 DEF Prepared
  <2>3. CleanupLocked'
    BY <1>0, <1>13, NobodyCleans, ReleaseShape DEF EndSlice
  <2>4. MetOnce'
    BY <1>0, <1>13, MetByNone DEF EndSlice
  <2>5. QED BY <2>1, <2>2, <2>3, <2>4
<1>14. ASSUME NEW s \in Streams, AfterSlice(s) PROVE Owned' /\ Prepared' /\ CleanupLocked' /\ MetOnce'
  <2>1. Owned'
    BY <1>0, <1>14 DEF AfterSlice, StreamTo, Unregister, registry, Owned, OneGeneration, Working, InSession, ControlTypeOK
  <2>2. Prepared'
    BY <1>0, <1>14 DEF AfterSlice, StreamTo, Unregister, registry, Prepared, Owned, OneGeneration, Working, ControlTypeOK
  <2>3. CleanupLocked'
    BY <1>0, <1>14 DEF AfterSlice, StreamTo, Unregister, registry, CleanupLocked, CleanupFree, ControlTypeOK
  <2>4. MetOnce'
    BY <1>0, <1>14, MetByNone DEF AfterSlice
  <2>5. QED BY <2>1, <2>2, <2>3, <2>4
<1>15. ASSUME NEW s \in Streams, NextSlice(s) PROVE Owned' /\ Prepared' /\ CleanupLocked' /\ MetOnce'
  <2>1. Owned'
    <3>1. /\ streamPc[s] = "gap" /\ sessionOf = s /\ resp' = resp /\ liveRun' = liveRun /\ failed' = failed
          /\ \A t \in Streams : t # s => streamPc'[t] = streamPc[t]
          /\ \/ streamPc'[s] = "done" /\ sessionOf' = None
             \/ streamPc'[s] = "session" /\ sessionOf' = sessionOf
      BY <1>0, <1>15 DEF NextSlice, StreamTo, End, Unregister, registry, ControlTypeOK, Owned, InSession
    <3>2. OneGeneration'
      BY <1>0, <3>1 DEF Owned, OneGeneration, Working
    <3>3. QED BY <1>0, <3>1, <3>2 DEF Owned, InSession
  <2>2. Prepared'
    <3>1. /\ streamPc[s] = "gap" /\ slice[s] < MaxSlices /\ prepared' = prepared /\ liveRun' = liveRun /\ finished' = finished
          /\ out' = out /\ streamPc'[s] \in {"done", "session"}
          /\ \A t \in Streams : t # s => streamPc'[t] = streamPc[t] /\ slice'[t] = slice[t]
      BY <1>0, <1>15 DEF NextSlice, StreamTo, End, registry, ControlTypeOK, Prepared
    <3>2. out[s] # "limit"
      BY <1>0, <3>1 DEF Prepared
    <3>3. QED BY <1>0, <3>1, <3>2 DEF Prepared
  <2>3. CleanupLocked'
    BY <1>0, <1>15 DEF NextSlice, StreamTo, Unregister, End, registry, CleanupLocked, CleanupFree, ControlTypeOK
  <2>4. MetOnce'
    BY <1>0, <1>15, MetByNone DEF NextSlice, End
  <2>5. QED BY <2>1, <2>2, <2>3, <2>4
<1>16. ASSUME NEW s \in Streams, Closed(s) PROVE Owned' /\ Prepared' /\ CleanupLocked' /\ MetOnce'
  <2>1. Owned'
    <3>1. /\ streamPc[s] = "closing" /\ streamPc'[s] = "done" /\ sessionOf = s /\ sessionOf' = None
          /\ \A t \in Streams : t # s => streamPc'[t] = streamPc[t]
      BY <1>0, <1>16 DEF Closed, StreamTo, End, Unregister, ControlTypeOK, Owned, InSession
    <3>2. CASE liveRun = s
      <4>1. liveRun' = None /\ OneGeneration'
        <5>1. liveRun' = None /\ Release(s)
          BY <1>0, <1>16, <3>2, ReleaseShape DEF Closed
        <5>2. \A t \in Streams : streamPc'[t] \notin Working /\ (resp'[t] => failed' = t)
          BY <1>0, <3>1, <3>2, <5>1, ReleaseOwner DEF Working
        <5>3. QED BY <5>1, <5>2 DEF OneGeneration
      <4>2. QED BY <1>0, <3>1, <4>1 DEF Owned, InSession
    <3>3. CASE liveRun # s
      <4>1. liveRun' = liveRun /\ failed' = failed /\ resp' = resp
        BY <1>16, <3>3 DEF Closed, registry
      <4>2. OneGeneration'
        BY <1>0, <3>1, <3>3, <4>1 DEF Owned, OneGeneration, Working, InSession
      <4>3. QED BY <1>0, <3>1, <4>1, <4>2 DEF Owned, InSession
    <3>4. QED BY <3>2, <3>3
  <2>2. Prepared'
    <3>1. prepared' => prepared /\ liveRun' = None /\ ~finished'
      <4>1. CASE liveRun = s
        BY <1>0, <1>16, <4>1, ReleaseShape DEF Closed, Prepared
      <4>2. CASE liveRun # s
        BY <1>0, <1>16, <4>2 DEF Closed, registry, Prepared
      <4>3. QED BY <4>1, <4>2
    <3>2. /\ streamPc[s] = "closing" /\ streamPc'[s] = "done" /\ slice' = slice /\ out' = out
          /\ \A t \in Streams : t # s => streamPc'[t] = streamPc[t]
      BY <1>0, <1>16 DEF Closed, StreamTo, End, ControlTypeOK
    <3>3. QED BY <1>0, <3>1, <3>2 DEF Prepared
  <2>3. CleanupLocked'
    <3>1. CASE liveRun = s
      BY <1>0, <1>16, <3>1, NobodyCleans, ReleaseShape DEF Closed
    <3>2. CASE liveRun # s
      BY <1>0, <1>16, <3>2 DEF Closed, CleanupLocked, registry
    <3>3. QED BY <3>1, <3>2
  <2>4. MetOnce'
    BY <1>0, <1>16, MetByNone DEF Closed, End
  <2>5. QED BY <2>1, <2>2, <2>3, <2>4
<1>17. ASSUME NEW s \in Streams, Spawn(s) PROVE Owned' /\ Prepared' /\ CleanupLocked' /\ MetOnce'
  <2>1. Owned'
    BY <1>0, <1>17 DEF Spawn, streamVars, registry, Owned, OneGeneration, Working, InSession, ControlTypeOK
  <2>2. Prepared'
    BY <1>0, <1>17 DEF Spawn, streamVars, registry, Prepared, Owned, OneGeneration, Working, ControlTypeOK
  <2>3. CleanupLocked'
    BY <1>0, <1>17 DEF Spawn, streamVars, registry, CleanupLocked, CleanupFree, ControlTypeOK
  <2>4. MetOnce'
    BY <1>0, <1>17 DEF Spawn, streamVars, registry, MetOnce, Met, ControlTypeOK, Active, Underway, InSession
  <2>5. QED BY <2>1, <2>2, <2>3, <2>4
<1>18. ASSUME NEW s \in Streams, Exit(s) PROVE Owned' /\ Prepared' /\ CleanupLocked' /\ MetOnce'
  <2>1. Owned'
    BY <1>0, <1>18 DEF Exit, streamVars, registry, Owned, OneGeneration, Working, InSession, ControlTypeOK
  <2>2. Prepared'
    BY <1>0, <1>18 DEF Exit, streamVars, registry, Prepared, Owned, OneGeneration, Working, ControlTypeOK
  <2>3. CleanupLocked'
    BY <1>0, <1>18 DEF Exit, streamVars, registry, CleanupLocked, CleanupFree, ControlTypeOK
  <2>4. MetOnce'
    BY <1>0, <1>18 DEF Exit, streamVars, registry, MetOnce, Met, ControlTypeOK, Active, Underway, InSession
  <2>5. QED BY <2>1, <2>2, <2>3, <2>4
<1>19. ASSUME NEW s \in Streams, Gone(s) PROVE Owned' /\ Prepared' /\ CleanupLocked' /\ MetOnce'
  <2>1. Owned'
    BY <1>0, <1>19 DEF Gone, StreamTo, registry, Owned, OneGeneration, Working, InSession, ControlTypeOK
  <2>2. Prepared'
    BY <1>0, <1>19 DEF Gone, StreamTo, registry, Prepared, Owned, OneGeneration, Working, ControlTypeOK
  <2>3. CleanupLocked'
    BY <1>0, <1>19, GoneShape DEF Gone, StreamTo, registry, CleanupLocked, CleanupFree, ControlTypeOK, StopBecomes, OnlyStop, TargetNow, StopStages, NoStop
  <2>4. MetOnce'
    <3>1. PICK k \in Stops : /\ stop[k] = NoStop /\ StopBecomes(k, "session", Active, None, FALSE)
      BY <1>0, <1>19, GoneShape DEF Gone
    <3>2. streamPc'[s] = "closing" /\ s \in Active /\ \A t \in Streams : t # s => streamPc'[t] = streamPc[t]
      BY <1>0, <1>19 DEF Gone, StreamTo, ControlTypeOK, Active, Underway
    <3>3. \A t \in Streams : Met(t) \/ t = s => Met(t)'
      BY <1>0, <3>1, <3>2 DEF Met, StopBecomes, OnlyStop, NoStop
    <3>4. \A j \in Stops : \A t \in stop'[j].target : streamPc'[t] \notin {"idle", "asked"}
      BY <1>0, <3>1, <3>2, RecordTyped DEF MetOnce, StopBecomes, OnlyStop, Active, Underway, ControlTypeOK
    <3>5. QED BY <1>0, <3>1, <3>2, <3>3, <3>4 DEF MetOnce, StopBecomes, OnlyStop
  <2>5. QED BY <2>1, <2>2, <2>3, <2>4
<1>20. ASSUME NEW k \in Stops, StopToken(k) PROVE Owned' /\ Prepared' /\ CleanupLocked' /\ MetOnce'
  <2>1. Owned'
    BY <1>0, <1>20 DEF StopToken, Meet, registry, Owned, OneGeneration, Working, InSession, ControlTypeOK
  <2>2. Prepared'
    BY <1>0, <1>20 DEF StopToken, Meet, registry, Prepared, Owned, OneGeneration, Working, ControlTypeOK
  <2>3. CleanupLocked'
    BY <1>0, <1>20, MeetShape DEF StopToken, StopBecomes, OnlyStop, StopStages, CleanupLocked, registry
  <2>4. MetOnce'
    BY <1>0, <1>20, MetByStop, MeetShape DEF StopToken, StopStages
  <2>5. QED BY <2>1, <2>2, <2>3, <2>4
<1>21. ASSUME NEW k \in Stops, StopFlag(k) PROVE Owned' /\ Prepared' /\ CleanupLocked' /\ MetOnce'
  <2>1. Owned'
    BY <1>0, <1>21 DEF StopFlag, registry, Owned, OneGeneration, Working, InSession, ControlTypeOK
  <2>2. Prepared'
    BY <1>0, <1>21 DEF StopFlag, registry, Prepared, Owned, OneGeneration, Working, ControlTypeOK
  <2>3. CleanupLocked'
    BY <1>0, <1>21, MeetShape DEF StopFlag, registry, CleanupLocked, CleanupFree, ControlTypeOK, StopBecomes, OnlyStop, TargetNow, StopStages, NoStop
  <2>4. MetOnce'
    BY <1>0, <1>21, MetByStop, MeetShape DEF StopFlag, StopStages
  <2>5. QED BY <2>1, <2>2, <2>3, <2>4
<1>22. ASSUME NEW k \in Stops, StopEnter(k) PROVE Owned' /\ Prepared' /\ CleanupLocked' /\ MetOnce'
  <2>1. Owned'
    BY <1>0, <1>22 DEF StopEnter, registry, Owned, OneGeneration, Working, InSession, ControlTypeOK
  <2>2. Prepared'
    BY <1>0, <1>22 DEF StopEnter, registry, Prepared, Owned, OneGeneration, Working, ControlTypeOK
  <2>3. CleanupLocked'
    <3>1. StopBecomes(k, "close", TargetNow(k), IF liveRun # None THEN liveRun ELSE failed, stop[k].err)
      BY <1>0, <1>22, EnterShape
    <3>2. lock = None /\ lock' = k /\ liveRun' = liveRun /\ failed' = failed /\ k # None
      BY <1>22 DEF StopEnter, CleanupFree, registry
    <3>3. QED BY <1>0, <3>1, <3>2 DEF CleanupLocked, StopBecomes, OnlyStop
  <2>4. MetOnce'
    BY <1>0, <1>22, MetByStop, EnterShape DEF StopEnter, StopStages
  <2>5. QED BY <2>1, <2>2, <2>3, <2>4
<1>23. ASSUME NEW k \in Stops, StopClose(k) PROVE Owned' /\ Prepared' /\ CleanupLocked' /\ MetOnce'
  <2>1. Owned'
    BY <1>0, <1>23 DEF StopClose, registry, Owned, OneGeneration, Working, InSession, ControlTypeOK
  <2>2. Prepared'
    BY <1>0, <1>23 DEF StopClose, registry, Prepared, Owned, OneGeneration, Working, ControlTypeOK
  <2>3. CleanupLocked'
    <3>1. stop[k].at = "close" /\ lock' = lock
      BY <1>23 DEF StopClose
    <3>2. PICK b : StopBecomes(k, "kill", stop[k].target, stop[k].handle, b)
      BY <1>0, <1>23, StageShape, ErrorShape DEF StopClose, StopStages
    <3>3. \A j \in Stops : stop'[j].at = "close" => lock = j /\ j # k
      BY <1>0, <3>1, <3>2 DEF CleanupLocked, StopBecomes, OnlyStop
    <3>4. lock = k
      BY <1>0, <3>1 DEF CleanupLocked
    <3>5. QED BY <1>0, <3>1, <3>2, <3>3, <3>4 DEF CleanupLocked, StopBecomes, OnlyStop
  <2>4. MetOnce'
    BY ZenonT(60), <1>0, <1>23, MetByStop, StageShape, ErrorShape DEF StopClose, StopStages
  <2>5. QED BY <2>1, <2>2, <2>3, <2>4
<1>24. ASSUME NEW k \in Stops, StopKill(k) PROVE Owned' /\ Prepared' /\ CleanupLocked' /\ MetOnce'
  <2>1. Owned'
    BY <1>0, <1>24 DEF StopKill, streamVars, registry, Owned, OneGeneration, Working, InSession, ControlTypeOK
  <2>2. Prepared'
    BY <1>0, <1>24 DEF StopKill, streamVars, registry, Prepared, Owned, OneGeneration, Working, ControlTypeOK
  <2>3. CleanupLocked'
    <3>1. stop[k].at = "kill" /\ lock' = lock /\ liveRun' = liveRun /\ failed' = failed
      BY <1>24 DEF StopKill, registry
    <3>2. PICK b : StopBecomes(k, "return", stop[k].target, stop[k].handle, b)
      BY <1>0, <1>24, StageShape, ErrorShape DEF StopKill, StopStages
    <3>3. QED BY <1>0, <3>1, <3>2 DEF CleanupLocked, StopBecomes, OnlyStop
  <2>4. MetOnce'
    BY ZenonT(60), <1>0, <1>24, MetByStop, StageShape, ErrorShape DEF StopKill, streamVars, StopStages
  <2>5. QED BY <2>1, <2>2, <2>3, <2>4
<1>25. ASSUME NEW k \in Stops, StopReturn(k) PROVE Owned' /\ Prepared' /\ CleanupLocked' /\ MetOnce'
  <2>1. Owned'
    BY <1>0, <1>25 DEF StopReturn, streamVars, registry, Owned, OneGeneration, Working, InSession, ControlTypeOK
  <2>2. Prepared'
    BY <1>0, <1>25 DEF StopReturn, streamVars, registry, Prepared, Owned, OneGeneration, Working, ControlTypeOK
  <2>3. CleanupLocked'
    <3>1. stop[k].at = "return" /\ lock' = None
      BY <1>25 DEF StopReturn
    <3>2. PICK q \in {"failed", "ok"} : StopBecomes(k, q, stop[k].target, None, FALSE)
      BY <1>0, <1>25, ReturnShape
    <3>3. lock = k
      BY <1>0, <3>1 DEF CleanupLocked
    <3>4. QED BY <1>0, <3>1, <3>2, <3>3 DEF CleanupLocked, StopBecomes, OnlyStop
  <2>4. MetOnce'
    BY <1>0, <1>25, MetByStop, ReturnShape DEF StopReturn, streamVars, StopStages
  <2>5. QED BY <2>1, <2>2, <2>3, <2>4
<1>26. QED BY <1>0, <1>1, <1>2, <1>3, <1>4, <1>5, <1>6, <1>7, <1>8, <1>9, <1>10, <1>11, <1>12, <1>13, <1>14, <1>15, <1>16, <1>17, <1>18, <1>19, <1>20, <1>21, <1>22, <1>23, <1>24, <1>25 DEF ControlSafe, ControlNext, Generator, ToolThread, Cancel

(***************************************************************************)
(* What a Stop has met                                                     *)
(***************************************************************************)

OthersStay(s) ==
    \A t \in Streams \ {s} :
        /\ streamPc'[t] = streamPc[t] /\ slice'[t] = slice[t] /\ out'[t] = out[t]
        /\ ev'[t] = ev[t] /\ token'[t] = token[t]
        /\ resp'[t] = resp[t] /\ closed'[t] = closed[t] /\ child'[t] = child[t]

\* A step of one stream takes no flag away that another one needs ...
StreamStep(s) ==
    /\ stop' = stop /\ OthersStay(s)
    /\ liveRun' \in {liveRun, s, None} /\ sessionOf' \in {sessionOf, s, None}
    /\ \A t \in Streams \ {s} : Starting(t) => (prepared => prepared') /\ (requested <=> requested')
    /\ \A t \in Streams \ {s} : Between(t) => (finished => finished')
    /\ killed /\ ~killed' => \A t \in Streams : child[t] # "spawning"

\* ... nor one that keeps the stream itself from work.
OwnStep(s) ==
    /\ streamPc'[s] \in Underway => streamPc[s] \in Underway
    /\ Starting(s)' => Starting(s) /\ prepared' /\ (requested' => requested)
    /\ s # First /\ liveRun' = s /\ ev'[s] => Met(s)
    /\ sessionOf' = s /\ token'[s] => Met(s)
    /\ Between(s)' /\ ~token'[s] => finished' \/ (Between(s) /\ ~token[s] /\ (finished => finished'))
    /\ Doomed(s) =>
          /\ Doomed(s)'
          /\ streamPc'[s] = "calling" => streamPc[s] = "calling" /\ (closed[s] => closed'[s])
          /\ resp'[s] /\ ~closed'[s] => ~closed[s] /\ (resp[s] \/ streamPc[s] = "calling")
          /\ child'[s] = "registered" => child[s] = "registered" \/ (child[s] = "spawning" /\ ~killed)
          /\ child'[s] = "spawning" => child[s] = "spawning"

LEMMA StreamKeeps ==
  ASSUME ControlSafe, Uncrossed, Stopped, NEW s \in Streams, StreamStep(s), OwnStep(s)
  PROVE  Uncrossed' /\ Stopped'
<1>1. \A t \in Streams : Met(t)' <=> Met(t)
  BY DEF Met, StreamStep
<1>2. \A t \in Streams \ {s} : (Starting(t)' <=> Starting(t)) /\ (Between(t)' <=> Between(t))
  BY DEF StreamStep, OthersStay, Starting, Between
<1>3. \A t \in Streams \ {s} : Doomed(t) => Doomed(t)'
  BY <1>2 DEF StreamStep, OthersStay, Doomed
<1>4. Uncrossed'
  <2>1. \A t \in Streams : Starting(t)' => Starting(t) /\ prepared'
    BY <1>2 DEF StreamStep, OwnStep, Uncrossed
  <2>2. \A k \in Stops : IsUnderway(k)' => Active' \subseteq stop'[k].target
    BY DEF Uncrossed, Active, StreamStep, OwnStep, OthersStay, IsUnderway
  <2>3. \A t \in Streams \ {First} : requested' /\ Starting(t)' => Met(t)'
    BY <1>1, <1>2 DEF Uncrossed, StreamStep, OwnStep
  <2>4. \A t \in Streams \ {First} : liveRun' = t /\ ev'[t] => Met(t)'
    BY <1>1, None \notin Streams DEF Uncrossed, StreamStep, OwnStep, OthersStay
  <2>5. \A t \in Streams : sessionOf' = t /\ token'[t] => Met(t)'
    BY <1>1, None \notin Streams DEF Uncrossed, StreamStep, OwnStep, OthersStay
  <2>6. \A k \in Stops, t \in Streams : stop'[k].at = "flag" /\ Between(t)' /\ ~token'[t] => finished'
    BY <1>2 DEF Uncrossed, StreamStep, OwnStep, OthersStay
  <2>7. QED BY <2>1, <2>2, <2>3, <2>4, <2>5, <2>6 DEF Uncrossed
<1>5. ASSUME NEW k \in Stops, NEW t \in stop'[k].target
      PROVE  Reached(k, t)'
  <2>1. t \in Streams /\ t \in stop[k].target /\ stop'[k] = stop[k]
    BY <1>5, RecordTyped DEF StreamStep, ControlSafe, ControlTypeOK
  <2>2. CASE t # s
    BY <2>1, <2>2, <1>3 DEF Stopped, StreamStep, OthersStay, StoppedBy, Reached
  <2>3. CASE t = s
    BY <2>1, <2>3 DEF Stopped, StreamStep, OwnStep, StoppedBy, Reached
  <2>4. QED BY <2>2, <2>3
<1>6. QED BY <1>4, <1>5 DEF Stopped, StoppedBy

\* A step of a Stop only adds flags, for streams that it has met.
StopStep(k) ==
    /\ OnlyStop(k)
    /\ UNCHANGED <<streamPc, slice, out, liveRun, sessionOf, finished, prepared>>
    /\ stop[k].target \subseteq stop'[k].target
    /\ IsUnderway(k)' => Active \subseteq stop'[k].target
    /\ requested => requested'
    /\ killed => killed'
    /\ \A t \in Streams :
          /\ (ev[t] => ev'[t]) /\ (token[t] => token'[t]) /\ (closed[t] => closed'[t])
          /\ resp'[t] => resp[t]
          /\ child'[t] \in {child[t], "none"}
          /\ requested' /\ ~requested /\ Starting(t) => Met(t)'
          /\ liveRun = t /\ ev'[t] /\ ~ev[t] => Met(t)'
          /\ sessionOf = t /\ token'[t] /\ ~token[t] => Met(t)'

LEMMA StopKeeps ==
  ASSUME ControlSafe, Uncrossed, Stopped, NEW k \in Stops, StopStep(k), StoppedBy(k)',
         \A t \in Streams : stop'[k].at = "flag" /\ Between(t) /\ ~token'[t] => finished
  PROVE  Uncrossed' /\ Stopped'
<1>1. \A t \in Streams : Met(t) => Met(t)'
  BY DEF Met, StopStep, OnlyStop
<1>2. \A t \in Streams : (Starting(t)' <=> Starting(t)) /\ (Between(t)' <=> Between(t))
  BY DEF StopStep, Starting, Between
<1>3. \A t \in Streams : Doomed(t) => Doomed(t)'
  BY <1>2 DEF StopStep, Doomed
<1>4. Uncrossed'
  <2>1. /\ \A t \in Streams : Starting(t)' => prepared'
        /\ \A s, t \in Streams : Starting(s)' /\ Starting(t)' => s = t
    BY <1>2 DEF Uncrossed, StopStep
  <2>2. \A j \in Stops : IsUnderway(j)' => Active' \subseteq stop'[j].target
    BY DEF Uncrossed, Active, StopStep, OnlyStop, IsUnderway
  <2>3. \A t \in Streams \ {First} : requested' /\ Starting(t)' => Met(t)'
    BY <1>1, <1>2 DEF Uncrossed, StopStep
  <2>4. \A t \in Streams \ {First} : liveRun' = t /\ ev'[t] => Met(t)'
    BY <1>1 DEF Uncrossed, StopStep
  <2>5. \A t \in Streams : sessionOf' = t /\ token'[t] => Met(t)'
    BY <1>1 DEF Uncrossed, StopStep
  <2>6. \A j \in Stops, t \in Streams : stop'[j].at = "flag" /\ Between(t)' /\ ~token'[t] => finished'
    BY <1>2 DEF Uncrossed, StopStep, OnlyStop
  <2>7. QED BY <2>1, <2>2, <2>3, <2>4, <2>5, <2>6 DEF Uncrossed
<1>5. ASSUME NEW j \in Stops, j # k PROVE StoppedBy(j)'
  <2>1. stop'[j] = stop[j] /\ stop[j].target \subseteq Streams
    BY <1>5, RecordTyped DEF StopStep, OnlyStop, ControlSafe, ControlTypeOK
  <2>2. QED BY <1>3, <2>1 DEF Stopped, StoppedBy, StopStep, Reached
<1>6. QED BY <1>4, <1>5 DEF Stopped, StoppedBy

LEMMA StepOfStream ==
  ASSUME ControlSafe, Uncrossed, Stopped, ~stale', NEW s \in Streams,
         Ask(s) \/ Vanish(s) \/ OpenSession(s) \/ ClaimRun(s) \/ Consult(s) \/ CallModel(s) \/ Bind(s)
         \/ Answer(s) \/ UseTool(s) \/ ToolDone(s) \/ EndSlice(s) \/ AfterSlice(s) \/ NextSlice(s) \/ Closed(s) \/ Spawn(s) \/ Exit(s)
  PROVE  StreamStep(s) /\ OwnStep(s)
<1>0. ControlTypeOK /\ Owned /\ Prepared /\ CleanupLocked /\ MetOnce
  BY DEF ControlSafe
<1>1. CASE Ask(s)
  <2>1. StreamStep(s)
    BY <1>0, <1>1 DEF Ask, StreamTo, End, registry, StreamStep, OthersStay, ControlTypeOK, Starting, Between, Owned, OneGeneration, Working, InSession, Prepared, Uncrossed
  <2>2. OwnStep(s)
    BY <1>0, <1>1 DEF Ask, StreamTo, End, registry, OwnStep, ControlTypeOK, Starting, Between, Doomed, Underway, Owned, OneGeneration, Working, InSession, Prepared, Uncrossed
  <2>3. QED BY <2>1, <2>2
<1>2. CASE Vanish(s)
  <2>1. StreamStep(s)
    BY <1>0, <1>2 DEF Vanish, StreamTo, End, registry, StreamStep, OthersStay, ControlTypeOK, Starting, Between, Owned, OneGeneration, Working, InSession, Prepared, Uncrossed
  <2>2. OwnStep(s)
    BY <1>0, <1>2 DEF Vanish, StreamTo, End, registry, OwnStep, ControlTypeOK, Starting, Between, Doomed, Underway, Owned, OneGeneration, Working, InSession, Prepared, Uncrossed
  <2>3. QED BY <2>1, <2>2
<1>3. CASE OpenSession(s)
  <2>1. StreamStep(s)
    BY <1>0, <1>3 DEF OpenSession, StreamTo, End, registry, StreamStep, OthersStay, ControlTypeOK, Starting, Between, Owned, OneGeneration, Working, InSession, Prepared, Uncrossed
  <2>2. OwnStep(s)
    BY <1>0, <1>3 DEF OpenSession, StreamTo, End, registry, OwnStep, ControlTypeOK, Starting, Between, Doomed, Underway, Owned, OneGeneration, Working, InSession, Prepared, Uncrossed
  <2>3. QED BY <2>1, <2>2
<1>4. CASE ClaimRun(s)
  <2>1. StreamStep(s)
    BY <1>0, <1>4 DEF ClaimRun, StreamTo, End, registry, Refuse, ControlFail, CleanupFree, Orphans, StreamStep, OthersStay, ControlTypeOK, Starting, Between, Owned, OneGeneration, Working, InSession, Prepared, Uncrossed
  <2>2. OwnStep(s)
    BY <1>0, <1>4 DEF ClaimRun, StreamTo, End, registry, Refuse, ControlFail, CleanupFree, Orphans, OwnStep, ControlTypeOK, Starting, Between, Doomed, Underway, Owned, OneGeneration, Working, InSession, Prepared, Uncrossed
  <2>3. QED BY <2>1, <2>2
<1>5. CASE Consult(s)
  <2>1. StreamStep(s)
    BY <1>0, <1>5 DEF Consult, StreamTo, End, registry, StreamStep, OthersStay, ControlTypeOK, Starting, Between, Owned, OneGeneration, Working, InSession, Prepared, Uncrossed
  <2>2. OwnStep(s)
    BY <1>0, <1>5 DEF Consult, StreamTo, End, registry, OwnStep, ControlTypeOK, Starting, Between, Doomed, Underway, Owned, OneGeneration, Working, InSession, Prepared, Uncrossed
  <2>3. QED BY <2>1, <2>2
<1>6. CASE CallModel(s)
  <2>1. StreamStep(s)
    BY <1>0, <1>6 DEF CallModel, StreamTo, End, registry, StreamStep, OthersStay, ControlTypeOK, Starting, Between, Owned, OneGeneration, Working, InSession, Prepared, Uncrossed
  <2>2. OwnStep(s)
    BY <1>0, <1>6 DEF CallModel, StreamTo, End, registry, OwnStep, ControlTypeOK, Starting, Between, Doomed, Underway, Owned, OneGeneration, Working, InSession, Prepared, Uncrossed
  <2>3. QED BY <2>1, <2>2
<1>7. CASE Bind(s)
  <2>1. StreamStep(s)
    BY <1>0, <1>7 DEF Bind, StreamTo, End, registry, ControlFail, StreamStep, OthersStay, ControlTypeOK, Starting, Between, Owned, OneGeneration, Working, InSession, Prepared, Uncrossed
  <2>2. OwnStep(s)
    BY <1>0, <1>7 DEF Bind, StreamTo, End, registry, ControlFail, OwnStep, ControlTypeOK, Starting, Between, Doomed, Underway, Owned, OneGeneration, Working, InSession, Prepared, Uncrossed
  <2>3. QED BY <2>1, <2>2
<1>8. CASE Answer(s)
  <2>1. StreamStep(s)
    BY <1>0, <1>8 DEF Answer, StreamTo, End, registry, StreamStep, OthersStay, ControlTypeOK, Starting, Between, Owned, OneGeneration, Working, InSession, Prepared, Uncrossed
  <2>2. OwnStep(s)
    BY <1>0, <1>8 DEF Answer, StreamTo, End, registry, OwnStep, ControlTypeOK, Starting, Between, Doomed, Underway, Owned, OneGeneration, Working, InSession, Prepared, Uncrossed
  <2>3. QED BY <2>1, <2>2
<1>9. CASE UseTool(s)
  <2>1. StreamStep(s)
    BY <1>0, <1>9 DEF UseTool, StreamTo, End, registry, StreamStep, OthersStay, ControlTypeOK, Starting, Between, Owned, OneGeneration, Working, InSession, Prepared, Uncrossed
  <2>2. OwnStep(s)
    BY <1>0, <1>9 DEF UseTool, StreamTo, End, registry, OwnStep, ControlTypeOK, Starting, Between, Doomed, Underway, Owned, OneGeneration, Working, InSession, Prepared, Uncrossed
  <2>3. QED BY <2>1, <2>2
<1>10. CASE ToolDone(s)
  <2>1. StreamStep(s)
    BY <1>0, <1>10 DEF ToolDone, StreamTo, End, registry, StreamStep, OthersStay, ControlTypeOK, Starting, Between, Owned, OneGeneration, Working, InSession, Prepared, Uncrossed
  <2>2. OwnStep(s)
    BY <1>0, <1>10 DEF ToolDone, StreamTo, End, registry, OwnStep, ControlTypeOK, Starting, Between, Doomed, Underway, Owned, OneGeneration, Working, InSession, Prepared, Uncrossed
  <2>3. QED BY <2>1, <2>2
<1>11. CASE EndSlice(s)
  <2>1. StreamStep(s)
    <3>1. Release(s) /\ liveRun = s /\ streamPc[s] = "running" /\ \A t \in Streams : ~Starting(t)
      BY <1>0, <1>11 DEF EndSlice, Prepared, Uncrossed
    <3>2. /\ stop' = stop /\ sessionOf' = sessionOf /\ killed' = killed /\ slice' = slice
          /\ ev' = ev /\ token' = token /\ child' = child
          /\ \A t \in Streams \ {s} : streamPc'[t] = streamPc[t] /\ out'[t] = out[t]
      BY <1>0, <1>11 DEF EndSlice, StreamTo, ControlTypeOK
    <3>3. QED BY ZenonT(60), <1>0, <3>1, <3>2, ReleaseShape DEF StreamStep, OthersStay
  <2>2. OwnStep(s)
    <3>1. Release(s) /\ liveRun = s /\ sessionOf = s /\ streamPc[s] = "running"
      BY <1>0, <1>11 DEF EndSlice, Owned, OneGeneration, Working
    <3>2. /\ streamPc'[s] = "ended" /\ sessionOf' = sessionOf /\ ev' = ev /\ token' = token /\ child' = child
          /\ ~stale /\ (out'[s] = "limit" /\ ev[s] => token[s])
      BY <1>0, <1>11 DEF EndSlice, StreamTo, ControlTypeOK
    <3>3. liveRun' = None /\ finished' /\ closed'[s]
      BY <1>0, <3>1, ReleaseShape
    <3>4. sessionOf' = s /\ token'[s] => Met(s)
      BY <3>1, <3>2 DEF Uncrossed
    <3>5. QED BY <3>1, <3>2, <3>3, <3>4 DEF OwnStep, Starting, Between, Doomed, Underway
  <2>3. QED BY <2>1, <2>2
<1>12. CASE AfterSlice(s)
  <2>1. StreamStep(s)
    BY <1>0, <1>12 DEF AfterSlice, StreamTo, End, registry, Unregister, StreamStep, OthersStay, ControlTypeOK, Starting, Between, Owned, OneGeneration, Working, InSession, Prepared, Uncrossed
  <2>2. OwnStep(s)
    BY <1>0, <1>12 DEF AfterSlice, StreamTo, End, registry, Unregister, OwnStep, ControlTypeOK, Starting, Between, Doomed, Underway, Owned, OneGeneration, Working, InSession, Prepared, Uncrossed
  <2>3. QED BY <2>1, <2>2
<1>13. CASE NextSlice(s)
  <2>1. StreamStep(s)
    BY <1>0, <1>13 DEF NextSlice, StreamTo, End, registry, ControlFail, Unregister, StreamStep, OthersStay, ControlTypeOK, Starting, Between, Owned, OneGeneration, Working, InSession, Prepared, Uncrossed
  <2>2. OwnStep(s)
    BY <1>0, <1>13 DEF NextSlice, StreamTo, End, registry, ControlFail, Unregister, OwnStep, ControlTypeOK, Starting, Between, Doomed, Underway, Owned, OneGeneration, Working, InSession, Prepared, Uncrossed
  <2>3. QED BY <2>1, <2>2
<1>14. CASE Closed(s)
  <2>1. StreamStep(s)
    <3>1. /\ stop' = stop /\ sessionOf' \in {sessionOf, None} /\ killed' = killed /\ slice' = slice
          /\ ev' = ev /\ token' = token /\ child' = child /\ out' = out
          /\ \A t \in Streams \ {s} : streamPc'[t] = streamPc[t]
      BY <1>0, <1>14 DEF Closed, End, StreamTo, Unregister, ControlTypeOK
    <3>2. CASE liveRun = s
      <4>1. Release(s) /\ \A t \in Streams : ~Starting(t)
        BY <1>0, <1>14, <3>2 DEF Closed, Prepared, Uncrossed
      <4>2. QED BY <1>0, <3>1, <4>1, ReleaseShape DEF StreamStep, OthersStay
    <3>3. CASE liveRun # s
      BY <1>0, <1>14, <3>1, <3>3 DEF Closed, registry, StreamStep, OthersStay
    <3>4. QED BY <3>2, <3>3
  <2>2. OwnStep(s)
    <3>1. streamPc'[s] = "done" /\ sessionOf' # s /\ child' = child
      BY <1>0, <1>14 DEF Closed, End, StreamTo, Unregister, ControlTypeOK
    <3>2. liveRun' # s /\ (resp'[s] /\ ~closed'[s] => ~closed[s] /\ resp[s])
      <4>1. CASE liveRun = s
        BY ZenonT(60), <1>0, <1>14, <4>1, ReleaseShape DEF Closed
      <4>2. CASE liveRun # s
        BY <1>14, <4>2 DEF Closed, registry
      <4>3. QED BY <4>1, <4>2
    <3>3. QED BY <3>1, <3>2 DEF OwnStep, Starting, Between, Doomed, Underway
  <2>3. QED BY <2>1, <2>2
<1>15. CASE Spawn(s)
  <2>1. StreamStep(s)
    BY <1>0, <1>15 DEF Spawn, StreamTo, End, registry, streamVars, StreamStep, OthersStay, ControlTypeOK, Starting, Between, Owned, OneGeneration, Working, InSession, Prepared, Uncrossed
  <2>2. OwnStep(s)
    BY <1>0, <1>15 DEF Spawn, StreamTo, End, registry, streamVars, OwnStep, ControlTypeOK, Starting, Between, Doomed, Underway, Owned, OneGeneration, Working, InSession, Prepared, Uncrossed
  <2>3. QED BY <2>1, <2>2
<1>16. CASE Exit(s)
  <2>1. StreamStep(s)
    BY <1>0, <1>16 DEF Exit, StreamTo, End, registry, streamVars, StreamStep, OthersStay, ControlTypeOK, Starting, Between, Owned, OneGeneration, Working, InSession, Prepared, Uncrossed
  <2>2. OwnStep(s)
    BY <1>0, <1>16 DEF Exit, StreamTo, End, registry, streamVars, OwnStep, ControlTypeOK, Starting, Between, Doomed, Underway, Owned, OneGeneration, Working, InSession, Prepared, Uncrossed
  <2>3. QED BY <2>1, <2>2
<1>17. QED BY <1>1, <1>2, <1>3, <1>4, <1>5, <1>6, <1>7, <1>8, <1>9, <1>10, <1>11, <1>12, <1>13, <1>14, <1>15, <1>16

LEMMA StepOfPrepare ==
  ASSUME ControlSafe, Uncrossed, Stopped, ~stale', NEW s \in Streams, NEW resume \in BOOLEAN,
         s # First => resume, Prepare(s, resume)
  PROVE  Uncrossed' /\ Stopped'
<1>0. ControlTypeOK /\ Owned /\ Prepared /\ CleanupLocked /\ MetOnce
  BY DEF ControlSafe
<1>1. ~(liveRun # None \/ prepared)
  BY DEF Prepare
<1>2. CASE failed # None
  <2>1. StreamStep(s)
    BY <1>0, <1>1, <1>2 DEF Prepare, StreamTo, End, registry, StreamStep, OthersStay, ControlTypeOK
  <2>2. OwnStep(s)
    BY <1>0, <1>1, <1>2 DEF Prepare, StreamTo, End, registry, OwnStep, ControlTypeOK, Starting, Between, Doomed, Underway, Owned, OneGeneration, Working, InSession
  <2>3. QED BY <2>1, <2>2, StreamKeeps
<1>3. CASE failed = None
  <2>1. /\ streamPc[s] \in {"idle", "asked"} /\ streamPc' = [streamPc EXCEPT ![s] = "headers"]
        /\ liveRun' = None /\ sessionOf' = sessionOf /\ prepared' /\ (s # First => ~requested')
        /\ slice' = slice /\ out' = out /\ ev' = ev /\ token' = token
        /\ resp' = resp /\ closed' = closed /\ child' = child /\ stop' = stop
        /\ ~StopUnderway /\ ~Orphans /\ (killed' = killed \/ killed' = FALSE)
    BY <1>1, <1>3 DEF Prepare, StreamTo
  <2>2. \A t \in Streams : ~Starting(t) /\ ~(sessionOf # t /\ Between(t))
    BY <1>0, <1>1 DEF Uncrossed, Owned, InSession, Between
  <2>3. /\ \A t \in Streams \ {s} : streamPc'[t] = streamPc[t]
        /\ streamPc'[s] = "headers"
    BY <1>0, <2>1 DEF ControlTypeOK
  <2>4. \A t \in Streams : Starting(t)' <=> t = s
    BY <2>1, <2>2, <2>3 DEF Starting
  <2>5. \A k \in Stops : ~IsUnderway(k) /\ ~IsUnderway(k)' /\ stop[k].at \notin {"flag", "return"}
    BY <2>1 DEF StopUnderway, IsUnderway
  <2>6. \A t \in Streams : Met(t)' <=> Met(t)
    BY <2>1 DEF Met
  <2>7. Uncrossed'
    <3>1. \A t \in Streams \ {First} : requested' /\ Starting(t)' => Met(t)'
      BY <2>1, <2>4
    <3>2. \A t \in Streams : sessionOf' = t /\ token'[t] => Met(t)'
      BY <2>1, <2>6 DEF Uncrossed
    <3>3. QED BY <2>1, <2>4, <2>5, <3>1, <3>2 DEF Uncrossed
  <2>8. ASSUME NEW k \in Stops, NEW t \in stop'[k].target
        PROVE  Reached(k, t)'
    <3>1. t \in Streams /\ t \in stop[k].target /\ t # s
      BY <1>0, <2>1, <2>8, RecordTyped DEF ControlTypeOK, MetOnce
    <3>2. Doomed(t) => Doomed(t)'
      BY <2>1, <2>2, <2>3, <2>4, <3>1 DEF Doomed, Between
    <3>3. ~(child[t] = "spawning" /\ killed)
      BY <2>1, <3>1 DEF Orphans
    <3>4. QED BY <2>1, <2>3, <3>1, <3>2, <3>3 DEF Stopped, StoppedBy, Reached
  <2>9. QED BY <2>7, <2>8 DEF Stopped, StoppedBy
<1>4. QED BY <1>2, <1>3

LEMMA StepOfGone ==
  ASSUME ControlSafe, Uncrossed, Stopped, NEW s \in Streams, Gone(s)
  PROVE  Uncrossed' /\ Stopped'
<1>0. ControlTypeOK /\ Owned /\ Prepared /\ CleanupLocked /\ MetOnce
  BY DEF ControlSafe
<1>1. PICK k \in Stops : stop[k] = NoStop /\ StopBecomes(k, "session", Active, None, FALSE)
  BY <1>0, GoneShape DEF Gone
<1>2. /\ s \in Active /\ streamPc[s] \in {"running", "model", "tool", "gap"} /\ streamPc'[s] = "closing"
      /\ \A t \in Streams \ {s} : streamPc'[t] = streamPc[t]
      /\ liveRun' = liveRun /\ sessionOf' = sessionOf /\ prepared' = prepared /\ finished' = finished
      /\ requested' = requested /\ killed' = killed /\ slice' = slice /\ out' = out /\ ev' = ev
      /\ token' = token /\ resp' = resp /\ closed' = closed /\ child' = child
  BY <1>0 DEF Gone, StreamTo, registry, ControlTypeOK, Active, Underway
<1>3. \A t \in Streams : Met(t) => Met(t)'
  BY <1>1 DEF Met, StopBecomes, OnlyStop, NoStop
<1>4. \A t \in Streams : (Starting(t)' => Starting(t)) /\ (Between(t)' => Between(t)) /\ (Doomed(t) => Doomed(t)')
  BY <1>2 DEF Starting, Between, Doomed
<1>5. Uncrossed'
  <2>1. \A j \in Stops : IsUnderway(j)' => Active' \subseteq stop'[j].target
    BY <1>1, <1>2 DEF Uncrossed, Active, Underway, IsUnderway, StopBecomes, OnlyStop
  <2>2. /\ \A t \in Streams : Starting(t)' => prepared'
        /\ \A t, u \in Streams : Starting(t)' /\ Starting(u)' => t = u
    BY <1>2, <1>4 DEF Uncrossed
  <2>3. \A t \in Streams \ {First} : (requested' /\ Starting(t)' => Met(t)') /\ (liveRun' = t /\ ev'[t] => Met(t)')
    BY <1>2, <1>3, <1>4 DEF Uncrossed
  <2>4. \A t \in Streams : sessionOf' = t /\ token'[t] => Met(t)'
    BY <1>2, <1>3 DEF Uncrossed
  <2>5. \A j \in Stops, t \in Streams : stop'[j].at = "flag" /\ Between(t)' /\ ~token'[t] => finished'
    BY <1>1, <1>2, <1>4 DEF Uncrossed, StopBecomes, OnlyStop
  <2>6. QED BY <2>1, <2>2, <2>3, <2>4, <2>5 DEF Uncrossed
<1>6. Stopped'
  <2>1. ASSUME NEW j \in Stops, NEW t \in stop'[j].target
        PROVE  Reached(j, t)'
    <3>1. CASE j = k
      BY <1>1, <3>1 DEF StopBecomes, Reached
    <3>2. CASE j # k
      <4>1. t \in Streams /\ t \in stop[j].target /\ stop'[j] = stop[j]
        BY <1>0, <1>1, <2>1, <3>2, RecordTyped DEF ControlTypeOK, StopBecomes, OnlyStop
      <4>2. QED BY <1>2, <1>4, <4>1 DEF Stopped, StoppedBy, Reached
    <3>3. QED BY <3>1, <3>2
  <2>2. QED BY <2>1 DEF Stopped, StoppedBy
<1>7. QED BY <1>5, <1>6

\* A Stop under way has met everyone at work, and whoever owns the session.
LEMMA StopHasMet ==
  ASSUME ControlSafe, Uncrossed, NEW k \in Stops, OnlyStop(k), stop'[k].target = TargetNow(k),
         IsUnderway(k) \/ stop[k].at = "idle", IsUnderway(k)'
  PROVE  /\ stop[k].target \subseteq stop'[k].target /\ Active \subseteq stop'[k].target
         /\ IsUnderway(k) => stop'[k].target = stop[k].target
         /\ \A t \in Streams : liveRun = t \/ sessionOf = t \/ Starting(t) => Met(t)'
<1>0. ControlTypeOK /\ Owned /\ Prepared /\ CleanupLocked /\ MetOnce
  BY DEF ControlSafe
<1>1. stop[k].target \subseteq stop'[k].target
  BY DEF TargetNow
<1>2. Active \subseteq stop'[k].target
  <2>1. CASE stop[k].target = {}
    BY <2>1 DEF TargetNow
  <2>2. CASE stop[k].target # {}
    BY <1>0, <2>2 DEF TargetNow, Uncrossed, MetOnce, NoStop
  <2>3. QED BY <2>1, <2>2
<1>3. IsUnderway(k) => stop'[k].target = stop[k].target
  BY DEF TargetNow, Uncrossed
<1>4. ASSUME NEW t \in Streams, liveRun = t \/ sessionOf = t \/ Starting(t) PROVE Met(t)'
  <2>1. t \in Active \/ streamPc[t] = "closing"
    BY <1>0, <1>4 DEF Owned, OneGeneration, Working, InSession, Starting, Active, Underway
  <2>2. CASE t \in Active
    BY <1>2, <2>2 DEF Met
  <2>3. CASE streamPc[t] = "closing"
    BY <1>0, <1>1, <2>3 DEF MetOnce, Met, OnlyStop
  <2>4. QED BY <2>1, <2>2, <2>3
<1>5. QED BY <1>1, <1>2, <1>3, <1>4

LEMMA StepOfStop ==
  ASSUME ControlSafe, Uncrossed, Stopped, ~stale', NEW k \in Stops,
         StopToken(k) \/ StopFlag(k) \/ StopEnter(k) \/ StopClose(k) \/ StopKill(k) \/ StopReturn(k)
  PROVE  Uncrossed' /\ Stopped'
<1>0. ControlTypeOK /\ Owned /\ Prepared /\ CleanupLocked /\ MetOnce
  BY DEF ControlSafe
<1>1. CASE StopToken(k)
  <2>1. StopBecomes(k, "flag", TargetNow(k), stop[k].handle, stop[k].err) /\ stop[k].at \in {"idle", "session"}
    BY <1>0, <1>1, MeetShape DEF StopToken, StopStages
  <2>2. StopStep(k)
    BY <1>0, <1>1, <2>1, StopHasMet DEF StopToken, registry, StopStep, StopBecomes, IsUnderway, ControlTypeOK
  <2>3. \A t \in Streams : Between(t) => token'[t]
    BY <1>0, <1>1 DEF StopToken, Between, Owned, InSession, ControlTypeOK
  <2>4. StoppedBy(k)'
    BY <2>1 DEF StoppedBy, StopBecomes, Reached
  <2>5. QED BY <2>2, <2>3, <2>4, StopKeeps
<1>2. CASE StopFlag(k)
  <2>1. StopBecomes(k, "wait", TargetNow(k), stop[k].handle, stop[k].err) /\ stop[k].at = "flag"
    BY <1>0, <1>2, MeetShape DEF StopFlag, StopStages
  <2>2. StopStep(k)
    BY <1>0, <1>2, <2>1, StopHasMet DEF StopFlag, StopStep, StopBecomes, IsUnderway, ControlTypeOK
  <2>3. ASSUME NEW t \in Streams PROVE Doomed(t)'
    <3>1. Starting(t) => requested'
      BY <1>0, <1>2 DEF StopFlag, Uncrossed, Prepared
    <3>2. Between(t) => token[t]
      <4>1. Between(t) => sessionOf = t /\ liveRun = None
        BY <1>0 DEF Between, Owned, InSession, OneGeneration, Working, ControlTypeOK
      <4>2. Between(t) /\ ~token[t] => finished
        BY <2>1 DEF Uncrossed
      <4>3. QED BY <1>2, <4>1, <4>2, None \notin Streams DEF StopFlag
    <3>3. streamPc[t] \in Working => ev'[t]
      BY <1>0, <1>2, None \notin Streams DEF StopFlag, Owned, OneGeneration, ControlTypeOK
    <3>4. /\ Starting(t)' <=> Starting(t)
          /\ Between(t)' <=> Between(t)
          /\ streamPc' = streamPc /\ token' = token
      BY <1>2 DEF StopFlag, Starting, Between
    <3>5. QED BY <3>1, <3>2, <3>3, <3>4 DEF Doomed, Working
  <2>4. StoppedBy(k)'
    BY <1>0, <2>1, <2>3, RecordTyped DEF StoppedBy, StopBecomes, Reached
  <2>5. QED BY <2>1, <2>2, <2>4, StopKeeps DEF StopBecomes
<1>3. CASE StopEnter(k)
  <2>1. /\ StopBecomes(k, "close", TargetNow(k), IF liveRun # None THEN liveRun ELSE failed, stop[k].err)
        /\ stop[k].at = "wait"
    BY <1>0, <1>3, EnterShape DEF StopEnter
  <2>2. StopStep(k)
    BY <1>0, <1>3, <2>1, StopHasMet DEF StopEnter, registry, StopStep, StopBecomes, IsUnderway, ControlTypeOK
  <2>3. stop'[k].target = stop[k].target
    BY <2>1, StopHasMet DEF StopBecomes, IsUnderway
  <2>4. \A t \in stop[k].target : Doomed(t) => Doomed(t)'
    BY <1>0, <2>2, RecordTyped DEF StopStep, Doomed, Starting, Between, ControlTypeOK
  <2>5. StoppedBy(k)'
    BY <2>1, <2>3, <2>4 DEF StoppedBy, StopBecomes, Stopped, Reached
  <2>6. QED BY <2>1, <2>2, <2>5, StopKeeps DEF StopBecomes
<1>4. CASE StopClose(k)
  <2>1. PICK b \in BOOLEAN :
            /\ StopBecomes(k, "kill", stop[k].target, stop[k].handle, b)
            /\ stop[k].at = "close" /\ (stop[k].err => b)
    <3>1. stop[k].at = "close" /\ stop[k].err \in BOOLEAN /\ "kill" \in StopStages
      BY <1>0, <1>4, RecordTyped DEF StopClose, StopStages, ControlTypeOK
    <3>2. CASE StopTo(k, "kill")
      BY <1>0, <3>1, <3>2, StageShape
    <3>3. CASE stop' = [stop EXCEPT ![k].at = "kill", ![k].err = TRUE]
      BY <1>0, <3>1, <3>3, ErrorShape
    <3>4. QED BY <1>4, <3>2, <3>3 DEF StopClose
  <2>2. StopStep(k)
    <3>1. IsUnderway(k)' => Active \subseteq stop'[k].target
      BY <2>1 DEF Uncrossed, IsUnderway, StopBecomes
    <3>2. \A t \in Streams : (closed[t] => closed'[t]) /\ (resp'[t] => resp[t])
      BY <1>0, <1>4 DEF StopClose, ControlTypeOK
    <3>3. QED BY <1>0, <1>4, <2>1, <3>1, <3>2 DEF StopClose, StopStep, StopBecomes, ControlTypeOK
  <2>3. ASSUME NEW t \in Streams, streamPc[t] = "calling" \/ resp'[t] PROVE closed'[t]
    <3>1. resp'[t] => resp[t]
      BY <2>2 DEF StopStep
    <3>2. liveRun = t \/ failed = t
      BY <1>0, <2>3, <3>1 DEF Owned, OneGeneration, Working
    <3>3. stop[k].handle = t
      BY <1>0, <2>1, <3>2, None \notin Streams DEF CleanupLocked, Owned, ControlTypeOK
    <3>4. QED BY <1>0, <1>4, <3>3, None \notin Streams DEF StopClose, ControlTypeOK
  <2>4. \A t \in stop[k].target : Doomed(t) => Doomed(t)'
    BY <1>0, <2>2, RecordTyped DEF StopStep, Doomed, Starting, Between, ControlTypeOK
  <2>5. streamPc' = streamPc /\ stop[k].target \subseteq Streams
    BY <1>0, <2>2, RecordTyped DEF StopStep, ControlTypeOK
  <2>6. StoppedBy(k)'
    BY <2>1, <2>3, <2>4, <2>5 DEF StoppedBy, StopBecomes, Stopped, Reached
  <2>7. QED BY <2>1, <2>2, <2>6, StopKeeps DEF StopBecomes
<1>5. CASE StopKill(k)
  <2>1. PICK b \in BOOLEAN :
            /\ StopBecomes(k, "return", stop[k].target, stop[k].handle, b)
            /\ stop[k].at = "kill" /\ (stop[k].err => b) /\ killed'
            /\ ~b => child' = [s \in Streams |-> IF child[s] = "registered" THEN "none" ELSE child[s]]
    <3>1. stop[k].at = "kill" /\ stop[k].err \in BOOLEAN /\ killed' /\ "return" \in StopStages
      BY <1>0, <1>5, RecordTyped DEF StopKill, StopStages, ControlTypeOK
    <3>2. CASE StopTo(k, "return") /\ child' = [s \in Streams |-> IF child[s] = "registered" THEN "none" ELSE child[s]]
      BY <1>0, <3>1, <3>2, StageShape
    <3>3. CASE stop' = [stop EXCEPT ![k].at = "return", ![k].err = TRUE]
      BY <1>0, <3>1, <3>3, ErrorShape
    <3>4. QED BY <1>5, <3>2, <3>3 DEF StopKill
  <2>2. StopStep(k)
    <3>1. IsUnderway(k)' => Active \subseteq stop'[k].target
      BY <1>5, <2>1 DEF Uncrossed, IsUnderway, StopBecomes
    <3>2. \A t \in Streams : child'[t] \in {child[t], "none"}
      BY <1>0, <1>5 DEF StopKill, ControlTypeOK
    <3>3. QED BY <1>0, <1>5, <2>1, <3>1, <3>2 DEF StopKill, streamVars, registry, StopStep, StopBecomes
  <2>3. \A t \in stop[k].target : Doomed(t) => Doomed(t)'
    BY <1>0, <2>2, RecordTyped DEF StopStep, Doomed, Starting, Between, ControlTypeOK
  <2>4. streamPc' = streamPc /\ resp' = resp /\ closed' = closed /\ stop[k].target \subseteq Streams
    BY <1>0, <1>5, RecordTyped DEF StopKill, streamVars, ControlTypeOK
  <2>5. StoppedBy(k)'
    BY <2>1, <2>3, <2>4 DEF StoppedBy, StopBecomes, Stopped, Reached
  <2>6. QED BY <2>1, <2>2, <2>5, StopKeeps DEF StopBecomes
<1>6. CASE StopReturn(k)
  <2>1. PICK q \in {"failed", "ok"} :
            /\ StopBecomes(k, q, stop[k].target, None, FALSE)
            /\ stop[k].at = "return" /\ (stop[k].err <=> q = "failed")
    BY <1>0, <1>6, ReturnShape, RecordTyped DEF StopReturn, ControlTypeOK
  <2>2. StopStep(k)
    BY <1>0, <1>6, <2>1 DEF StopReturn, streamVars, registry, StopStep, StopBecomes, IsUnderway
  <2>3. \A t \in stop[k].target : Doomed(t) => Doomed(t)'
    BY <1>0, <2>2, RecordTyped DEF StopStep, Doomed, Starting, Between, ControlTypeOK
  <2>4. streamPc' = streamPc /\ resp' = resp /\ closed' = closed /\ child' = child /\ killed' = killed
    BY <1>6 DEF StopReturn, streamVars
  <2>5. StoppedBy(k)'
    BY <2>1, <2>3, <2>4 DEF StoppedBy, StopBecomes, Stopped, Reached
  <2>6. QED BY <2>1, <2>2, <2>5, StopKeeps DEF StopBecomes
<1>7. QED BY <1>1, <1>2, <1>3, <1>4, <1>5, <1>6

\* A crossing is never forgotten.
LEMMA StaleStays ==
  ASSUME ControlTypeOK, ControlNext, stale
  PROVE  stale'
<1>1. ASSUME NEW s \in Streams, NEW resume \in BOOLEAN, Prepare(s, resume) PROVE stale'
  BY <1>1 DEF Prepare
<1>2. CASE Stream
  BY <1>1, <1>2 DEF Stream
<1>3. CASE \E s \in Streams : Ask(s) \/ Resume(s)
  BY <1>1, <1>3 DEF Resume, Ask
<1>4. ASSUME NEW s \in Streams, Generator(s) PROVE stale'
  BY <1>4 DEF Generator, Vanish, OpenSession, ClaimRun, Consult, CallModel, Bind, Answer, UseTool, ToolDone, EndSlice, AfterSlice, NextSlice, Closed
<1>5. CASE \E s \in Streams : ToolThread(s) \/ Gone(s)
  BY <1>5 DEF ToolThread, Spawn, Exit, Gone
<1>6. CASE \E k \in Stops : StopToken(k) \/ Cancel(k)
  BY <1>6 DEF Cancel, StopToken, StopFlag, StopEnter, StopClose, StopKill, StopReturn
<1>7. QED BY <1>2, <1>3, <1>4, <1>5, <1>6 DEF ControlNext

LEMMA ControlInvStep ==
  ASSUME ControlInv, ControlNext
  PROVE  ControlInv'
<1>1. ControlSafe' /\ ControlTypeOK
  BY ControlSafeStep, ControlTypeStep DEF ControlInv, ControlSafe
<1>2. ASSUME ~stale' PROVE Uncrossed' /\ Stopped'
  <2>1. ControlSafe /\ Uncrossed /\ Stopped
    BY <1>1, <1>2, StaleStays DEF ControlInv
  <2>2. CASE Stream
    BY <1>2, <2>1, <2>2, StepOfPrepare DEF Stream
  <2>3. CASE \E s \in Streams : Resume(s)
    BY <1>2, <2>1, <2>3, StepOfPrepare DEF Resume
  <2>4. CASE \E s \in Streams : Ask(s) \/ Generator(s) \/ ToolThread(s)
    BY <1>2, <2>1, <2>4, StepOfStream, StreamKeeps DEF Generator, ToolThread
  <2>5. CASE \E s \in Streams : Gone(s)
    BY <2>1, <2>5, StepOfGone
  <2>6. CASE \E k \in Stops : StopToken(k) \/ Cancel(k)
    BY <1>2, <2>1, <2>6, StepOfStop DEF Cancel
  <2>7. QED BY <2>2, <2>3, <2>4, <2>5, <2>6 DEF ControlNext
<1>3. QED BY <1>1, <1>2 DEF ControlInv

LEMMA ControlInvInit ==
  ControlInit => ControlInv
<1> SUFFICES ASSUME ControlInit PROVE ControlInv
  OBVIOUS
<1>1. NoStop \in StopRecords
  BY DEF NoStop, StopRecords, StopStages
<1>2. ControlTypeOK
  <2>1. streamPc \in [Streams -> StreamPlaces] /\ out \in [Streams -> StreamOutcomes] /\ stop \in [Stops -> StopRecords]
    BY <1>1 DEF ControlInit, StreamPlaces, StreamOutcomes
  <2>2. slice \in [Streams -> 1..MaxSlices] /\ controlFails \in 0..MaxControlFails
    BY DEF ControlInit
  <2>3. QED BY <2>1, <2>2 DEF ControlInit, ControlTypeOK
<1>3. Owned /\ Prepared
  BY DEF ControlInit, Owned, OneGeneration, Working, InSession, Prepared
<1>4. CleanupLocked /\ MetOnce
  BY DEF ControlInit, CleanupLocked, MetOnce, NoStop
<1>5. \A s \in Streams : ~Starting(s) /\ ~Between(s) /\ s \notin Active
  BY DEF ControlInit, Starting, Between, Active, Underway
<1>6. Uncrossed
  BY <1>5 DEF ControlInit, Uncrossed, IsUnderway, NoStop
<1>7. Stopped
  BY DEF ControlInit, Stopped, NoStop, StoppedBy, Reached
<1>8. QED BY <1>2, <1>3, <1>4, <1>6, <1>7 DEF ControlInv, ControlSafe

LEMMA ControlInvStutter ==
  ControlInv /\ UNCHANGED controlVars => ControlInv'
<1> SUFFICES ASSUME ControlInv, UNCHANGED controlVars PROVE ControlInv'
  OBVIOUS
<1> USE DEF controlVars, streamVars, registry
<1>1. ControlTypeOK'
  BY DEF ControlInv, ControlSafe, ControlTypeOK
<1>2. Owned' /\ Prepared' /\ CleanupLocked' /\ MetOnce'
  BY DEF ControlInv, ControlSafe, Owned, OneGeneration, Working, Prepared, CleanupLocked, MetOnce, Met
<1>3. Uncrossed <=> Uncrossed'
  BY DEF Uncrossed, Starting, Between, IsUnderway, Active, Met
<1>4. Stopped <=> Stopped'
  BY DEF Stopped, Doomed, Starting, Between, StoppedBy, Reached
<1>5. QED BY <1>1, <1>2, <1>3, <1>4 DEF ControlInv, ControlSafe

LEMMA ControlInvAlways ==
  ControlSpec => []ControlInv
<1>1. ControlInv /\ [ControlNext]_controlVars => ControlInv'
  BY ControlInvStep, ControlInvStutter
<1>2. QED BY <1>1, ControlInvInit, PTL DEF ControlSpec

(***************************************************************************)
(* The theorems                                                            *)
(***************************************************************************)

\* Every part of run_control.py's registries, of the sessions and of the Stops
\* keeps its type, whatever is called in whatever order.
THEOREM ControlTypeCorrect == ControlSpec => []ControlTypeOK
<1>1. ControlInv => ControlTypeOK
  BY DEF ControlInv, ControlSafe
<1>2. QED BY <1>1, ControlInvAlways, PTL

\* A run id never has two generations at work, and an open provider response never
\* loses the handle by which a Stop can close it, for any number of streams,
\* Resumes, Stops and slices.
THEOREM OneAtATime == ControlSpec => []OneGeneration
<1>1. ControlInv => OneGeneration
  BY DEF ControlInv, ControlSafe, Owned
<1>2. QED BY <1>1, ControlInvAlways, PTL

\* POST /cancel answers "cancelled" only when no process and no response of a stream
\* it met is left, unless a crossing has happened.
THEOREM Acknowledged == ControlSpec => []AckMeansClean
<1>1. ControlInv => AckMeansClean
  <2> SUFFICES ASSUME ControlInv, NEW k \in Stops, stop[k].at = "ok", ~stale, NEW s \in stop[k].target
               PROVE  child[s] # "registered" /\ (resp[s] => closed[s])
    BY DEF AckMeansClean
  <2>1. QED BY DEF ControlInv, Stopped, StoppedBy, Reached
<1>2. QED BY <1>1, ControlInvAlways, PTL

\* A resumed generation is cancelled only by a Stop that met it, unless a crossing
\* has happened.
THEOREM Fresh == ControlSpec => []ResumeIsFreshUncrossed
<1>1. ControlInv => ResumeIsFreshUncrossed
  BY DEF ControlInv, Uncrossed, ResumeIsFreshUncrossed, ResumeIsFresh
<1>2. QED BY <1>1, ControlInvAlways, PTL

LEMMA StaysIdle ==
  ASSUME ControlTypeOK, ControlNext, NEW s \in Streams, streamPc[s] = "running", ev[s]
  PROVE  ~Works(s)
<1>1. CASE Stream
  BY <1>1 DEF Stream, Prepare, StreamTo, End, ControlTypeOK, Works
<1>2. ASSUME NEW t \in Streams, Ask(t) \/ Resume(t) PROVE ~Works(s)
  BY <1>2 DEF Ask, Resume, Prepare, StreamTo, End, ControlTypeOK, Works
<1>3. ASSUME NEW t \in Streams, t # s, Generator(t) PROVE ~Works(s)
  <2>1. streamPc'[s] = streamPc[s]
    BY <1>3 DEF Generator, Vanish, OpenSession, ClaimRun, Refuse, Consult, CallModel, Bind, Answer, UseTool, ToolDone, EndSlice, AfterSlice, NextSlice, Closed, StreamTo, End, ControlTypeOK
  <2>2. QED BY <2>1 DEF Works
<1>4. CASE Generator(s)
  BY <1>4 DEF Generator, Vanish, OpenSession, ClaimRun, Consult, CallModel, Bind, Answer, UseTool, ToolDone, EndSlice, AfterSlice, NextSlice, Closed, StreamTo, ControlTypeOK, Works
<1>5. ASSUME NEW t \in Streams, ToolThread(t) \/ Gone(t) PROVE ~Works(s)
  BY <1>5 DEF ToolThread, Spawn, Exit, Gone, streamVars, StreamTo, ControlTypeOK, Works
<1>6. ASSUME NEW k \in Stops, StopToken(k) \/ Cancel(k) PROVE ~Works(s)
  BY <1>6 DEF Cancel, StopToken, StopFlag, StopEnter, StopClose, StopKill, StopReturn, streamVars, Works
<1>7. QED BY <1>1, <1>2, <1>3, <1>4, <1>5, <1>6 DEF ControlNext

\* A stream that an acknowledged Stop met calls neither the model nor a tool again,
\* in this slice or in a later one, unless a crossing has happened.
THEOREM SessionEnds == ControlSpec => StopEndsSessionUnsplit
<1> DEFINE A == \A k \in Stops : stop[k].at = "ok" /\ ~stale => \A s \in stop[k].target : ~Works(s)
<1>1. ControlInv /\ [ControlNext]_controlVars => [A]_controlVars
  <2> SUFFICES ASSUME ControlInv, ControlNext, NEW k \in Stops, stop[k].at = "ok", ~stale,
                      NEW s \in stop[k].target, Works(s)
               PROVE  FALSE
    OBVIOUS
  <2>1. s \in Streams /\ ev[s] /\ streamPc[s] = "running" /\ ControlTypeOK
    BY RecordTyped DEF ControlInv, ControlSafe, ControlTypeOK, Stopped, Doomed, Works, StoppedBy, Reached
  <2>2. QED BY <2>1, StaysIdle DEF Works
<1>2. QED BY <1>1, ControlInvAlways, PTL DEF ControlSpec, StopEndsSessionUnsplit


HIDE RunControlAssumption

-------------------------------------------------------------------------------
(*************************************************************************************)
(* A tab of the console.  Whose output a run returns is decided by what the          *)
(* input, the shell and the pipe hold together: one line at a time, with the         *)
(* ^C and the redrawn prompt that may follow it (Serves, NoStopSent), and a tab that *)
(* is marked busy as long as there is one (OneLine).                                 *)
(*************************************************************************************)

Lines == Owners \cup {"^C"}
Prompts == Owners \cup {"start", "redraw"}
ShellStates == Owners \cup {"starts", "prompt", "gone"}
Chunks == [what : {"none", "chunk", "end"}, to : SUBSET Sockets]
Logs == Seq(Unseen \cup Seen)
SocketStates == [at : {"out", "found", "in", "late"}, behind : -1..1]
TurnPlaces == {"idle", "asked", "quiet", "marked", "waiting", "stopping", "ran", "over"}
TurnOutcomes == {"none", "ok", "busy", "closed", "not_ready", "cancelled"}
TurnStates == [at : TurnPlaces, outcome : TurnOutcomes, got : Prompts \cup {"none"}]

\* The types, and that input and output are sequences.
TabTyped ==
    /\ shellDoes \in ShellStates /\ lines \in Seq(Lines) /\ printed \in Seq(Prompts)
    /\ half \in BOOLEAN /\ ready \in BOOLEAN /\ tabBusy \in BOOLEAN /\ tabAlive \in BOOLEAN
    /\ entering \in BOOLEAN /\ stray \in BOOLEAN
    /\ handed \in Chunks /\ log \in Logs /\ enters \in 0..MaxEnters
    /\ socket \in [Sockets -> SocketStates] /\ turn \in [Turns -> TurnStates]

Only(s, x) == Len(s) = 1 /\ s[1] = x
Pair(s, x, y) == Len(s) = 2 /\ s[1] = x /\ s[2] = y

\* The input holds nothing, or a ^C that came after its command.
InputSpent == lines = <<>> \/ Only(lines, "^C")
AtPrompt == shellDoes \in {"prompt", "gone"}

\* Nobody's line is under way.
NobodyRuns ==
    AtPrompt /\ InputSpent /\ (printed = <<>> \/ (Only(printed, "redraw") /\ lines = <<>>))

\* One line is: in the input, run by the shell, or ended by a prompt nobody has read.
Typed(o) == shellDoes = "prompt" /\ printed = <<>> /\ (Only(lines, o) \/ Pair(lines, o, "^C"))
Runs(o) == shellDoes = o /\ printed = <<>> /\ InputSpent
Ended(o) == AtPrompt /\ \/ Only(printed, o) /\ InputSpent
                        \/ Pair(printed, o, "redraw") /\ lines = <<>>
Serves(o) == Typed(o) \/ Runs(o) \/ Ended(o)

\* No ^C has been sent after it.
NoStopSent(o) == (lines = <<>> \/ Only(lines, o)) /\ (printed = <<>> \/ Only(printed, o))

\* Before the first prompt nothing is typed.
AtStart ==
    (~stray /\ ~ready) =>
        /\ lines = <<>> /\ ~entering
        /\ \/ shellDoes = "starts" /\ printed = <<>>
           \/ AtPrompt /\ (printed = <<>> \/ Only(printed, "start"))
        /\ \A c \in Turns : turn[c].at \in {"idle", "asked", "ran", "over"}

\* After it there is one line at a time, and the tab is busy with it.
OneLine == (~stray /\ ready) => NobodyRuns \/ (tabBusy /\ \E o \in Turns \cup {"user"} : Serves(o))

Settled == ready /\ AtPrompt /\ lines = <<>> /\ printed = <<>> /\ tabBusy

\* Who is about to type has the tab to himself, ...
EnterFits == (~stray /\ entering) => (Settled /\ Entering = {})
OneEnters == ~stray => \A c, d \in Entering : c = d

\* ... who waits is served, or the shell has gone without an answer, ...
WaitFits ==
    ~stray => \A c \in Turns :
        /\ turn[c].at = "quiet" => ready /\ ~tabBusy
        /\ turn[c].at = "marked" => Settled /\ turn[c].got = "none"
        /\ turn[c].at \in {"waiting", "stopping"} => ready
        /\ turn[c].at \in {"waiting", "stopping"} /\ turn[c].got = "none" =>
              Serves(c) \/ (shellDoes = "gone" /\ printed = <<>>)
        /\ turn[c].at = "waiting" =>
              IF turn[c].got = "none" THEN NoStopSent(c) ELSE turn[c].got = c

\* ... and what a run returns is the answer to its own line.
AnswerFits ==
    ~stray => \A c \in Turns :
        /\ turn[c].outcome = "ok" => turn[c].got = c
        /\ turn[c].outcome # "none" => turn[c].at = "ran"
        /\ turn[c].at \in {"idle", "asked", "quiet"} => turn[c].got = "none"

\* While a run is under way nothing is in the log unseen but what came since, ...
\* It has an end that is unseen, and what was cut is older than what was shown.
LogOrder ==
    /\ UserWorkShown
    /\ \A i, j \in DOMAIN log : i < j /\ log[i] \in Unseen => log[j] \in Unseen

NothingNew == \A i \in DOMAIN log : log[i] # "new"

LogFits == LogOrder /\ (Asking # {} => NothingNew)

\* A chunk is handed to those who listen, the end when there is no more.
HandedFits ==
    /\ handed.what = "none" => handed.to = {}
    /\ handed.what = "chunk" => tabAlive
    /\ handed.what = "end" => ~tabAlive
    /\ \A w \in Sockets : socket[w].at # "in" => socket[w].behind = 0 /\ w \notin handed.to

TabsInv ==
    /\ TabTyped /\ AtStart /\ OneLine /\ EnterFits /\ OneEnters /\ WaitFits /\ AnswerFits
    /\ LogFits /\ HandedFits /\ NoGap

USE TerminalAssumption

(***************************************************************************)
(* Sequences of one or two, and the operators of the model                 *)
(***************************************************************************)

\* What is taken from the front, ...
LEMMA Taken ==
  ASSUME NEW S, NEW s \in Seq(S), s # <<>>
  PROVE  /\ Head(s) \in S /\ Tail(s) \in Seq(S)
         /\ \A x : Only(s, x) => Head(s) = x /\ Tail(s) = <<>>
         /\ \A x, y : Pair(s, x, y) => Head(s) = x /\ Only(Tail(s), y)
<1>1. /\ Head(s) = s[1] /\ Head(s) \in S /\ Tail(s) \in Seq(S) /\ Len(s) \in Nat
      /\ Len(Tail(s)) = Len(s) - 1 /\ \A i \in 1..Len(Tail(s)) : Tail(s)[i] = s[i + 1]
  BY HeadTailProperties, LenProperties
<1>2. Len(Tail(s)) = 0 => Tail(s) = <<>>
  BY <1>1, EmptySeq
<1>3. QED BY <1>1, <1>2 DEF Only, Pair

\* ... and what is put at the end.
LEMMA Put ==
  ASSUME NEW S, NEW s \in Seq(S), NEW x \in S
  PROVE  /\ Append(s, x) \in Seq(S) /\ Append(s, x) # <<>>
         /\ s = <<>> => Only(Append(s, x), x)
         /\ \A y : Only(s, y) => Pair(Append(s, x), y, x)
<1>1. /\ Append(s, x) \in Seq(S) /\ Len(Append(s, x)) = Len(s) + 1 /\ Len(s) \in Nat
      /\ Append(s, x)[Len(s) + 1] = x /\ \A i \in 1..Len(s) : Append(s, x)[i] = s[i]
  BY AppendProperties, LenProperties
<1>2. Len(<<>>) = 0
  BY EmptySeq
<1>3. Append(s, x) = <<>> => Len(s) + 1 = 0
  BY <1>1, <1>2
<1>4. Append(s, x) # <<>> /\ (s = <<>> => Len(s) = 0)
  <2>1. Len(s) + 1 # 0
    BY <1>1
  <2>2. s = <<>> => Len(s) = 0
    BY <1>2, Zenon
  <2>3. Append(s, x) # <<>>
    BY <1>3, <2>1
  <2>4. QED BY <2>2, <2>3
<1>5. Len(s) = 0 => Only(Append(s, x), x)
  BY <1>1 DEF Only
<1>6. ASSUME NEW y, Only(s, y) PROVE Pair(Append(s, x), y, x)
  BY <1>1, <1>6 DEF Only, Pair
<1>7. QED BY <1>1, <1>4, <1>5, <1>6

\* An element is taken out.
LEMMA Dropped ==
  ASSUME NEW S, NEW s \in Seq(S), NEW i \in 1..Len(s)
  PROVE  /\ SubSeq(s, 1, i - 1) \o SubSeq(s, i + 1, Len(s)) \in Seq(S)
         /\ s # <<>> /\ \A x : Only(s, x) => SubSeq(s, 1, i - 1) \o SubSeq(s, i + 1, Len(s)) = <<>>
<1> DEFINE a == SubSeq(s, 1, i - 1)
           b == SubSeq(s, i + 1, Len(s))
<1>1. Len(s) \in Nat /\ \A k \in 1..Len(s) : s[k] \in S
  BY LenProperties, ElementOfSeq
<1>2. a \in Seq(S) /\ Len(a) = i - 1
  <2>1. 1 \in Int /\ i - 1 \in Int /\ \A k \in 1..(i - 1) : s[k] \in S
    BY <1>1
  <2>2. QED BY <1>1, <2>1, SubSeqProperties
<1>3. b \in Seq(S) /\ Len(b) = Len(s) - i
  <2>1. i + 1 \in Int /\ Len(s) \in Int /\ \A k \in (i + 1)..Len(s) : s[k] \in S
    BY <1>1
  <2>2. b \in Seq(S) /\ Len(b) = IF i + 1 <= Len(s) THEN Len(s) - (i + 1) + 1 ELSE 0
    BY <2>1, SubSeqProperties
  <2>3. QED BY <1>1, <2>2
<1> HIDE DEF a, b
<1>4. a \o b \in Seq(S) /\ Len(a \o b) = Len(a) + Len(b)
  BY <1>2, <1>3, ConcatProperties
<1>5. Len(s) = 1 => Len(a \o b) = 0
  BY <1>2, <1>3, <1>4
<1>6. Len(a \o b) = 0 => a \o b = <<>>
  BY <1>4, EmptySeq
<1>7. s # <<>>
  BY <1>1, EmptySeq
<1>8. QED BY <1>4, <1>5, <1>6, <1>7 DEF Only, a, b

LEMMA Empty == \A S : <<>> \in Seq(S) /\ \A x, y : ~Only(<<>>, x) /\ ~Pair(<<>>, x, y)
<1>1. Len(<<>>) = 0 /\ \A S : <<>> \in Seq(S)
  BY EmptySeq
<1>2. QED BY <1>1 DEF Only, Pair

LEMMA OnlyOnce == \A s, x, y, u, v : /\ Only(s, x) /\ Only(s, y) => x = y
                                     /\ Pair(s, x, y) /\ Pair(s, u, v) => x = u /\ y = v
                                     /\ ~(Only(s, x) /\ Pair(s, u, v))
  BY DEF Only, Pair

\* A run and the user are none of the words of the shell.
LEMMA OwnersApart == \A o \in Turns \cup {"user"} :
    o \in Owners /\ o \notin {"mixed", "none", "starts", "prompt", "gone", "start", "redraw", "^C"}
  BY DEF Owners

\* One line at a time has one owner, and a settled tab none.
LEMMA ServesOne ==
  ASSUME NEW o \in Turns \cup {"user"}, NEW p \in Turns \cup {"user"}, Serves(o), Serves(p)
  PROVE  o = p
<1>1. o \notin {"prompt", "gone", "^C", "redraw"} /\ p \notin {"prompt", "gone", "^C", "redraw"}
  BY OwnersApart
<1>2. \A x, y, u, v : /\ Only(lines, x) /\ Only(lines, y) => x = y
                      /\ Pair(lines, x, y) /\ Pair(lines, u, v) => x = u
                      /\ Only(printed, x) /\ Only(printed, y) => x = y
                      /\ Pair(printed, x, y) /\ Pair(printed, u, v) => x = u
                      /\ ~(Only(lines, x) /\ Pair(lines, u, v)) /\ ~(Only(printed, x) /\ Pair(printed, u, v))
  BY OnlyOnce
<1>3. /\ lines = <<>> => \A x, y : ~Only(lines, x) /\ ~Pair(lines, x, y)
      /\ printed = <<>> => \A x, y : ~Only(printed, x) /\ ~Pair(printed, x, y)
  BY Empty
<1>4. QED BY <1>1, <1>2, <1>3 DEF Serves, Typed, Runs, Ended, InputSpent, AtPrompt

LEMMA NobodyServes ==
  ASSUME NobodyRuns
  PROVE  \A o \in Turns \cup {"user"} : ~Serves(o)
<1>1. \A o \in Turns \cup {"user"} : o \notin {"prompt", "gone", "^C", "redraw"}
  BY OwnersApart
<1>2. \A x, y, u, v : /\ Only(lines, x) /\ Only(lines, y) => x = y
                      /\ Only(printed, x) /\ Only(printed, y) => x = y
                      /\ ~(Only(lines, x) /\ Pair(lines, u, v)) /\ ~(Only(printed, x) /\ Pair(printed, u, v))
  BY OnlyOnce
<1>3. /\ lines = <<>> => \A x, y : ~Only(lines, x) /\ ~Pair(lines, x, y)
      /\ printed = <<>> => \A x, y : ~Only(printed, x) /\ ~Pair(printed, x, y)
  BY Empty
<1>4. QED BY <1>1, <1>2, <1>3 DEF NobodyRuns, Serves, Typed, Runs, Ended, InputSpent, AtPrompt

LEMMA SettledIsFree == Settled => NobodyRuns
  BY DEF Settled, NobodyRuns, InputSpent

\* Who leaves shell, input and output alone leaves the lines to their owners.
LEMMA ShellRests ==
  ASSUME UNCHANGED <<shellDoes, lines, printed>>
  PROVE  /\ (NobodyRuns' <=> NobodyRuns) /\ (AtPrompt' <=> AtPrompt)
         /\ \A o : (Serves(o)' <=> Serves(o)) /\ (NoStopSent(o)' <=> NoStopSent(o))
  BY DEF NobodyRuns, AtPrompt, Serves, Typed, Runs, Ended, InputSpent, NoStopSent

\* What becomes of the log.
LEMMA LogTold ==
  ASSUME log \in Logs, LogOrder, NEW asked, Unseen \subseteq asked, ShownOf(asked)
  PROVE  log' \in Logs /\ LogOrder' /\ NothingNew'
<1>1. PICK k \in 0..Len(log) :
        /\ k = Len(log) => log = <<>>
        /\ log' = [i \in DOMAIN log |->
              IF log[i] \in asked /\ i > k THEN "shown"
              ELSE IF log[i] \in Unseen THEN "cut" ELSE log[i]]
  BY DEF ShownOf
<1>2. /\ DOMAIN log = 1..Len(log) /\ Len(log) \in Nat
      /\ \A i \in DOMAIN log : log[i] \in Unseen \cup Seen
  BY LenProperties, ElementOfSeq DEF Logs
<1>3. /\ DOMAIN log' = 1..Len(log)
      /\ \A i \in DOMAIN log : log'[i] = IF log[i] \in asked /\ i > k THEN "shown"
                                         ELSE IF log[i] \in Unseen THEN "cut" ELSE log[i]
  BY <1>1, <1>2
<1>4. \A i \in DOMAIN log : log'[i] \in Seen
  BY <1>2, <1>3 DEF Seen, Unseen
<1>5. log' \in Logs
  <2>1. Seen \subseteq Unseen \cup Seen
    OBVIOUS
  <2>2. log' \in [1..Len(log) -> Unseen \cup Seen]
    BY <1>1, <1>2, <1>3, <1>4, <2>1
  <2>3. QED BY <1>2, <2>2, SeqDef DEF Logs
<1>6. NothingNew' /\ \A i \in DOMAIN log' : log'[i] \notin Unseen
  BY <1>2, <1>3, <1>4 DEF NothingNew, Seen, Unseen
<1>7. \A i \in DOMAIN log' : log'[i] # "missed"
  BY <1>2, <1>3 DEF LogOrder, UserWorkShown
<1>8. ASSUME NEW i \in DOMAIN log', log'[i] = "cut" PROVE \E j \in DOMAIN log' : j > i /\ log'[j] = "shown"
  <2>1. i \in DOMAIN log /\ i \in 1..Len(log) /\ k \in 0..Len(log) /\ (log[i] \in Unseen \/ log[i] = "cut")
    BY <1>1, <1>2, <1>3, <1>8
  <2>2. CASE log[i] \in Unseen
    <3>1. i \in Nat /\ k \in Nat /\ Len(log) \in Nat /\ ~(i > k) /\ i <= Len(log) /\ i >= 1 /\ k <= Len(log)
      BY <1>2, <1>3, <1>8, <2>1, <2>2
    <3> DEFINE n == Len(log)
    <3>2. log = <<>> => n = 0
      BY EmptySeq
    <3>3. k # n
      BY <1>1, <3>1, <3>2
    <3>4. DOMAIN log = 1..n
      BY <1>2
    <3> HIDE DEF n
    <3>5. n \in Nat /\ i <= n /\ k <= n /\ k \in Nat /\ i \in Nat /\ ~(i > k) /\ i >= 1
      BY <3>1 DEF n
    <3>6. n > i /\ n > k /\ n \in 1..n
      BY <3>5, <3>3
    <3>7. Len(log) > i /\ Len(log) > k /\ Len(log) \in DOMAIN log
      BY <3>4, <3>6 DEF n
    <3>8. log[Len(log)] \in Unseen
      BY <2>1, <2>2, <3>7 DEF LogOrder
    <3>9. log'[Len(log)] = "shown" /\ Len(log) \in DOMAIN log'
      BY <1>2, <1>3, <3>7, <3>8
    <3>10. QED BY <3>7, <3>9
  <2>3. CASE log[i] = "cut"
    <3>1. PICK j \in DOMAIN log : j > i /\ log[j] = "shown"
      BY <2>1, <2>3 DEF LogOrder, UserWorkShown
    <3>2. log'[j] = "shown" /\ j \in DOMAIN log'
      BY <1>2, <1>3, <3>1 DEF Unseen
    <3>3. QED BY <3>1, <3>2
  <2>4. QED BY <2>1, <2>2, <2>3
<1>9. LogOrder'
  BY <1>6, <1>7, <1>8 DEF LogOrder, UserWorkShown
<1>10. QED BY <1>5, <1>6, <1>9

\* mark_seen: nothing new is in the log while a run is under way.
LEMMA LogMarked ==
  ASSUME log \in Logs, LogOrder, NothingNew,
         log' = [i \in DOMAIN log |->
           CASE log[i] = "new" -> "missed" [] log[i] = "crossed" -> "passed" [] OTHER -> log[i]]
  PROVE  log' \in Logs /\ LogOrder' /\ NothingNew'
<1>1. /\ DOMAIN log = 1..Len(log) /\ Len(log) \in Nat
      /\ \A i \in DOMAIN log : log[i] \in Unseen \cup Seen
  BY LenProperties, ElementOfSeq DEF Logs
<1>2. /\ DOMAIN log' = 1..Len(log)
      /\ \A i \in DOMAIN log : log'[i] = IF log[i] = "crossed" THEN "passed" ELSE log[i]
  BY <1>1 DEF NothingNew
<1>3. \A i \in DOMAIN log : log'[i] \in Seen
  BY <1>1, <1>2 DEF Seen, Unseen, NothingNew
<1>4. log' \in Logs
  <2>1. log' \in [1..Len(log) -> Unseen \cup Seen]
    BY <1>1, <1>2, <1>3
  <2>2. QED BY <1>1, <2>1, SeqDef DEF Logs
<1>5. NothingNew' /\ \A i \in DOMAIN log' : log'[i] \notin Unseen
  BY <1>1, <1>2, <1>3 DEF NothingNew, Seen, Unseen
<1>6. UserWorkShown'
  BY <1>1, <1>2 DEF LogOrder, UserWorkShown
<1>7. QED BY <1>4, <1>5, <1>6 DEF LogOrder

LEMMA LogGrows ==
  ASSUME log \in Logs, LogOrder, NEW x \in Unseen, log' = Append(log, x)
  PROVE  log' \in Logs /\ LogOrder' /\ (x # "new" /\ NothingNew => NothingNew')
<1>1. /\ DOMAIN log = 1..Len(log) /\ Len(log) \in Nat
      /\ log' \in Logs /\ DOMAIN log' = 1..(Len(log) + 1)
      /\ \A i \in DOMAIN log : log'[i] = log[i]
      /\ log'[Len(log) + 1] = x
  <2>1. x \in Unseen \cup Seen /\ log \in Seq(Unseen \cup Seen)
    BY DEF Logs
  <2>2. QED BY <2>1, AppendProperties, LenProperties DEF Logs
<1>2. \A i \in DOMAIN log' : i \in DOMAIN log \/ (i = Len(log) + 1 /\ log'[i] = x)
  BY <1>1
<1>3. UserWorkShown'
  <2>1. \A i \in DOMAIN log' : log'[i] # "missed"
    BY <1>1, <1>2 DEF LogOrder, UserWorkShown, Unseen
  <2>2. \A i \in DOMAIN log' : log'[i] = "cut" => \E j \in DOMAIN log' : j > i /\ log'[j] = "shown"
    <3>1. \A j \in DOMAIN log : j \in DOMAIN log'
      BY <1>1
    <3>2. QED BY <1>1, <1>2, <3>1 DEF LogOrder, UserWorkShown, Unseen
  <2>3. QED BY <2>1, <2>2 DEF UserWorkShown
<1>4. \A i, j \in DOMAIN log' : i < j /\ log'[i] \in Unseen => log'[j] \in Unseen
  <2>1. SUFFICES ASSUME NEW i \in DOMAIN log', NEW j \in DOMAIN log', i < j, log'[i] \in Unseen PROVE log'[j] \in Unseen
    OBVIOUS
  <2>2. CASE j \in DOMAIN log
    <3>1. i \in DOMAIN log
      BY <1>1, <2>1, <2>2
    <3>2. QED BY <1>1, <2>1, <2>2, <3>1 DEF LogOrder
  <2>3. CASE log'[j] = x
    BY <2>3
  <2>4. QED BY <1>2, <2>2, <2>3
<1>5. x # "new" /\ NothingNew => NothingNew'
  BY <1>1, <1>2 DEF NothingNew
<1>6. QED BY <1>1, <1>3, <1>4, <1>5 DEF LogOrder

LEMMA NoTurnFields == NoTurn \in TurnStates /\ NoTurn.at = "idle" /\ NoTurn.outcome = "none" /\ NoTurn.got = "none"
  BY DEF NoTurn, TurnStates, TurnPlaces, TurnOutcomes

LEMMA NoSocketFields == NoSocket \in SocketStates /\ NoSocket.at = "out" /\ NoSocket.behind = 0
  BY DEF NoSocket, SocketStates

LEMMA TurnBecomes ==
  ASSUME TabTyped, NEW c \in Turns, NEW w \in TurnStates, turn' = [turn EXCEPT ![c] = w]
  PROVE  turn' \in [Turns -> TurnStates] /\ turn'[c] = w /\ \A d \in Turns : d # c => turn'[d] = turn[d]
  BY DEF TabTyped

LEMMA TurnMoves ==
  ASSUME TabTyped, NEW c \in Turns, NEW p \in TurnPlaces, TurnTo(c, p)
  PROVE  /\ turn' \in [Turns -> TurnStates] /\ turn'[c].at = p /\ turn'[c].outcome = turn[c].outcome
         /\ turn'[c].got = turn[c].got /\ \A d \in Turns : d # c => turn'[d] = turn[d]
<1> DEFINE w == [turn[c] EXCEPT !.at = p]
<1>1. w \in TurnStates /\ w.at = p /\ w.outcome = turn[c].outcome /\ w.got = turn[c].got
  BY DEF TabTyped, TurnStates
<1>2. turn' = [turn EXCEPT ![c] = w]
  BY DEF TurnTo
<1> HIDE DEF w
<1>3. QED BY <1>1, <1>2, TurnBecomes

LEMMA TurnReturns ==
  ASSUME TabTyped, NEW c \in Turns, NEW how \in TurnOutcomes, Returns(c, how)
  PROVE  /\ turn' \in [Turns -> TurnStates] /\ turn'[c].at = "ran" /\ turn'[c].outcome = how
         /\ turn'[c].got = turn[c].got /\ \A d \in Turns : d # c => turn'[d] = turn[d]
<1> DEFINE w == [turn[c] EXCEPT !.at = "ran", !.outcome = how]
<1>1. w \in TurnStates /\ w.at = "ran" /\ w.outcome = how /\ w.got = turn[c].got
  BY DEF TabTyped, TurnStates, TurnPlaces
<1>2. turn' = [turn EXCEPT ![c] = w]
  BY DEF Returns
<1> HIDE DEF w
<1>3. QED BY <1>1, <1>2, TurnBecomes

LEMMA SocketBecomes ==
  ASSUME TabTyped, NEW w \in Sockets, NEW s \in SocketStates, socket' = [socket EXCEPT ![w] = s]
  PROVE  socket' \in [Sockets -> SocketStates] /\ socket'[w] = s /\ \A v \in Sockets : v # w => socket'[v] = socket[v]
  BY DEF TabTyped

LEMMA SocketMoves ==
  ASSUME TabTyped, NEW w \in Sockets, NEW p \in {"out", "found", "in", "late"}, SocketTo(w, p)
  PROVE  /\ socket' \in [Sockets -> SocketStates] /\ socket'[w].at = p /\ socket'[w].behind = socket[w].behind
         /\ \A v \in Sockets : v # w => socket'[v] = socket[v]
<1> DEFINE s == [socket[w] EXCEPT !.at = p]
<1>1. s \in SocketStates /\ s.at = p /\ s.behind = socket[w].behind
  BY DEF TabTyped, SocketStates
<1>2. socket' = [socket EXCEPT ![w] = s]
  BY DEF SocketTo
<1> HIDE DEF s
<1>3. QED BY <1>1, <1>2, SocketBecomes

LEMMA TabsStep ==
  ASSUME TabsInv, TerminalNext
  PROVE  TabsInv'
<1>0. TabTyped /\ AtStart /\ OneLine /\ EnterFits /\ OneEnters /\ WaitFits /\ AnswerFits /\ LogFits /\ HandedFits /\ NoGap
  BY DEF TabsInv
<1>a. \A o \in Turns \cup {"user"} : o \in Owners /\ o \notin {"mixed", "none", "starts", "prompt", "gone", "start", "redraw", "^C"}
  BY OwnersApart
<1>1. CASE ShellStarts
  <2>0. /\ shellDoes = "starts" /\ shellDoes' = "prompt" /\ printed' \in Seq(Prompts)
        /\ (printed = <<>> => Only(printed', "start"))
        /\ (~stray => ~ready)
        /\ UNCHANGED <<lines, half, ready, tabBusy, tabAlive, log, handed, socket, entering, turn, stray, enters>>
    <3>1. /\ shellDoes = "starts" /\ shellDoes' = "prompt" /\ printed' = Append(printed, "start")
          /\ UNCHANGED <<lines, half, ready, tabBusy, tabAlive, log, handed, socket, entering, turn, stray, enters>>
      BY <1>1 DEF ShellStarts, Prints, tabVars
    <3>2. "start" \in Prompts /\ printed \in Seq(Prompts)
      BY <1>0 DEF Prompts, TabTyped
    <3>3. ~stray => ~ready
      BY <1>0, <1>a, <3>1 DEF OneLine, NobodyRuns, Serves, Typed, Runs, Ended, AtPrompt
    <3>4. QED BY <3>1, <3>2, <3>3, Put
  <2>1. TabTyped'
    BY <1>0, <2>0 DEF TabTyped, ShellStates
  <2>2. AtStart'
    BY <1>0, <2>0 DEF AtStart, AtPrompt
  <2>3. OneLine'
    BY <1>0, <2>0 DEF OneLine
  <2>4. EnterFits'
    BY <1>0, <2>0 DEF AtStart, EnterFits, Entering
  <2>5. OneEnters'
    BY <1>0, <2>0 DEF OneEnters, Entering
  <2>6. WaitFits'
    BY <1>0, <2>0 DEF AtStart, WaitFits
  <2>7. AnswerFits'
    BY <1>0, <2>0 DEF AnswerFits
  <2>8. LogFits'
    BY <1>0, <2>0 DEF LogFits, LogOrder, UserWorkShown, NothingNew, Asking
  <2>9. HandedFits'
    BY <1>0, <2>0 DEF HandedFits
  <2>10. NoGap'
    BY <1>0, <2>0 DEF NoGap, Listening
  <2>11. QED BY <2>1, <2>2, <2>3, <2>4, <2>5, <2>6, <2>7, <2>8, <2>9, <2>10 DEF TabsInv
<1>2. CASE TakeLine
  <2>0. /\ shellDoes' \in ShellStates /\ lines' \in Seq(Lines)
        /\ (~stray => ready /\ ~entering /\ (\A c \in Turns : turn[c].at # "marked"))
        /\ (~stray /\ NobodyRuns => NobodyRuns')
        /\ (~stray => \A o \in Turns \cup {"user"} : Serves(o) => Serves(o)' /\ (NoStopSent(o) => NoStopSent(o)'))
        /\ shellDoes # "gone"
        /\ UNCHANGED <<half, printed, ready, tabBusy, tabAlive, log, handed, socket, entering, turn, stray, enters>>
    <3>1. /\ shellDoes = "prompt" /\ lines # <<>> /\ Head(lines) # "^C" /\ shellDoes' = Head(lines) /\ lines' = Tail(lines)
          /\ UNCHANGED <<half, printed, ready, tabBusy, tabAlive, log, handed, socket, entering, turn, stray, enters>>
      BY <1>2 DEF TakeLine, tabVars
    <3>2. /\ Head(lines) \in Lines /\ Tail(lines) \in Seq(Lines)
          /\ (\A x : Only(lines, x) => Head(lines) = x /\ Tail(lines) = <<>>)
          /\ (\A x, y : Pair(lines, x, y) => Head(lines) = x /\ Only(Tail(lines), y))
      BY <1>0, <3>1, Taken DEF TabTyped
    <3>3. shellDoes' \in Owners /\ lines # <<>>
      BY <3>1, <3>2 DEF Lines
    <3>4. ~stray => ready /\ ~entering /\ (\A c \in Turns : turn[c].at # "marked")
      BY <1>0, <3>1, <3>3 DEF AtStart, EnterFits, WaitFits, Settled, AtPrompt
    <3>5. NobodyRuns => NobodyRuns'
      BY <3>1, <3>2 DEF NobodyRuns, InputSpent
    <3>6. \A o \in Turns \cup {"user"} : Serves(o) => Serves(o)' /\ (NoStopSent(o) => NoStopSent(o)')
      BY <1>a, <3>1, <3>2, Empty DEF Serves, Typed, Runs, Ended, InputSpent, NoStopSent
    <3>7. QED BY <3>1, <3>2, <3>3, <3>4, <3>5, <3>6 DEF ShellStates
  <2>1. TabTyped'
    BY <1>0, <2>0 DEF TabTyped
  <2>2. AtStart'
    BY <1>0, <2>0 DEF AtStart
  <2>3. OneLine'
    BY <1>0, <2>0 DEF OneLine
  <2>4. EnterFits'
    BY <1>0, <2>0 DEF EnterFits, Settled, Entering
  <2>5. OneEnters'
    BY <1>0, <2>0 DEF OneEnters, Entering
  <2>6. WaitFits'
    BY <1>0, <2>0 DEF WaitFits, Settled
  <2>7. AnswerFits'
    BY <1>0, <2>0 DEF AnswerFits
  <2>8. LogFits'
    BY <1>0, <2>0 DEF LogFits, LogOrder, UserWorkShown, NothingNew, Asking
  <2>9. HandedFits'
    BY <1>0, <2>0 DEF HandedFits
  <2>10. NoGap'
    BY <1>0, <2>0 DEF NoGap, Listening
  <2>11. QED BY <2>1, <2>2, <2>3, <2>4, <2>5, <2>6, <2>7, <2>8, <2>9, <2>10 DEF TabsInv
<1>3. CASE CommandEnds
  <2>0. /\ shellDoes' = "prompt" /\ lines' \in Seq(Lines) /\ printed' \in Seq(Prompts)
        /\ (~stray => ready /\ ~entering /\ (\A c \in Turns : turn[c].at # "marked"))
        /\ (~stray /\ NobodyRuns => NobodyRuns')
        /\ (~stray => \A o \in Turns \cup {"user"} : Serves(o) => Serves(o)' /\ (NoStopSent(o) => NoStopSent(o)'))
        /\ shellDoes # "gone"
        /\ UNCHANGED <<half, ready, tabBusy, tabAlive, log, handed, socket, entering, turn, stray, enters>>
    <3>1. /\ shellDoes \in Owners /\ printed' = Append(printed, shellDoes) /\ shellDoes' = "prompt"
          /\ UNCHANGED <<half, ready, tabBusy, tabAlive, log, handed, socket, entering, turn, stray, enters>>
      BY <1>3 DEF CommandEnds, Prints, tabVars
    <3>2. /\ lines' \in Seq(Lines) /\ (lines = <<>> => lines' = <<>>) /\ (\A x : Only(lines, x) => lines' \in {lines, <<>>})
      <4>1. lines \in Seq(Lines)
        BY <1>0 DEF TabTyped
      <4>2. CASE lines' = lines
        BY <4>1, <4>2
      <4>3. ASSUME NEW i \in 1..Len(lines), lines' = SubSeq(lines, 1, i - 1) \o SubSeq(lines, i + 1, Len(lines))
            PROVE  lines' \in Seq(Lines) /\ (lines = <<>> => lines' = <<>>) /\ (\A x : Only(lines, x) => lines' \in {lines, <<>>})
        BY <4>1, <4>3, Dropped
      <4>4. QED BY <1>3, <4>2, <4>3 DEF CommandEnds
    <3>3. /\ printed' \in Seq(Prompts) /\ (printed = <<>> => Only(printed', shellDoes))
          /\ shellDoes \notin {"starts", "prompt", "gone"} \/ stray
      <4>1. shellDoes \in Prompts /\ printed \in Seq(Prompts)
        BY <1>0, <3>1 DEF TabTyped, Prompts
      <4>2. QED BY <3>1, <4>1, Put DEF Owners
    <3>4. ~stray => ready /\ ~entering /\ (\A c \in Turns : turn[c].at # "marked")
      BY <1>0, <3>1, <3>3 DEF AtStart, EnterFits, WaitFits, Settled, AtPrompt
    <3>5. ~stray /\ NobodyRuns => NobodyRuns'
      BY <3>1, <3>3 DEF NobodyRuns, AtPrompt
    <3>6. ~stray => \A o \in Turns \cup {"user"} : Serves(o) => Serves(o)' /\ (NoStopSent(o) => NoStopSent(o)')
      BY <1>a, <3>1, <3>2, <3>3, Empty DEF Serves, Typed, Runs, Ended, InputSpent, NoStopSent, AtPrompt
    <3>7. QED BY <3>1, <3>2, <3>3, <3>4, <3>5, <3>6 DEF Owners
  <2>1. TabTyped'
    BY <1>0, <2>0 DEF TabTyped, ShellStates
  <2>2. AtStart'
    BY <1>0, <2>0 DEF AtStart
  <2>3. OneLine'
    BY <1>0, <2>0 DEF OneLine
  <2>4. EnterFits'
    BY <1>0, <2>0 DEF EnterFits, Settled, Entering
  <2>5. OneEnters'
    BY <1>0, <2>0 DEF OneEnters, Entering
  <2>6. WaitFits'
    BY <1>0, <2>0 DEF WaitFits, Settled
  <2>7. AnswerFits'
    BY <1>0, <2>0 DEF AnswerFits
  <2>8. LogFits'
    BY <1>0, <2>0 DEF LogFits, LogOrder, UserWorkShown, NothingNew, Asking
  <2>9. HandedFits'
    BY <1>0, <2>0 DEF HandedFits
  <2>10. NoGap'
    BY <1>0, <2>0 DEF NoGap, Listening
  <2>11. QED BY <2>1, <2>2, <2>3, <2>4, <2>5, <2>6, <2>7, <2>8, <2>9, <2>10 DEF TabsInv
<1>4. CASE Redraw
  <2>0. /\ shellDoes' = "prompt" /\ lines' \in Seq(Lines) /\ printed' \in Seq(Prompts) /\ half' \in BOOLEAN
        /\ (~stray => ready /\ ~entering /\ (\A c \in Turns : turn[c].at # "marked"))
        /\ (~stray /\ NobodyRuns => NobodyRuns')
        /\ (~stray => \A o \in Turns \cup {"user"} : Serves(o) => Serves(o)' /\ (NoStopSent(o) => NoStopSent(o)'))
        /\ shellDoes # "gone"
        /\ UNCHANGED <<ready, tabBusy, tabAlive, log, handed, socket, entering, turn, stray, enters>>
    <3>1. /\ shellDoes = "prompt" /\ lines # <<>> /\ Head(lines) = "^C" /\ lines' = Tail(lines) /\ half' = FALSE
          /\ printed' = Append(printed, "redraw") /\ shellDoes' = "prompt"
          /\ UNCHANGED <<ready, tabBusy, tabAlive, log, handed, socket, entering, turn, stray, enters>>
      BY <1>4 DEF Redraw, Prints, tabVars
    <3>2. /\ Tail(lines) \in Seq(Lines)
          /\ (\A x : Only(lines, x) => Head(lines) = x /\ Tail(lines) = <<>>)
          /\ (\A x, y : Pair(lines, x, y) => Head(lines) = x)
      BY <1>0, <3>1, Taken DEF TabTyped
    <3>3. /\ printed' \in Seq(Prompts) /\ (printed = <<>> => Only(printed', "redraw"))
          /\ (\A y : Only(printed, y) => Pair(printed', y, "redraw"))
      <4>1. "redraw" \in Prompts /\ printed \in Seq(Prompts)
        BY <1>0 DEF TabTyped, Prompts
      <4>2. QED BY <3>1, <4>1, Put
    <3>4. ~stray => ready /\ ~entering /\ (\A c \in Turns : turn[c].at # "marked")
      BY <1>0, <3>1, <3>3 DEF AtStart, EnterFits, WaitFits, Settled, AtPrompt
    <3>5. NobodyRuns => NobodyRuns'
      BY <3>1, <3>2, <3>3, Empty DEF NobodyRuns, InputSpent, AtPrompt
    <3>6. \A o \in Turns \cup {"user"} : Serves(o) => Serves(o)' /\ (NoStopSent(o) => NoStopSent(o)')
      BY <1>a, <3>1, <3>2, <3>3, Empty DEF Serves, Typed, Runs, Ended, InputSpent, NoStopSent, AtPrompt
    <3>7. QED BY <3>1, <3>2, <3>3, <3>4, <3>5, <3>6
  <2>1. TabTyped'
    BY <1>0, <2>0 DEF TabTyped, ShellStates
  <2>2. AtStart'
    BY <1>0, <2>0 DEF AtStart
  <2>3. OneLine'
    BY <1>0, <2>0 DEF OneLine
  <2>4. EnterFits'
    BY <1>0, <2>0 DEF EnterFits, Settled, Entering
  <2>5. OneEnters'
    BY <1>0, <2>0 DEF OneEnters, Entering
  <2>6. WaitFits'
    BY <1>0, <2>0 DEF WaitFits, Settled
  <2>7. AnswerFits'
    BY <1>0, <2>0 DEF AnswerFits
  <2>8. LogFits'
    BY <1>0, <2>0 DEF LogFits, LogOrder, UserWorkShown, NothingNew, Asking
  <2>9. HandedFits'
    BY <1>0, <2>0 DEF HandedFits
  <2>10. NoGap'
    BY <1>0, <2>0 DEF NoGap, Listening
  <2>11. QED BY <2>1, <2>2, <2>3, <2>4, <2>5, <2>6, <2>7, <2>8, <2>9, <2>10 DEF TabsInv
<1>5. CASE ShellExits
  <2>0. /\ shellDoes' = "gone" /\ lines' = <<>> /\ half' = FALSE /\ lines' \in Seq(Lines) /\ AtPrompt'
        /\ (~stray /\ ready /\ NobodyRuns => NobodyRuns')
        /\ (\A o : Serves(o) => Serves(o)' \/ (NobodyRuns' /\ printed' = <<>>))
        /\ (\A o : NoStopSent(o) => NoStopSent(o)')
        /\ (shellDoes = "gone" => AtPrompt)
        /\ UNCHANGED <<printed, ready, tabBusy, tabAlive, log, handed, socket, entering, turn, stray, enters>>
    <3>1. /\ shellDoes' = "gone" /\ lines' = <<>> /\ half' = FALSE
          /\ UNCHANGED <<printed, ready, tabBusy, tabAlive, log, handed, socket, entering, turn, stray, enters>>
      BY <1>5 DEF ShellExits, tabVars
    <3>2. lines' \in Seq(Lines) /\ AtPrompt'
      BY <3>1, Empty DEF AtPrompt
    <3>3. NobodyRuns => NobodyRuns'
      BY <3>1 DEF NobodyRuns, InputSpent, AtPrompt
    <3>4. \A o : Serves(o) => Serves(o)' \/ (NobodyRuns' /\ printed' = <<>>)
      BY <3>1 DEF NobodyRuns, Serves, Typed, Runs, Ended, InputSpent, AtPrompt
    <3>5. \A o : NoStopSent(o) => NoStopSent(o)'
      BY <3>1 DEF NoStopSent
    <3>6. QED BY <3>1, <3>2, <3>3, <3>4, <3>5 DEF AtPrompt
  <2>1. TabTyped'
    BY <1>0, <2>0 DEF TabTyped, ShellStates
  <2>2. AtStart'
    BY <1>0, <2>0 DEF AtStart
  <2>3. OneLine'
    BY <1>0, <2>0 DEF OneLine
  <2>4. EnterFits'
    BY <1>0, <2>0 DEF EnterFits, Settled, Entering
  <2>5. OneEnters'
    BY <1>0, <2>0 DEF OneEnters, Entering
  <2>6. WaitFits'
    BY <1>0, <2>0 DEF WaitFits, Settled
  <2>7. AnswerFits'
    BY <1>0, <2>0 DEF AnswerFits
  <2>8. LogFits'
    BY <1>0, <2>0 DEF LogFits, LogOrder, UserWorkShown, NothingNew, Asking
  <2>9. HandedFits'
    BY <1>0, <2>0 DEF HandedFits
  <2>10. NoGap'
    BY <1>0, <2>0 DEF NoGap, Listening
  <2>11. QED BY <2>1, <2>2, <2>3, <2>4, <2>5, <2>6, <2>7, <2>8, <2>9, <2>10 DEF TabsInv
<1>6. CASE Read
  <2>0. /\ tabAlive /\ handed = NoChunk /\ printed # <<>> /\ printed' \in Seq(Prompts)
        /\ ready' = TRUE /\ tabBusy' = FALSE /\ handed' = [what |-> "chunk", to |-> Listening] /\ handed' \in Chunks
        /\ stray' \in BOOLEAN /\ (~stray' => ~stray /\ ~entering /\ (\A c \in Turns : turn[c].at # "marked"))
        /\ (~stray' => NobodyRuns')
        /\ turn' \in [Turns -> TurnStates]
        /\ (\A c \in Turns : turn'[c].at = turn[c].at /\ turn'[c].outcome = turn[c].outcome)
        /\ (\A c \in Turns : turn[c].got # "none" \/ turn[c].at \notin {"marked", "waiting", "stopping"} => turn'[c].got = turn[c].got)
        /\ (\A c \in Turns : ~stray' /\ turn[c].at \in {"waiting", "stopping"} /\ turn[c].got = "none" => turn'[c].got = c /\ c # "none")
        /\ log' \in Logs /\ LogOrder' /\ (Asking # {} => NothingNew')
        /\ socket' \in [Sockets -> SocketStates]
        /\ (\A w \in Sockets : socket'[w].at = socket[w].at /\ socket'[w].behind = (IF socket[w].at = "in" THEN 1 ELSE socket[w].behind))
        /\ UNCHANGED <<shellDoes, lines, half, tabAlive, entering, enters>>
    <3> DEFINE owner == Head(printed)
    <3>1. /\ tabAlive /\ handed = NoChunk /\ printed # <<>> /\ printed' = Tail(printed)
          /\ ready' = TRUE /\ tabBusy' = FALSE /\ handed' = [what |-> "chunk", to |-> Listening]
          /\ Fed(owner) /\ stray' = (stray \/ entering)
          /\ UNCHANGED <<shellDoes, lines, half, tabAlive, entering, enters>>
      BY <1>6 DEF Read
    <3>2. /\ owner \in Prompts /\ printed' \in Seq(Prompts)
          /\ (\A x : Only(printed, x) => owner = x /\ printed' = <<>>)
          /\ (\A x, y : Pair(printed, x, y) => owner = x /\ Only(printed', y))
      BY <1>0, <3>1, Taken DEF TabTyped
    <3> HIDE DEF owner
    <3>3. stray' \in BOOLEAN /\ (~stray' => ~stray /\ ~entering)
      BY <1>0, <3>1 DEF TabTyped
    <3>4. ~stray' => \A c \in Turns : turn[c].at # "marked"
      BY <1>0, <3>1, <3>3 DEF WaitFits, Settled
    <3>5. ~stray' => NobodyRuns'
      <4>1. SUFFICES ASSUME ~stray' PROVE NobodyRuns'
        OBVIOUS
      <4>2. CASE ~ready
        BY <1>0, <3>1, <3>2, <3>3, <4>1, <4>2 DEF AtStart, NobodyRuns, InputSpent, AtPrompt
      <4>3. CASE ready /\ NobodyRuns
        BY <3>1, <3>2, <4>3 DEF NobodyRuns, InputSpent, AtPrompt
      <4>4. ASSUME ready, NEW o \in Turns \cup {"user"}, Serves(o) PROVE NobodyRuns'
        BY <3>1, <3>2, <4>4 DEF NobodyRuns, Serves, Typed, Runs, Ended, InputSpent, AtPrompt
      <4>5. QED BY <1>0, <3>3, <4>1, <4>2, <4>3, <4>4 DEF OneLine
    <3>6. /\ turn' \in [Turns -> TurnStates]
          /\ (\A c \in Turns : turn'[c].at = turn[c].at /\ turn'[c].outcome = turn[c].outcome)
          /\ (\A c \in Turns : turn'[c].got = (IF turn[c].at \in {"marked", "waiting", "stopping"} /\ turn[c].got = "none" THEN owner ELSE turn[c].got))
      <4>1. turn' = [c \in Turns |-> IF turn[c].at \in {"marked", "waiting", "stopping"} /\ turn[c].got = "none"
                                    THEN [turn[c] EXCEPT !.got = owner] ELSE turn[c]]
        BY <3>1 DEF Fed
      <4>2. \A c \in Turns : /\ turn[c] \in TurnStates /\ [turn[c] EXCEPT !.got = owner] \in TurnStates
                             /\ [turn[c] EXCEPT !.got = owner].at = turn[c].at /\ [turn[c] EXCEPT !.got = owner].outcome = turn[c].outcome
                             /\ [turn[c] EXCEPT !.got = owner].got = owner
        BY <1>0, <3>2 DEF TabTyped, TurnStates
      <4>3. QED BY <4>1, <4>2
    <3>7. \A c \in Turns : ~stray' /\ turn[c].at \in {"waiting", "stopping"} /\ turn[c].got = "none" => owner = c /\ c # "none"
      <4>1. SUFFICES ASSUME NEW c \in Turns, ~stray', turn[c].at \in {"waiting", "stopping"}, turn[c].got = "none"
                     PROVE  owner = c /\ c # "none"
        OBVIOUS
      <4>2. Serves(c)
        BY <1>0, <3>1, <3>3, <4>1 DEF WaitFits
      <4>3. QED BY <1>a, <3>1, <3>2, <4>2 DEF Serves, Typed, Runs, Ended
    <3>8. log' \in Logs /\ LogOrder' /\ (Asking # {} => NothingNew')
      <4>1. log \in Logs /\ LogOrder /\ (Asking # {} => NothingNew)
        BY <1>0 DEF TabTyped, LogFits
      <4>2. CASE log' = log
        BY <4>1, <4>2 DEF LogOrder, UserWorkShown, NothingNew
      <4>3. CASE log' = Append(log, IF Asking = {} THEN "new" ELSE "crossed")
        <5> DEFINE x == IF Asking = {} THEN "new" ELSE "crossed"
        <5>1. x \in Unseen /\ (Asking # {} => x # "new") /\ log' = Append(log, x)
          BY <4>3 DEF Unseen
        <5> HIDE DEF x
        <5>2. QED BY <4>1, <5>1, LogGrows
      <4>4. QED BY <3>1, <4>2, <4>3 DEF Fed
    <3>9. /\ socket' \in [Sockets -> SocketStates]
          /\ (\A w \in Sockets : socket'[w].at = socket[w].at /\ socket'[w].behind = (IF socket[w].at = "in" THEN 1 ELSE socket[w].behind))
      <4>1. socket' = [w \in Sockets |-> IF socket[w].at = "in" THEN [socket[w] EXCEPT !.behind = @ + 1] ELSE socket[w]]
        BY <3>1 DEF Fed
      <4>2. \A w \in Sockets : socket[w] \in SocketStates /\ (socket[w].at = "in" => socket[w].behind = 0)
        BY <1>0, <3>1 DEF TabTyped, NoGap, Listening, NoChunk
      <4>3. \A w \in Sockets : socket[w].at = "in" =>
               /\ [socket[w] EXCEPT !.behind = @ + 1] \in SocketStates /\ [socket[w] EXCEPT !.behind = @ + 1].at = "in"
               /\ [socket[w] EXCEPT !.behind = @ + 1].behind = 1
        BY <4>2 DEF SocketStates
      <4>4. QED BY <4>1, <4>2, <4>3
    <3>10. handed' \in Chunks
      BY <3>1 DEF Chunks, Listening
    <3>11. QED BY <3>1, <3>2, <3>3, <3>4, <3>5, <3>6, <3>7, <3>8, <3>9, <3>10
  <2>1. TabTyped'
    BY <1>0, <2>0 DEF TabTyped
  <2>2. AtStart'
    BY <1>0, <2>0 DEF AtStart
  <2>3. OneLine'
    BY <1>0, <2>0 DEF OneLine
  <2>4. EnterFits'
    BY <1>0, <2>0 DEF EnterFits, Settled, Entering
  <2>5. OneEnters'
    BY <1>0, <2>0 DEF OneEnters, Entering
  <2>6. WaitFits'
    BY <1>0, <2>0, <1>a DEF WaitFits
  <2>7. AnswerFits'
    BY <1>0, <2>0 DEF AnswerFits
  <2>8. LogFits'
    <3>1. Asking' = Asking
      BY <2>0 DEF Asking
    <3>2. QED BY <2>0, <3>1 DEF LogFits
  <2>9. HandedFits'
    BY <1>0, <2>0 DEF HandedFits, Listening
  <2>10. NoGap'
    BY <1>0, <2>0 DEF NoGap, Listening, HandedFits
  <2>11. QED BY <2>1, <2>2, <2>3, <2>4, <2>5, <2>6, <2>7, <2>8, <2>9, <2>10 DEF TabsInv
<1>7. CASE HandOn
  <2>0. /\ handed # NoChunk /\ handed' = NoChunk /\ handed' \in Chunks
        /\ socket' \in [Sockets -> SocketStates]
        /\ (\A w \in Sockets : w \notin handed.to \/ socket[w].at # "in" => socket'[w] = socket[w])
        /\ (\A w \in Sockets : w \in handed.to /\ socket[w].at = "in" =>
               IF handed.what = "end" THEN socket'[w].at = "out" /\ socket'[w].behind = 0
               ELSE socket'[w].at = "in" /\ socket'[w].behind = 0 /\ handed.what = "chunk")
        /\ (NobodyRuns' <=> NobodyRuns) /\ (AtPrompt' <=> AtPrompt) /\ (\A o : (Serves(o)' <=> Serves(o)) /\ (NoStopSent(o)' <=> NoStopSent(o)))
        /\ UNCHANGED <<shellDoes, lines, half, printed, ready, tabBusy, tabAlive, log, entering, turn, stray, enters>>
    <3>1. /\ handed # NoChunk /\ handed' = NoChunk
          /\ socket' = [w \in Sockets |-> IF w \notin handed.to \/ socket[w].at # "in" THEN socket[w]
                                         ELSE IF handed.what = "end" THEN NoSocket
                                         ELSE [socket[w] EXCEPT !.behind = @ - 1]]
          /\ UNCHANGED <<shellDoes, lines, half, printed, ready, tabBusy, tabAlive, log, entering, turn, stray, enters>>
      BY <1>7 DEF HandOn, shellVars, tabVars
    <3>2. NoChunk \in Chunks
      BY DEF NoChunk, Chunks
    <3>3. \A w \in Sockets : /\ socket[w] \in SocketStates
                             /\ w \in handed.to /\ socket[w].at = "in" /\ handed.what # "end" => socket[w].behind = 1 /\ handed.what = "chunk"
      BY <1>0 DEF TabTyped, NoGap, Listening, HandedFits, Chunks
    <3>4. \A w \in Sockets : socket[w].behind = 1 =>
             /\ [socket[w] EXCEPT !.behind = @ - 1] \in SocketStates /\ [socket[w] EXCEPT !.behind = @ - 1].at = socket[w].at
             /\ [socket[w] EXCEPT !.behind = @ - 1].behind = 0
      BY <3>3 DEF SocketStates
    <3>5. QED BY <3>1, <3>2, <3>3, <3>4, NoSocketFields, ShellRests
  <2>1. TabTyped'
    BY <1>0, <2>0 DEF TabTyped
  <2>2. AtStart'
    BY <1>0, <2>0 DEF AtStart
  <2>3. OneLine'
    BY <1>0, <2>0 DEF OneLine
  <2>4. EnterFits'
    BY <1>0, <2>0 DEF EnterFits, Settled, Entering
  <2>5. OneEnters'
    BY <1>0, <2>0 DEF OneEnters, Entering
  <2>6. WaitFits'
    BY <1>0, <2>0 DEF WaitFits, Settled
  <2>7. AnswerFits'
    BY <1>0, <2>0 DEF AnswerFits
  <2>8. LogFits'
    BY <1>0, <2>0 DEF LogFits, LogOrder, UserWorkShown, NothingNew, Asking
  <2>9. HandedFits'
    BY <1>0, <2>0 DEF HandedFits, NoChunk
  <2>10. NoGap'
    BY <1>0, <2>0 DEF NoGap, Listening, HandedFits, NoChunk
  <2>11. QED BY <2>1, <2>2, <2>3, <2>4, <2>5, <2>6, <2>7, <2>8, <2>9, <2>10 DEF TabsInv
<1>8. CASE ReadEnds
  <2>0. /\ tabAlive /\ handed = NoChunk /\ tabAlive' = FALSE /\ handed' = [what |-> "end", to |-> Listening] /\ handed' \in Chunks
        /\ (NobodyRuns' <=> NobodyRuns) /\ (AtPrompt' <=> AtPrompt) /\ (\A o : (Serves(o)' <=> Serves(o)) /\ (NoStopSent(o)' <=> NoStopSent(o)))
        /\ UNCHANGED <<shellDoes, lines, half, printed, ready, tabBusy, log, socket, entering, turn, stray, enters>>
    <3>1. handed' = [what |-> "end", to |-> Listening]
      BY <1>8 DEF ReadEnds
    <3>2. handed' \in Chunks
      BY <3>1 DEF Chunks, Listening
    <3>3. QED BY <1>8, <3>1, <3>2, ShellRests DEF ReadEnds, shellVars
  <2>1. TabTyped'
    BY <1>0, <2>0 DEF TabTyped
  <2>2. AtStart'
    BY <1>0, <2>0 DEF AtStart
  <2>3. OneLine'
    BY <1>0, <2>0 DEF OneLine
  <2>4. EnterFits'
    BY <1>0, <2>0 DEF EnterFits, Settled, Entering
  <2>5. OneEnters'
    BY <1>0, <2>0 DEF OneEnters, Entering
  <2>6. WaitFits'
    BY <1>0, <2>0 DEF WaitFits, Settled
  <2>7. AnswerFits'
    BY <1>0, <2>0 DEF AnswerFits
  <2>8. LogFits'
    BY <1>0, <2>0 DEF LogFits, LogOrder, UserWorkShown, NothingNew, Asking
  <2>9. HandedFits'
    BY <1>0, <2>0 DEF HandedFits, Listening
  <2>10. NoGap'
    BY <1>0, <2>0 DEF NoGap, Listening, NoChunk
  <2>11. QED BY <2>1, <2>2, <2>3, <2>4, <2>5, <2>6, <2>7, <2>8, <2>9, <2>10 DEF TabsInv
<1>9. ASSUME NEW w \in Sockets, OpenSocket(w) PROVE TabsInv'
  <2>0. /\ socket[w].at = "out"
        /\ socket' \in [Sockets -> SocketStates] /\ socket'[w].at = "found" /\ socket'[w].behind = socket[w].behind /\ (\A v \in Sockets : v # w => socket'[v] = socket[v])
        /\ (NobodyRuns' <=> NobodyRuns) /\ (AtPrompt' <=> AtPrompt) /\ (\A o : (Serves(o)' <=> Serves(o)) /\ (NoStopSent(o)' <=> NoStopSent(o)))
        /\ UNCHANGED <<shellDoes, lines, half, printed, ready, tabBusy, tabAlive, log, handed, entering, turn, stray, enters>>
    BY <1>0, <1>9, SocketMoves, ShellRests DEF OpenSocket, shellVars, tabVars
  <2>1. TabTyped'
    BY <1>0, <2>0 DEF TabTyped
  <2>2. AtStart'
    BY <1>0, <2>0 DEF AtStart
  <2>3. OneLine'
    BY <1>0, <2>0 DEF OneLine
  <2>4. EnterFits'
    BY <1>0, <2>0 DEF EnterFits, Settled, Entering
  <2>5. OneEnters'
    BY <1>0, <2>0 DEF OneEnters, Entering
  <2>6. WaitFits'
    BY <1>0, <2>0 DEF WaitFits, Settled
  <2>7. AnswerFits'
    BY <1>0, <2>0 DEF AnswerFits
  <2>8. LogFits'
    BY <1>0, <2>0 DEF LogFits, LogOrder, UserWorkShown, NothingNew, Asking
  <2>9. HandedFits'
    BY <1>0, <2>0 DEF HandedFits
  <2>10. NoGap'
    BY <1>0, <2>0 DEF NoGap, Listening
  <2>11. QED BY <2>1, <2>2, <2>3, <2>4, <2>5, <2>6, <2>7, <2>8, <2>9, <2>10 DEF TabsInv
<1>10. ASSUME NEW w \in Sockets, Subscribe(w) PROVE TabsInv'
  <2>0. /\ socket[w].at = "found"
        /\ socket' \in [Sockets -> SocketStates] /\ socket'[w].at = (IF tabAlive THEN "in" ELSE "late") /\ socket'[w].behind = socket[w].behind /\ (\A v \in Sockets : v # w => socket'[v] = socket[v])
        /\ (NobodyRuns' <=> NobodyRuns) /\ (AtPrompt' <=> AtPrompt) /\ (\A o : (Serves(o)' <=> Serves(o)) /\ (NoStopSent(o)' <=> NoStopSent(o)))
        /\ UNCHANGED <<shellDoes, lines, half, printed, ready, tabBusy, tabAlive, log, handed, entering, turn, stray, enters>>
    <3>1. SocketTo(w, IF tabAlive THEN "in" ELSE "late") /\ socket[w].at = "found"
      BY <1>10 DEF Subscribe
    <3>2. (IF tabAlive THEN "in" ELSE "late") \in {"out", "found", "in", "late"}
      OBVIOUS
    <3>3. QED BY <1>0, <1>10, <3>1, <3>2, SocketMoves, ShellRests DEF Subscribe, shellVars, tabVars
  <2>1. TabTyped'
    BY <1>0, <2>0 DEF TabTyped
  <2>2. AtStart'
    BY <1>0, <2>0 DEF AtStart
  <2>3. OneLine'
    BY <1>0, <2>0 DEF OneLine
  <2>4. EnterFits'
    BY <1>0, <2>0 DEF EnterFits, Settled, Entering
  <2>5. OneEnters'
    BY <1>0, <2>0 DEF OneEnters, Entering
  <2>6. WaitFits'
    BY <1>0, <2>0 DEF WaitFits, Settled
  <2>7. AnswerFits'
    BY <1>0, <2>0 DEF AnswerFits
  <2>8. LogFits'
    BY <1>0, <2>0 DEF LogFits, LogOrder, UserWorkShown, NothingNew, Asking
  <2>9. HandedFits'
    BY <1>0, <2>0 DEF HandedFits
  <2>10. NoGap'
    BY <1>0, <2>0 DEF NoGap, Listening, HandedFits
  <2>11. QED BY <2>1, <2>2, <2>3, <2>4, <2>5, <2>6, <2>7, <2>8, <2>9, <2>10 DEF TabsInv
<1>11. ASSUME NEW w \in Sockets, Unsubscribe(w) PROVE TabsInv'
  <2>0. /\ socket' \in [Sockets -> SocketStates] /\ socket'[w].at = "out" /\ socket'[w].behind = 0 /\ (\A v \in Sockets : v # w => socket'[v] = socket[v])
        /\ handed' \in Chunks /\ handed'.what = handed.what /\ handed'.to = handed.to \ {w}
        /\ (NobodyRuns' <=> NobodyRuns) /\ (AtPrompt' <=> AtPrompt) /\ (\A o : (Serves(o)' <=> Serves(o)) /\ (NoStopSent(o)' <=> NoStopSent(o)))
        /\ UNCHANGED <<shellDoes, lines, half, printed, ready, tabBusy, tabAlive, log, entering, turn, stray, enters>>
    <3>1. socket' = [socket EXCEPT ![w] = NoSocket] /\ handed' = [handed EXCEPT !.to = @ \ {w}]
      BY <1>11 DEF Unsubscribe
    <3>2. handed' \in Chunks /\ handed'.what = handed.what /\ handed'.to = handed.to \ {w}
      BY <1>0, <3>1 DEF TabTyped, Chunks
    <3>3. QED BY <1>0, <1>11, <3>1, <3>2, SocketBecomes, NoSocketFields, ShellRests DEF Unsubscribe, shellVars, tabVars
  <2>1. TabTyped'
    BY <1>0, <2>0 DEF TabTyped
  <2>2. AtStart'
    BY <1>0, <2>0 DEF AtStart
  <2>3. OneLine'
    BY <1>0, <2>0 DEF OneLine
  <2>4. EnterFits'
    BY <1>0, <2>0 DEF EnterFits, Settled, Entering
  <2>5. OneEnters'
    BY <1>0, <2>0 DEF OneEnters, Entering
  <2>6. WaitFits'
    BY <1>0, <2>0 DEF WaitFits, Settled
  <2>7. AnswerFits'
    BY <1>0, <2>0 DEF AnswerFits
  <2>8. LogFits'
    BY <1>0, <2>0 DEF LogFits, LogOrder, UserWorkShown, NothingNew, Asking
  <2>9. HandedFits'
    BY <1>0, <2>0 DEF HandedFits
  <2>10. NoGap'
    BY <1>0, <2>0 DEF NoGap, Listening
  <2>11. QED BY <2>1, <2>2, <2>3, <2>4, <2>5, <2>6, <2>7, <2>8, <2>9, <2>10 DEF TabsInv
<1>12. CASE TypeKeys
  <2>0. /\ half' = TRUE
        /\ (NobodyRuns' <=> NobodyRuns) /\ (AtPrompt' <=> AtPrompt) /\ (\A o : (Serves(o)' <=> Serves(o)) /\ (NoStopSent(o)' <=> NoStopSent(o)))
        /\ UNCHANGED <<shellDoes, lines, printed, ready, tabBusy, tabAlive, log, handed, socket, entering, turn, stray, enters>>
    BY <1>12, ShellRests DEF TypeKeys, tabVars
  <2>1. TabTyped'
    BY <1>0, <2>0 DEF TabTyped
  <2>2. AtStart'
    BY <1>0, <2>0 DEF AtStart
  <2>3. OneLine'
    BY <1>0, <2>0 DEF OneLine
  <2>4. EnterFits'
    BY <1>0, <2>0 DEF EnterFits, Settled, Entering
  <2>5. OneEnters'
    BY <1>0, <2>0 DEF OneEnters, Entering
  <2>6. WaitFits'
    BY <1>0, <2>0 DEF WaitFits, Settled
  <2>7. AnswerFits'
    BY <1>0, <2>0 DEF AnswerFits
  <2>8. LogFits'
    BY <1>0, <2>0 DEF LogFits, LogOrder, UserWorkShown, NothingNew, Asking
  <2>9. HandedFits'
    BY <1>0, <2>0 DEF HandedFits
  <2>10. NoGap'
    BY <1>0, <2>0 DEF NoGap, Listening
  <2>11. QED BY <2>1, <2>2, <2>3, <2>4, <2>5, <2>6, <2>7, <2>8, <2>9, <2>10 DEF TabsInv
<1>13. CASE EnterMarks
  <2>0. /\ tabAlive /\ ~entering /\ entering' = TRUE /\ tabBusy' = TRUE /\ enters' \in 0..MaxEnters
        /\ stray' \in BOOLEAN /\ (~stray' => ~stray /\ ready /\ shellDoes = "prompt" /\ lines = <<>> /\ printed = <<>> /\ Entering = {} /\ AtPrompt)
        /\ (NobodyRuns' <=> NobodyRuns) /\ (AtPrompt' <=> AtPrompt) /\ (\A o : (Serves(o)' <=> Serves(o)) /\ (NoStopSent(o)' <=> NoStopSent(o)))
        /\ UNCHANGED <<shellDoes, lines, half, printed, ready, tabAlive, log, handed, socket, turn>>
    <3>1. /\ tabAlive /\ ~entering /\ entering' = TRUE /\ tabBusy' = TRUE /\ enters < MaxEnters /\ enters' = enters + 1
          /\ stray' = (stray \/ Unsettled \/ Entering # {})
          /\ UNCHANGED <<shellDoes, lines, half, printed, ready, tabAlive, log, handed, socket, turn>>
      BY <1>13 DEF EnterMarks, shellVars
    <3>2. enters' \in 0..MaxEnters
      BY <1>0, <3>1 DEF TabTyped
    <3>3. QED BY <3>1, <3>2, ShellRests DEF Unsettled, AtPrompt
  <2>1. TabTyped'
    BY <1>0, <2>0 DEF TabTyped
  <2>2. AtStart'
    BY <1>0, <2>0 DEF AtStart
  <2>3. OneLine'
    BY <1>0, <2>0 DEF OneLine, NobodyRuns, InputSpent
  <2>4. EnterFits'
    BY <1>0, <2>0 DEF EnterFits, Settled, Entering
  <2>5. OneEnters'
    BY <1>0, <2>0 DEF OneEnters, Entering
  <2>6. WaitFits'
    BY <1>0, <2>0 DEF WaitFits, Settled, Entering
  <2>7. AnswerFits'
    BY <1>0, <2>0 DEF AnswerFits
  <2>8. LogFits'
    BY <1>0, <2>0 DEF LogFits, LogOrder, UserWorkShown, NothingNew, Asking
  <2>9. HandedFits'
    BY <1>0, <2>0 DEF HandedFits
  <2>10. NoGap'
    BY <1>0, <2>0 DEF NoGap, Listening
  <2>11. QED BY <2>1, <2>2, <2>3, <2>4, <2>5, <2>6, <2>7, <2>8, <2>9, <2>10 DEF TabsInv
<1>14. CASE EnterTypes
  <2>0. /\ entering /\ entering' = FALSE /\ half' = FALSE /\ lines' \in Seq(Lines)
        /\ (~stray => ready /\ tabBusy /\ (\A c \in Turns : turn[c].at \notin {"quiet", "marked"}))
        /\ (~stray => NobodyRuns' \/ Serves("user")')
        /\ (~stray => \A c \in Turns : ~Serves(c))
        /\ (~stray /\ shellDoes = "gone" => lines' = lines)
        /\ (~stray => printed = <<>> /\ lines = <<>>)
        /\ UNCHANGED <<shellDoes, printed, ready, tabBusy, tabAlive, log, handed, socket, turn, stray, enters>>
    <3>1. /\ entering /\ entering' = FALSE /\ half' = FALSE
          /\ lines' = (IF ShellLives THEN Append(lines, "user") ELSE lines)
          /\ UNCHANGED <<shellDoes, printed, ready, tabBusy, tabAlive, log, handed, socket, turn, stray, enters>>
      BY <1>14 DEF EnterTypes, tabVars
    <3>2. "user" \in Lines /\ lines \in Seq(Lines)
      BY <1>0 DEF Lines, Owners, TabTyped
    <3>3. lines' \in Seq(Lines) /\ (ShellLives /\ lines = <<>> => Only(lines', "user"))
      BY <3>1, <3>2, Put
    <3>4. ~stray => Settled /\ Entering = {}
      BY <1>0, <3>1 DEF EnterFits
    <3>5. ~stray => NobodyRuns' \/ Serves("user")'
      BY <3>1, <3>3, <3>4 DEF Settled, NobodyRuns, Serves, Typed, AtPrompt, InputSpent, ShellLives
    <3>6. ~stray => \A c \in Turns : ~Serves(c)
      BY <3>4, SettledIsFree, NobodyServes
    <3>7. QED BY <3>1, <3>3, <3>4, <3>5, <3>6 DEF Settled, Entering, ShellLives
  <2>1. TabTyped'
    BY <1>0, <2>0 DEF TabTyped
  <2>2. AtStart'
    BY <1>0, <2>0 DEF AtStart
  <2>3. OneLine'
    BY <1>0, <2>0 DEF OneLine
  <2>4. EnterFits'
    BY <1>0, <2>0 DEF EnterFits, Settled, Entering
  <2>5. OneEnters'
    BY <1>0, <2>0 DEF OneEnters, Entering
  <2>6. WaitFits'
    <3>1. SUFFICES ASSUME ~stray, NEW c \in Turns, turn[c].at \in {"waiting", "stopping"}, turn[c].got = "none"
                   PROVE  shellDoes = "gone" /\ printed = <<>> /\ (turn[c].at = "waiting" => NoStopSent(c)')
      BY <1>0, <2>0 DEF WaitFits
    <3>2. shellDoes = "gone" /\ printed = <<>> /\ (turn[c].at = "waiting" => NoStopSent(c))
      BY <1>0, <2>0, <3>1 DEF WaitFits
    <3>3. QED BY <2>0, <3>1, <3>2 DEF NoStopSent
  <2>7. AnswerFits'
    BY <1>0, <2>0 DEF AnswerFits
  <2>8. LogFits'
    BY <1>0, <2>0 DEF LogFits, LogOrder, UserWorkShown, NothingNew, Asking
  <2>9. HandedFits'
    BY <1>0, <2>0 DEF HandedFits
  <2>10. NoGap'
    BY <1>0, <2>0 DEF NoGap, Listening
  <2>11. QED BY <2>1, <2>2, <2>3, <2>4, <2>5, <2>6, <2>7, <2>8, <2>9, <2>10 DEF TabsInv
<1>15. CASE ReadTab
  <2>0. /\ log' \in Logs /\ LogOrder' /\ NothingNew'
        /\ (NobodyRuns' <=> NobodyRuns) /\ (AtPrompt' <=> AtPrompt) /\ (\A o : (Serves(o)' <=> Serves(o)) /\ (NoStopSent(o)' <=> NoStopSent(o)))
        /\ UNCHANGED <<shellDoes, lines, half, printed, ready, tabBusy, tabAlive, handed, socket, entering, turn, stray, enters>>
    <3>1. log \in Logs /\ LogOrder
      BY <1>0 DEF TabTyped, LogFits
    <3>2. ShownOf(Unseen \cup Seen)
      BY <1>15 DEF ReadTab
    <3>3. Unseen \subseteq (Unseen \cup Seen)
      OBVIOUS
    <3>4. log' \in Logs /\ LogOrder' /\ NothingNew'
      BY <3>1, <3>2, <3>3, LogTold
    <3>5. QED BY <1>15, <3>4, ShellRests DEF ReadTab, shellVars, tabVars
  <2>1. TabTyped'
    BY <1>0, <2>0 DEF TabTyped
  <2>2. AtStart'
    BY <1>0, <2>0 DEF AtStart
  <2>3. OneLine'
    BY <1>0, <2>0 DEF OneLine
  <2>4. EnterFits'
    BY <1>0, <2>0 DEF EnterFits, Settled, Entering
  <2>5. OneEnters'
    BY <1>0, <2>0 DEF OneEnters, Entering
  <2>6. WaitFits'
    BY <1>0, <2>0 DEF WaitFits, Settled
  <2>7. AnswerFits'
    BY <1>0, <2>0 DEF AnswerFits
  <2>8. LogFits'
    BY <2>0 DEF LogFits
  <2>9. HandedFits'
    BY <1>0, <2>0 DEF HandedFits
  <2>10. NoGap'
    BY <1>0, <2>0 DEF NoGap, Listening
  <2>11. QED BY <2>1, <2>2, <2>3, <2>4, <2>5, <2>6, <2>7, <2>8, <2>9, <2>10 DEF TabsInv
<1>16. ASSUME NEW c \in Turns, Recent(c) PROVE TabsInv'
  <2>0. /\ turn[c].at = "idle"
        /\ turn' \in [Turns -> TurnStates] /\ turn'[c].at = "asked" /\ turn'[c].outcome = turn[c].outcome /\ turn'[c].got = turn[c].got
        /\ (\A d \in Turns : d # c => turn'[d] = turn[d])
        /\ log' \in Logs /\ LogOrder' /\ NothingNew'
        /\ (NobodyRuns' <=> NobodyRuns) /\ (AtPrompt' <=> AtPrompt) /\ (\A o : (Serves(o)' <=> Serves(o)) /\ (NoStopSent(o)' <=> NoStopSent(o)))
        /\ UNCHANGED <<shellDoes, lines, half, printed, ready, tabBusy, tabAlive, handed, socket, entering, stray, enters>>
    <3>1. log \in Logs /\ LogOrder
      BY <1>0 DEF TabTyped, LogFits
    <3>2. ShownOf(Unseen)
      BY <1>16 DEF Recent
    <3>3. Unseen \subseteq Unseen
      OBVIOUS
    <3>4. log' \in Logs /\ LogOrder' /\ NothingNew'
      BY <3>1, <3>2, <3>3, LogTold
    <3>5. TurnTo(c, "asked") /\ "asked" \in TurnPlaces
      BY <1>16 DEF Recent, TurnPlaces
    <3>6. QED BY <1>0, <1>16, <3>4, <3>5, TurnMoves, ShellRests DEF Recent, shellVars, tabVars
  <2>1. TabTyped'
    BY <1>0, <2>0 DEF TabTyped
  <2>2. AtStart'
    BY <1>0, <2>0 DEF AtStart
  <2>3. OneLine'
    BY <1>0, <2>0 DEF OneLine
  <2>4. EnterFits'
    BY <1>0, <2>0 DEF EnterFits, Settled, Entering
  <2>5. OneEnters'
    BY <1>0, <2>0 DEF OneEnters, Entering
  <2>6. WaitFits'
    BY <1>0, <2>0 DEF WaitFits, Settled
  <2>7. AnswerFits'
    BY <1>0, <2>0 DEF AnswerFits
  <2>8. LogFits'
    BY <2>0 DEF LogFits
  <2>9. HandedFits'
    BY <1>0, <2>0 DEF HandedFits
  <2>10. NoGap'
    BY <1>0, <2>0 DEF NoGap, Listening
  <2>11. QED BY <2>1, <2>2, <2>3, <2>4, <2>5, <2>6, <2>7, <2>8, <2>9, <2>10 DEF TabsInv
<1>17. ASSUME NEW c \in Turns, Begin(c) PROVE TabsInv'
  <2>0. /\ turn[c].at = "asked" /\ turn' \in [Turns -> TurnStates] /\ (\A d \in Turns : d # c => turn'[d] = turn[d]) /\ turn'[c].got = turn[c].got
        /\ stray' \in BOOLEAN /\ (~stray' => ~stray)
        /\ \/ turn'[c].at = "ran" /\ turn'[c].outcome \in {"closed", "not_ready", "busy"}
           \/ turn'[c].at = "quiet" /\ turn'[c].outcome = turn[c].outcome /\ ready /\ ~tabBusy /\ (~stray' => Entering = {})
        /\ (NobodyRuns' <=> NobodyRuns) /\ (AtPrompt' <=> AtPrompt) /\ (\A o : (Serves(o)' <=> Serves(o)) /\ (NoStopSent(o)' <=> NoStopSent(o)))
        /\ UNCHANGED <<shellDoes, lines, half, printed, ready, tabBusy, tabAlive, log, handed, socket, entering, enters>>
    <3>1. turn[c].at = "asked" /\ UNCHANGED <<shellDoes, lines, half, printed, ready, tabBusy, tabAlive, log, handed, socket, entering, enters>>
      BY <1>17 DEF Begin, shellVars, tabVars
    <3>2. \/ stray' = stray /\ \E how \in {"closed", "not_ready", "busy"} : Returns(c, how)
          \/ ready /\ ~tabBusy /\ TurnTo(c, "quiet") /\ stray' = (stray \/ Entering # {})
      BY <1>17 DEF Begin
    <3>3. "quiet" \in TurnPlaces /\ {"closed", "not_ready", "busy"} \subseteq TurnOutcomes
      BY DEF TurnPlaces, TurnOutcomes
    <3>4. stray' \in BOOLEAN /\ (~stray' => ~stray)
      BY <1>0, <3>2 DEF TabTyped
    <3>5. ASSUME NEW how \in {"closed", "not_ready", "busy"}, Returns(c, how)
          PROVE  turn' \in [Turns -> TurnStates] /\ (\A d \in Turns : d # c => turn'[d] = turn[d]) /\ turn'[c].got = turn[c].got /\ turn'[c].at = "ran" /\ turn'[c].outcome = how
      BY <1>0, <3>3, <3>5, TurnReturns
    <3>6. ASSUME TurnTo(c, "quiet")
          PROVE  turn' \in [Turns -> TurnStates] /\ (\A d \in Turns : d # c => turn'[d] = turn[d]) /\ turn'[c].got = turn[c].got /\ turn'[c].at = "quiet" /\ turn'[c].outcome = turn[c].outcome
      BY <1>0, <3>3, <3>6, TurnMoves
    <3>7. QED BY <3>1, <3>2, <3>4, <3>5, <3>6, ShellRests
  <2>1. TabTyped'
    BY <1>0, <2>0 DEF TabTyped
  <2>2. AtStart'
    BY <1>0, <2>0 DEF AtStart
  <2>3. OneLine'
    BY <1>0, <2>0 DEF OneLine
  <2>4. EnterFits'
    BY <1>0, <2>0 DEF EnterFits, Settled, Entering
  <2>5. OneEnters'
    BY <1>0, <2>0 DEF OneEnters, Entering
  <2>6. WaitFits'
    BY <1>0, <2>0 DEF WaitFits, Settled
  <2>7. AnswerFits'
    BY <1>0, <2>0 DEF AnswerFits
  <2>8. LogFits'
    BY <1>0, <2>0 DEF LogFits, LogOrder, UserWorkShown, NothingNew, Asking
  <2>9. HandedFits'
    BY <1>0, <2>0 DEF HandedFits
  <2>10. NoGap'
    BY <1>0, <2>0 DEF NoGap, Listening
  <2>11. QED BY <2>1, <2>2, <2>3, <2>4, <2>5, <2>6, <2>7, <2>8, <2>9, <2>10 DEF TabsInv
<1>18. ASSUME NEW c \in Turns, Mark(c) PROVE TabsInv'
  <2>0. /\ turn[c].at = "quiet"
        /\ turn' \in [Turns -> TurnStates] /\ turn'[c].at = "marked" /\ turn'[c].outcome = turn[c].outcome /\ turn'[c].got = turn[c].got
        /\ (\A d \in Turns : d # c => turn'[d] = turn[d])
        /\ tabBusy' = TRUE /\ stray' \in BOOLEAN
        /\ (~stray' => ~stray /\ Settled' /\ ready /\ ~entering /\ turn[c].got = "none" /\ (\A d \in Turns : d # c => turn[d].at \notin {"quiet", "marked"}))
        /\ (NobodyRuns' <=> NobodyRuns) /\ (AtPrompt' <=> AtPrompt) /\ (\A o : (Serves(o)' <=> Serves(o)) /\ (NoStopSent(o)' <=> NoStopSent(o)))
        /\ UNCHANGED <<shellDoes, lines, half, printed, ready, tabAlive, log, handed, socket, entering, enters>>
    <3>1. /\ turn[c].at = "quiet" /\ TurnTo(c, "marked") /\ tabBusy' = TRUE
          /\ stray' = (stray \/ "^C" \in Input \/ printed # <<>>)
          /\ UNCHANGED <<shellDoes, lines, half, printed, ready, tabAlive, log, handed, socket, entering, enters>>
      BY <1>18 DEF Mark, shellVars
    <3>2. "marked" \in TurnPlaces /\ stray' \in BOOLEAN
      BY <1>0, <3>1 DEF TurnPlaces, TabTyped
    <3>3. ~stray' => ~stray /\ ready /\ ~tabBusy /\ printed = <<>> /\ ~Only(lines, "^C") /\ turn[c].got = "none"
      <4>1. Only(lines, "^C") => "^C" \in Input
        <5>1. lines \in Seq(Lines)
          BY <1>0 DEF TabTyped
        <5>2. DOMAIN lines = 1..Len(lines)
          BY <5>1, LenProperties
        <5>3. Only(lines, "^C") => 1 \in DOMAIN lines /\ lines[1] = "^C"
          BY <5>2 DEF Only
        <5>4. QED BY <5>3 DEF Input
      <4>2. QED BY <1>0, <3>1, <4>1 DEF WaitFits, AnswerFits
    <3>4. ~stray' => Settled'
      BY <1>0, <3>1, <3>3 DEF OneLine, NobodyRuns, InputSpent, Settled, AtPrompt
    <3>5. ~stray' => ~entering /\ \A d \in Turns : d # c => turn[d].at \notin {"quiet", "marked"}
      BY <1>0, <3>1, <3>3 DEF EnterFits, OneEnters, Entering
    <3>6. QED BY <1>0, <3>1, <3>2, <3>3, <3>4, <3>5, TurnMoves, ShellRests
  <2>1. TabTyped'
    BY <1>0, <2>0 DEF TabTyped
  <2>2. AtStart'
    BY <1>0, <2>0 DEF AtStart
  <2>3. OneLine'
    BY <1>0, <2>0, SettledIsFree DEF OneLine, Settled, NobodyRuns, InputSpent, AtPrompt
  <2>4. EnterFits'
    BY <1>0, <2>0 DEF EnterFits, Settled, Entering
  <2>5. OneEnters'
    BY <1>0, <2>0 DEF OneEnters, Entering
  <2>6. WaitFits'
    BY <1>0, <2>0 DEF WaitFits, Settled
  <2>7. AnswerFits'
    BY <1>0, <2>0 DEF AnswerFits
  <2>8. LogFits'
    BY <1>0, <2>0 DEF LogFits, LogOrder, UserWorkShown, NothingNew, Asking
  <2>9. HandedFits'
    BY <1>0, <2>0 DEF HandedFits
  <2>10. NoGap'
    BY <1>0, <2>0 DEF NoGap, Listening
  <2>11. QED BY <2>1, <2>2, <2>3, <2>4, <2>5, <2>6, <2>7, <2>8, <2>9, <2>10 DEF TabsInv
<1>19. ASSUME NEW c \in Turns, Type(c) PROVE TabsInv'
  <2>0. /\ turn[c].at = "marked" /\ turn' \in [Turns -> TurnStates] /\ (\A d \in Turns : d # c => turn'[d] = turn[d])
        /\ lines' \in Seq(Lines) /\ half' \in BOOLEAN /\ stray' \in BOOLEAN
        /\ (~stray' => ~stray /\ Settled /\ ~entering /\ (\A d \in Turns : d # c => turn[d].at \notin {"quiet", "marked"}) /\ (\A o \in Turns : ~Serves(o)))
        /\ \/ /\ shellDoes # "gone" /\ turn'[c].at = "waiting" /\ turn'[c].got = turn[c].got /\ turn'[c].outcome = turn[c].outcome
              /\ (~stray' => Serves(c)' /\ NoStopSent(c)')
           \/ /\ shellDoes = "gone" /\ turn'[c].at = "over" /\ turn'[c].got = "none" /\ turn'[c].outcome = "none"
              /\ lines' = lines
        /\ UNCHANGED <<shellDoes, printed, ready, tabBusy, tabAlive, log, handed, socket, entering, enters>>
    <3>1. /\ turn[c].at = "marked"
          /\ IF ShellLives
             THEN /\ lines' = Append(lines, IF half THEN "mixed" ELSE c) /\ half' = FALSE /\ stray' = (stray \/ half)
                  /\ TurnTo(c, "waiting")
             ELSE turn' = [turn EXCEPT ![c] = [NoTurn EXCEPT !.at = "over"]] /\ lines' = lines /\ half' = half /\ stray' = stray
          /\ UNCHANGED <<shellDoes, printed, ready, tabBusy, tabAlive, log, handed, socket, entering, enters>>
      BY <1>19 DEF Type, tabVars
    <3>2. stray' \in BOOLEAN /\ half' \in BOOLEAN /\ (~stray' => ~stray /\ (ShellLives => ~half))
      BY <1>0, <3>1 DEF TabTyped
    <3>3. ~stray => Settled
      BY <1>0, <3>1 DEF WaitFits
    <3>4. ~stray => ~entering /\ (\A d \in Turns : d # c => turn[d].at \notin {"quiet", "marked"})
      BY <1>0, <3>1 DEF EnterFits, OneEnters, Entering
    <3>5. ~stray => \A o \in Turns : ~Serves(o)
      BY <3>3, SettledIsFree, NobodyServes
    <3>6. CASE ShellLives
      <4>1. (IF half THEN "mixed" ELSE c) \in Lines /\ lines \in Seq(Lines) /\ "waiting" \in TurnPlaces
        BY <1>0 DEF Lines, Owners, TabTyped, TurnPlaces
      <4>2. lines' \in Seq(Lines) /\ (lines = <<>> => Only(lines', IF half THEN "mixed" ELSE c))
        BY <3>1, <3>6, <4>1, Put
      <4>3. ~stray' => Serves(c)' /\ NoStopSent(c)'
        BY <3>1, <3>2, <3>3, <3>6, <4>2 DEF Settled, AtPrompt, ShellLives, Serves, Typed, NoStopSent
      <4>4. /\ turn' \in [Turns -> TurnStates] /\ (\A d \in Turns : d # c => turn'[d] = turn[d])
            /\ turn'[c].at = "waiting" /\ turn'[c].got = turn[c].got /\ turn'[c].outcome = turn[c].outcome
        BY <1>0, <3>1, <3>6, <4>1, TurnMoves
      <4>5. QED BY <3>1, <3>2, <3>3, <3>4, <3>5, <3>6, <4>2, <4>3, <4>4 DEF ShellLives
    <3>7. CASE ~ShellLives
      <4> DEFINE w == [NoTurn EXCEPT !.at = "over"]
      <4>1. w \in TurnStates /\ w.at = "over" /\ w.got = "none" /\ w.outcome = "none"
        BY DEF NoTurn, TurnStates, TurnPlaces, TurnOutcomes
      <4>2. turn' = [turn EXCEPT ![c] = w]
        BY <3>1, <3>7
      <4> HIDE DEF w
      <4>3. lines' \in Seq(Lines)
        BY <1>0, <3>1, <3>7 DEF TabTyped
      <4>4. QED BY <1>0, <3>1, <3>2, <3>3, <3>4, <3>5, <3>7, <4>1, <4>2, <4>3, TurnBecomes DEF ShellLives
    <3>8. QED BY <3>6, <3>7
  <2>1. TabTyped'
    BY <1>0, <2>0 DEF TabTyped
  <2>2. AtStart'
    BY <1>0, <2>0 DEF AtStart, Settled
  <2>3. OneLine'
    <3>1. shellDoes = "gone" => (NobodyRuns' <=> NobodyRuns)
      BY <2>0, ShellRests
    <3>2. QED BY <1>0, <2>0, <3>1, SettledIsFree DEF OneLine, Settled
  <2>4. EnterFits'
    BY <1>0, <2>0 DEF EnterFits, Settled, Entering
  <2>5. OneEnters'
    BY <1>0, <2>0 DEF OneEnters, Entering
  <2>6. WaitFits'
    <3>1. SUFFICES ASSUME ~stray' PROVE WaitFits'
      BY DEF WaitFits
    <3>2. turn[c].got = "none" /\ ready
      BY <1>0, <2>0, <3>1 DEF WaitFits, Settled
    <3>3. ASSUME NEW d \in Turns, d # c, turn[d].at \in {"waiting", "stopping"}, turn[d].got = "none"
          PROVE  shellDoes = "gone" /\ printed = <<>> /\ (turn[d].at = "waiting" => NoStopSent(d)')
      <4>1. shellDoes = "gone" /\ printed = <<>> /\ (turn[d].at = "waiting" => NoStopSent(d))
        BY <1>0, <2>0, <3>1, <3>3 DEF WaitFits
      <4>2. QED BY <2>0, <4>1 DEF NoStopSent
    <3>4. \A d \in Turns : d # c => /\ turn'[d] = turn[d] /\ turn[d].at \notin {"quiet", "marked"}
                                    /\ (turn[d].at \in {"waiting", "stopping"} => ready)
                                    /\ (turn[d].at = "waiting" /\ turn[d].got # "none" => turn[d].got = d)
      BY <1>0, <2>0, <3>1 DEF WaitFits
    <3>5. turn'[c].at \in {"waiting", "over"} /\ (turn'[c].at = "waiting" => turn'[c].got = "none" /\ Serves(c)' /\ NoStopSent(c)')
      BY <2>0, <3>1, <3>2
    <3>6. QED BY <2>0, <3>2, <3>3, <3>4, <3>5 DEF WaitFits
  <2>7. AnswerFits'
    BY <1>0, <2>0 DEF AnswerFits
  <2>8. LogFits'
    BY <1>0, <2>0 DEF LogFits, LogOrder, UserWorkShown, NothingNew, Asking
  <2>9. HandedFits'
    BY <1>0, <2>0 DEF HandedFits
  <2>10. NoGap'
    BY <1>0, <2>0 DEF NoGap, Listening
  <2>11. QED BY <2>1, <2>2, <2>3, <2>4, <2>5, <2>6, <2>7, <2>8, <2>9, <2>10 DEF TabsInv
<1>20. ASSUME NEW c \in Turns, CommandDone(c) PROVE TabsInv'
  <2>0. /\ turn[c].at = "waiting" /\ turn' \in [Turns -> TurnStates] /\ (\A d \in Turns : d # c => turn'[d] = turn[d])
        /\ turn'[c].at = "ran" /\ turn'[c].got = turn[c].got /\ turn'[c].outcome \in {"ok", "closed"}
        /\ (turn'[c].outcome = "ok" => turn[c].got # "none")
        /\ (NobodyRuns' <=> NobodyRuns) /\ (AtPrompt' <=> AtPrompt) /\ (\A o : (Serves(o)' <=> Serves(o)) /\ (NoStopSent(o)' <=> NoStopSent(o)))
        /\ UNCHANGED <<shellDoes, lines, half, printed, ready, tabBusy, tabAlive, log, handed, socket, entering, stray, enters>>
    <3>1. turn[c].at = "waiting" /\ Returns(c, IF tabAlive THEN "ok" ELSE "closed") /\ (Prompted(c) \/ ~tabAlive)
          /\ UNCHANGED <<shellDoes, lines, half, printed, ready, tabBusy, tabAlive, log, handed, socket, entering, stray, enters>>
      BY <1>20 DEF CommandDone, shellVars, tabVars
    <3>2. "ok" \in TurnOutcomes /\ "closed" \in TurnOutcomes
      BY DEF TurnOutcomes
    <3>3. CASE tabAlive
      BY <1>0, <3>1, <3>2, <3>3, TurnReturns, ShellRests DEF Prompted
    <3>4. CASE ~tabAlive
      BY <1>0, <3>1, <3>2, <3>4, TurnReturns, ShellRests
    <3>5. QED BY <3>3, <3>4
  <2>1. TabTyped'
    BY <1>0, <2>0 DEF TabTyped
  <2>2. AtStart'
    BY <1>0, <2>0 DEF AtStart
  <2>3. OneLine'
    BY <1>0, <2>0 DEF OneLine
  <2>4. EnterFits'
    BY <1>0, <2>0 DEF EnterFits, Settled, Entering
  <2>5. OneEnters'
    BY <1>0, <2>0 DEF OneEnters, Entering
  <2>6. WaitFits'
    BY <1>0, <2>0 DEF WaitFits, Settled
  <2>7. AnswerFits'
    BY <1>0, <2>0 DEF AnswerFits, WaitFits
  <2>8. LogFits'
    BY <1>0, <2>0 DEF LogFits, LogOrder, UserWorkShown, NothingNew, Asking
  <2>9. HandedFits'
    BY <1>0, <2>0 DEF HandedFits
  <2>10. NoGap'
    BY <1>0, <2>0 DEF NoGap, Listening
  <2>11. QED BY <2>1, <2>2, <2>3, <2>4, <2>5, <2>6, <2>7, <2>8, <2>9, <2>10 DEF TabsInv
<1>21. ASSUME NEW c \in Turns, StopTyped(c) PROVE TabsInv'
  <2>0. /\ turn[c].at = "waiting" /\ turn[c].got = "none"
        /\ turn' \in [Turns -> TurnStates] /\ turn'[c].at = "stopping" /\ turn'[c].outcome = turn[c].outcome /\ turn'[c].got = turn[c].got
        /\ (\A d \in Turns : d # c => turn'[d] = turn[d])
        /\ lines' \in Seq(Lines)
        /\ \/ /\ shellDoes # "gone"
              /\ (~stray => ready /\ ~entering /\ tabBusy /\ ~NobodyRuns /\ Serves(c) /\ Serves(c)' /\ (\A d \in Turns : Serves(d) => d = c) /\ (\A d \in Turns : turn[d].at \notin {"quiet", "marked"}))
           \/ shellDoes = "gone" /\ lines' = lines /\ (NobodyRuns' <=> NobodyRuns) /\ (AtPrompt' <=> AtPrompt) /\ (\A o : (Serves(o)' <=> Serves(o)) /\ (NoStopSent(o)' <=> NoStopSent(o)))
        /\ UNCHANGED <<shellDoes, half, printed, ready, tabBusy, tabAlive, log, handed, socket, entering, stray, enters>>
    <3>1. /\ turn[c].at = "waiting" /\ turn[c].got = "none" /\ TurnTo(c, "stopping")
          /\ lines' = (IF ShellLives THEN Append(lines, "^C") ELSE lines)
          /\ UNCHANGED <<shellDoes, half, printed, ready, tabBusy, tabAlive, log, handed, socket, entering, stray, enters>>
      BY <1>21 DEF StopTyped, Prompted, tabVars
    <3>2. "^C" \in Lines /\ lines \in Seq(Lines) /\ "stopping" \in TurnPlaces
      BY <1>0 DEF Lines, TabTyped, TurnPlaces
    <3>3. lines' \in Seq(Lines)
      BY <3>1, <3>2, Put
    <3>4. CASE shellDoes # "gone"
      <4>1. /\ (lines = <<>> => Only(lines', "^C"))
            /\ (\A y : Only(lines, y) => Pair(lines', y, "^C"))
        BY <3>1, <3>2, <3>4, Put DEF ShellLives
      <4>2. ~stray => Serves(c) /\ NoStopSent(c) /\ ready
        BY <1>0, <3>1, <3>4 DEF WaitFits
      <4>3. ~stray => Serves(c)'
        <5>1. SUFFICES ASSUME ~stray PROVE Serves(c)'
          OBVIOUS
        <5>2. ~Pair(lines, c, "^C") /\ ~Only(lines, "^C") /\ ~Pair(printed, c, "redraw")
          <6>1. c # "^C"
            BY OwnersApart
          <6>2. (\A x, y : ~Only(<<>>, x) /\ ~Pair(<<>>, x, y)) /\ \A s, x, y, u, v : (Only(s, x) /\ Only(s, y) => x = y) /\ ~(Only(s, x) /\ Pair(s, u, v))
            BY Empty, OnlyOnce
          <6>3. QED BY <4>2, <5>1, <6>1, <6>2 DEF NoStopSent
        <5>3. CASE Typed(c)
          BY <3>1, <4>1, <5>2, <5>3 DEF Serves, Typed
        <5>4. CASE Runs(c)
          BY <3>1, <4>1, <5>2, <5>4 DEF Serves, Runs, InputSpent
        <5>5. CASE Ended(c)
          BY <3>1, <4>1, <5>2, <5>5 DEF Serves, Ended, InputSpent, AtPrompt
        <5>6. QED BY <4>2, <5>1, <5>3, <5>4, <5>5 DEF Serves
      <4>4. ~stray => ~NobodyRuns
        BY <4>2, NobodyServes
      <4>5. ~stray => ~entering /\ tabBusy /\ (\A d \in Turns : turn[d].at \notin {"quiet", "marked"})
        BY <1>0, <4>2, <4>4, SettledIsFree DEF EnterFits, OneLine, WaitFits
      <4>6. ~stray => \A d \in Turns : Serves(d) => d = c
        BY <4>2, ServesOne
      <4>7. QED BY <1>0, <3>1, <3>2, <3>3, <3>4, <4>2, <4>3, <4>4, <4>5, <4>6, TurnMoves
    <3>5. CASE shellDoes = "gone"
      BY <1>0, <3>1, <3>2, <3>3, <3>5, TurnMoves, ShellRests DEF ShellLives
    <3>6. QED BY <3>4, <3>5
  <2>1. TabTyped'
    BY <1>0, <2>0 DEF TabTyped
  <2>2. AtStart'
    BY <1>0, <2>0 DEF AtStart, WaitFits
  <2>3. OneLine'
    BY <1>0, <2>0 DEF OneLine
  <2>4. EnterFits'
    BY <1>0, <2>0 DEF EnterFits, Settled, Entering
  <2>5. OneEnters'
    BY <1>0, <2>0 DEF OneEnters, Entering
  <2>6. WaitFits'
    BY <1>0, <2>0 DEF WaitFits, Settled
  <2>7. AnswerFits'
    BY <1>0, <2>0 DEF AnswerFits
  <2>8. LogFits'
    BY <1>0, <2>0 DEF LogFits, LogOrder, UserWorkShown, NothingNew, Asking
  <2>9. HandedFits'
    BY <1>0, <2>0 DEF HandedFits
  <2>10. NoGap'
    BY <1>0, <2>0 DEF NoGap, Listening
  <2>11. QED BY <2>1, <2>2, <2>3, <2>4, <2>5, <2>6, <2>7, <2>8, <2>9, <2>10 DEF TabsInv
<1>22. ASSUME NEW c \in Turns, GiveUp(c) PROVE TabsInv'
  <2>0. /\ turn[c].at = "stopping"
        /\ turn' \in [Turns -> TurnStates] /\ turn'[c].at = "ran" /\ turn'[c].outcome = "cancelled" /\ turn'[c].got = turn[c].got
        /\ (\A d \in Turns : d # c => turn'[d] = turn[d])
        /\ (NobodyRuns' <=> NobodyRuns) /\ (AtPrompt' <=> AtPrompt) /\ (\A o : (Serves(o)' <=> Serves(o)) /\ (NoStopSent(o)' <=> NoStopSent(o)))
        /\ UNCHANGED <<shellDoes, lines, half, printed, ready, tabBusy, tabAlive, log, handed, socket, entering, stray, enters>>
    <3>1. "cancelled" \in TurnOutcomes
      BY DEF TurnOutcomes
    <3>2. QED BY <1>0, <1>22, <3>1, TurnReturns, ShellRests DEF GiveUp, shellVars, tabVars
  <2>1. TabTyped'
    BY <1>0, <2>0 DEF TabTyped
  <2>2. AtStart'
    BY <1>0, <2>0 DEF AtStart
  <2>3. OneLine'
    BY <1>0, <2>0 DEF OneLine
  <2>4. EnterFits'
    BY <1>0, <2>0 DEF EnterFits, Settled, Entering
  <2>5. OneEnters'
    BY <1>0, <2>0 DEF OneEnters, Entering
  <2>6. WaitFits'
    BY <1>0, <2>0 DEF WaitFits, Settled
  <2>7. AnswerFits'
    BY <1>0, <2>0 DEF AnswerFits
  <2>8. LogFits'
    BY <1>0, <2>0 DEF LogFits, LogOrder, UserWorkShown, NothingNew, Asking
  <2>9. HandedFits'
    BY <1>0, <2>0 DEF HandedFits
  <2>10. NoGap'
    BY <1>0, <2>0 DEF NoGap, Listening
  <2>11. QED BY <2>1, <2>2, <2>3, <2>4, <2>5, <2>6, <2>7, <2>8, <2>9, <2>10 DEF TabsInv
<1>23. ASSUME NEW c \in Turns, MarkSeen(c) PROVE TabsInv'
  <2>0. /\ turn[c].at = "ran"
        /\ turn' \in [Turns -> TurnStates] /\ turn'[c].at = "over" /\ turn'[c].outcome = "none" /\ turn'[c].got = "none"
        /\ (\A d \in Turns : d # c => turn'[d] = turn[d])
        /\ log' \in Logs /\ LogOrder' /\ NothingNew'
        /\ (NobodyRuns' <=> NobodyRuns) /\ (AtPrompt' <=> AtPrompt) /\ (\A o : (Serves(o)' <=> Serves(o)) /\ (NoStopSent(o)' <=> NoStopSent(o)))
        /\ UNCHANGED <<shellDoes, lines, half, printed, ready, tabBusy, tabAlive, handed, socket, entering, stray, enters>>
    <3> DEFINE w == [NoTurn EXCEPT !.at = "over"]
    <3>1. w \in TurnStates /\ w.at = "over" /\ w.got = "none" /\ w.outcome = "none"
      BY DEF NoTurn, TurnStates, TurnPlaces, TurnOutcomes
    <3>2. turn' = [turn EXCEPT ![c] = w]
      BY <1>23 DEF MarkSeen
    <3> HIDE DEF w
    <3>3. log' \in Logs /\ LogOrder' /\ NothingNew'
      <4>1. c \in Asking
        BY <1>23 DEF MarkSeen, Asking
      <4>2. log \in Logs /\ LogOrder /\ NothingNew
        BY <1>0, <4>1 DEF TabTyped, LogFits
      <4>3. QED BY <1>23, <4>2, LogMarked DEF MarkSeen
    <3>4. QED BY <1>0, <1>23, <3>1, <3>2, <3>3, TurnBecomes, ShellRests DEF MarkSeen, shellVars, tabVars
  <2>1. TabTyped'
    BY <1>0, <2>0 DEF TabTyped
  <2>2. AtStart'
    BY <1>0, <2>0 DEF AtStart
  <2>3. OneLine'
    BY <1>0, <2>0 DEF OneLine
  <2>4. EnterFits'
    BY <1>0, <2>0 DEF EnterFits, Settled, Entering
  <2>5. OneEnters'
    BY <1>0, <2>0 DEF OneEnters, Entering
  <2>6. WaitFits'
    BY <1>0, <2>0 DEF WaitFits, Settled
  <2>7. AnswerFits'
    BY <1>0, <2>0 DEF AnswerFits
  <2>8. LogFits'
    BY <2>0 DEF LogFits
  <2>9. HandedFits'
    BY <1>0, <2>0 DEF HandedFits
  <2>10. NoGap'
    BY <1>0, <2>0 DEF NoGap, Listening
  <2>11. QED BY <2>1, <2>2, <2>3, <2>4, <2>5, <2>6, <2>7, <2>8, <2>9, <2>10 DEF TabsInv
<1>24. QED BY <1>1, <1>2, <1>3, <1>4, <1>5, <1>6, <1>7, <1>8, <1>9, <1>10, <1>11, <1>12, <1>13, <1>14, <1>15, <1>16, <1>17, <1>18, <1>19, <1>20, <1>21, <1>22, <1>23 DEF TerminalNext, Run

LEMMA TabsStart == TerminalInit => TabsInv
<1> SUFFICES ASSUME TerminalInit PROVE TabsInv
  OBVIOUS
<1>1. NoChunk \in Chunks /\ <<>> \in Logs /\ 0 \in 0..MaxEnters
  BY EmptySeq DEF NoChunk, Chunks, Logs
<1>2. TabTyped
  BY <1>1, NoTurnFields, NoSocketFields, Empty DEF TerminalInit, TabTyped, ShellStates
<1>3. AtStart /\ OneLine /\ EnterFits /\ OneEnters /\ WaitFits /\ AnswerFits
  BY NoTurnFields DEF TerminalInit, AtStart, OneLine, EnterFits, OneEnters, WaitFits, AnswerFits, Entering
<1>4. LogFits /\ HandedFits /\ NoGap
  BY NoSocketFields, EmptySeq DEF TerminalInit, LogFits, LogOrder, UserWorkShown, NothingNew, HandedFits, NoGap, NoChunk, Listening
<1>5. QED BY <1>2, <1>3, <1>4 DEF TabsInv

LEMMA TabsKept == TerminalSpec => []TabsInv
<1>1. TabsInv /\ [TerminalNext]_terminalVars => TabsInv'
  <2>1. CASE TerminalNext
    BY <2>1, TabsStep
  <2>2. ASSUME TabsInv, UNCHANGED terminalVars PROVE TabsInv'
    <3>1. UNCHANGED <<shellDoes, lines, half, printed, ready, tabBusy, tabAlive, log, handed, socket, entering, turn, stray, enters>>
      BY <2>2 DEF terminalVars, shellVars, tabVars
    <3>2. TabTyped' /\ LogFits' /\ HandedFits' /\ NoGap'
      BY <2>2, <3>1 DEF TabsInv, TabTyped, LogFits, LogOrder, UserWorkShown, NothingNew, Asking, HandedFits, NoGap, Listening
    <3>3. AtStart' /\ OneLine' /\ EnterFits' /\ OneEnters' /\ WaitFits' /\ AnswerFits'
      BY <2>2, <3>1, ShellRests DEF TabsInv, AtStart, OneLine, EnterFits, OneEnters, WaitFits, AnswerFits, Entering, Settled
    <3>4. QED BY <3>2, <3>3 DEF TabsInv
  <2>3. QED BY <2>1, <2>2
<1>2. QED BY <1>1, TabsStart, PTL DEF TerminalSpec

\* Types: the shell, the tab, its sockets and the runs have their types.
THEOREM TerminalTypeCorrect == TerminalSpec => []TerminalTypeOK
<1>1. TabTyped => TerminalTypeOK
  <2> SUFFICES ASSUME TabTyped PROVE TerminalTypeOK
    OBVIOUS
  <2>1. /\ \A i \in DOMAIN lines : lines[i] \in Lines
        /\ \A i \in DOMAIN printed : printed[i] \in Prompts
    BY LenProperties, ElementOfSeq DEF TabTyped
  <2>2. QED BY <2>1 DEF TabTyped, TerminalTypeOK, Lines, Prompts, ShellStates, Chunks, Logs, SocketStates, TurnStates, TurnPlaces, TurnOutcomes
<1>2. QED BY <1>1, TabsKept, PTL DEF TabsInv

\* Unless two use a tab at once, a run returns the output of its own command and is
\* refused while another runs; what the user runs is shown, and a socket misses
\* nothing, for every number of runs, sockets and lines.
THEOREM TabsAlwaysHold == TerminalSpec => []TabsHold
<1>1. TabsInv => TabsHold
  <2> SUFFICES ASSUME TabsInv PROVE TabsHold
    OBVIOUS
  <2>0. TabTyped /\ AtStart /\ OneLine /\ AnswerFits /\ LogFits /\ NoGap
    BY DEF TabsInv
  <2>1. ~stray /\ InFlight => tabBusy
    <3>1. SUFFICES ASSUME ~stray, InFlight, ~tabBusy PROVE FALSE
      BY <2>0 DEF TabTyped
    <3>2. /\ \A i \in DOMAIN lines : i \in 1..Len(lines)
          /\ \A i \in DOMAIN printed : i \in 1..Len(printed)
      BY <2>0, LenProperties DEF TabTyped
    <3>3. /\ lines = <<>> => Len(lines) = 0
          /\ printed = <<>> => Len(printed) = 0
      BY EmptySeq
    <3>4. \A x \in {"^C", "start", "redraw", "starts", "prompt", "gone"} : x \notin Owners
      BY DEF Owners
    <3>5. AtPrompt => shellDoes \notin Owners
      BY <3>4 DEF AtPrompt
    <3>6. InputSpent => Input \cap Owners = {}
      BY <3>2, <3>3, <3>4 DEF InputSpent, Only, Input
    <3>7. printed = <<>> \/ Only(printed, "redraw") \/ Only(printed, "start") => \A i \in DOMAIN printed : printed[i] \notin Owners
      BY <3>2, <3>3, <3>4 DEF Only
    <3>8. CASE ready
      BY <2>0, <3>1, <3>5, <3>6, <3>7, <3>8 DEF OneLine, NobodyRuns, InFlight
    <3>9. CASE ~ready
      BY <2>0, <3>1, <3>4, <3>5, <3>6, <3>7, <3>9 DEF AtStart, InputSpent, InFlight
    <3>10. QED BY <3>8, <3>9
  <2>2. UserWorkShown
    BY <2>0 DEF LogFits, LogOrder
  <2>3. TerminalTypeOK
    <3>1. /\ \A i \in DOMAIN lines : lines[i] \in Lines
          /\ \A i \in DOMAIN printed : printed[i] \in Prompts
      BY <2>0, LenProperties, ElementOfSeq DEF TabTyped
    <3>2. QED BY <2>0, <3>1 DEF TabTyped, TerminalTypeOK, Lines, Prompts, ShellStates, Chunks, Logs, SocketStates, TurnStates, TurnPlaces, TurnOutcomes
  <2>4. QED BY <2>0, <2>1, <2>2, <2>3 DEF TabsHold, TabAnswers, AnswerFits
<1>2. QED BY <1>1, TabsKept, PTL

===============================================================================
