----------------------------- MODULE ProjectCorpus -----------------------------
(***************************************************************************)
(* The corpus index of a project, for one file: the realtime watcher with  *)
(* its debounce timers (file_watcher.py), a manual indexing of the project *)
(* (index_project of indexing.py), and the manifest row and chunks they    *)
(* write into one SQLite database.                                         *)
(*                                                                         *)
(* A timer is a thread of its own; _INDEX_LOCK serialises the indexing of  *)
(* the process, not unindex_file; a write transaction of SQLite excludes   *)
(* every other write.  The file system, the database and git may fail a    *)
(* step at any time.                                                       *)
(***************************************************************************)
EXTENDS Naturals, Sequences, FiniteSets

CONSTANTS
    Contents,       \* what the file may hold
    MaxEdits,       \* bound: changes of the file, and so events and timers
    MaxPasses       \* bound: manual indexings

ASSUME CorpusAssumption == {"none", "failed"} \cap Contents = {} /\ MaxEdits \in Nat /\ MaxPasses \in Nat

VARIABLES
    disk,       \* the file's content, or "none"
    news,       \* file events watchdog has not delivered yet
    timers,     \* the timers made so far: what they are to do, and how far they are
    pending,    \* _timers: the timer that a next event cancels (0: none)
    indexing,   \* who holds _INDEX_LOCK (a timer, Manual, or Nobody)
    pass,       \* the indexing under way
    manifest,   \* the file's row: its content hash, "failed", or "none"
    chunks,     \* the version whose chunks a search finds, or "none"
    passes,
    behind      \* history: the last look at the file failed, or a removal came after it,
                \* and no look has found the index right since

corpusVars == <<disk, news, timers, pending, indexing, pass, manifest, chunks, passes, behind>>

Manual == MaxEdits + 1
Nobody == 0
Files == Contents \cup {"none"}
NoPass == [at |-> "off", seen |-> FALSE, prior |-> "none", hash |-> "none"]
Timers == 1..Len(timers)
TimerTo(i, at) == timers' = [timers EXCEPT ![i].at = at]
PassTo(at) == pass' = [pass EXCEPT !.at = at]
Writing == pass.at = "commit"

---------------------------------------------------------------------------
(* The file and the watcher *)

Edit ==
    /\ Len(timers) + Len(news) < MaxEdits
    /\ \E c \in Files \ {disk} : disk' = c /\ news' = Append(news, c = "none")
    /\ UNCHANGED <<timers, pending, indexing, pass, manifest, chunks, passes, behind>>

\* _schedule: the pending timer is cancelled, if it has not fired yet, and replaced.
Schedule ==
    /\ news # <<>>
    /\ timers' = Append([i \in Timers |-> IF i = pending /\ timers[i].at = "armed"
                                          THEN [timers[i] EXCEPT !.at = "done"] ELSE timers[i]],
                        [deleted |-> Head(news), at |-> "armed"])
    /\ pending' = Len(timers) + 1
    /\ news' = Tail(news)
    /\ UNCHANGED <<disk, indexing, pass, manifest, chunks, passes, behind>>

FireTimer(i) ==
    /\ timers[i].at = "armed"
    /\ TimerTo(i, "fired")
    /\ UNCHANGED <<disk, news, pending, indexing, pass, manifest, chunks, passes, behind>>

\* _run pops the path's timer, which may be another one by now, ...
PopTimer(i) ==
    /\ timers[i].at = "fired"
    /\ pending' = 0
    /\ TimerTo(i, IF timers[i].deleted THEN "unindex" ELSE "check")
    /\ UNCHANGED <<disk, news, indexing, pass, manifest, chunks, passes, behind>>

\* ... and looks whether the file exists.
Check(i) ==
    /\ timers[i].at = "check"
    /\ TimerTo(i, IF disk = "none" THEN "unindex" ELSE "index")
    /\ UNCHANGED <<disk, news, pending, indexing, pass, manifest, chunks, passes, behind>>

\* Timer i has still to look at the file, or will remove it.
StillOwes(i) ==
    \/ timers[i].at \in {"armed", "fired", "check", "unindex", "index"}
    \/ timers[i].at = "indexing" /\ (pass.seen => pass.at = "manifest" /\ disk # "none")

\* After timer i nobody looks at the file again.
LooksLast(i) == news = <<>> /\ \A k \in Timers \ {i} : ~StillOwes(k)

\* unindex_file, in one transaction.
Unindex(i) ==
    /\ timers[i].at = "unindex" /\ ~Writing
    /\ manifest' = "none" /\ chunks' = "none"
    /\ behind' = (disk # "none" /\ (behind \/ LooksLast(i)))
    /\ TimerTo(i, "done")
    /\ UNCHANGED <<disk, news, pending, indexing, pass, passes>>

\* The file cannot be looked at, or the database is locked: _run only logs it.
TimerFails(i) ==
    /\ timers[i].at \in {"check", "unindex"}
    /\ TimerTo(i, "done")
    /\ behind' = (behind \/ LooksLast(i))
    /\ UNCHANGED <<disk, news, pending, indexing, pass, manifest, chunks, passes>>

---------------------------------------------------------------------------
(* index_project: of a timer for its file (replace = False), or of the whole project *)

\* The lock is taken and the files are listed, ...
Begin(who) ==
    /\ indexing = Nobody
    /\ indexing' = who
    /\ pass' = [NoPass EXCEPT !.at = "manifest", !.seen = disk # "none"]

BeginFile(i) ==
    /\ timers[i].at = "index"
    /\ Begin(i)
    /\ TimerTo(i, "indexing")
    /\ UNCHANGED <<disk, news, pending, manifest, chunks, passes, behind>>

\* git cannot list the files: index_project changes nothing, and reindex_file
\* takes its answer for a project without this file.
ListingFails(i) ==
    /\ timers[i].at = "index" /\ indexing = Nobody
    /\ TimerTo(i, "unindex")
    /\ UNCHANGED <<disk, news, pending, indexing, pass, manifest, chunks, passes, behind>>

BeginProject ==
    /\ passes < MaxPasses /\ indexing # Manual
    /\ Begin(Manual)
    /\ passes' = passes + 1
    /\ UNCHANGED <<disk, news, timers, pending, manifest, chunks, behind>>

\* ... then the manifest is read.
ReadManifest ==
    /\ pass.at = "manifest"
    /\ pass' = [pass EXCEPT !.prior = manifest, !.at = IF pass.seen THEN "read" ELSE "stale"]
    /\ UNCHANGED <<disk, news, timers, pending, indexing, manifest, chunks, passes, behind>>

\* The bytes are read and hashed; an unchanged file is left, one that is missing fails.
ReadFile ==
    /\ pass.at = "read"
    /\ pass' = [pass EXCEPT !.hash = disk, !.at = IF disk \in {"none", pass.prior} THEN "stale" ELSE "publish"]
    /\ UNCHANGED <<disk, news, timers, pending, indexing, manifest, chunks, passes, behind>>

\* Mutant of Recheck: what was prepared is published whatever the file holds now.
RecheckBlind ==
    /\ pass.at = "publish"
    /\ PassTo("commit")
    /\ UNCHANGED <<disk, news, timers, pending, indexing, manifest, chunks, passes, behind>>

\* BEGIN IMMEDIATE after the embeddings: the live hash must still be the one read.
Recheck ==
    /\ pass.at = "publish"
    /\ PassTo(IF disk = pass.hash THEN "commit" ELSE "fail")
    /\ UNCHANGED <<disk, news, timers, pending, indexing, manifest, chunks, passes, behind>>

Publish ==
    /\ pass.at = "commit"
    /\ chunks' = pass.hash /\ manifest' = pass.hash
    /\ PassTo("stale")
    /\ UNCHANGED <<disk, news, timers, pending, indexing, passes, behind>>

\* The timer's look at the file has come to nothing.
Missed == behind' = (behind \/ (indexing # Manual /\ LooksLast(indexing)))

\* The bytes cannot be read, nothing can be embedded, or the database is locked.
PassFails ==
    /\ pass.at \in {"read", "publish", "commit"}
    /\ PassTo(IF pass.at = "read" THEN "stale" ELSE "fail")
    /\ Missed
    /\ UNCHANGED <<disk, news, timers, pending, indexing, manifest, chunks, passes>>

\* A published version is kept, otherwise the failure is recorded, if that works.
RecordFailure ==
    /\ pass.at = "fail"
    /\ manifest' \in {manifest, IF manifest \in Contents THEN manifest ELSE "failed"}
    /\ PassTo("stale")
    /\ UNCHANGED <<disk, news, timers, pending, indexing, chunks, passes, behind>>

\* replace: a file of the manifest that the listing did not show is removed; a
\* timer whose file was not listed removes it after the pass.
Finish ==
    /\ pass.at = "stale"
    /\ IF indexing = Manual
       THEN /\ UNCHANGED timers
            /\ IF ~pass.seen /\ pass.prior # "none"
               THEN manifest' = "none" /\ chunks' = "none" ELSE UNCHANGED <<manifest, chunks>>
       ELSE TimerTo(indexing, IF pass.seen THEN "done" ELSE "unindex") /\ UNCHANGED <<manifest, chunks>>
    /\ indexing' = Nobody /\ pass' = NoPass
    /\ behind' = (behind /\ chunks' # disk)
    /\ UNCHANGED <<disk, news, pending, passes>>

\* The manifest cannot be read, or the cleanup cannot be written: index_project raises.
Abandon ==
    /\ pass.at = "manifest" \/ (pass.at = "stale" /\ indexing = Manual)
    /\ IF indexing = Manual THEN UNCHANGED timers ELSE TimerTo(indexing, "done")
    /\ Missed
    /\ indexing' = Nobody /\ pass' = NoPass
    /\ UNCHANGED <<disk, news, pending, manifest, chunks, passes>>

---------------------------------------------------------------------------
CorpusInit ==
    /\ disk \in Files /\ manifest = disk /\ chunks = disk
    /\ news = <<>> /\ timers = <<>> /\ pending = 0
    /\ indexing = Nobody /\ pass = NoPass
    /\ passes = 0 /\ behind = FALSE

Indexing ==
    ReadManifest \/ ReadFile \/ Recheck \/ Publish \/ PassFails \/ RecordFailure \/ Finish \/ Abandon

CorpusNext ==
    \/ Edit \/ Schedule \/ BeginProject \/ Indexing
    \/ \E i \in Timers :
          \/ FireTimer(i) \/ PopTimer(i) \/ Check(i) \/ Unindex(i) \/ TimerFails(i)
          \/ BeginFile(i) \/ ListingFails(i)

CorpusSpec == CorpusInit /\ [][CorpusNext]_corpusVars

---------------------------------------------------------------------------
(* Properties *)

\* The file, the timers, the pass and the rows have their types.
CorpusTypeOK ==
    /\ disk \in Files /\ chunks \in Files /\ manifest \in Files \cup {"failed"}
    /\ \A k \in DOMAIN news : news[k] \in BOOLEAN
    /\ \A i \in Timers : /\ timers[i].deleted \in BOOLEAN
                         /\ timers[i].at \in {"armed", "fired", "check", "unindex", "index", "indexing", "done"}
    /\ pending \in 0..MaxEdits /\ indexing \in 0..Manual
    /\ pass \in [at : {"off", "manifest", "read", "publish", "commit", "fail", "stale"}, seen : BOOLEAN,
                 prior : Files \cup {"failed"}, hash : Files]
    /\ passes \in 0..MaxPasses /\ behind \in BOOLEAN

\* Once the watcher has nothing left to do, a search finds what the file holds,
\* whichever events, timers and indexings crossed and whatever failed before a
\* look that did not; unless the last look failed, or was undone by a removal.
InSync ==
    /\ ~behind
    /\ news = <<>> /\ indexing = Nobody
    /\ \A i \in Timers : timers[i].at = "done"
    => chunks = disk

\* "A temporary Git failure would otherwise make every file in that repository look
\* deleted. Fail closed and leave the previous corpus untouched" (indexing.py 385): a
\* file that was never removed does not leave the index.
GitFailureKeepsCorpus ==
    [][ chunks # "none" /\ chunks' = "none"
        => (\E k \in DOMAIN news : news[k]) \/ \E i \in Timers : timers[i].deleted ]_corpusVars

=============================================================================
