------------------------- MODULE ReleaseDrainProofs --------------------------
(***************************************************************************)
(* What ReleaseDrain guarantees for every number of requests, agent runs,  *)
(* processes, triggers, runs, chains and locked databases.  The last part  *)
(* is about MCQuiet, which checks it beside run control and run evidence:  *)
(* every part of that composition behaves as its own specification says.   *)
(***************************************************************************)
EXTENDS MCQuiet, RunControlProofs, EvidenceProofs, TLAPS

---------------------------------------------------------------------------
(* The inductive invariant *)

\* The thread of a trigger runs only while the trigger is active.
ThreadsActive == \A t \in Triggers : worker[t].pc # "none" => t \in active

\* Without a crossing there is one chain, and its tick is what _tick_in_progress
\* tells of.
OneChain ==
    ~crossed => /\ \A c, d \in Alive : c = d
                /\ \A c \in Chains : InTick(c) => ticking

\* What drain has established at each of its steps.  A busy answer is given
\* whatever happens after it, an idle one must stay true until it is given.
NoTickRuns == ~crossed => active = {} /\ \A c \in Chains : ~InTick(c)
Frozen == draining /\ ~running

DrainInv ==
    /\ ctl.at = "freeze" => ~running
    /\ ctl.at \in {"look", "decide"} => Frozen
    /\ ctl.at = "decide" /\ ~ctl.busy => NoTickRuns
    /\ ctl.at \in {"look", "decide"} /\ ~ctl.was => admitted
    /\ ctl.at = "start" => ~quiet /\ admitted

\* After the answer "idle" nothing can start again: no chain is in a tick, and
\* those that are left find the scheduler stopped.
QuietInv ==
    quiet => /\ Frozen
             /\ NoTickRuns
             /\ ~crossed => jobs = 0 /\ \A t \in Triggers : open[t] = {}

IInv == /\ TypeOK /\ AdmissionClosed /\ SchedulerAlive
        /\ ThreadsActive /\ OneChain /\ DrainInv /\ QuietInv

USE DrainAssumption

---------------------------------------------------------------------------
(* Initial states, and the theorems' shape *)

LEMMA RecordsTyped ==
  NoTick \in Ticks /\ [NoTick EXCEPT !.pc = "armed"] \in Ticks
  /\ [NoTick EXCEPT !.pc = "rearm"] \in Ticks /\ NoWorker \in Workers /\ NoCtl \in Calls
  BY DEF NoTick, NoWorker, NoCtl, NoRun, Ticks, Workers, Calls, Places

LEMMA InitInv == Init => IInv
<1> SUFFICES ASSUME Init PROVE IInv
  OBVIOUS
<1>1. PICK c \in Chains :
        /\ handle = IF admitted THEN c ELSE NoChain
        /\ tick = [k \in Chains |-> IF admitted /\ k = c THEN [NoTick EXCEPT !.pc = "armed"]
                                                         ELSE NoTick]
  BY DEF Init
<1>2. \A k \in Chains : tick[k].pc = IF admitted /\ k = c THEN "armed" ELSE "none"
  BY <1>1 DEF NoTick
<1>3. TypeOK
  <2>1. tick \in [Chains -> Ticks] /\ handle \in Chains \cup {NoChain}
    BY <1>1, RecordsTyped
  <2>2. worker \in [Triggers -> Workers] /\ ctl \in Calls /\ last \in [Triggers -> RunIds \cup {NoRun}]
    BY RecordsTyped DEF Init
  <2>3. /\ draining \in BOOLEAN /\ admitted \in BOOLEAN /\ running \in BOOLEAN /\ ticking \in BOOLEAN
        /\ up \in BOOLEAN /\ quiet \in BOOLEAN /\ crossed \in BOOLEAN
    BY DEF Init
  <2>4. /\ requests \in 0..MaxRequests /\ agents \subseteq Agents /\ jobs \in 0..MaxJobs
        /\ active \subseteq Triggers /\ fails \in 0..MaxFails
        /\ due \in [Triggers -> BOOLEAN] /\ open \in [Triggers -> SUBSET RunIds]
    BY DEF Init
  <2>5. QED BY <2>1, <2>2, <2>3, <2>4 DEF TypeOK
<1>4. AdmissionClosed
  BY DEF Init, AdmissionClosed
<1>5. SchedulerAlive
  BY <1>1, <1>2 DEF Init, SchedulerAlive, Alive
<1>6. ThreadsActive /\ DrainInv /\ QuietInv
  BY DEF Init, ThreadsActive, NoWorker, DrainInv, QuietInv, NoCtl
<1>7. OneChain
  BY <1>2 DEF Init, OneChain, Alive, InTick
<1>8. QED BY <1>3, <1>4, <1>5, <1>6, <1>7 DEF IInv

---------------------------------------------------------------------------
(* Types *)

\* What a step may leave alone.
LEMMA StillTyped == TypeOK /\ UNCHANGED vars => TypeOK'
  BY DEF TypeOK, vars, release, work, scheduler, rows, history

LEMMA RequestsTyped == ASSUME TypeOK, Requests PROVE TypeOK'
<1> USE DEF TypeOK, release, work, scheduler, rows, history
<1>1. CASE BeginRequest
  BY <1>1 DEF BeginRequest
<1>2. CASE EndRequest
  BY <1>2 DEF EndRequest
<1>3. CASE BeginJob
  BY <1>3 DEF BeginJob
<1>4. CASE EndJob
  BY <1>4 DEF EndJob
<1>5. ASSUME NEW a \in Agents, BeginAgent(a) \/ EndAgent(a) PROVE TypeOK'
  BY <1>5 DEF BeginAgent, EndAgent
<1>6. ASSUME NEW t \in Triggers, EndRun(t) PROVE TypeOK'
  BY <1>6 DEF EndRun
<1>7. QED BY <1>1, <1>2, <1>3, <1>4, <1>5, <1>6 DEF Requests

LEMMA ChainTyped ==
  ASSUME TypeOK, NEW c \in Chains, Chain(c) PROVE TypeOK'
<1> USE DEF TypeOK, release, work, scheduler, rows, history
<1>1. \A p \in Places : [tick EXCEPT ![c].pc = p] \in [Chains -> Ticks]
  BY DEF Ticks
<1>2. CASE Fire(c)
  BY <1>1, <1>2 DEF Fire, Goto, Places
<1>3. CASE TickBegin(c)
  <2>1. tick' \in [Chains -> Ticks]
    BY <1>1, <1>3 DEF TickBegin, Goto, Places
  <2>2. QED BY <1>3, <2>1 DEF TickBegin
<1>4. CASE List(c)
  <2>1. Listed \subseteq Items
    BY DEF Listed, Items
  <2>2. tick' \in [Chains -> Ticks]
    BY <1>4, <2>1 DEF List, Ticks, Places
  <2>3. QED BY <1>4, <2>2 DEF List
<1>5. CASE Consider(c)
  <2>1. PICK item \in tick[c].todo :
          \/ tick' = [tick EXCEPT ![c] = [pc |-> "look", todo |-> tick[c].todo \ {item}, pick |-> {}]]
          \/ tick' = [tick EXCEPT ![c] = [pc |-> "claim", todo |-> tick[c].todo \ {item},
                                          pick |-> {item}]]
    BY <1>5 DEF Consider
  <2>2. tick[c].todo \ {item} \in SUBSET Items /\ {item} \in SUBSET Items
    BY DEF Ticks
  <2>3. /\ [pc |-> "look", todo |-> tick[c].todo \ {item}, pick |-> {}] \in Ticks
        /\ [pc |-> "claim", todo |-> tick[c].todo \ {item}, pick |-> {item}] \in Ticks
    BY <2>2 DEF Ticks, Places
  <2>4. tick' \in [Chains -> Ticks]
    BY <2>1, <2>3
  <2>5. QED BY <1>5, <2>4 DEF Consider
<1>6. CASE Claim(c)
  <2>1. \A t \in Triggers : Claimed(t, c) \in [Chains -> Ticks]
    BY DEF Claimed, Ticks, Places
  <2>2. CASE \E item \in tick[c].pick :
            /\ active' = active \cup {item.id}
            /\ due' = [due EXCEPT ![item.id] = FALSE]
            /\ worker' = [worker EXCEPT ![item.id] = [pc |-> "start", run |-> NoRun]]
            /\ tick' = Claimed(item.id, c)
    <3>1. PICK item \in tick[c].pick :
            /\ active' = active \cup {item.id}
            /\ due' = [due EXCEPT ![item.id] = FALSE]
            /\ worker' = [worker EXCEPT ![item.id] = [pc |-> "start", run |-> NoRun]]
            /\ tick' = Claimed(item.id, c)
      BY <2>2
    <3>2. item.id \in Triggers
      BY DEF Ticks, Items
    <3>3. [pc |-> "start", run |-> NoRun] \in Workers
      BY DEF Workers
    <3>4. tick' \in [Chains -> Ticks] /\ worker' \in [Triggers -> Workers]
      BY <2>1, <3>1, <3>2, <3>3
    <3>5. active' \subseteq Triggers /\ due' \in [Triggers -> BOOLEAN]
      BY <3>1, <3>2
    <3>6. QED BY <1>6, <3>4, <3>5 DEF Claim
  <2>3. CASE /\ tick' = [tick EXCEPT ![c] = [pc |-> "look", todo |-> tick[c].todo, pick |-> {}]]
             /\ UNCHANGED <<active, due, worker>>
    <3>1. [pc |-> "look", todo |-> tick[c].todo, pick |-> {}] \in Ticks
      BY DEF Ticks, Places
    <3>2. tick' \in [Chains -> Ticks]
      BY <2>3, <3>1
    <3>3. QED BY <1>6, <2>3, <3>2 DEF Claim
  <2>4. QED BY <1>6, <2>2, <2>3 DEF Claim
<1>7. CASE TickEnd(c)
  <2>1. tick' \in [Chains -> Ticks]
    BY <1>7, RecordsTyped DEF TickEnd
  <2>2. fails' \in 0..MaxFails
    BY <1>7 DEF TickEnd, Locked
  <2>3. QED BY <1>7, <2>1, <2>2 DEF TickEnd
<1>8. CASE Rearm(c)
  <2>1. tick' \in [Chains -> Ticks]
    BY <1>1, <1>8 DEF Rearm, Goto, Places
  <2>2. QED BY <1>8, <2>1 DEF Rearm
<1>9. QED BY <1>2, <1>3, <1>4, <1>5, <1>6, <1>7, <1>8 DEF Chain

LEMMA ThreadTyped ==
  ASSUME TypeOK, NEW t \in Triggers, Thread(t) PROVE TypeOK'
<1> USE DEF TypeOK, release, work, scheduler, rows, history
<1>1. CASE StartRun(t)
  <2>1. \A r \in RunIds : [pc |-> "work", run |-> r] \in Workers
    BY DEF Workers
  <2>2. [worker EXCEPT ![t].pc = "finish"] \in [Triggers -> Workers]
    BY DEF Workers
  <2>3. worker' \in [Triggers -> Workers] /\ open' \in [Triggers -> SUBSET RunIds]
    BY <1>1, <2>1, <2>2 DEF StartRun
  <2>4. QED BY <1>1, <2>3 DEF StartRun
<1>2. CASE Work(t)
  <2>1. [worker EXCEPT ![t].pc = "finish"] \in [Triggers -> Workers]
    BY DEF Workers
  <2>2. worker' \in [Triggers -> Workers]
    BY <1>2, <2>1 DEF Work
  <2>3. open' \in [Triggers -> SUBSET RunIds]
    BY <1>2 DEF Work
  <2>4. QED BY <1>2, <2>2, <2>3 DEF Work
<1>3. CASE FinishRun(t)
  <2>1. worker' \in [Triggers -> Workers] /\ last' \in [Triggers -> RunIds \cup {NoRun}]
    BY ZenonT(60), <1>3 DEF FinishRun, Workers
  <2>2. fails' \in 0..MaxFails
    BY <1>3 DEF FinishRun, Locked
  <2>3. QED BY <1>3, <2>1, <2>2 DEF FinishRun
<1>4. CASE Discard(t)
  BY <1>4, RecordsTyped DEF Discard
<1>5. QED BY <1>1, <1>2, <1>3, <1>4 DEF Thread

LEMMA ControlTyped == ASSUME TypeOK, Control PROVE TypeOK'
<1> USE DEF TypeOK, release, work, scheduler, rows, history
<1>1. CASE StopScheduler
  <2>1. tick' \in [Chains -> Ticks]
    BY <1>1, RecordsTyped DEF StopScheduler
  <2>2. ctl' \in Calls /\ fails' \in 0..MaxFails
    BY <1>1 DEF StopScheduler, Calls, Locked
  <2>3. QED BY <1>1, <2>1, <2>2 DEF StopScheduler
<1>2. CASE Freeze
  <2>1. ctl' \in Calls /\ draining' \in BOOLEAN
    BY <1>2, RecordsTyped DEF Freeze, Calls
  <2>2. QED BY <1>2, <2>1 DEF Freeze
<1>3. CASE Look
  <2>1. \A b \in BOOLEAN : [ctl EXCEPT !.at = "decide", !.busy = b] \in Calls
    BY DEF Calls
  <2>2. ctl' \in Calls
    BY <1>3, <2>1, RecordsTyped DEF Look
  <2>3. fails' \in 0..MaxFails
    BY <1>3 DEF Look, Locked
  <2>4. QED BY <1>3, <2>2, <2>3 DEF Look
<1>4. CASE Decide
  <2>1. ctl' \in Calls /\ fails' \in 0..MaxFails
    BY <1>4, RecordsTyped DEF Decide, Locked
  <2>2. draining' \in BOOLEAN /\ quiet' \in BOOLEAN
    BY <1>4 DEF Decide, Calls
  <2>3. QED BY <1>4, <2>1, <2>2 DEF Decide
<1>5. CASE Open
  <2>1. ctl' \in Calls
    BY <1>5 DEF Open, Calls
  <2>2. QED BY <1>5, <2>1 DEF Open
<1>6. CASE StartScheduler
  <2>1. handle' \in Chains \cup {NoChain} /\ tick' \in [Chains -> Ticks]
    BY <1>6 DEF StartScheduler, Goto, Ticks, Places
  <2>2. running' \in BOOLEAN /\ crossed' \in BOOLEAN /\ ctl' \in Calls
    BY <1>6, RecordsTyped DEF StartScheduler
  <2>3. QED BY <1>6, <2>1, <2>2 DEF StartScheduler
<1>7. CASE Shutdown
  BY <1>7 DEF Shutdown
<1>8. QED BY <1>1, <1>2, <1>3, <1>4, <1>5, <1>6, <1>7 DEF Control

LEMMA NextType == TypeOK /\ [Next]_vars => TypeOK'
<1> SUFFICES ASSUME TypeOK, [Next]_vars PROVE TypeOK'
  OBVIOUS
<1>1. ASSUME NEW t \in Triggers, Elapse(t) PROVE TypeOK'
  BY <1>1 DEF Elapse, TypeOK, release, work, scheduler, history
<1>2. QED
  BY <1>1, StillTyped, RequestsTyped, ChainTyped, ThreadTyped, ControlTyped DEF Next

---------------------------------------------------------------------------
(* The invariant *)

\* What the invariant says, whatever the scheduler does.
LEMMA StillSafe == IInv /\ UNCHANGED vars => IInv'
  BY StillTyped DEF IInv, AdmissionClosed, SchedulerAlive, ThreadsActive, OneChain, DrainInv, QuietInv,
     NoTickRuns, Frozen, Alive, InTick, vars, release, work, scheduler, rows, history

\* What requests, agent runs and processes may do to the rest.
RequestsMove ==
    /\ UNCHANGED <<release, scheduler, tick, worker, due, last, ctl, up, history>>
    /\ draining => requests' = 0 /\ agents' = {}
    /\ quiet /\ ~crossed => jobs' = 0 /\ open' = open

LEMMA RequestsMoves == ASSUME IInv, Requests PROVE RequestsMove
<1> USE DEF RequestsMove, AdmissionClosed, release, work, scheduler, rows, history
<1>1. quiet /\ ~crossed => ~Producers /\ requests = 0 /\ jobs = 0
  BY DEF IInv, QuietInv, Frozen, NoTickRuns, Producers, ThreadsActive
<1>2. draining => requests = 0 /\ agents = {}
  BY DEF IInv
<1>3. requests \in Nat /\ jobs \in Nat
  BY DEF IInv, TypeOK
<1>4. CASE BeginRequest
  BY <1>1, <1>2, <1>4 DEF BeginRequest
<1>5. CASE EndRequest
  BY <1>1, <1>2, <1>3, <1>5 DEF EndRequest
<1>6. CASE BeginJob
  BY <1>1, <1>2, <1>6 DEF BeginJob
<1>7. CASE EndJob
  BY <1>1, <1>2, <1>3, <1>7 DEF EndJob
<1>8. ASSUME NEW a \in Agents, BeginAgent(a) \/ EndAgent(a) PROVE RequestsMove
  BY <1>1, <1>2, <1>8 DEF BeginAgent, EndAgent
<1>9. ASSUME NEW t \in Triggers, EndRun(t) PROVE RequestsMove
  BY <1>1, <1>2, <1>3, <1>9 DEF EndRun
<1>10. QED BY <1>4, <1>5, <1>6, <1>7, <1>8, <1>9 DEF Requests

LEMMA RequestsSafe == ASSUME IInv, Requests PROVE IInv'
<1>1. TypeOK'
  BY RequestsTyped DEF IInv
<1>2. RequestsMove
  BY RequestsMoves
<1> USE <1>2 DEF IInv, RequestsMove, release, scheduler, history
<1>3. AdmissionClosed'
  BY DEF AdmissionClosed
<1>4. SchedulerAlive' /\ ThreadsActive' /\ OneChain'
  BY DEF SchedulerAlive, ThreadsActive, OneChain, Alive, InTick
<1>5. DrainInv' /\ QuietInv'
  BY DEF DrainInv, QuietInv, NoTickRuns, Frozen, InTick
<1>6. QED BY <1>1, <1>3, <1>4, <1>5

\* What a chain may do to the rest: it alone moves, it ends only if the scheduler
\* has stopped, and then it claims nothing unless it is in a tick.
ChainMove(c) ==
    /\ UNCHANGED <<release, work, running, open, ctl, up, quiet, crossed>>
    /\ \A d \in Chains \ {c} : tick'[d].pc = tick[d].pc
    /\ tick[c].pc # "none"
    /\ running => tick'[c].pc # "none" /\ handle' \in {handle, c}
    /\ ~running /\ ~InTick(c) => ~InTick(c)' /\ active' = active
    /\ InTick(c)' => ticking' \/ (InTick(c) /\ ticking' = ticking)
    /\ active \subseteq active'
    /\ \A t \in Triggers : worker'[t].pc # "none" => worker[t].pc # "none" \/ t \in active'

LEMMA ChainMoves ==
  ASSUME TypeOK, NEW c \in Chains, Chain(c) PROVE ChainMove(c)
<1>1. tick \in [Chains -> Ticks] /\ worker \in [Triggers -> Workers] /\ tick[c] \in Ticks
  BY DEF TypeOK
<1> USE <1>1 DEF ChainMove, InTick, Ticks, release, work, scheduler, rows, history
<1>2. CASE Fire(c)
  BY <1>2 DEF Fire, Goto
<1>3. CASE TickBegin(c)
  BY <1>3 DEF TickBegin, Goto, TypeOK
<1>4. CASE List(c)
  BY <1>4 DEF List
<1>5. CASE Consider(c)
  BY <1>5 DEF Consider
<1>6. CASE Claim(c)
  <2>1. /\ UNCHANGED <<release, work, running, ticking, handle, open, ctl, up, quiet, crossed>>
        /\ InTick(c)
    BY <1>6 DEF Claim
  <2>2. CASE /\ UNCHANGED <<active, worker>>
             /\ tick' = [tick EXCEPT ![c] = [pc |-> "look", todo |-> tick[c].todo, pick |-> {}]]
    BY <2>1, <2>2
  <2>3. ASSUME NEW item \in tick[c].pick,
               active' = active \cup {item.id},
               worker' = [worker EXCEPT ![item.id] = [pc |-> "start", run |-> NoRun]],
               tick' = Claimed(item.id, c)
        PROVE  ChainMove(c)
    <3>1. \A d \in Chains : tick'[d].pc = IF d = c THEN "look" ELSE tick[d].pc
      BY <2>3 DEF Claimed
    <3>2. \A t \in Triggers : t \notin active' => worker'[t] = worker[t]
      BY <2>3
    <3>3. QED BY <2>1, <2>3, <3>1, <3>2
  <2>4. QED BY <1>6, <2>2, <2>3 DEF Claim
<1>7. CASE TickEnd(c)
  BY <1>7 DEF TickEnd, NoTick
<1>8. CASE Rearm(c)
  BY <1>8 DEF Rearm, Goto
<1>9. QED BY <1>2, <1>3, <1>4, <1>5, <1>6, <1>7, <1>8 DEF Chain

LEMMA ChainSafe ==
  ASSUME IInv, NEW c \in Chains, Chain(c) PROVE IInv'
<1>1. TypeOK'
  BY ChainTyped DEF IInv
<1>2. ChainMove(c)
  BY ChainMoves DEF IInv
<1>3. c \in Alive /\ Alive' \subseteq Alive
  BY <1>2 DEF ChainMove, Alive
<1> USE <1>2, <1>3 DEF IInv, ChainMove, release, work
<1>4. AdmissionClosed'
  BY DEF AdmissionClosed
<1>5. SchedulerAlive'
  BY DEF SchedulerAlive, Alive
<1>6. ThreadsActive'
  BY DEF ThreadsActive
<1>7. OneChain'
  BY DEF OneChain, Alive, InTick
<1>8. (~running /\ NoTickRuns) => NoTickRuns'
  BY DEF NoTickRuns, InTick
<1>9. DrainInv' /\ QuietInv'
  BY <1>8 DEF DrainInv, QuietInv, Frozen
<1>10. QED BY <1>1, <1>4, <1>5, <1>6, <1>7, <1>9

\* A thread moves only while its trigger is active, and leaves the set as it ends.
LEMMA ThreadSafe ==
  ASSUME IInv, NEW t \in Triggers, Thread(t) PROVE IInv'
<1>1. TypeOK'
  BY ThreadTyped DEF IInv
<1>2. /\ UNCHANGED <<release, work, running, ticking, handle, tick, ctl, up, quiet, crossed>>
      /\ worker[t].pc # "none"
      /\ \A u \in Triggers \ {t} : worker'[u] = worker[u]
      /\ active' \subseteq active /\ active \ {t} \subseteq active'
      /\ worker'[t].pc # "none" => active' = active
  BY DEF IInv, TypeOK, Workers, Thread, StartRun, Work, FinishRun, Discard, NoWorker, release, work,
         scheduler, rows, history
<1>3. t \in active
  BY <1>2 DEF IInv, ThreadsActive
<1> USE <1>2, <1>3 DEF IInv, release, work
<1>4. AdmissionClosed' /\ SchedulerAlive' /\ ThreadsActive' /\ OneChain'
  BY DEF AdmissionClosed, SchedulerAlive, ThreadsActive, OneChain, Alive, InTick
<1>5. NoTickRuns => NoTickRuns' /\ crossed
  BY DEF NoTickRuns, InTick
<1>6. DrainInv' /\ QuietInv'
  BY <1>5 DEF DrainInv, QuietInv, Frozen
<1>7. QED BY <1>1, <1>4, <1>6

LEMMA ControlCallSafe == ASSUME IInv, Control PROVE IInv'
<1>1. TypeOK'
  BY ControlTyped DEF IInv
<1>2. TypeOK /\ ctl \in Calls /\ tick \in [Chains -> Ticks]
  BY DEF IInv, TypeOK
<1> USE <1>1, <1>2 DEF IInv, release, work, scheduler, rows, history
<1>3. CASE StopScheduler
  <2>1. /\ UNCHANGED <<release, work, ticking, active, worker, rows, up, quiet, crossed>>
        /\ ~running' /\ ctl' \in {ctl, [ctl EXCEPT !.at = "freeze"]} /\ ctl.at = "none"
    BY <1>3 DEF StopScheduler, Idle
  <2>2. \A c \in Chains : tick'[c].pc = tick[c].pc \/ tick'[c].pc = "none"
    BY <1>3 DEF StopScheduler, NoTick
  <2>3. AdmissionClosed' /\ SchedulerAlive' /\ ThreadsActive'
    BY <2>1 DEF AdmissionClosed, SchedulerAlive, ThreadsActive
  <2>4. OneChain'
    BY <2>1, <2>2 DEF OneChain, Alive, InTick
  <2>5. NoTickRuns => NoTickRuns'
    BY <2>1, <2>2 DEF NoTickRuns, InTick
  <2>6. DrainInv' /\ QuietInv'
    BY <2>1, <2>5 DEF DrainInv, QuietInv, Frozen, Calls
  <2>7. QED BY <2>3, <2>4, <2>6
<1>4. CASE Freeze
  <2>1. UNCHANGED <<admitted, work, scheduler, tick, worker, rows, up, history>> /\ ~running
    BY <1>4 DEF Freeze, DrainInv
  <2>2. SchedulerAlive' /\ ThreadsActive' /\ OneChain' /\ NoTickRuns' = NoTickRuns
    BY <2>1 DEF SchedulerAlive, ThreadsActive, OneChain, NoTickRuns, Alive, InTick
  <2>3. AdmissionClosed'
    BY <1>4, <2>1 DEF Freeze, AdmissionClosed
  <2>4. CASE ctl' = NoCtl /\ draining' = draining
    <3>1. DrainInv' /\ QuietInv'
      BY <2>1, <2>2, <2>4 DEF DrainInv, QuietInv, Frozen, NoCtl
    <3>2. QED BY <2>2, <2>3, <3>1
  <2>5. CASE draining' /\ ctl' = [ctl EXCEPT !.at = "look", !.was = draining]
    <3>1. ctl'.at = "look" /\ ctl'.was = draining
      BY <2>5 DEF Calls
    <3>2. ~draining => admitted
      BY DEF AdmissionClosed
    <3>3. DrainInv'
      BY <2>1, <2>5, <3>1, <3>2 DEF DrainInv, Frozen
    <3>4. QuietInv'
      BY <2>1, <2>2, <2>5 DEF QuietInv, Frozen
    <3>5. QED BY <2>2, <2>3, <3>3, <3>4
  <2>6. QED BY <1>4, <2>4, <2>5 DEF Freeze
<1>5. CASE Look
  <2>1. UNCHANGED <<release, work, scheduler, tick, worker, rows, up, quiet, crossed>>
    BY <1>5 DEF Look
  <2>2. SchedulerAlive' /\ ThreadsActive' /\ OneChain' /\ AdmissionClosed' /\ NoTickRuns' = NoTickRuns
    BY <2>1 DEF SchedulerAlive, ThreadsActive, OneChain, AdmissionClosed, NoTickRuns, Alive, InTick
  <2>3. QuietInv'
    BY <2>1, <2>2 DEF QuietInv, Frozen
  <2>4. CASE ctl' = NoCtl
    <3>1. DrainInv'
      BY <2>4 DEF DrainInv, NoCtl
    <3>2. QED BY <2>2, <2>3, <3>1
  <2>5. CASE ctl' = [ctl EXCEPT !.at = "decide", !.busy = (active # {} \/ ticking)]
    <3>1. ctl'.at = "decide" /\ ctl'.was = ctl.was /\ ctl'.busy = (active # {} \/ ticking)
      BY <2>5 DEF Calls
    <3>2. active = {} /\ ~ticking => NoTickRuns
      BY DEF OneChain, NoTickRuns
    <3>3. Frozen /\ (~ctl.was => admitted)
      BY <1>5 DEF Look, DrainInv
    <3>4. DrainInv'
      BY <2>1, <2>2, <3>1, <3>2, <3>3 DEF DrainInv, Frozen
    <3>5. QED BY <2>2, <2>3, <3>4
  <2>6. QED BY <1>5, <2>4, <2>5 DEF Look
<1>6. CASE Decide
  <2>1. UNCHANGED <<admitted, work, scheduler, tick, worker, rows, up, crossed>> /\ ctl' = NoCtl
    BY <1>6 DEF Decide
  <2>2. SchedulerAlive' /\ ThreadsActive' /\ OneChain' /\ NoTickRuns' = NoTickRuns
    BY <2>1 DEF SchedulerAlive, ThreadsActive, OneChain, NoTickRuns, Alive, InTick
  <2>3. /\ draining /\ ~running /\ (~ctl.was => admitted)
        /\ draining' = IF quiet' THEN draining ELSE ctl.was
        /\ quiet' => ~Busy
    BY <1>6 DEF Decide, DrainInv, Frozen, Calls
  <2>4. AdmissionClosed'
    BY <2>1, <2>3 DEF AdmissionClosed, Calls
  <2>5. DrainInv'
    BY <2>1 DEF DrainInv, NoCtl
  <2>6. QuietInv'
    BY <1>6, <2>1, <2>2, <2>3 DEF Decide, QuietInv, DrainInv, Busy, Frozen, TypeOK
  <2>7. QED BY <2>2, <2>4, <2>5, <2>6
<1>7. CASE Open
  <2>1. UNCHANGED <<work, scheduler, tick, worker, rows, up, crossed, fails>>
    BY <1>7 DEF Open
  <2>2. SchedulerAlive' /\ ThreadsActive' /\ OneChain'
    BY <2>1 DEF SchedulerAlive, ThreadsActive, OneChain, Alive, InTick
  <2>3. AdmissionClosed' /\ DrainInv' /\ QuietInv'
    BY <1>7 DEF Open, AdmissionClosed, DrainInv, QuietInv, Calls
  <2>4. QED BY <2>2, <2>3
<1>8. CASE StartScheduler
  <2>1. UNCHANGED <<release, work, ticking, active, worker, rows, up, quiet>> /\ ctl' = NoCtl /\ ~quiet
    BY <1>8 DEF StartScheduler, DrainInv
  <2>2. AdmissionClosed' /\ ThreadsActive' /\ DrainInv' /\ QuietInv'
    BY <2>1 DEF AdmissionClosed, ThreadsActive, DrainInv, QuietInv, NoCtl
  <2>3. CASE UNCHANGED <<running, handle, tick, crossed>>
    BY <2>1, <2>2, <2>3 DEF SchedulerAlive, OneChain, Alive, InTick
  <2>4. ASSUME NEW c \in Chains \ Alive, handle' = c, Goto(c, "armed"),
               crossed' = (crossed \/ Alive # {})
        PROVE  SchedulerAlive' /\ OneChain'
    <3>1. Alive' = Alive \cup {c}
      BY <2>4 DEF Goto, Alive, Ticks
    <3>2. \A d \in Chains : InTick(d)' => InTick(d)
      BY <2>4 DEF Goto, InTick, Ticks
    <3>3. QED BY <2>1, <2>4, <3>1, <3>2 DEF SchedulerAlive, OneChain
  <2>5. QED BY <1>8, <2>2, <2>3, <2>4 DEF StartScheduler
<1>9. CASE Shutdown
  <2>1. UNCHANGED <<release, work, scheduler, tick, worker, rows, ctl, history>>
    BY <1>9 DEF Shutdown
  <2>2. QED
    BY <2>1 DEF AdmissionClosed, SchedulerAlive, ThreadsActive, OneChain, DrainInv, QuietInv,
                NoTickRuns, Frozen, Alive, InTick
<1>10. QED BY <1>3, <1>4, <1>5, <1>6, <1>7, <1>8, <1>9 DEF Control

LEMMA NextInv == IInv /\ [Next]_vars => IInv'
<1> SUFFICES ASSUME IInv, [Next]_vars PROVE IInv'
  OBVIOUS
<1>1. ASSUME NEW t \in Triggers, Elapse(t) PROVE IInv'
  <2>1. UNCHANGED <<release, work, scheduler, tick, worker, last, open, ctl, up, history>>
    BY <1>1 DEF Elapse
  <2>2. TypeOK'
    BY <1>1, NextType DEF Next, IInv, TypeOK, Elapse, release, work, scheduler, history
  <2>3. QED
    BY <2>1, <2>2 DEF IInv, AdmissionClosed, SchedulerAlive, ThreadsActive, OneChain, DrainInv,
       QuietInv, NoTickRuns, Frozen, Alive, InTick, release, work, scheduler, history
<1>2. QED
  BY <1>1, StillSafe, RequestsSafe, ChainSafe, ThreadSafe, ControlCallSafe DEF Next

LEMMA Invariant == Spec => []IInv
  BY InitInv, NextInv, PTL DEF Spec

---------------------------------------------------------------------------
(* Theorems *)

\* The variables of admission, of the scheduler and of the control calls keep
\* their types, and no request is counted out twice (release_runtime.py:80).
THEOREM TypeCorrect == Spec => []TypeOK
<1>1. IInv => TypeOK
  BY DEF IInv
<1>2. QED BY <1>1, Invariant, PTL

\* While admission is closed no request and no agent run is in progress, and a
\* staged backend stays closed until it is activated (release_runtime.py:137).
THEOREM ClosedAdmitsNothing == Spec => []AdmissionClosed
<1>1. IInv => AdmissionClosed
  BY DEF IInv
<1>2. QED BY <1>1, Invariant, PTL

\* After the answer "idle" nothing runs and nothing begins until the backend is
\* resumed, if no scheduler was started over a living chain (release_runtime.py:127).
THEOREM IdleStaysQuiet == Spec => []DrainedIsQuietUncrossed
<1>1. IInv => DrainedIsQuietUncrossed
  BY DEF IInv, TypeOK, AdmissionClosed, ThreadsActive, QuietInv, NoTickRuns, Frozen,
         DrainedIsQuietUncrossed, Quiet
<1>2. QED BY <1>1, Invariant, PTL

\* A scheduler that says it runs has a chain of timers (triggers.py:148).
THEOREM RunningHasChain == Spec => []SchedulerAlive
<1>1. IInv => SchedulerAlive
  BY DEF IInv
<1>2. QED BY <1>1, Invariant, PTL

----------------------------------------------------------------------------
(***************************************************************************)
(* The parts side by side.                                                 *)
(***************************************************************************)

\* What TLC explores in the run `quiet` is, seen through the variables of one
\* part, a behaviour of that part's own specification: the parts do not disturb
\* each other, and what is proved of each of them holds of the run.
LEMMA QuietPartsRun == QuietSpec => ControlSpec /\ Spec /\ VerdictsSpec /\ ProgressSpec
<1>1. QuietInit => ControlInit /\ Init /\ VerdictsInit /\ ProgressInit
  BY DEF QuietInit
<1>2. [QuietNext]_quietVars => [ControlNext]_controlVars
  BY DEF QuietNext, quietVars
<1>3. [QuietNext]_quietVars => [Next]_vars
  BY DEF QuietNext, quietVars
<1>4. [QuietNext]_quietVars => [VerdictsNext]_verdictVars
  BY DEF QuietNext, quietVars
<1>5. [QuietNext]_quietVars => [ProgressNext]_progressVars
  BY DEF QuietNext, quietVars
<1>6. QED BY <1>1, <1>2, <1>3, <1>4, <1>5, PTL DEF QuietSpec, ControlSpec, Spec, VerdictsSpec, ProgressSpec

\* Each part keeps its types, whatever the others do.
THEOREM QuietTypeCorrect == QuietSpec => []QuietTypeOK
<1>1. ControlTypeOK /\ TypeOK /\ VerdictsTypeOK /\ ProgressTypeOK => QuietTypeOK
  BY DEF QuietTypeOK
<1>2. QED BY <1>1, QuietPartsRun, ControlTypeCorrect, TypeCorrect, VerdictsTypeCorrect, ProgressTypeCorrect, PTL

=============================================================================
