------------------------------ MODULE TelegramBot ------------------------------
(***************************************************************************)
(* The Telegram bot of skills/telegram/runtime.py: starting and stopping   *)
(* the receiver thread, its long polls and the offset that confirms        *)
(* updates to Telegram, and one task per chat with its run, which a /stop  *)
(* message may reach before the run has begun.                             *)
(*                                                                         *)
(* Telegram keeps an update until a poll asks for a later one; the offset  *)
(* and the tasks are in memory only.                                       *)
(***************************************************************************)
EXTENDS Integers, Sequences, FiniteSets

CONSTANTS
    Chats,
    ApiThreads,     \* threads that serve /api/telegram and the vault unlock
    MaxUpdates,     \* bound: messages written
    MaxReceivers    \* bound: receiver threads started

ASSUME TelegramAssumption == MaxUpdates \in Nat /\ MaxReceivers \in Nat

VARIABLES
    inbox,      \* updates at Telegram; their ids are 1, 2, ...
    confirmed,  \* updates up to here are not delivered again
    botRunning,    \* _running
    lastId,     \* _last_update_id
    current,    \* _bot_thread (0: None)
    receivers,  \* how many receiver threads were started
    receiver,   \* where each of them is, and what is left of its batch
    api,        \* what each thread of the API does
    chatTask,     \* _active: the task of each chat (0: none), named by its update
    task,       \* how far the task of each update is
    cancels,    \* runs whose cancellation is wanted (run_control)
    stoppedTask,\* entry["stopped"]
    handled,    \* history: updates that process_message has seen
    begun,      \* history: how many tasks each update began (2: two or more)
    early,      \* history: tasks whose stop was confirmed before their run began
    doubled,    \* history: a receiver was started beside another one
    unheard,    \* history: confirmed updates that a crash took out of a receiver's hand
    botCrashes

botVars == <<inbox, confirmed, botRunning, lastId, current, receivers, receiver, api, chatTask, task,
             cancels, stoppedTask, handled, begun, early, doubled, unheard, botCrashes>>
receiverVars == <<confirmed, botRunning, lastId, current, receivers, receiver, doubled, unheard>>
taskVars == <<chatTask, task, cancels, stoppedTask, begun, early>>

Updates == 1..MaxUpdates
Receivers == 1..MaxReceivers
Gone == [at |-> "gone", next |-> 0, last |-> 0]
Polling == [at |-> "poll", next |-> 0, last |-> 0]
Receives(p) == p # 0 /\ receiver[p].at # "gone"
\* The offset is past the update already, process_message has yet to see it.
InHand(u) == \E p \in Receivers : receiver[p].at = "update" /\ receiver[p].next = u
ReceiverTo(p, to) == receiver' = [receiver EXCEPT ![p] = to]

---------------------------------------------------------------------------
(* start_telegram_bot, stop_telegram_bot *)

\* Neither running nor still stopping: the token is read and Telegram is asked.
StartCall(t) ==
    /\ api[t] = "idle"
    /\ ~botRunning /\ ~Receives(current)
    /\ api' = [api EXCEPT ![t] = "test"]
    /\ UNCHANGED <<inbox, receiverVars, taskVars, handled, botCrashes>>

StartFails(t) ==
    /\ api[t] = "test"
    /\ api' = [api EXCEPT ![t] = "idle"]
    /\ UNCHANGED <<inbox, receiverVars, taskVars, handled, botCrashes>>

StartLaunch(t) ==
    /\ api[t] = "test" /\ receivers < MaxReceivers
    /\ botRunning' = TRUE
    /\ receivers' = receivers + 1 /\ current' = receivers + 1
    /\ ReceiverTo(receivers + 1, [Polling EXCEPT !.at = "token"])
    /\ doubled' = (doubled \/ \E p \in Receivers : Receives(p))
    /\ api' = [api EXCEPT ![t] = "idle"]
    /\ UNCHANGED <<inbox, confirmed, lastId, unheard, taskVars, handled, botCrashes>>

\* The flag, then the receiver is joined for a while.
StopCall(t) ==
    /\ api[t] = "idle"
    /\ botRunning' = FALSE
    /\ api' = [api EXCEPT ![t] = "join"]
    /\ UNCHANGED <<inbox, confirmed, lastId, current, receivers, receiver, doubled, unheard, taskVars, handled, botCrashes>>

StopJoined(t) ==
    /\ api[t] = "join"
    /\ current' = IF Receives(current) THEN current ELSE 0
    /\ api' = [api EXCEPT ![t] = "idle"]
    /\ UNCHANGED <<inbox, confirmed, botRunning, lastId, receivers, receiver, doubled, unheard, taskVars, handled, botCrashes>>

---------------------------------------------------------------------------
(* poll_loop *)

ReadToken(p) ==
    /\ receiver[p].at = "token"
    /\ \/ ReceiverTo(p, Polling) /\ UNCHANGED botRunning
       \/ ReceiverTo(p, Gone) /\ botRunning' = FALSE
    /\ UNCHANGED <<inbox, confirmed, lastId, current, receivers, doubled, unheard, api, taskVars, handled, botCrashes>>

EndLoop(p) ==
    /\ receiver[p].at = "poll" /\ ~botRunning
    /\ ReceiverTo(p, Gone)
    /\ UNCHANGED <<inbox, confirmed, botRunning, lastId, current, receivers, doubled, unheard, api, taskVars, handled, botCrashes>>

\* getUpdates(offset): everything before the offset is confirmed, the rest is
\* delivered, unless the answer is lost.
Poll(p, offset) ==
    /\ receiver[p].at = "poll" /\ botRunning
    /\ confirmed' = IF offset > confirmed + 1 THEN offset - 1 ELSE confirmed
    /\ \/ /\ confirmed' < Len(inbox)
          /\ ReceiverTo(p, [at |-> "batch", next |-> confirmed' + 1, last |-> Len(inbox)])
       \/ UNCHANGED receiver
    /\ UNCHANGED <<inbox, botRunning, lastId, current, receivers, doubled, unheard, api, taskVars, handled, botCrashes>>

\* Mutant of GetUpdates: the offset is the last update, not the one after it.
GetUpdatesAgain(p) == Poll(p, lastId)

GetUpdates(p) == Poll(p, lastId + 1)

AfterUpdate(p) == IF receiver[p].next = receiver[p].last THEN Polling ELSE [receiver[p] EXCEPT !.at = "batch", !.next = @ + 1]

\* The offset moves before the message is looked at.
TakeUpdate(p) ==
    /\ receiver[p].at = "batch"
    /\ lastId' = receiver[p].next
    /\ ReceiverTo(p, [receiver[p] EXCEPT !.at = "update"])
    /\ UNCHANGED <<inbox, confirmed, botRunning, current, receivers, doubled, unheard, api, taskVars, handled, botCrashes>>

\* process_message: a task if the chat has none; /stop looks for the chat's task.
\* An exception (the database) ends it without any of this.
Process(p) ==
    /\ receiver[p].at = "update"
    /\ LET u == receiver[p].next
           m == inbox[u]
       IN /\ handled' = handled \cup {u}
          /\ \/ /\ m.kind = "stop" /\ chatTask[m.chat] # 0
                /\ stoppedTask' = stoppedTask \cup {chatTask[m.chat]}
                /\ ReceiverTo(p, [receiver[p] EXCEPT !.at = "cancel"])
                /\ UNCHANGED <<chatTask, task, begun>>
             \/ /\ m.kind # "stop" /\ chatTask[m.chat] = 0
                /\ chatTask' = [chatTask EXCEPT ![m.chat] = u]
                /\ task' = [task EXCEPT ![u] = IF m.kind = "voice" THEN "listens" ELSE "begins"]
                /\ begun' = [begun EXCEPT ![u] = IF @ = 2 THEN 2 ELSE @ + 1]
                /\ ReceiverTo(p, AfterUpdate(p))
                /\ UNCHANGED stoppedTask
             \/ /\ ReceiverTo(p, AfterUpdate(p))
                /\ UNCHANGED <<chatTask, task, begun, stoppedTask>>
    /\ UNCHANGED <<inbox, confirmed, botRunning, lastId, current, receivers, doubled, unheard, api, cancels, early, botCrashes>>

\* request_cancel: a run that has not begun finds its cancellation when it does; one
\* that is over is left alone.
Cancel(p) ==
    /\ receiver[p].at = "cancel"
    /\ LET u == chatTask[inbox[receiver[p].next].chat]
       IN IF u \in stoppedTask
          THEN /\ cancels' = IF task[u] \in {"listens", "begins", "works"} THEN cancels \cup {u} ELSE cancels
               /\ early' = IF task[u] \in {"listens", "begins"} THEN early \cup {u} ELSE early
          ELSE UNCHANGED <<cancels, early>>
    /\ ReceiverTo(p, AfterUpdate(p))
    /\ UNCHANGED <<inbox, confirmed, botRunning, lastId, current, receivers, doubled, unheard, api, chatTask, task, stoppedTask,
                   handled, begun, botCrashes>>

---------------------------------------------------------------------------
(* The thread of a task *)

TaskTo(u, at) == task' = [task EXCEPT ![u] = at]

\* The voice message or file is fetched; a stop that came meanwhile ends the task.
Listen(u) ==
    /\ task[u] = "listens"
    /\ \/ TaskTo(u, "ends")
       \/ u \notin stoppedTask /\ TaskTo(u, "begins")
    /\ UNCHANGED <<inbox, receiverVars, api, chatTask, cancels, stoppedTask, begun, early, handled, botCrashes>>

\* _claim_run: a run whose cancellation is wanted ends at once.
RunBegins(u) ==
    /\ task[u] = "begins"
    /\ TaskTo(u, IF u \in cancels THEN "ends" ELSE "works")
    /\ UNCHANGED <<inbox, receiverVars, api, chatTask, cancels, stoppedTask, begun, early, handled, botCrashes>>

RunEnds(u) ==
    /\ task[u] = "works"
    /\ TaskTo(u, "ends")
    /\ UNCHANGED <<inbox, receiverVars, api, chatTask, cancels, stoppedTask, begun, early, handled, botCrashes>>

\* The chat is free for the next message.
Leave(u) ==
    /\ task[u] = "ends"
    /\ TaskTo(u, "over")
    /\ chatTask' = [chatTask EXCEPT ![inbox[u].chat] = IF @ = u THEN 0 ELSE @]
    /\ UNCHANGED <<inbox, receiverVars, api, cancels, stoppedTask, begun, early, handled, botCrashes>>

---------------------------------------------------------------------------
(* Telegram, and a crash of the backend *)

Message ==
    /\ Len(inbox) < MaxUpdates
    /\ \E c \in Chats, k \in {"text", "voice", "stop"} : inbox' = Append(inbox, [chat |-> c, kind |-> k])
    /\ UNCHANGED <<receiverVars, api, taskVars, handled, botCrashes>>

CrashBot ==
    /\ botCrashes = 0
    /\ botCrashes' = 1
    /\ botRunning' = FALSE /\ lastId' = 0 /\ current' = 0
    /\ receiver' = [p \in Receivers |-> Gone] /\ api' = [t \in ApiThreads |-> "idle"]
    /\ chatTask' = [c \in Chats |-> 0]
    /\ task' = [u \in Updates |-> IF task[u] = "none" THEN "none" ELSE "over"]
    /\ cancels' = {} /\ stoppedTask' = {} /\ early' = {}
    /\ unheard' = {u \in 1..confirmed : u \notin handled}
    /\ UNCHANGED <<inbox, confirmed, receivers, doubled, begun, handled>>

---------------------------------------------------------------------------
BotInit ==
    /\ inbox = <<>> /\ confirmed = 0
    /\ botRunning = FALSE /\ lastId = 0 /\ current = 0 /\ receivers = 0
    /\ receiver = [p \in Receivers |-> Gone]
    /\ api = [t \in ApiThreads |-> "idle"]
    /\ chatTask = [c \in Chats |-> 0] /\ task = [u \in Updates |-> "none"]
    /\ cancels = {} /\ stoppedTask = {} /\ handled = {}
    /\ begun = [u \in Updates |-> 0] /\ early = {} /\ doubled = FALSE /\ unheard = {} /\ botCrashes = 0

ReceiverSteps(p) == ReadToken(p) \/ EndLoop(p) \/ GetUpdates(p) \/ TakeUpdate(p) \/ Process(p) \/ Cancel(p)
ApiSteps(t) == StartCall(t) \/ StartFails(t) \/ StartLaunch(t) \/ StopCall(t) \/ StopJoined(t)
TaskSteps(u) == Listen(u) \/ RunBegins(u) \/ RunEnds(u) \/ Leave(u)

BotNext ==
    \/ Message \/ CrashBot
    \/ \E p \in Receivers : ReceiverSteps(p)
    \/ \E t \in ApiThreads : ApiSteps(t)
    \/ \E u \in Updates : TaskSteps(u)

BotSpec == BotInit /\ [][BotNext]_botVars

---------------------------------------------------------------------------
(* Properties *)

\* The receivers, their batches, the chats and the tasks have their types.
BotTypeOK ==
    /\ \A u \in DOMAIN inbox : inbox[u] \in [chat : Chats, kind : {"text", "voice", "stop"}]
    /\ confirmed \in 0..MaxUpdates /\ lastId \in 0..MaxUpdates
    /\ botRunning \in BOOLEAN /\ current \in 0..MaxReceivers /\ receivers \in 0..MaxReceivers
    /\ receiver \in [Receivers -> [at : {"gone", "token", "poll", "batch", "update", "cancel"}, next : 0..MaxUpdates, last : 0..MaxUpdates]]
    /\ api \in [ApiThreads -> {"idle", "test", "join"}]
    /\ chatTask \in [Chats -> 0..MaxUpdates]
    /\ task \in [Updates -> {"none", "listens", "begins", "works", "ends", "over"}]
    /\ cancels \subseteq Updates /\ stoppedTask \subseteq Updates /\ handled \subseteq Updates /\ early \subseteq Updates
    /\ begun \in [Updates -> 0..2] /\ doubled \in BOOLEAN /\ unheard \subseteq Updates /\ botCrashes \in {0, 1}

\* Messages are not lost between the polls and not worked on twice: what has been
\* confirmed to Telegram was seen here, or a receiver holds it and is about to look
\* at it.  Only a crash takes it out of that hand, and only if a second receiver had
\* confirmed it meanwhile.  No message begins a second task unless a crash or a second
\* receiver came in between.
DeliveredOnce ==
    /\ \A u \in 1..confirmed : u \in handled \/ InHand(u) \/ u \in unheard
    /\ unheard # {} => doubled
    /\ botCrashes = 0 /\ ~doubled => \A u \in Updates : begun[u] <= 1

\* A /stop that was confirmed before the task's run began is not forgotten: that
\* run never works.
EarlyStopHolds == \A u \in early : task[u] # "works"

\* No message is lost or worked on twice between polls, and an early /stop holds.
MessagesHold == DeliveredOnce /\ EarlyStopHolds

=============================================================================
