----------------------------- MODULE RecordsProofs -----------------------------
(*******************************************************************************)
(* Records that outlive what they are about, for every value of the constants: *)
(* the bot's mail, the cards of a chat run, the index of a project's corpus    *)
(* and the transcript of a chat.                                               *)
(*******************************************************************************)
EXTENDS TelegramBot, ComposerRun, WellFoundedInduction, ProjectCorpus, BackgroundRuns, SequenceTheorems, FiniteSetTheorems, TLAPS

-------------------------------------------------------------------------------
(***************************************************************************)
(* What the Telegram bot guarantees for every set of chats and API threads *)
(* and every number of messages and receivers.  That a confirmed update    *)
(* was seen, or is in a receiver's hand, rests on what lies behind each    *)
(* receiver's place in its batch (BatchIsMail); that a single receiver has *)
(* nothing in hand when it polls, on what it confirms (AloneSeesAll); that *)
(* no message is worked on twice, on the single receiver standing right    *)
(* after the last update it took (BegunOnce).                              *)
(***************************************************************************)

Messages == [chat : Chats, kind : {"text", "voice", "stop"}]
Receptions == [at : {"gone", "token", "poll", "batch", "update", "cancel"}, next : 0..MaxUpdates, last : 0..MaxUpdates]
TaskStates == {"none", "listens", "begins", "works", "ends", "over"}

\* The type invariant, and that the inbox is a bounded sequence.
BotTyped ==
    /\ inbox \in Seq(Messages) /\ Len(inbox) <= MaxUpdates
    /\ confirmed \in 0..MaxUpdates /\ lastId \in 0..MaxUpdates
    /\ botRunning \in BOOLEAN /\ current \in 0..MaxReceivers /\ receivers \in 0..MaxReceivers
    /\ receiver \in [Receivers -> Receptions]
    /\ api \in [ApiThreads -> {"idle", "test", "join"}]
    /\ chatTask \in [Chats -> 0..MaxUpdates]
    /\ task \in [Updates -> TaskStates]
    /\ cancels \subseteq Updates /\ stoppedTask \subseteq Updates /\ handled \subseteq Updates /\ early \subseteq Updates
    /\ begun \in [Updates -> 0..2] /\ doubled \in BOOLEAN /\ unheard \subseteq Updates /\ botCrashes \in {0, 1}

Known(u) == u \in handled \/ InHand(u) \/ u \in unheard

MailFits(p) ==
    /\ 1 <= receiver[p].next /\ receiver[p].next <= receiver[p].last /\ receiver[p].last <= Len(inbox)
    /\ \A u \in 1..(receiver[p].next - 1) : Known(u)
    /\ receiver[p].at = "cancel" => receiver[p].next \in handled

\* A batch is of delivered updates, and everything before a receiver's place was seen.
BatchIsMail ==
    \A p \in Receivers : receiver[p].at \in {"batch", "update", "cancel"} => MailFits(p)

\* What the offset is past, or what has been confirmed, has been seen or is in hand.
SeenBehind ==
    /\ \A u \in 1..lastId : Known(u)
    /\ \A u \in 1..confirmed : Known(u)

\* A receiver that is alone confirms what it has seen.
AloneSeesAll == ~doubled => unheard = {} /\ \A u \in 1..confirmed : u \in handled

OneReceiver ==
    /\ ~doubled => \A p, q \in Receivers : receiver[p].at # "gone" /\ receiver[q].at # "gone" => p = q
    /\ \A p \in Receivers : receiver[p].at # "gone" => p <= receivers

\* Until a crash or a second receiver, the receiver stands right after the last update it took,
\* and no task was begun for an update it has still to process.
BegunOnce ==
    botCrashes = 0 /\ ~doubled =>
        /\ confirmed <= lastId
        /\ \A u \in Updates : begun[u] <= 1 /\ (begun[u] # 0 => u <= lastId)
        /\ \A q \in Receivers : /\ receiver[q].at = "batch" => receiver[q].next = lastId + 1
                                /\ receiver[q].at = "update" => receiver[q].next = lastId /\ begun[receiver[q].next] = 0
                                /\ receiver[q].at = "cancel" => receiver[q].next = lastId

\* The run of a task that was stopped early will find its cancellation.
EarlyIsWanted == early \subseteq cancels /\ EarlyStopHolds

BotInv == BotTyped /\ BatchIsMail /\ SeenBehind /\ AloneSeesAll /\ OneReceiver /\ BegunOnce /\ EarlyIsWanted

USE TelegramAssumption

LEMMA OneMoreOneLess == \A n \in Nat : (n + 1) - 1 = n
OBVIOUS

LEMMA ReceiverFields ==
  ASSUME BotTyped
  PROVE  /\ lastId \in Nat /\ confirmed \in Nat /\ Len(inbox) \in Nat /\ early \subseteq Updates
         /\ \A p \in Receivers : receiver[p].next \in 0..MaxUpdates /\ receiver[p].last \in 0..MaxUpdates
  BY DEF BotTyped, Receptions

LEMMA EmptyReceptions ==
  /\ Gone \in Receptions /\ Polling \in Receptions /\ [Polling EXCEPT !.at = "token"] \in Receptions
  /\ Gone.at = "gone" /\ Polling.at = "poll" /\ [Polling EXCEPT !.at = "token"].at = "token"
  BY DEF Gone, Polling, Receptions

\* One receiver moves, the others stay.
LEMMA ReceiverMoves ==
  ASSUME BotTyped, NEW p \in Receivers, NEW to \in Receptions, ReceiverTo(p, to)
  PROVE  /\ receiver' \in [Receivers -> Receptions] /\ receiver'[p] = to
         /\ \A q \in Receivers : q # p => receiver'[q] = receiver[q]
  BY DEF ReceiverTo, BotTyped

LEMMA AfterUpdateShape ==
  ASSUME BotTyped, BatchIsMail, NEW p \in Receivers, receiver[p].at \in {"batch", "update", "cancel"}
  PROVE  /\ AfterUpdate(p) \in Receptions
         /\ \/ AfterUpdate(p).at = "poll"
            \/ /\ AfterUpdate(p).at = "batch" /\ AfterUpdate(p).next = receiver[p].next + 1
               /\ AfterUpdate(p).last = receiver[p].last /\ receiver[p].next + 1 <= receiver[p].last
<1>1. /\ receiver[p] \in Receptions /\ receiver[p].next \in 0..MaxUpdates /\ receiver[p].last \in 0..MaxUpdates
      /\ receiver[p].next <= receiver[p].last
  BY ReceiverFields DEF BotTyped, BatchIsMail, MailFits
<1>2. CASE receiver[p].next = receiver[p].last
  BY <1>2, EmptyReceptions DEF AfterUpdate
<1>3. CASE receiver[p].next # receiver[p].last
  <2> DEFINE r == [receiver[p] EXCEPT !.at = "batch", !.next = @ + 1]
  <2>1. receiver[p].next + 1 \in 0..MaxUpdates /\ receiver[p].next + 1 <= receiver[p].last
    BY <1>1, <1>3
  <2>2. r \in Receptions /\ r.at = "batch" /\ r.next = receiver[p].next + 1 /\ r.last = receiver[p].last
    BY <1>1, <2>1 DEF Receptions
  <2>3. AfterUpdate(p) = r
    BY <1>3 DEF AfterUpdate
  <2>4. QED BY <2>1, <2>2, <2>3
<1>4. QED BY <1>2, <1>3

\* What was seen or is in hand stays so while whoever holds it holds it or looks at it.
LEMMA KnownKept ==
  ASSUME handled \subseteq handled', unheard \subseteq unheard',
         \A q \in Receivers : receiver[q].at = "update" =>
            (receiver'[q].at = "update" /\ receiver'[q].next = receiver[q].next) \/ receiver[q].next \in handled'
  PROVE  \A v : Known(v) => Known(v)'
  BY DEF Known, InHand

\* What a receiver that stays where it is stands before, stays known.
LEMMA MailKept ==
  ASSUME BatchIsMail, inbox' = inbox, handled \subseteq handled', \A v : Known(v) => Known(v)',
         NEW q \in Receivers, receiver'[q] = receiver[q], receiver'[q].at \in {"batch", "update", "cancel"}
  PROVE  MailFits(q)'
  BY DEF BatchIsMail, MailFits

LEMMA BotStep ==
  ASSUME BotInv, BotNext
  PROVE  BotInv'
<1>0. BotTyped /\ BatchIsMail /\ SeenBehind /\ AloneSeesAll /\ OneReceiver /\ BegunOnce /\ EarlyIsWanted
  BY DEF BotInv
<1>a. /\ lastId \in Nat /\ confirmed \in Nat /\ Len(inbox) \in Nat /\ early \subseteq Updates
      /\ \A p \in Receivers : receiver[p].next \in 0..MaxUpdates /\ receiver[p].last \in 0..MaxUpdates
  BY <1>0, ReceiverFields
<1>1. ASSUME NEW t \in ApiThreads, StartCall(t) \/ StartFails(t) PROVE BotInv'
  <2>0. /\ api' \in [ApiThreads -> {"idle", "test", "join"}]
        /\ UNCHANGED <<inbox, confirmed, botRunning, lastId, current, receivers, receiver, doubled, unheard, chatTask, task, cancels, stoppedTask, begun, early, handled, botCrashes>>
    BY <1>0, <1>1 DEF StartCall, StartFails, receiverVars, taskVars, BotTyped
  <2>9. \A v : Known(v) => Known(v)'
    BY <2>0, KnownKept
  <2>1. BotTyped'
    BY <1>0, <2>0, <1>a DEF BotTyped
  <2>2. BatchIsMail'
    BY <1>0, <2>0, <2>9, <1>a DEF BatchIsMail, MailFits
  <2>3. SeenBehind'
    BY <1>0, <2>0, <2>9, <1>a DEF SeenBehind
  <2>8. AloneSeesAll'
    BY <1>0, <2>0, <1>a DEF AloneSeesAll
  <2>4. OneReceiver'
    BY <1>0, <2>0, <1>a DEF OneReceiver
  <2>5. BegunOnce'
    BY <1>0, <2>0, <1>a DEF BegunOnce
  <2>6. EarlyIsWanted'
    BY <1>0, <2>0, <1>a DEF EarlyIsWanted, EarlyStopHolds
  <2>7. QED BY <2>1, <2>2, <2>3, <2>8, <2>4, <2>5, <2>6 DEF BotInv
<1>2. ASSUME NEW t \in ApiThreads, StartLaunch(t) PROVE BotInv'
  <2>0. /\ api' \in [ApiThreads -> {"idle", "test", "join"}] /\ botRunning' = TRUE
        /\ receivers' \in Receivers /\ receivers' = receivers + 1 /\ current' = receivers' /\ receiver' \in [Receivers -> Receptions]
        /\ receiver'[receivers'].at = "token" /\ (\A q \in Receivers : q # receivers' => receiver'[q] = receiver[q])
        /\ doubled' \in BOOLEAN /\ (~doubled' => ~doubled /\ \A q \in Receivers : receiver[q].at = "gone")
        /\ UNCHANGED <<inbox, confirmed, lastId, unheard, chatTask, task, cancels, stoppedTask, begun, early, handled, botCrashes>>
    <3>1. /\ receivers < MaxReceivers /\ botRunning' = TRUE /\ receivers' = receivers + 1 /\ current' = receivers + 1
          /\ ReceiverTo(receivers + 1, [Polling EXCEPT !.at = "token"])
          /\ doubled' = (doubled \/ \E p \in Receivers : Receives(p)) /\ api' = [api EXCEPT ![t] = "idle"]
          /\ UNCHANGED <<inbox, confirmed, lastId, unheard, chatTask, task, cancels, stoppedTask, begun, early, handled, botCrashes>>
      BY <1>2 DEF StartLaunch, taskVars
    <3>2. receivers + 1 \in Receivers
      BY <1>0, <3>1 DEF BotTyped, Receivers
    <3>3. /\ receiver' \in [Receivers -> Receptions] /\ receiver'[receivers + 1] = [Polling EXCEPT !.at = "token"]
          /\ \A q \in Receivers : q # receivers + 1 => receiver'[q] = receiver[q]
      BY <1>0, <3>1, <3>2, EmptyReceptions, ReceiverMoves
    <3>4. api' \in [ApiThreads -> {"idle", "test", "join"}]
      BY <1>0, <3>1 DEF BotTyped
    <3>5. doubled' \in BOOLEAN /\ (~doubled' => ~doubled /\ \A q \in Receivers : receiver[q].at = "gone")
      <4>1. doubled \in BOOLEAN
        BY <1>0 DEF BotTyped
      <4>2. CASE \E p \in Receivers : Receives(p)
        BY <3>1, <4>2
      <4>3. CASE ~\E p \in Receivers : Receives(p)
        <5>1. doubled' = doubled
          BY <3>1, <4>1, <4>3
        <5>2. \A q \in Receivers : receiver[q].at = "gone"
          BY <4>3 DEF Receives, Receivers
        <5>3. QED BY <4>1, <5>1, <5>2
      <4>4. QED BY <4>2, <4>3
    <3>6. QED BY <3>1, <3>2, <3>3, <3>4, <3>5, EmptyReceptions
  <2>9. \A v : Known(v) => Known(v)'
    <3>1. \A q \in Receivers : receiver[q].at = "update" => q # receivers'
      <4>1. receivers \in Nat /\ ~(receivers' <= receivers)
        BY <1>0, <2>0 DEF BotTyped
      <4>2. QED BY <1>0, <4>1 DEF OneReceiver
    <3>2. QED BY <2>0, <3>1, KnownKept
  <2>1. BotTyped'
    BY <1>0, <2>0 DEF BotTyped, Receivers
  <2>2. BatchIsMail'
    BY <1>0, <2>0, <2>9, <1>a DEF BatchIsMail, MailFits
  <2>3. SeenBehind'
    BY <1>0, <2>0, <2>9, <1>a DEF SeenBehind
  <2>8. AloneSeesAll'
    BY <1>0, <2>0, <1>a DEF AloneSeesAll
  <2>4. OneReceiver'
    <3>1. \A q \in Receivers : receiver'[q].at # "gone" => q <= receivers'
      BY <1>0, <2>0 DEF OneReceiver, BotTyped, Receivers
    <3>2. QED BY <1>0, <2>0, <3>1 DEF OneReceiver
  <2>5. BegunOnce'
    BY <1>0, <2>0, <1>a DEF BegunOnce
  <2>6. EarlyIsWanted'
    BY <1>0, <2>0, <1>a DEF EarlyIsWanted, EarlyStopHolds
  <2>7. QED BY <2>1, <2>2, <2>3, <2>8, <2>4, <2>5, <2>6 DEF BotInv
<1>3. ASSUME NEW t \in ApiThreads, StopCall(t) \/ StopJoined(t) PROVE BotInv'
  <2>0. /\ api' \in [ApiThreads -> {"idle", "test", "join"}] /\ botRunning' \in BOOLEAN /\ current' \in 0..MaxReceivers
        /\ UNCHANGED <<inbox, confirmed, lastId, receivers, receiver, doubled, unheard, chatTask, task, cancels, stoppedTask, begun, early, handled, botCrashes>>
    <3>1. CASE StopCall(t)
      BY <1>0, <3>1 DEF StopCall, taskVars, BotTyped
    <3>2. CASE StopJoined(t)
      <4>1. current' \in {current, 0} /\ api' = [api EXCEPT ![t] = "idle"]
            /\ UNCHANGED <<inbox, confirmed, botRunning, lastId, receivers, receiver, doubled, unheard, chatTask, task, cancels, stoppedTask, begun, early, handled, botCrashes>>
        BY <3>2 DEF StopJoined, taskVars
      <4>2. QED BY <1>0, <4>1 DEF BotTyped
    <3>3. QED BY <1>3, <3>1, <3>2
  <2>9. \A v : Known(v) => Known(v)'
    BY <2>0, KnownKept
  <2>1. BotTyped'
    BY <1>0, <2>0, <1>a DEF BotTyped
  <2>2. BatchIsMail'
    BY <1>0, <2>0, <2>9, <1>a DEF BatchIsMail, MailFits
  <2>3. SeenBehind'
    BY <1>0, <2>0, <2>9, <1>a DEF SeenBehind
  <2>8. AloneSeesAll'
    BY <1>0, <2>0, <1>a DEF AloneSeesAll
  <2>4. OneReceiver'
    BY <1>0, <2>0, <1>a DEF OneReceiver
  <2>5. BegunOnce'
    BY <1>0, <2>0, <1>a DEF BegunOnce
  <2>6. EarlyIsWanted'
    BY <1>0, <2>0, <1>a DEF EarlyIsWanted, EarlyStopHolds
  <2>7. QED BY <2>1, <2>2, <2>3, <2>8, <2>4, <2>5, <2>6 DEF BotInv
<1>4. ASSUME NEW p \in Receivers, ReadToken(p) \/ EndLoop(p) PROVE BotInv'
  <2>0. /\ botRunning' \in BOOLEAN /\ receiver[p].at \in {"token", "poll"} /\ receiver'[p].at \in {"gone", "poll"}
        /\ receiver' \in [Receivers -> Receptions] /\ (\A q \in Receivers : q # p => receiver'[q] = receiver[q])
        /\ UNCHANGED <<inbox, confirmed, lastId, current, receivers, doubled, unheard, api, chatTask, task, cancels, stoppedTask, begun, early, handled, botCrashes>>
    <3>1. PICK to \in {Gone, Polling} : ReceiverTo(p, to)
      BY <1>4 DEF ReadToken, EndLoop
    <3>2. /\ receiver' \in [Receivers -> Receptions] /\ receiver'[p] = to
          /\ \A q \in Receivers : q # p => receiver'[q] = receiver[q]
      BY <1>0, <3>1, EmptyReceptions, ReceiverMoves
    <3>3. botRunning' \in BOOLEAN /\ receiver[p].at \in {"token", "poll"}
          /\ UNCHANGED <<inbox, confirmed, lastId, current, receivers, doubled, unheard, api, chatTask, task, cancels, stoppedTask, begun, early, handled, botCrashes>>
      BY <1>0, <1>4 DEF ReadToken, EndLoop, taskVars, BotTyped
    <3>4. QED BY <3>1, <3>2, <3>3, EmptyReceptions
  <2>9. \A v : Known(v) => Known(v)'
    BY <2>0, KnownKept
  <2>1. BotTyped'
    BY <1>0, <2>0, <1>a DEF BotTyped
  <2>2. BatchIsMail'
    <3>1. \A q \in Receivers : q # p /\ receiver'[q].at \in {"batch", "update", "cancel"} => MailFits(q)'
      BY <1>0, <2>0, <2>9, MailKept
    <3>2. QED BY <2>0, <3>1 DEF BatchIsMail
  <2>3. SeenBehind'
    BY <1>0, <2>0, <2>9, <1>a DEF SeenBehind
  <2>8. AloneSeesAll'
    BY <1>0, <2>0, <1>a DEF AloneSeesAll
  <2>4. OneReceiver'
    BY <1>0, <2>0, <1>a DEF OneReceiver
  <2>5. BegunOnce'
    BY <1>0, <2>0, <1>a DEF BegunOnce
  <2>6. EarlyIsWanted'
    BY <1>0, <2>0, <1>a DEF EarlyIsWanted, EarlyStopHolds
  <2>7. QED BY <2>1, <2>2, <2>3, <2>8, <2>4, <2>5, <2>6 DEF BotInv
<1>5. ASSUME NEW p \in Receivers, GetUpdates(p) PROVE BotInv'
  <2>0. /\ receiver[p].at = "poll" /\ confirmed' \in 0..MaxUpdates
        /\ confirmed' = (IF lastId > confirmed THEN lastId ELSE confirmed)
        /\ receiver' \in [Receivers -> Receptions] /\ (\A q \in Receivers : q # p => receiver'[q] = receiver[q])
        /\ \/ receiver'[p].at = "poll"
           \/ /\ receiver'[p].at = "batch" /\ receiver'[p].next = confirmed' + 1 /\ receiver'[p].last = Len(inbox)
              /\ confirmed' < Len(inbox)
        /\ UNCHANGED <<inbox, botRunning, lastId, current, receivers, doubled, unheard, api, chatTask, task, cancels, stoppedTask, begun, early, handled, botCrashes>>
    <3>1. /\ receiver[p].at = "poll" /\ confirmed' = IF lastId + 1 > confirmed + 1 THEN (lastId + 1) - 1 ELSE confirmed
          /\ UNCHANGED <<inbox, botRunning, lastId, current, receivers, doubled, unheard, api, chatTask, task, cancels, stoppedTask, begun, early, handled, botCrashes>>
      BY <1>5 DEF GetUpdates, Poll, taskVars
    <3>2. confirmed' = (IF lastId > confirmed THEN lastId ELSE confirmed) /\ confirmed' \in 0..MaxUpdates
      BY <1>0, <1>a, <3>1 DEF BotTyped
    <3>3. CASE confirmed' < Len(inbox) /\ ReceiverTo(p, [at |-> "batch", next |-> confirmed' + 1, last |-> Len(inbox)])
      <4> DEFINE r == [at |-> "batch", next |-> confirmed' + 1, last |-> Len(inbox)]
      <4>1. r \in Receptions /\ r.at = "batch" /\ r.next = confirmed' + 1 /\ r.last = Len(inbox)
        BY <1>0, <1>a, <3>2, <3>3 DEF Receptions, BotTyped
      <4> HIDE DEF r
      <4>2. /\ receiver' \in [Receivers -> Receptions] /\ receiver'[p] = r
            /\ \A q \in Receivers : q # p => receiver'[q] = receiver[q]
        BY <1>0, <3>3, <4>1, ReceiverMoves DEF r
      <4>3. QED BY <3>1, <3>2, <3>3, <4>1, <4>2
    <3>4. CASE receiver' = receiver
      BY <1>0, <3>1, <3>2, <3>4 DEF BotTyped
    <3>5. QED BY <1>5, <3>3, <3>4 DEF GetUpdates, Poll
  <2>9. \A v : Known(v) => Known(v)'
    BY <2>0, KnownKept
  <2>1. BotTyped'
    BY <1>0, <2>0, <1>a DEF BotTyped
  <2>2. BatchIsMail'
    <3>1. \A u \in 1..confirmed' : Known(u)'
      BY <1>0, <2>0, <2>9 DEF SeenBehind
    <3>2. confirmed' \in Nat
      BY <1>a, <2>0
    <3>3. \A u \in 1..((confirmed' + 1) - 1) : Known(u)'
      <4>1. (confirmed' + 1) - 1 = confirmed'
        BY <3>2, OneMoreOneLess
      <4>2. QED BY <3>1, <4>1
    <3>4. ASSUME receiver'[p].at \in {"batch", "update", "cancel"} PROVE MailFits(p)'
      <4>1. /\ receiver'[p].at = "batch" /\ receiver'[p].next = confirmed' + 1 /\ receiver'[p].last = Len(inbox)
            /\ confirmed' < Len(inbox) /\ inbox' = inbox
        BY <2>0, <3>4
      <4>2. 1 <= receiver'[p].next /\ receiver'[p].next <= receiver'[p].last /\ receiver'[p].last <= Len(inbox')
        BY <1>a, <3>2, <4>1
      <4>3. \A u \in 1..(receiver'[p].next - 1) : Known(u)'
        BY <3>3, <4>1
      <4>4. QED BY <4>1, <4>2, <4>3 DEF MailFits
    <3>5. \A q \in Receivers : q # p /\ receiver'[q].at \in {"batch", "update", "cancel"} => MailFits(q)'
      BY <1>0, <2>0, <2>9, MailKept
    <3>6. QED BY <3>4, <3>5 DEF BatchIsMail
  <2>3. SeenBehind'
    BY <1>0, <2>0, <2>9, <1>a DEF SeenBehind
  <2>8. AloneSeesAll'
    <3>1. SUFFICES ASSUME ~doubled PROVE unheard = {} /\ \A u \in 1..confirmed' : u \in handled
      BY <2>0 DEF AloneSeesAll
    <3>2. unheard = {} /\ \A q \in Receivers : receiver[q].at # "update"
      BY <1>0, <2>0, <3>1 DEF AloneSeesAll, OneReceiver
    <3>3. \A u : Known(u) => u \in handled
      BY <3>2 DEF Known, InHand
    <3>4. \A u \in 1..confirmed' : Known(u)
      BY <1>0, <2>0 DEF SeenBehind
    <3>5. QED BY <3>2, <3>3, <3>4
  <2>4. OneReceiver'
    BY <1>0, <2>0, <1>a DEF OneReceiver
  <2>5. BegunOnce'
    BY SMTT(60), <1>0, <2>0, <1>a DEF BegunOnce
  <2>6. EarlyIsWanted'
    BY <1>0, <2>0, <1>a DEF EarlyIsWanted, EarlyStopHolds
  <2>7. QED BY <2>1, <2>2, <2>3, <2>8, <2>4, <2>5, <2>6 DEF BotInv
<1>12. ASSUME NEW p \in Receivers, TakeUpdate(p) PROVE BotInv'
  <2>0. /\ receiver[p].at = "batch" /\ receiver[p].next \in Updates /\ lastId' = receiver[p].next
        /\ receiver' \in [Receivers -> Receptions] /\ (\A q \in Receivers : q # p => receiver'[q] = receiver[q])
        /\ receiver'[p].at = "update" /\ receiver'[p].next = receiver[p].next /\ receiver'[p].last = receiver[p].last
        /\ UNCHANGED <<inbox, confirmed, botRunning, current, receivers, doubled, unheard, api, chatTask, task, cancels, stoppedTask, begun, early, handled, botCrashes>>
    <3> DEFINE r == [receiver[p] EXCEPT !.at = "update"]
    <3>1. /\ receiver[p].at = "batch" /\ lastId' = receiver[p].next /\ ReceiverTo(p, r)
          /\ UNCHANGED <<inbox, confirmed, botRunning, current, receivers, doubled, unheard, api, chatTask, task, cancels, stoppedTask, begun, early, handled, botCrashes>>
      BY <1>12 DEF TakeUpdate, taskVars
    <3>2. receiver[p] \in Receptions /\ receiver[p].next \in Updates
      BY <1>0, <1>a, <3>1 DEF BatchIsMail, MailFits, BotTyped, Updates
    <3>3. r \in Receptions /\ r.at = "update" /\ r.next = receiver[p].next /\ r.last = receiver[p].last
      BY <3>2 DEF Receptions
    <3> HIDE DEF r
    <3>4. /\ receiver' \in [Receivers -> Receptions] /\ receiver'[p] = r
          /\ \A q \in Receivers : q # p => receiver'[q] = receiver[q]
      BY <1>0, <3>1, <3>3, ReceiverMoves
    <3>5. QED BY <3>1, <3>2, <3>3, <3>4
  <2>9. \A v : Known(v) => Known(v)'
    BY <2>0, KnownKept
  <2>1. BotTyped'
    BY <1>0, <2>0, <1>a DEF BotTyped, Updates
  <2>2. BatchIsMail'
    <3>1. ASSUME receiver'[p].at \in {"batch", "update", "cancel"} PROVE MailFits(p)'
      <4>1. /\ 1 <= receiver[p].next /\ receiver[p].next <= receiver[p].last /\ receiver[p].last <= Len(inbox)
            /\ (\A u \in 1..(receiver[p].next - 1) : Known(u)') /\ inbox' = inbox /\ receiver[p].next \in Nat /\ receiver[p].last \in Nat
        BY <1>0, <1>a, <2>0, <2>9 DEF BatchIsMail, MailFits
      <4>2. receiver'[p].next = receiver[p].next /\ receiver'[p].last = receiver[p].last /\ receiver'[p].at = "update"
        BY <2>0
      <4>9. QED BY <4>1, <4>2 DEF MailFits
    <3>2. \A q \in Receivers : q # p /\ receiver'[q].at \in {"batch", "update", "cancel"} => MailFits(q)'
      BY <1>0, <2>0, <2>9, MailKept
    <3>3. QED BY <3>1, <3>2 DEF BatchIsMail
  <2>3. SeenBehind'
    <3>1. \A v \in 1..(receiver[p].next - 1) : Known(v)'
      BY <1>0, <2>0, <2>9 DEF BatchIsMail, MailFits
    <3>2. Known(receiver[p].next)'
      BY <2>0 DEF Known, InHand
    <3>3. \A v \in 1..receiver[p].next : v \in 1..(receiver[p].next - 1) \/ v = receiver[p].next
      BY <1>a, <2>0
    <3>4. \A v \in 1..lastId' : Known(v)'
      BY <2>0, <3>1, <3>2, <3>3
    <3>5. \A v \in 1..confirmed' : Known(v)'
      BY <1>0, <2>0, <2>9 DEF SeenBehind
    <3>6. QED BY <3>4, <3>5 DEF SeenBehind
  <2>8. AloneSeesAll'
    BY <1>0, <2>0, <1>a DEF AloneSeesAll
  <2>4. OneReceiver'
    BY <1>0, <2>0, <1>a DEF OneReceiver
  <2>5. BegunOnce'
    <3>1. SUFFICES ASSUME botCrashes = 0, ~doubled PROVE BegunOnce'
      BY <2>0 DEF BegunOnce
    <3>2. /\ confirmed <= lastId /\ receiver[p].next = lastId + 1
          /\ \A v \in Updates : begun[v] <= 1 /\ (begun[v] # 0 => v <= lastId)
      BY <1>0, <2>0, <3>1 DEF BegunOnce
    <3>3. \A q \in Receivers : q # p => receiver'[q].at = "gone"
      BY <1>0, <2>0, <3>1 DEF OneReceiver
    <3>4. \A v \in Updates : begun[v] <= 1 /\ (begun[v] # 0 => v <= lastId')
      BY <1>a, <2>0, <3>2 DEF Updates
    <3>5. begun[receiver[p].next] = 0
      <4>1. ~(lastId + 1 <= lastId)
        BY <1>a
      <4>2. begun[receiver[p].next] \in 0..2 /\ ~(begun[receiver[p].next] # 0)
        BY <1>0, <2>0, <3>2, <4>1 DEF BotTyped
      <4>3. QED BY <4>2
    <3>6. confirmed' <= lastId'
      BY <1>a, <2>0, <3>2
    <3>7. \A q \in Receivers : /\ receiver'[q].at = "batch" => receiver'[q].next = lastId' + 1
                               /\ receiver'[q].at = "update" => receiver'[q].next = lastId' /\ begun[receiver'[q].next] = 0
                               /\ receiver'[q].at = "cancel" => receiver'[q].next = lastId'
      BY <2>0, <3>3, <3>5
    <3>8. QED BY <2>0, <3>4, <3>6, <3>7 DEF BegunOnce
  <2>6. EarlyIsWanted'
    BY <1>0, <2>0, <1>a DEF EarlyIsWanted, EarlyStopHolds
  <2>7. QED BY <2>1, <2>2, <2>3, <2>8, <2>4, <2>5, <2>6 DEF BotInv
<1>6. ASSUME NEW p \in Receivers, Process(p) PROVE BotInv'
  <2>0. /\ receiver[p].at = "update" /\ receiver[p].next \in Updates
        /\ handled' = handled \cup {receiver[p].next}
        /\ receiver' \in [Receivers -> Receptions] /\ (\A q \in Receivers : q # p => receiver'[q] = receiver[q])
        /\ \/ receiver'[p].at = "poll"
           \/ /\ receiver'[p].at = "batch" /\ receiver'[p].next = receiver[p].next + 1
              /\ receiver'[p].last = receiver[p].last /\ receiver[p].next + 1 <= receiver[p].last
           \/ receiver'[p].at = "cancel" /\ receiver'[p].next = receiver[p].next /\ receiver'[p].last = receiver[p].last
        /\ chatTask' \in [Chats -> 0..MaxUpdates] /\ stoppedTask' \subseteq Updates
        /\ task' \in [Updates -> TaskStates]
        /\ (\A v \in Updates : task'[v] = task[v] \/ task'[v] \in {"listens", "begins"})
        /\ begun' \in [Updates -> 0..2] /\ (\A v \in Updates : v # receiver[p].next => begun'[v] = begun[v])
        /\ (begun[receiver[p].next] = 0 => begun'[receiver[p].next] <= 1)
        /\ UNCHANGED <<inbox, confirmed, botRunning, lastId, current, receivers, doubled, unheard, api, cancels, early, botCrashes>>
    <3> DEFINE u == receiver[p].next
                m == inbox[u]
    <3>1. /\ receiver[p].at = "update" /\ handled' = handled \cup {u}
          /\ UNCHANGED <<inbox, confirmed, botRunning, lastId, current, receivers, doubled, unheard, api, cancels, early, botCrashes>>
      BY <1>6 DEF Process
    <3>2. u \in Updates /\ m \in Messages /\ m.chat \in Chats /\ receiver[p] \in Receptions
      <4>1. u \in 1..Len(inbox) /\ Len(inbox) <= MaxUpdates /\ inbox \in Seq(Messages)
        BY <1>0, <1>a, <3>1 DEF BatchIsMail, MailFits, BotTyped
      <4>2. m \in Messages /\ u \in Updates
        BY <1>a, <4>1 DEF Updates
      <4>3. QED BY <1>0, <4>2 DEF Messages, BotTyped
    <3>3. /\ AfterUpdate(p) \in Receptions
          /\ \/ AfterUpdate(p).at = "poll"
             \/ /\ AfterUpdate(p).at = "batch" /\ AfterUpdate(p).next = u + 1
                /\ AfterUpdate(p).last = receiver[p].last /\ u + 1 <= receiver[p].last
      BY <1>0, <3>1, AfterUpdateShape
    <3>4. CASE /\ chatTask[m.chat] # 0 /\ stoppedTask' = stoppedTask \cup {chatTask[m.chat]}
               /\ ReceiverTo(p, [receiver[p] EXCEPT !.at = "cancel"]) /\ UNCHANGED <<chatTask, task, begun>>
      <4> DEFINE r == [receiver[p] EXCEPT !.at = "cancel"]
      <4>1. r \in Receptions /\ r.at = "cancel" /\ r.next = u /\ r.last = receiver[p].last
        BY <3>2 DEF Receptions
      <4> HIDE DEF r
      <4>2. /\ receiver' \in [Receivers -> Receptions] /\ receiver'[p] = r
            /\ \A q \in Receivers : q # p => receiver'[q] = receiver[q]
        BY <1>0, <3>4, <4>1, ReceiverMoves DEF r
      <4>3. chatTask[m.chat] \in Updates /\ stoppedTask' \subseteq Updates
        BY <1>0, <3>2, <3>4 DEF BotTyped, Updates
      <4>4. /\ chatTask' \in [Chats -> 0..MaxUpdates] /\ task' \in [Updates -> TaskStates] /\ begun' \in [Updates -> 0..2]
            /\ task' = task /\ begun' = begun
        BY <1>0, <3>4 DEF BotTyped
      <4>5. QED BY <3>1, <3>2, <4>1, <4>2, <4>3, <4>4
    <3>5. CASE /\ chatTask' = [chatTask EXCEPT ![m.chat] = u]
               /\ task' = [task EXCEPT ![u] = IF m.kind = "voice" THEN "listens" ELSE "begins"]
               /\ begun' = [begun EXCEPT ![u] = IF @ = 2 THEN 2 ELSE @ + 1]
               /\ ReceiverTo(p, AfterUpdate(p)) /\ stoppedTask' = stoppedTask
      <4>1. /\ receiver' \in [Receivers -> Receptions] /\ receiver'[p] = AfterUpdate(p)
            /\ \A q \in Receivers : q # p => receiver'[q] = receiver[q]
        BY <1>0, <3>3, <3>5, ReceiverMoves
      <4>2. chatTask' \in [Chats -> 0..MaxUpdates] /\ stoppedTask' \subseteq Updates
        BY <1>0, <3>2, <3>5 DEF BotTyped, Updates
      <4>3. task' \in [Updates -> TaskStates] /\ (\A v \in Updates : task'[v] = task[v] \/ task'[v] \in {"listens", "begins"})
        BY <1>0, <3>2, <3>5 DEF BotTyped, TaskStates
      <4>4. /\ begun' \in [Updates -> 0..2] /\ (\A v \in Updates : v # u => begun'[v] = begun[v])
            /\ (begun[u] = 0 => begun'[u] <= 1)
        BY <1>0, <3>2, <3>5 DEF BotTyped
      <4> HIDE DEF u, m
      <4>5. u = receiver[p].next
        BY DEF u
      <4>6. QED BY <3>1, <3>2, <3>3, <4>1, <4>2, <4>3, <4>4, <4>5
    <3>6. CASE ReceiverTo(p, AfterUpdate(p)) /\ UNCHANGED <<chatTask, task, begun, stoppedTask>>
      <4>1. /\ receiver' \in [Receivers -> Receptions] /\ receiver'[p] = AfterUpdate(p)
            /\ \A q \in Receivers : q # p => receiver'[q] = receiver[q]
        BY <1>0, <3>3, <3>6, ReceiverMoves
      <4>2. /\ chatTask' \in [Chats -> 0..MaxUpdates] /\ task' \in [Updates -> TaskStates] /\ begun' \in [Updates -> 0..2]
            /\ task' = task /\ begun' = begun /\ stoppedTask' \subseteq Updates
        BY <1>0, <3>6 DEF BotTyped
      <4>3. QED BY <3>1, <3>2, <3>3, <4>1, <4>2
    <3>7. QED BY <1>6, <3>4, <3>5, <3>6 DEF Process
  <2>9. \A v : Known(v) => Known(v)'
    BY <2>0, KnownKept
  <2>1. BotTyped'
    BY <1>0, <2>0, <1>a DEF BotTyped
  <2>2. BatchIsMail'
    <3>1. ASSUME receiver'[p].at \in {"batch", "update", "cancel"} PROVE MailFits(p)'
      <4>1. /\ 1 <= receiver[p].next /\ receiver[p].next <= receiver[p].last /\ receiver[p].last <= Len(inbox)
            /\ (\A u \in 1..(receiver[p].next - 1) : Known(u)') /\ inbox' = inbox /\ receiver[p].next \in Nat /\ receiver[p].last \in Nat
        BY <1>0, <1>a, <2>0, <2>9 DEF BatchIsMail, MailFits
      <4>2. receiver[p].next \in handled'
        BY <1>0, <2>0 DEF BatchIsMail, MailFits
      <4>3. CASE receiver'[p].at = "batch"
        <5>1. /\ receiver'[p].next = receiver[p].next + 1 /\ receiver'[p].last = receiver[p].last
              /\ receiver[p].next + 1 <= receiver[p].last
          BY <2>0, <4>3
        <5>2. 1 <= receiver'[p].next /\ receiver'[p].next <= receiver'[p].last /\ receiver'[p].last <= Len(inbox')
          BY <1>a, <4>1, <5>1
        <5>3. (receiver[p].next + 1) - 1 = receiver[p].next
          BY <4>1, OneMoreOneLess
        <5>4. \A u \in 1..receiver[p].next : u \in 1..(receiver[p].next - 1) \/ u = receiver[p].next
          BY <4>1
        <5>5. \A w : w = receiver[p].next => Known(w)'
          BY <4>2 DEF Known
        <5>6. \A u \in 1..(receiver'[p].next - 1) : Known(u)'
          BY <4>1, <5>1, <5>3, <5>4, <5>5
        <5>7. QED BY <4>3, <5>2, <5>6 DEF MailFits
      <4>4. CASE receiver'[p].at = "cancel"
        <5>1. receiver'[p].next = receiver[p].next /\ receiver'[p].last = receiver[p].last
          BY <2>0, <4>4
        <5>2. QED BY <4>1, <4>2, <5>1 DEF MailFits
      <4>9. QED BY <2>0, <3>1, <4>3, <4>4
    <3>2. \A q \in Receivers : q # p /\ receiver'[q].at \in {"batch", "update", "cancel"} => MailFits(q)'
      BY <1>0, <2>0, <2>9, MailKept
    <3>3. QED BY <3>1, <3>2 DEF BatchIsMail
  <2>3. SeenBehind'
    BY <1>0, <2>0, <2>9, <1>a DEF SeenBehind
  <2>8. AloneSeesAll'
    BY <1>0, <2>0, <1>a DEF AloneSeesAll
  <2>4. OneReceiver'
    BY <1>0, <2>0, <1>a DEF OneReceiver
  <2>5. BegunOnce'
    <3>1. SUFFICES ASSUME botCrashes = 0, ~doubled PROVE BegunOnce'
      BY <2>0 DEF BegunOnce
    <3>2. /\ confirmed <= lastId /\ receiver[p].next = lastId /\ begun[receiver[p].next] = 0
          /\ \A v \in Updates : begun[v] <= 1 /\ (begun[v] # 0 => v <= lastId)
      BY <1>0, <2>0, <3>1 DEF BegunOnce
    <3>3. \A q \in Receivers : q # p => receiver'[q].at = "gone"
      BY <1>0, <2>0, <3>1 DEF OneReceiver
    <3>4. receiver[p].next <= lastId
      BY <1>a, <3>2
    <3>5. \A v \in Updates : begun'[v] <= 1 /\ (begun'[v] # 0 => v <= lastId)
      BY <2>0, <3>2, <3>4
    <3>6. \A q \in Receivers : /\ receiver'[q].at = "batch" => receiver'[q].next = lastId + 1
                               /\ receiver'[q].at # "update"
                               /\ receiver'[q].at = "cancel" => receiver'[q].next = lastId
      BY <2>0, <3>2, <3>3
    <3>7. QED BY <2>0, <3>2, <3>5, <3>6 DEF BegunOnce
  <2>6. EarlyIsWanted'
    BY <1>0, <2>0, <1>a DEF EarlyIsWanted, EarlyStopHolds
  <2>7. QED BY <2>1, <2>2, <2>3, <2>8, <2>4, <2>5, <2>6 DEF BotInv
<1>7. ASSUME NEW p \in Receivers, Cancel(p) PROVE BotInv'
  <2>0. /\ receiver[p].at = "cancel" /\ cancels' \subseteq Updates /\ early' \subseteq Updates /\ cancels \subseteq cancels'
        /\ (\A v \in early' : v \in early \/ (v \in cancels' /\ task[v] # "works"))
        /\ receiver' \in [Receivers -> Receptions] /\ (\A q \in Receivers : q # p => receiver'[q] = receiver[q])
        /\ \/ receiver'[p].at = "poll"
           \/ /\ receiver'[p].at = "batch" /\ receiver'[p].next = receiver[p].next + 1
              /\ receiver'[p].last = receiver[p].last /\ receiver[p].next + 1 <= receiver[p].last
        /\ UNCHANGED <<inbox, confirmed, botRunning, lastId, current, receivers, doubled, unheard, api, chatTask, task, stoppedTask, handled, begun, botCrashes>>
    <3> DEFINE u == chatTask[inbox[receiver[p].next].chat]
    <3>1. /\ receiver[p].at = "cancel" /\ ReceiverTo(p, AfterUpdate(p))
          /\ UNCHANGED <<inbox, confirmed, botRunning, lastId, current, receivers, doubled, unheard, api, chatTask, task, stoppedTask, handled, begun, botCrashes>>
      BY <1>7 DEF Cancel
    <3>2. /\ cancels' \subseteq Updates /\ early' \subseteq Updates /\ cancels \subseteq cancels'
          /\ (\A v \in early' : v \in early \/ (v \in cancels' /\ task[v] # "works"))
      <4>1. IF u \in stoppedTask
            THEN /\ cancels' = IF task[u] \in {"listens", "begins", "works"} THEN cancels \cup {u} ELSE cancels
                 /\ early' = IF task[u] \in {"listens", "begins"} THEN early \cup {u} ELSE early
            ELSE UNCHANGED <<cancels, early>>
        BY <1>7 DEF Cancel
      <4>2. stoppedTask \subseteq Updates /\ cancels \subseteq Updates /\ early \subseteq Updates
        BY <1>0 DEF BotTyped
      <4> HIDE DEF u
      <4>3. QED BY <4>1, <4>2
    <3>3. /\ receiver' \in [Receivers -> Receptions] /\ receiver'[p] = AfterUpdate(p)
          /\ \A q \in Receivers : q # p => receiver'[q] = receiver[q]
      BY <1>0, <3>1, AfterUpdateShape, ReceiverMoves
    <3>4. QED BY <1>0, <3>1, <3>2, <3>3, AfterUpdateShape
  <2>9. \A v : Known(v) => Known(v)'
    BY <2>0, KnownKept
  <2>1. BotTyped'
    BY <1>0, <2>0, <1>a DEF BotTyped
  <2>2. BatchIsMail'
    <3>1. ASSUME receiver'[p].at \in {"batch", "update", "cancel"} PROVE MailFits(p)'
      <4>1. /\ 1 <= receiver[p].next /\ receiver[p].next <= receiver[p].last /\ receiver[p].last <= Len(inbox)
            /\ (\A u \in 1..(receiver[p].next - 1) : Known(u)') /\ inbox' = inbox /\ receiver[p].next \in Nat /\ receiver[p].last \in Nat
        BY <1>0, <1>a, <2>0, <2>9 DEF BatchIsMail, MailFits
      <4>2. receiver[p].next \in handled'
        BY <1>0, <2>0 DEF BatchIsMail, MailFits
      <4>3. CASE receiver'[p].at = "batch"
        <5>1. /\ receiver'[p].next = receiver[p].next + 1 /\ receiver'[p].last = receiver[p].last
              /\ receiver[p].next + 1 <= receiver[p].last
          BY <2>0, <4>3
        <5>2. 1 <= receiver'[p].next /\ receiver'[p].next <= receiver'[p].last /\ receiver'[p].last <= Len(inbox')
          BY <1>a, <4>1, <5>1
        <5>3. (receiver[p].next + 1) - 1 = receiver[p].next
          BY <4>1, OneMoreOneLess
        <5>4. \A u \in 1..receiver[p].next : u \in 1..(receiver[p].next - 1) \/ u = receiver[p].next
          BY <4>1
        <5>5. \A w : w = receiver[p].next => Known(w)'
          BY <4>2 DEF Known
        <5>6. \A u \in 1..(receiver'[p].next - 1) : Known(u)'
          BY <4>1, <5>1, <5>3, <5>4, <5>5
        <5>7. QED BY <4>3, <5>2, <5>6 DEF MailFits
      <4>9. QED BY <2>0, <3>1, <4>3
    <3>2. \A q \in Receivers : q # p /\ receiver'[q].at \in {"batch", "update", "cancel"} => MailFits(q)'
      BY <1>0, <2>0, <2>9, MailKept
    <3>3. QED BY <3>1, <3>2 DEF BatchIsMail
  <2>3. SeenBehind'
    BY <1>0, <2>0, <2>9, <1>a DEF SeenBehind
  <2>8. AloneSeesAll'
    BY <1>0, <2>0, <1>a DEF AloneSeesAll
  <2>4. OneReceiver'
    BY <1>0, <2>0, <1>a DEF OneReceiver
  <2>5. BegunOnce'
    BY <1>0, <2>0, <1>a DEF BegunOnce
  <2>6. EarlyIsWanted'
    BY <1>0, <2>0, <1>a DEF EarlyIsWanted, EarlyStopHolds
  <2>7. QED BY <2>1, <2>2, <2>3, <2>8, <2>4, <2>5, <2>6 DEF BotInv
<1>8. ASSUME NEW u \in Updates, TaskSteps(u) PROVE BotInv'
  <2>0. /\ task' \in [Updates -> TaskStates] /\ chatTask' \in [Chats -> 0..MaxUpdates]
        /\ (\A v \in Updates : task'[v] = "works" => task[v] = "works" \/ v \notin cancels)
        /\ UNCHANGED <<inbox, confirmed, botRunning, lastId, current, receivers, receiver, doubled, unheard, api, cancels, stoppedTask, begun, early, handled, botCrashes>>
    <3>1. UNCHANGED <<inbox, confirmed, botRunning, lastId, current, receivers, receiver, doubled, unheard, api, cancels, stoppedTask, begun, early, handled, botCrashes>>
      BY <1>8 DEF TaskSteps, Listen, RunBegins, RunEnds, Leave, receiverVars
    <3>2. PICK to \in {"begins", "works", "ends", "over"} : TaskTo(u, to) /\ (to = "works" => u \notin cancels)
      BY <1>8 DEF TaskSteps, Listen, RunBegins, RunEnds, Leave
    <3>3. task' \in [Updates -> TaskStates] /\ (\A v \in Updates : task'[v] = "works" => task[v] = "works" \/ v \notin cancels)
      BY <1>0, <3>2 DEF TaskTo, BotTyped, TaskStates
    <3>4. chatTask' = chatTask \/ chatTask' = [chatTask EXCEPT ![inbox[u].chat] = IF @ = u THEN 0 ELSE @]
      BY <1>8 DEF TaskSteps, Listen, RunBegins, RunEnds, Leave
    <3>5. chatTask' \in [Chats -> 0..MaxUpdates]
      BY SMTT(60), <1>0, <3>4 DEF BotTyped
    <3>6. QED BY <3>1, <3>3, <3>5
  <2>9. \A v : Known(v) => Known(v)'
    BY <2>0, KnownKept
  <2>1. BotTyped'
    BY <1>0, <2>0, <1>a DEF BotTyped
  <2>2. BatchIsMail'
    BY <1>0, <2>0, <2>9, <1>a DEF BatchIsMail, MailFits
  <2>3. SeenBehind'
    BY <1>0, <2>0, <2>9, <1>a DEF SeenBehind
  <2>8. AloneSeesAll'
    BY <1>0, <2>0, <1>a DEF AloneSeesAll
  <2>4. OneReceiver'
    BY <1>0, <2>0, <1>a DEF OneReceiver
  <2>5. BegunOnce'
    BY <1>0, <2>0, <1>a DEF BegunOnce
  <2>6. EarlyIsWanted'
    BY <1>0, <2>0, <1>a DEF EarlyIsWanted, EarlyStopHolds
  <2>7. QED BY <2>1, <2>2, <2>3, <2>8, <2>4, <2>5, <2>6 DEF BotInv
<1>9. CASE Message
  <2>0. /\ inbox' \in Seq(Messages) /\ Len(inbox') = Len(inbox) + 1 /\ Len(inbox') <= MaxUpdates
        /\ UNCHANGED <<confirmed, botRunning, lastId, current, receivers, receiver, doubled, unheard, api, chatTask, task, cancels, stoppedTask, begun, early, handled, botCrashes>>
    <3>1. /\ Len(inbox) < MaxUpdates /\ UNCHANGED <<confirmed, botRunning, lastId, current, receivers, receiver, doubled, unheard, api, chatTask, task, cancels, stoppedTask, begun, early, handled, botCrashes>>
      BY <1>9 DEF Message, receiverVars, taskVars
    <3>2. PICK m \in Messages : inbox' = Append(inbox, m)
      BY <1>9 DEF Message, Messages
    <3>3. QED BY <1>0, <1>a, <3>1, <3>2 DEF BotTyped
  <2>9. \A v : Known(v) => Known(v)'
    BY <2>0, KnownKept
  <2>1. BotTyped'
    BY <1>0, <2>0, <1>a DEF BotTyped
  <2>2. BatchIsMail'
    BY <1>0, <2>0, <2>9, <1>a DEF BatchIsMail, MailFits
  <2>3. SeenBehind'
    BY <1>0, <2>0, <2>9, <1>a DEF SeenBehind
  <2>8. AloneSeesAll'
    BY <1>0, <2>0, <1>a DEF AloneSeesAll
  <2>4. OneReceiver'
    BY <1>0, <2>0, <1>a DEF OneReceiver
  <2>5. BegunOnce'
    BY <1>0, <2>0, <1>a DEF BegunOnce
  <2>6. EarlyIsWanted'
    BY <1>0, <2>0, <1>a DEF EarlyIsWanted, EarlyStopHolds
  <2>7. QED BY <2>1, <2>2, <2>3, <2>8, <2>4, <2>5, <2>6 DEF BotInv
<1>10. CASE CrashBot
  <2>0. /\ botCrashes' = 1 /\ botRunning' = FALSE /\ lastId' = 0 /\ current' = 0 /\ cancels' = {} /\ stoppedTask' = {} /\ early' = {}
        /\ receiver' \in [Receivers -> Receptions] /\ (\A q \in Receivers : receiver'[q].at = "gone")
        /\ api' \in [ApiThreads -> {"idle", "test", "join"}] /\ chatTask' \in [Chats -> 0..MaxUpdates] /\ task' \in [Updates -> TaskStates]
        /\ unheard' = {u \in 1..confirmed : u \notin handled}
        /\ UNCHANGED <<inbox, confirmed, receivers, doubled, begun, handled>>
    <3>1. /\ botCrashes' = 1 /\ botRunning' = FALSE /\ lastId' = 0 /\ current' = 0 /\ cancels' = {} /\ stoppedTask' = {} /\ early' = {}
          /\ receiver' = [p \in Receivers |-> Gone] /\ api' = [t \in ApiThreads |-> "idle"]
          /\ chatTask' = [c \in Chats |-> 0] /\ task' = [u \in Updates |-> IF task[u] = "none" THEN "none" ELSE "over"]
          /\ unheard' = {u \in 1..confirmed : u \notin handled}
          /\ UNCHANGED <<inbox, confirmed, receivers, doubled, begun, handled>>
      BY <1>10 DEF CrashBot
    <3>2. receiver' \in [Receivers -> Receptions] /\ (\A q \in Receivers : receiver'[q].at = "gone")
      BY <3>1, EmptyReceptions
    <3>3. task' \in [Updates -> TaskStates]
      BY <3>1 DEF TaskStates
    <3>4. chatTask' \in [Chats -> 0..MaxUpdates] /\ api' \in [ApiThreads -> {"idle", "test", "join"}]
      BY <3>1
    <3>5. QED BY <3>1, <3>2, <3>3, <3>4
  <2>1. BotTyped'
    <3>1. 0 \in 0..MaxUpdates /\ 0 \in 0..MaxReceivers /\ FALSE \in BOOLEAN /\ {} \subseteq Updates
      OBVIOUS
    <3>2. unheard' \subseteq Updates
      BY <1>0, <2>0 DEF BotTyped, Updates
    <3>3. QED BY <1>0, <2>0, <3>1, <3>2 DEF BotTyped
  <2>2. BatchIsMail'
    BY <1>0, <2>0, <1>a DEF BatchIsMail, MailFits
  <2>3. SeenBehind'
    BY <1>0, <2>0, <1>a DEF SeenBehind, Known
  <2>8. AloneSeesAll'
    BY <1>0, <2>0, <1>a DEF AloneSeesAll
  <2>4. OneReceiver'
    BY <1>0, <2>0, <1>a DEF OneReceiver
  <2>5. BegunOnce'
    BY <1>0, <2>0, <1>a DEF BegunOnce
  <2>6. EarlyIsWanted'
    BY <1>0, <2>0, <1>a DEF EarlyIsWanted, EarlyStopHolds
  <2>7. QED BY <2>1, <2>2, <2>3, <2>8, <2>4, <2>5, <2>6 DEF BotInv
<1>11. QED BY <1>1, <1>2, <1>3, <1>4, <1>5, <1>6, <1>7, <1>8, <1>9, <1>10, <1>12 DEF BotNext, ReceiverSteps, ApiSteps

LEMMA BotInitial == BotInit => BotInv
<1> SUFFICES ASSUME BotInit PROVE BotInv
  OBVIOUS
<1>1. BotTyped
  <2>1. receiver \in [Receivers -> Receptions]
    BY EmptyReceptions DEF BotInit
  <2>2. task \in [Updates -> TaskStates]
    BY DEF BotInit, TaskStates
  <2>3. 0 \in 0..MaxUpdates /\ 0 \in 0..MaxReceivers /\ FALSE \in BOOLEAN /\ <<>> \in Seq(Messages) /\ Len(<<>>) <= MaxUpdates
    OBVIOUS
  <2>4. inbox \in Seq(Messages) /\ Len(inbox) <= MaxUpdates
    BY DEF BotInit
  <2>5. begun \in [Updates -> 0..2] /\ chatTask \in [Chats -> 0..MaxUpdates] /\ api \in [ApiThreads -> {"idle", "test", "join"}]
    BY <2>3 DEF BotInit
  <2>6. QED BY <2>1, <2>2, <2>3, <2>4, <2>5 DEF BotInit, BotTyped
<1>2. \A p \in Receivers : receiver[p].at = "gone"
  BY EmptyReceptions DEF BotInit
<1>3. BatchIsMail /\ OneReceiver /\ SeenBehind /\ AloneSeesAll /\ EarlyIsWanted
  BY <1>2 DEF BotInit, BatchIsMail, MailFits, AloneSeesAll, OneReceiver, SeenBehind, EarlyIsWanted, EarlyStopHolds
<1>4. BegunOnce
  BY <1>2 DEF BotInit, BegunOnce
<1>5. QED BY <1>1, <1>3, <1>4 DEF BotInv

LEMMA BotInductive == BotInv /\ [BotNext]_botVars => BotInv'
<1>1. BotInv /\ BotNext => BotInv'
  BY BotStep
<1>2. BotInv /\ UNCHANGED botVars => BotInv'
  BY DEF botVars, BotInv, BotTyped, BatchIsMail, MailFits, SeenBehind, Known, InHand, AloneSeesAll, OneReceiver, BegunOnce, EarlyIsWanted, EarlyStopHolds
<1>3. QED BY <1>1, <1>2

LEMMA BotInvariant == BotSpec => []BotInv
<1>1. QED BY BotInitial, BotInductive, PTL DEF BotSpec

\* Receivers, batches, chats and tasks keep their types.
THEOREM BotTypeCorrect == BotSpec => []BotTypeOK
<1>1. BotInv => BotTypeOK
  <2> SUFFICES ASSUME BotTyped PROVE BotTypeOK
    BY DEF BotInv
  <2>1. \A u \in DOMAIN inbox : inbox[u] \in Messages
    BY DEF BotTyped
  <2>2. QED BY <2>1 DEF BotTyped, BotTypeOK, Messages, Receptions, TaskStates
<1>2. QED BY <1>1, BotInvariant, PTL

\* An update confirmed to Telegram has been seen by process_message or is in a receiver's
\* hand, and is lost only to a crash that takes it out of the hand of a receiver beside
\* which a second one polled; none begins two tasks unless a crash or a second receiver
\* came in between; and a /stop confirmed before the run began keeps that run from working.
THEOREM BotKeepsMessages == BotSpec => []MessagesHold
<1>1. BotInv => MessagesHold
  BY DEF BotInv, SeenBehind, Known, AloneSeesAll, BegunOnce, EarlyIsWanted, MessagesHold, DeliveredOnce
<1>2. QED BY <1>1, BotInvariant, PTL

HIDE TelegramAssumption

-------------------------------------------------------------------------------
(***************************************************************************)
(* What the control record of a chat run guarantees for every number of    *)
(* requests, answering threads and answers.  An acknowledged answer is the *)
(* one the agent gets because a card is settled once (SettledFits) and a   *)
(* thread that has acted has put its action where the agent polls          *)
(* (SolverArrives); a waiting run can be answered because no other card is *)
(* open while nothing has stopped it (QuietFits).                          *)
(***************************************************************************)

RecordStates == {"none", "running", "waiting"} \cup RunEnded
CardStates == {"none", "pending", "resolving"} \cup Terminal
SlotStates == {"none", "open"} \cup Actions
StreamPlaces == {"off", "work", "card", "mark", "void", "wait", "pop", "finish", "cancelCards", "over"}
Questions == [card : Cards \cup {0}, responseFirst : BOOLEAN]
Endings == [how : {"none"} \cup RunEnded, cards : SUBSET Cards]
Tasks == [at : {"idle", "claim", "act", "finalize", "update", "release", "revert"},
          card : Cards \cup {0}, action : {"none"} \cup Actions]
CardOutcomes == {"none"} \cup Actions

\* The type invariant with its sets named.
ComposerTyped ==
    /\ record \in RecordStates
    /\ card \in [Cards -> CardStates]
    /\ slot \in [Cards -> SlotStates]
    /\ streamAt \in StreamPlaces
    /\ ask \in Questions
    /\ cardRow \in Cards \cup {0}
    /\ ending \in Endings
    /\ cancelSet \in BOOLEAN
    /\ solver \in [Solvers -> Tasks]
    /\ received \in [Cards -> CardOutcomes]
    /\ told \in [Cards -> CardOutcomes]
    /\ answers \in 0..MaxAnswers

\* The agent asks one thing at a time, in an open slot, and its card is a new one.
Asking == streamAt \in {"card", "mark", "void", "wait", "pop"}

AskFits ==
    /\ IF Asking THEN ask.card \in Cards /\ slot[ask.card] # "none" ELSE ask.card = 0
    /\ \A c \in Cards : slot[c] # "none" => c = ask.card
    /\ streamAt = "card" => card[ask.card] = "none"
    /\ streamAt = "void" => record = "cancelled"
    /\ streamAt \in {"mark", "void", "wait"} /\ ~cancelSet => cardRow = ask.card

\* A thread that has claimed a card is the only one, and the card is not pending.
Holds(u) == solver[u].at \in {"act", "finalize", "update", "release"}

HoldersFit ==
    /\ \A u \in Solvers : solver[u].at # "idle" =>
          /\ solver[u].card \in Cards /\ solver[u].action \in Actions
          /\ card[solver[u].card] # "none"
          /\ Holds(u) => card[solver[u].card] # "pending"
    /\ \A u, v \in Solvers : Holds(u) /\ Holds(v) /\ solver[u].card = solver[v].card => u = v

\* A card whose answer is in its slot, or was acknowledged, is not answered again.
Settled(c) ==
    /\ card[c] \notin {"none", "pending"}
    /\ \A u \in Solvers : solver[u].card = c => solver[u].at \notin {"act", "release"}

SettledFits == \A c \in Cards : slot[c] \in Actions \/ told[c] # "none" => Settled(c)

\* Answer a to card c is where the agent polls it, or the agent has it, unless a Stop
\* or a restart has come.
Arrived(c, a) ==
    /\ slot[c] # "none" => slot[c] = a
    /\ slot[c] = "none" /\ ~cancelSet /\ streamAt # "over" => received[c] = a

ToldArrives == \A c \in Cards : told[c] \in {"accept", "decline"} => Arrived(c, told[c])

SolverArrives ==
    \A u \in Solvers : solver[u].at \in {"finalize", "update"} /\ solver[u].action # "cancel" =>
        Arrived(solver[u].card, solver[u].action)

\* The slot is closed only once the agent has what is in it, or the run is stopped.
PopFits ==
    streamAt = "pop" /\ ~cancelSet => slot[ask.card] \in Actions /\ received[ask.card] = slot[ask.card]

CancelFits ==
    \A u \in Solvers : solver[u].at \in {"finalize", "update"} /\ solver[u].action = "cancel" => cancelSet

\* While nothing has stopped the run, no card is open but the one the agent waits for,
\* and no thread finds its slot closed.
QuietFits ==
    streamAt \notin {"finish", "cancelCards", "over"} /\ ~cancelSet =>
        /\ \A c \in Cards : card[c] = "pending" => c = ask.card /\ streamAt \in {"mark", "void", "wait"}
        /\ \A u \in Solvers : /\ solver[u].at = "act" => slot[solver[u].card] # "none"
                              /\ solver[u].at # "release"

WaitFits ==
    streamAt \in {"mark", "wait"} /\ ~cancelSet /\ record # "cancelled" =>
        \/ slot[ask.card] \in Actions \/ card[ask.card] = "pending"
        \/ \E u \in Solvers : solver[u].card = ask.card /\ solver[u].at = "act"

ComposerInv ==
    /\ ComposerTyped /\ AskFits /\ HoldersFit /\ SettledFits /\ ToldArrives /\ SolverArrives
    /\ PopFits /\ CancelFits /\ QuietFits /\ WaitFits

USE ComposerAssumption

(***************************************************************************)
(* The operators of the model                                              *)
(***************************************************************************)

\* A set of cards has a latest one.
LEMMA LatestCard ==
  ASSUME NEW T \in SUBSET Cards, T # {}
  PROVE  \E c \in T : \A d \in T : d <= c
<1> DEFINE S == {MaxCards - d : d \in T}
<1>a. \A d \in Cards : d \in Nat /\ MaxCards - d \in Nat
  BY DEF Cards
<1>1. S # {} /\ S \subseteq Nat
  BY <1>a
<1>2. PICK m \in S : \A n \in S : ~(<<n, m>> \in OpToRel(<, Nat))
  BY <1>1, NatLessThanWellFounded, WFMin
<1>3. PICK c \in T : m = MaxCards - c
  BY <1>2
<1>4. \A d \in T : d <= c
  <2>1. SUFFICES ASSUME NEW d \in T PROVE d <= c
    OBVIOUS
  <2>2. c \in Nat /\ d \in Nat /\ MaxCards - d \in S /\ MaxCards - d \in Nat /\ m \in Nat
    BY <1>a, <1>1, <1>2
  <2>3. (MaxCards - d) < m => <<MaxCards - d, m>> \in OpToRel(<, Nat)
    BY <2>2 DEF OpToRel
  <2>4. ~((MaxCards - d) < m)
    BY <1>2, <2>2, <2>3, Zenon
  <2>5. QED BY <1>3, <2>2, <2>4
<1>5. QED BY <1>4

LEMMA TaskFields ==
  ASSUME ComposerTyped
  PROVE  /\ \A u \in Solvers : /\ solver[u].card \in Cards \cup {0} /\ solver[u].action \in {"none"} \cup Actions
                               /\ solver[u].at \in {"idle", "claim", "act", "finalize", "update", "release", "revert"}
         /\ ask.card \in Cards \cup {0} /\ 0 \notin Cards
  BY DEF ComposerTyped, Tasks, Questions, Cards

LEMMA EmptyFields ==
  /\ NoTask \in Tasks /\ NoTask.at = "idle" /\ NoTask.card = 0 /\ NoTask.action = "none"
  /\ NoAsk \in Questions /\ NoAsk.card = 0 /\ NoEnding \in Endings
  BY DEF NoTask, Tasks, NoAsk, Questions, NoEnding, Endings

LEMMA SolverMoves ==
  ASSUME ComposerTyped, NEW u \in Solvers,
         NEW at \in {"idle", "claim", "act", "finalize", "update", "release", "revert"}, SolverTo(u, at)
  PROVE  /\ solver' \in [Solvers -> Tasks] /\ solver'[u].at = at /\ solver'[u].card = solver[u].card
         /\ solver'[u].action = solver[u].action /\ \A v \in Solvers : v # u => solver'[v] = solver[v]
<1> DEFINE s == [solver[u] EXCEPT !.at = at]
<1>1. s \in Tasks /\ s.at = at /\ s.card = solver[u].card /\ s.action = solver[u].action
  BY DEF ComposerTyped, Tasks
<1>2. solver' = [solver EXCEPT ![u] = s] /\ solver \in [Solvers -> Tasks]
  BY DEF SolverTo, ComposerTyped
<1> HIDE DEF s
<1>3. QED BY <1>1, <1>2

LEMMA SolverLeaves ==
  ASSUME ComposerTyped, NEW u \in Solvers, solver' = [solver EXCEPT ![u] = NoTask]
  PROVE  /\ solver' \in [Solvers -> Tasks] /\ solver'[u].at = "idle" /\ solver'[u].card = 0
         /\ \A v \in Solvers : v # u => solver'[v] = solver[v]
  BY EmptyFields DEF ComposerTyped

\* The status of one card changes.
LEMMA CardChanges ==
  ASSUME ComposerTyped, NEW k, NEW s \in CardStates, card' = [card EXCEPT ![k] = s]
  PROVE  card' \in [Cards -> CardStates] /\ \A c \in Cards : card'[c] = IF c = k THEN s ELSE card[c]
  BY DEF ComposerTyped

LEMMA RecordSet ==
  ASSUME ComposerTyped, NEW s \in RecordStates, SetRecord(s)
  PROVE  record' \in RecordStates /\ (record = "cancelled" => record' = "cancelled")
  BY DEF ComposerTyped, SetRecord

\* An answered card is final.
LEMMA ResultFinal == \A a \in Actions : ResultOf(a) \in Terminal
  BY DEF ResultOf, Actions, Terminal

LEMMA ComposerStep ==
  ASSUME ComposerInv, ComposerNext
  PROVE  ComposerInv'
<1>0. ComposerTyped /\ AskFits /\ HoldersFit /\ SettledFits /\ ToldArrives /\ SolverArrives
      /\ PopFits /\ CancelFits /\ QuietFits /\ WaitFits
  BY DEF ComposerInv
<1>a. /\ \A u \in Solvers : /\ solver[u].card \in Cards \cup {0} /\ solver[u].action \in {"none"} \cup Actions
                            /\ solver[u].at \in {"idle", "claim", "act", "finalize", "update", "release", "revert"}
      /\ ask.card \in Cards \cup {0} /\ 0 \notin Cards /\ 0 \in Cards \cup {0} /\ FALSE \in BOOLEAN /\ TRUE \in BOOLEAN
      /\ "none" \notin Actions /\ "open" \notin Actions /\ \A a \in Actions : a # "cancel" => a \in {"accept", "decline"}
      /\ \A u \in Solvers : solver[u].at # "idle" => solver[u].card \in Cards /\ solver[u].action \in Actions
  BY <1>0, TaskFields DEF Actions, HoldersFit
<1>1. CASE StartRecord
  <2>0. /\ streamAt = "off" /\ streamAt' = "work" /\ record' \in RecordStates /\ record' = "running" /\ record = "none"
        /\ UNCHANGED <<card, slot, ask, cardRow, ending, cancelSet, solver, received, told, answers>>
    BY <1>1 DEF StartRecord, StreamTo, RecordStates
  <2>1. ComposerTyped'
    BY <1>0, <2>0, <1>a DEF ComposerTyped, StreamPlaces
  <2>2. AskFits'
    BY <1>0, <2>0, <1>a DEF AskFits, Asking
  <2>3. HoldersFit'
    BY <1>0, <2>0, <1>a DEF HoldersFit, Holds
  <2>4. SettledFits'
    BY <1>0, <2>0, <1>a DEF SettledFits, Settled, HoldersFit, Holds
  <2>5. ToldArrives'
    BY <1>0, <2>0, <1>a DEF ToldArrives, Arrived
  <2>6. SolverArrives'
    BY <1>0, <2>0, <1>a DEF SolverArrives, Arrived
  <2>7. PopFits'
    BY <1>0, <2>0, <1>a DEF PopFits
  <2>8. CancelFits'
    BY <1>0, <2>0, <1>a DEF CancelFits
  <2>9. QuietFits'
    BY <1>0, <2>0, <1>a DEF QuietFits
  <2>10. WaitFits'
    BY <1>0, <2>0, <1>a DEF WaitFits
  <2>11. QED BY <2>1, <2>2, <2>3, <2>4, <2>5, <2>6, <2>7, <2>8, <2>9, <2>10 DEF ComposerInv
<1>2. ASSUME NEW k \in Cards, NEW first \in BOOLEAN, Ask, slot[k] = "none", card[k] = "none", slot' = [slot EXCEPT ![k] = "open"], ask' = [card |-> k, responseFirst |-> first] PROVE ComposerInv'
  <2>0. /\ streamAt = "work" /\ streamAt' = "card" /\ ~cancelSet /\ ask' \in Questions /\ ask'.card = k /\ ask.card = 0
        /\ card[k] = "none" /\ told[k] = "none" /\ slot' \in [Cards -> SlotStates] /\ slot'[k] = "open"
        /\ (\A u \in Solvers : solver[u].at # "idle" => solver[u].card # k)
        /\ (\A c \in Cards : slot[c] = "none" /\ (c # k => slot'[c] = "none"))
        /\ UNCHANGED <<record, card, cardRow, ending, cancelSet, solver, received, told, answers>>
    <3>1. streamAt = "work" /\ streamAt' = "card" /\ ~cancelSet
          /\ UNCHANGED <<record, card, cardRow, ending, cancelSet, solver, received, told, answers>>
      BY <1>2 DEF Ask, StreamTo
    <3>2. ask' \in Questions /\ ask'.card = k
      BY <1>2 DEF Questions
    <3>3. slot \in [Cards -> SlotStates]
      BY <1>0 DEF ComposerTyped
    <3>4. \A c \in Cards : slot[c] = "none"
      BY <1>0, <1>a, <3>1 DEF AskFits, Asking
    <3>5. ask.card = 0
      BY <1>0, <3>1 DEF AskFits, Asking
    <3>6. slot' \in [Cards -> SlotStates] /\ slot'[k] = "open" /\ \A c \in Cards : c # k => slot'[c] = slot[c]
      BY <1>2, <3>3 DEF SlotStates
    <3>7. told[k] = "none"
      BY <1>0, <1>2 DEF SettledFits, Settled
    <3>8. \A u \in Solvers : solver[u].at # "idle" => solver[u].card # k
      BY <1>0, <1>2 DEF HoldersFit
    <3>9. QED BY <1>2, <3>1, <3>2, <3>4, <3>5, <3>6, <3>7, <3>8
  <2>1. ComposerTyped'
    BY <1>0, <2>0, <1>a DEF ComposerTyped, StreamPlaces
  <2>2. AskFits'
    BY <1>0, <2>0, <1>a DEF AskFits, Asking
  <2>3. HoldersFit'
    BY <1>0, <2>0, <1>a DEF HoldersFit, Holds
  <2>4. SettledFits'
    BY <1>0, <2>0, <1>a DEF SettledFits, Settled, HoldersFit, Holds
  <2>5. ToldArrives'
    BY <1>0, <2>0, <1>a DEF ToldArrives, Arrived
  <2>6. SolverArrives'
    BY <1>0, <2>0, <1>a DEF SolverArrives, Arrived
  <2>7. PopFits'
    BY <1>0, <2>0, <1>a DEF PopFits
  <2>8. CancelFits'
    BY <1>0, <2>0, <1>a DEF CancelFits
  <2>9. QuietFits'
    BY <1>0, <2>0, <1>a DEF QuietFits
  <2>10. WaitFits'
    BY <1>0, <2>0, <1>a DEF WaitFits
  <2>11. QED BY <2>1, <2>2, <2>3, <2>4, <2>5, <2>6, <2>7, <2>8, <2>9, <2>10 DEF ComposerInv
<1>3. CASE CreateCard
  <2>0. /\ streamAt = "card" /\ streamAt' = "mark" /\ cardRow' \in Cards /\ card' \in [Cards -> CardStates]
        /\ ask.card \in Cards /\ card[ask.card] = "none" /\ card'[ask.card] \in {"none", "pending"}
        /\ (~cancelSet => cardRow' = ask.card /\ card'[ask.card] = "pending")
        /\ (\A c \in Cards : c # ask.card => card'[c] = card[c] \/ (card[c] = "resolving" /\ card'[c] = "resolved"))
        /\ UNCHANGED <<record, slot, ask, ending, cancelSet, solver, received, told, answers>>
    <3> DEFINE old == {c \in Cards : card[c] \in {"pending", "resolving"}}
                latest == CHOOSE c \in old : \A d \in old : d <= c
    <3>1. streamAt = "card" /\ streamAt' = "mark" /\ UNCHANGED <<record, slot, ask, ending, cancelSet, solver, received, told, answers>>
      BY <1>3 DEF CreateCard, StreamTo
    <3>2. ask.card \in Cards /\ card[ask.card] = "none" /\ card \in [Cards -> CardStates]
      BY <1>0, <3>1 DEF AskFits, Asking, ComposerTyped
    <3>3. old # {} => latest \in old
      <4>1. old \in SUBSET Cards
        OBVIOUS
      <4> HIDE DEF old
      <4>2. QED BY <4>1, LatestCard
    <3>4. CASE old # {} /\ card[latest] = "pending" /\ cardRow' = latest /\ card' = card
      <4>1. cancelSet
        <5>1. latest \in Cards
          BY <3>3, <3>4
        <5>2. QED BY <1>0, <3>1, <3>4, <5>1 DEF QuietFits, ComposerTyped
      <4>2. QED BY <3>1, <3>2, <3>3, <3>4, <4>1
    <3>5. CASE /\ ~(old # {} /\ card[latest] = "pending") /\ cardRow' = ask.card
               /\ card' = [c \in Cards |-> IF c = ask.card THEN "pending" ELSE IF old # {} /\ c = latest THEN "resolved" ELSE card[c]]
      <4>1. \A c \in Cards : c # ask.card => card'[c] = card[c] \/ (c = latest /\ old # {} /\ card'[c] = "resolved")
        BY <3>5
      <4>2. card' \in [Cards -> CardStates] /\ card'[ask.card] = "pending"
        BY <3>2, <3>5 DEF CardStates, Terminal
      <4>3. \A c \in Cards : ~cancelSet => card[c] # "pending"
        BY <1>0, <3>1 DEF QuietFits
      <4>4. old # {} /\ card[latest] # "pending" => card[latest] = "resolving"
        BY <3>3
      <4>5. QED BY <3>1, <3>2, <3>5, <4>1, <4>2, <4>4
    <3>6. QED BY <1>3, <3>4, <3>5 DEF CreateCard
  <2>1. ComposerTyped'
    BY <1>0, <2>0, <1>a DEF ComposerTyped, StreamPlaces
  <2>2. AskFits'
    BY <1>0, <2>0, <1>a DEF AskFits, Asking
  <2>3. HoldersFit'
    BY <1>0, <2>0, <1>a DEF HoldersFit, Holds
  <2>4. SettledFits'
    BY <1>0, <2>0, <1>a DEF SettledFits, Settled, HoldersFit, Holds
  <2>5. ToldArrives'
    BY <1>0, <2>0, <1>a DEF ToldArrives, Arrived
  <2>6. SolverArrives'
    BY <1>0, <2>0, <1>a DEF SolverArrives, Arrived
  <2>7. PopFits'
    BY <1>0, <2>0, <1>a DEF PopFits
  <2>8. CancelFits'
    BY <1>0, <2>0, <1>a DEF CancelFits
  <2>9. QuietFits'
    BY <1>0, <2>0, <1>a DEF QuietFits
  <2>10. WaitFits'
    BY <1>0, <2>0, <1>a DEF WaitFits
  <2>11. QED BY <2>1, <2>2, <2>3, <2>4, <2>5, <2>6, <2>7, <2>8, <2>9, <2>10 DEF ComposerInv
<1>4. CASE MarkWaiting
  <2>0. /\ streamAt = "mark" /\ streamAt' \in {"void", "wait"} /\ (streamAt' = "void" => record' = "cancelled")
        /\ record' \in RecordStates /\ (record = "cancelled" => record' = "cancelled")
        /\ UNCHANGED <<card, slot, ask, cardRow, ending, cancelSet, solver, received, told, answers>>
    <3>1. "waiting" \in RecordStates
      BY DEF RecordStates
    <3>2. QED BY <1>0, <1>4, <3>1, RecordSet DEF MarkWaiting, StreamTo
  <2>1. ComposerTyped'
    BY <1>0, <2>0, <1>a DEF ComposerTyped, StreamPlaces
  <2>2. AskFits'
    BY <1>0, <2>0, <1>a DEF AskFits, Asking
  <2>3. HoldersFit'
    BY <1>0, <2>0, <1>a DEF HoldersFit, Holds
  <2>4. SettledFits'
    BY <1>0, <2>0, <1>a DEF SettledFits, Settled, HoldersFit, Holds
  <2>5. ToldArrives'
    BY <1>0, <2>0, <1>a DEF ToldArrives, Arrived
  <2>6. SolverArrives'
    BY <1>0, <2>0, <1>a DEF SolverArrives, Arrived
  <2>7. PopFits'
    BY <1>0, <2>0, <1>a DEF PopFits
  <2>8. CancelFits'
    BY <1>0, <2>0, <1>a DEF CancelFits
  <2>9. QuietFits'
    BY <1>0, <2>0, <1>a DEF QuietFits
  <2>10. WaitFits'
    BY <1>0, <2>0, <1>a DEF WaitFits
  <2>11. QED BY <2>1, <2>2, <2>3, <2>4, <2>5, <2>6, <2>7, <2>8, <2>9, <2>10 DEF ComposerInv
<1>5. CASE VoidCard
  <2>0. /\ streamAt = "void" /\ streamAt' = "wait" /\ record = "cancelled" /\ card' \in [Cards -> CardStates]
        /\ (\A c \in Cards : card'[c] = card[c] \/ card'[c] = "cancelled")
        /\ UNCHANGED <<record, slot, ask, cardRow, ending, cancelSet, solver, received, told, answers>>
    <3>1. "cancelled" \in CardStates
      BY DEF CardStates, Terminal
    <3>2. streamAt = "void" /\ streamAt' = "wait" /\ card' = [card EXCEPT ![cardRow] = "cancelled"] /\ UNCHANGED <<record, slot, ask, cardRow, ending, cancelSet, solver, received, told, answers>>
      BY <1>5 DEF VoidCard, StreamTo
    <3>3. card' \in [Cards -> CardStates] /\ \A c \in Cards : card'[c] = IF c = cardRow THEN "cancelled" ELSE card[c]
      BY <1>0, <3>1, <3>2, CardChanges
    <3>4. QED BY <1>0, <3>2, <3>3 DEF AskFits
  <2>1. ComposerTyped'
    BY <1>0, <2>0, <1>a DEF ComposerTyped, StreamPlaces
  <2>2. AskFits'
    BY <1>0, <2>0, <1>a DEF AskFits, Asking
  <2>3. HoldersFit'
    BY <1>0, <2>0, <1>a DEF HoldersFit, Holds
  <2>4. SettledFits'
    BY <1>0, <2>0, <1>a DEF SettledFits, Settled, HoldersFit, Holds
  <2>5. ToldArrives'
    BY <1>0, <2>0, <1>a DEF ToldArrives, Arrived
  <2>6. SolverArrives'
    BY <1>0, <2>0, <1>a DEF SolverArrives, Arrived
  <2>7. PopFits'
    BY <1>0, <2>0, <1>a DEF PopFits
  <2>8. CancelFits'
    BY <1>0, <2>0, <1>a DEF CancelFits
  <2>9. QuietFits'
    BY <1>0, <2>0, <1>a DEF QuietFits
  <2>10. WaitFits'
    BY <1>0, <2>0, <1>a DEF WaitFits
  <2>11. QED BY <2>1, <2>2, <2>3, <2>4, <2>5, <2>6, <2>7, <2>8, <2>9, <2>10 DEF ComposerInv
<1>6. CASE PollAnswer
  <2>0. /\ streamAt = "wait" /\ streamAt' = "pop" /\ ask.card \in Cards /\ received' \in [Cards -> CardOutcomes]
        /\ (\A c \in Cards : c # ask.card => received'[c] = received[c])
        /\ \/ slot[ask.card] \in Actions /\ received'[ask.card] = slot[ask.card]
           \/ cancelSet /\ received'[ask.card] = received[ask.card]
        /\ UNCHANGED <<record, card, slot, ask, cardRow, ending, cancelSet, solver, told, answers>>
    <3>1. streamAt = "wait" /\ streamAt' = "pop" /\ UNCHANGED <<record, card, slot, ask, cardRow, ending, cancelSet, solver, told, answers>>
      BY <1>6 DEF PollAnswer, StreamTo
    <3>2. ask.card \in Cards /\ received \in [Cards -> CardOutcomes]
      BY <1>0, <3>1 DEF AskFits, Asking, ComposerTyped
    <3>3. \/ slot[ask.card] \in Actions /\ received' = [received EXCEPT ![ask.card] = slot[ask.card]]
          \/ cancelSet /\ received' = received
      BY <1>6 DEF PollAnswer
    <3>4. QED BY <3>1, <3>2, <3>3 DEF CardOutcomes
  <2>1. ComposerTyped'
    BY <1>0, <2>0, <1>a DEF ComposerTyped, StreamPlaces
  <2>2. AskFits'
    BY <1>0, <2>0, <1>a DEF AskFits, Asking
  <2>3. HoldersFit'
    BY <1>0, <2>0, <1>a DEF HoldersFit, Holds
  <2>4. SettledFits'
    BY <1>0, <2>0, <1>a DEF SettledFits, Settled, HoldersFit, Holds
  <2>5. ToldArrives'
    BY <1>0, <2>0, <1>a DEF ToldArrives, Arrived
  <2>6. SolverArrives'
    BY <1>0, <2>0, <1>a DEF SolverArrives, Arrived
  <2>7. PopFits'
    BY <1>0, <2>0, <1>a DEF PopFits
  <2>8. CancelFits'
    BY <1>0, <2>0, <1>a DEF CancelFits
  <2>9. QuietFits'
    BY <1>0, <2>0, <1>a DEF QuietFits, SettledFits, Settled
  <2>10. WaitFits'
    BY <1>0, <2>0, <1>a DEF WaitFits
  <2>11. QED BY <2>1, <2>2, <2>3, <2>4, <2>5, <2>6, <2>7, <2>8, <2>9, <2>10 DEF ComposerInv
<1>7. CASE Pop
  <2>0. /\ streamAt = "pop" /\ streamAt' = "work" /\ ask.card \in Cards /\ ask' \in Questions /\ ask'.card = 0 /\ cardRow' = 0
        /\ slot' \in [Cards -> SlotStates] /\ (\A c \in Cards : slot'[c] = "none" /\ (c # ask.card => slot[c] = "none"))
        /\ slot[ask.card] # "none" /\ received' \in [Cards -> CardOutcomes]
        /\ (\A c \in Cards : c # ask.card => received'[c] = received[c])
        /\ received'[ask.card] \in {received[ask.card], slot[ask.card]}
        /\ UNCHANGED <<record, card, ending, cancelSet, solver, told, answers>>
    <3>1. /\ streamAt = "pop" /\ streamAt' = "work" /\ ask' = NoAsk /\ cardRow' = 0
          /\ slot' = [slot EXCEPT ![ask.card] = "none"]
          /\ UNCHANGED <<record, card, ending, cancelSet, solver, told, answers>>
      BY <1>7 DEF Pop, StreamTo
    <3>2. /\ ask.card \in Cards /\ received \in [Cards -> CardOutcomes] /\ slot \in [Cards -> SlotStates] /\ slot[ask.card] # "none"
          /\ \A c \in Cards : c # ask.card => slot[c] = "none"
      BY <1>0, <3>1 DEF AskFits, Asking, ComposerTyped
    <3>3. slot' \in [Cards -> SlotStates] /\ (\A c \in Cards : slot'[c] = "none" /\ (c # ask.card => slot[c] = "none"))
      BY <3>1, <3>2 DEF SlotStates
    <3>4. \/ slot[ask.card] \in Actions /\ received' = [received EXCEPT ![ask.card] = slot[ask.card]]
          \/ received' = received
      BY <1>7 DEF Pop
    <3>5. /\ received' \in [Cards -> CardOutcomes] /\ (\A c \in Cards : c # ask.card => received'[c] = received[c])
          /\ received'[ask.card] \in {received[ask.card], slot[ask.card]}
      BY <3>2, <3>4 DEF CardOutcomes
    <3>6. QED BY <3>1, <3>2, <3>3, <3>5, EmptyFields
  <2>1. ComposerTyped'
    BY <1>0, <2>0, <1>a DEF ComposerTyped, StreamPlaces
  <2>2. AskFits'
    BY <1>0, <2>0, <1>a DEF AskFits, Asking
  <2>3. HoldersFit'
    BY <1>0, <2>0, <1>a DEF HoldersFit, Holds
  <2>4. SettledFits'
    BY <1>0, <2>0, <1>a DEF SettledFits, Settled, HoldersFit, Holds
  <2>5. ToldArrives'
    BY <1>0, <2>0, <1>a DEF ToldArrives, Arrived, PopFits
  <2>6. SolverArrives'
    BY <1>0, <2>0, <1>a DEF SolverArrives, Arrived, PopFits
  <2>7. PopFits'
    BY <1>0, <2>0, <1>a DEF PopFits
  <2>8. CancelFits'
    BY <1>0, <2>0, <1>a DEF CancelFits
  <2>9. QuietFits'
    <3>1. streamAt = "pop" /\ ~cancelSet => \A v \in Solvers : solver[v].at # "act"
      BY <1>0, <2>0, <1>a DEF QuietFits, PopFits, SettledFits, Settled, AskFits
    <3>2. QED BY <1>0, <2>0, <1>a, <3>1 DEF QuietFits
  <2>10. WaitFits'
    BY <1>0, <2>0, <1>a DEF WaitFits
  <2>11. QED BY <2>1, <2>2, <2>3, <2>4, <2>5, <2>6, <2>7, <2>8, <2>9, <2>10 DEF ComposerInv
<1>8. CASE End
  <2>0. /\ streamAt = "work" /\ streamAt' = "finish" /\ ending' \in Endings /\ cancelSet' \in BOOLEAN /\ (cancelSet => cancelSet')
        /\ UNCHANGED <<record, card, slot, ask, cardRow, solver, received, told, answers>>
    <3>1. PICK how \in RunEnded : ending' = [NoEnding EXCEPT !.how = how]
      BY <1>8 DEF End, RunEnded
    <3>2. ending' \in Endings
      BY <3>1 DEF NoEnding, Endings
    <3>3. cancelSet \in BOOLEAN /\ (cancelSet' = cancelSet \/ cancelSet' = TRUE)
      BY <1>0, <1>8 DEF End, ComposerTyped
    <3>4. QED BY <1>8, <3>2, <3>3 DEF End, StreamTo
  <2>1. ComposerTyped'
    BY <1>0, <2>0, <1>a DEF ComposerTyped, StreamPlaces
  <2>2. AskFits'
    BY <1>0, <2>0, <1>a DEF AskFits, Asking
  <2>3. HoldersFit'
    BY <1>0, <2>0, <1>a DEF HoldersFit, Holds
  <2>4. SettledFits'
    BY <1>0, <2>0, <1>a DEF SettledFits, Settled, HoldersFit, Holds
  <2>5. ToldArrives'
    BY <1>0, <2>0, <1>a DEF ToldArrives, Arrived
  <2>6. SolverArrives'
    BY <1>0, <2>0, <1>a DEF SolverArrives, Arrived
  <2>7. PopFits'
    BY <1>0, <2>0, <1>a DEF PopFits
  <2>8. CancelFits'
    BY <1>0, <2>0, <1>a DEF CancelFits
  <2>9. QuietFits'
    BY <1>0, <2>0, <1>a DEF QuietFits
  <2>10. WaitFits'
    BY <1>0, <2>0, <1>a DEF WaitFits
  <2>11. QED BY <2>1, <2>2, <2>3, <2>4, <2>5, <2>6, <2>7, <2>8, <2>9, <2>10 DEF ComposerInv
<1>9. CASE ReadFinish
  <2>0. /\ streamAt = "finish" /\ streamAt' \in {"over", "cancelCards"} /\ ending' \in Endings
        /\ UNCHANGED <<record, card, slot, ask, cardRow, cancelSet, solver, received, told, answers>>
    <3>1. ending' \in Endings
      <4>1. Actionable \subseteq Cards /\ ending \in Endings
        BY <1>0 DEF Actionable, ComposerTyped
      <4>2. ending' = [ending EXCEPT !.cards = Actionable]
        BY <1>9 DEF ReadFinish
      <4>3. QED BY <4>1, <4>2 DEF Endings
    <3>2. QED BY <1>9, <3>1 DEF ReadFinish, StreamTo
  <2>1. ComposerTyped'
    BY <1>0, <2>0, <1>a DEF ComposerTyped, StreamPlaces
  <2>2. AskFits'
    BY <1>0, <2>0, <1>a DEF AskFits, Asking
  <2>3. HoldersFit'
    BY <1>0, <2>0, <1>a DEF HoldersFit, Holds
  <2>4. SettledFits'
    BY <1>0, <2>0, <1>a DEF SettledFits, Settled, HoldersFit, Holds
  <2>5. ToldArrives'
    BY <1>0, <2>0, <1>a DEF ToldArrives, Arrived
  <2>6. SolverArrives'
    BY <1>0, <2>0, <1>a DEF SolverArrives, Arrived
  <2>7. PopFits'
    BY <1>0, <2>0, <1>a DEF PopFits
  <2>8. CancelFits'
    BY <1>0, <2>0, <1>a DEF CancelFits
  <2>9. QuietFits'
    BY <1>0, <2>0, <1>a DEF QuietFits
  <2>10. WaitFits'
    BY <1>0, <2>0, <1>a DEF WaitFits
  <2>11. QED BY <2>1, <2>2, <2>3, <2>4, <2>5, <2>6, <2>7, <2>8, <2>9, <2>10 DEF ComposerInv
<1>10. CASE CancelCards
  <2>0. /\ streamAt = "cancelCards" /\ card' \in [Cards -> CardStates] /\ ending' \in Endings
        /\ (\A c \in Cards : card'[c] = card[c] \/ card'[c] = "cancelled")
        /\ UNCHANGED <<record, slot, streamAt, ask, cardRow, cancelSet, solver, received, told, answers>>
    <3>1. PICK k \in ending.cards : card' = [card EXCEPT ![k] = "cancelled"] /\ ending' = [ending EXCEPT !.cards = @ \ {k}]
      BY <1>10 DEF CancelCards
    <3>2. ending' \in Endings
      BY <1>0, <3>1 DEF ComposerTyped, Endings
    <3>3. "cancelled" \in CardStates
      BY DEF CardStates, Terminal
    <3>4. card' \in [Cards -> CardStates] /\ \A c \in Cards : card'[c] = IF c = k THEN "cancelled" ELSE card[c]
      BY <1>0, <3>1, <3>3, CardChanges
    <3>5. QED BY <1>10, <3>2, <3>4 DEF CancelCards
  <2>1. ComposerTyped'
    BY <1>0, <2>0, <1>a DEF ComposerTyped, StreamPlaces
  <2>2. AskFits'
    BY <1>0, <2>0, <1>a DEF AskFits, Asking
  <2>3. HoldersFit'
    BY <1>0, <2>0, <1>a DEF HoldersFit, Holds
  <2>4. SettledFits'
    BY <1>0, <2>0, <1>a DEF SettledFits, Settled, HoldersFit, Holds
  <2>5. ToldArrives'
    BY <1>0, <2>0, <1>a DEF ToldArrives, Arrived
  <2>6. SolverArrives'
    BY <1>0, <2>0, <1>a DEF SolverArrives, Arrived
  <2>7. PopFits'
    BY <1>0, <2>0, <1>a DEF PopFits
  <2>8. CancelFits'
    BY <1>0, <2>0, <1>a DEF CancelFits
  <2>9. QuietFits'
    BY <1>0, <2>0, <1>a DEF QuietFits
  <2>10. WaitFits'
    BY <1>0, <2>0, <1>a DEF WaitFits
  <2>11. QED BY <2>1, <2>2, <2>3, <2>4, <2>5, <2>6, <2>7, <2>8, <2>9, <2>10 DEF ComposerInv
<1>11. CASE CloseRecord
  <2>0. /\ streamAt = "cancelCards" /\ streamAt' = "over" /\ record' \in RecordStates
        /\ UNCHANGED <<card, slot, ask, cardRow, ending, cancelSet, solver, received, told, answers>>
    <3>1. ending.how \in RecordStates
      BY <1>0 DEF ComposerTyped, Endings, RecordStates
    <3>2. QED BY <1>0, <1>11, <3>1, RecordSet DEF CloseRecord, StreamTo
  <2>1. ComposerTyped'
    BY <1>0, <2>0, <1>a DEF ComposerTyped, StreamPlaces
  <2>2. AskFits'
    BY <1>0, <2>0, <1>a DEF AskFits, Asking
  <2>3. HoldersFit'
    BY <1>0, <2>0, <1>a DEF HoldersFit, Holds
  <2>4. SettledFits'
    BY <1>0, <2>0, <1>a DEF SettledFits, Settled, HoldersFit, Holds
  <2>5. ToldArrives'
    BY <1>0, <2>0, <1>a DEF ToldArrives, Arrived
  <2>6. SolverArrives'
    BY <1>0, <2>0, <1>a DEF SolverArrives, Arrived
  <2>7. PopFits'
    BY <1>0, <2>0, <1>a DEF PopFits
  <2>8. CancelFits'
    BY <1>0, <2>0, <1>a DEF CancelFits
  <2>9. QuietFits'
    BY <1>0, <2>0, <1>a DEF QuietFits
  <2>10. WaitFits'
    BY <1>0, <2>0, <1>a DEF WaitFits
  <2>11. QED BY <2>1, <2>2, <2>3, <2>4, <2>5, <2>6, <2>7, <2>8, <2>9, <2>10 DEF ComposerInv
<1>12. ASSUME NEW u \in Solvers, ReadCard(u) PROVE ComposerInv'
  <2>0. /\ solver' \in [Solvers -> Tasks] /\ solver'[u].at = "claim" /\ solver'[u].card \in Cards /\ solver'[u].action \in Actions
        /\ card[solver'[u].card] = "pending" /\ solver[u].at = "idle" /\ answers' \in 0..MaxAnswers
        /\ (\A v \in Solvers : v # u => solver'[v] = solver[v])
        /\ UNCHANGED <<record, card, slot, streamAt, ask, cardRow, ending, cancelSet, received, told>>
    <3>1. PICK k \in Cards, a \in Actions : /\ card[k] = "pending"
                                          /\ solver' = [solver EXCEPT ![u] = [at |-> "claim", card |-> k, action |-> a]]
      BY <1>12 DEF ReadCard
    <3> DEFINE s == [at |-> "claim", card |-> k, action |-> a]
    <3>2. s \in Tasks /\ s.at = "claim" /\ s.card = k /\ s.action = a
      BY DEF Tasks
    <3> HIDE DEF s
    <3>3. solver' \in [Solvers -> Tasks] /\ solver'[u] = s /\ (\A v \in Solvers : v # u => solver'[v] = solver[v])
      BY <1>0, <3>1, <3>2 DEF ComposerTyped, s
    <3>4. answers' \in 0..MaxAnswers /\ solver[u].at = "idle" /\ UNCHANGED <<record, card, slot, streamAt, ask, cardRow, ending, cancelSet, received, told>>
      BY <1>0, <1>12 DEF ReadCard, ComposerTyped
    <3>5. QED BY <3>1, <3>2, <3>3, <3>4
  <2>1. ComposerTyped'
    BY <1>0, <2>0, <1>a DEF ComposerTyped, StreamPlaces
  <2>2. AskFits'
    BY <1>0, <2>0, <1>a DEF AskFits, Asking
  <2>3. HoldersFit'
    BY <1>0, <2>0, <1>a DEF HoldersFit, Holds
  <2>4. SettledFits'
    BY <1>0, <2>0, <1>a DEF SettledFits, Settled, HoldersFit, Holds
  <2>5. ToldArrives'
    BY <1>0, <2>0, <1>a DEF ToldArrives, Arrived
  <2>6. SolverArrives'
    BY <1>0, <2>0, <1>a DEF SolverArrives, Arrived
  <2>7. PopFits'
    BY <1>0, <2>0, <1>a DEF PopFits
  <2>8. CancelFits'
    BY <1>0, <2>0, <1>a DEF CancelFits
  <2>9. QuietFits'
    BY <1>0, <2>0, <1>a DEF QuietFits
  <2>10. WaitFits'
    BY <1>0, <2>0, <1>a DEF WaitFits
  <2>11. QED BY <2>1, <2>2, <2>3, <2>4, <2>5, <2>6, <2>7, <2>8, <2>9, <2>10 DEF ComposerInv
<1>13. ASSUME NEW u \in Solvers, ClaimCard(u), card[solver[u].card] = "pending" PROVE ComposerInv'
  <2>0. /\ solver[u].at = "claim" /\ solver[u].card \in Cards /\ solver[u].action \in Actions /\ card[solver[u].card] = "pending"
        /\ solver' \in [Solvers -> Tasks] /\ solver'[u].at = "act" /\ solver'[u].card = solver[u].card /\ solver'[u].action = solver[u].action
        /\ (\A v \in Solvers : v # u => solver'[v] = solver[v])
        /\ card' \in [Cards -> CardStates] /\ (\A c \in Cards : card'[c] = IF c = solver[u].card THEN "resolving" ELSE card[c])
        /\ UNCHANGED <<record, slot, streamAt, ask, cardRow, ending, cancelSet, received, told, answers>>
    <3>1. /\ solver[u].at = "claim" /\ card' = [card EXCEPT ![solver[u].card] = "resolving"] /\ SolverTo(u, "act")
          /\ UNCHANGED <<record, slot, streamAt, ask, cardRow, ending, cancelSet, received, told, answers>>
      BY <1>13 DEF ClaimCard
    <3>2. "resolving" \in CardStates /\ solver[u].card \in Cards /\ solver[u].action \in Actions
      BY <1>0, <3>1 DEF CardStates, HoldersFit
    <3>3. QED BY <1>0, <1>13, <3>1, <3>2, SolverMoves, CardChanges
  <2>1. ComposerTyped'
    BY <1>0, <2>0, <1>a DEF ComposerTyped, StreamPlaces
  <2>2. AskFits'
    BY <1>0, <2>0, <1>a DEF AskFits, Asking
  <2>3. HoldersFit'
    BY <1>0, <2>0, <1>a DEF HoldersFit, Holds
  <2>4. SettledFits'
    BY <1>0, <2>0, <1>a DEF SettledFits, Settled, HoldersFit, Holds
  <2>5. ToldArrives'
    BY <1>0, <2>0, <1>a DEF ToldArrives, Arrived
  <2>6. SolverArrives'
    BY <1>0, <2>0, <1>a DEF SolverArrives, Arrived
  <2>7. PopFits'
    BY <1>0, <2>0, <1>a DEF PopFits
  <2>8. CancelFits'
    BY <1>0, <2>0, <1>a DEF CancelFits
  <2>9. QuietFits'
    BY <1>0, <2>0, <1>a DEF QuietFits, AskFits, Asking
  <2>10. WaitFits'
    <3>1. SUFFICES ASSUME streamAt \in {"mark", "wait"} /\ ~cancelSet /\ record # "cancelled", slot[ask.card] \notin Actions
                 PROVE  card'[ask.card] = "pending" \/ \E v \in Solvers : solver'[v].card = ask.card /\ solver'[v].at = "act"
      BY <2>0 DEF WaitFits
    <3>2. ask.card \in Cards
      BY <1>0, <3>1 DEF AskFits, Asking
    <3>3. CASE ask.card = solver[u].card
      BY <2>0, <3>3
    <3>4. CASE ask.card # solver[u].card
      <4>1. card'[ask.card] = card[ask.card]
        BY <2>0, <3>2, <3>4
      <4>2. \A v \in Solvers : solver[v].at = "act" => solver'[v] = solver[v]
        BY <2>0
      <4>3. card[ask.card] = "pending" \/ \E v \in Solvers : solver[v].card = ask.card /\ solver[v].at = "act"
        BY <1>0, <3>1 DEF WaitFits
      <4>4. QED BY <4>1, <4>2, <4>3
    <3>5. QED BY <3>3, <3>4
  <2>11. QED BY <2>1, <2>2, <2>3, <2>4, <2>5, <2>6, <2>7, <2>8, <2>9, <2>10 DEF ComposerInv
<1>14. ASSUME NEW u \in Solvers, ClaimCard(u), card[solver[u].card] # "pending" PROVE ComposerInv'
  <2>0. /\ solver[u].at = "claim"
        /\ solver' \in [Solvers -> Tasks] /\ solver'[u].at = "idle" /\ solver'[u].card = 0
        /\ (\A v \in Solvers : v # u => solver'[v] = solver[v])
        /\ UNCHANGED <<record, card, slot, streamAt, ask, cardRow, ending, cancelSet, received, told, answers>>
    BY <1>0, <1>14, SolverLeaves DEF ClaimCard
  <2>1. ComposerTyped'
    BY <1>0, <2>0, <1>a DEF ComposerTyped, StreamPlaces
  <2>2. AskFits'
    BY <1>0, <2>0, <1>a DEF AskFits, Asking
  <2>3. HoldersFit'
    BY <1>0, <2>0, <1>a DEF HoldersFit, Holds
  <2>4. SettledFits'
    BY <1>0, <2>0, <1>a DEF SettledFits, Settled, HoldersFit, Holds
  <2>5. ToldArrives'
    BY <1>0, <2>0, <1>a DEF ToldArrives, Arrived
  <2>6. SolverArrives'
    BY <1>0, <2>0, <1>a DEF SolverArrives, Arrived
  <2>7. PopFits'
    BY <1>0, <2>0, <1>a DEF PopFits
  <2>8. CancelFits'
    BY <1>0, <2>0, <1>a DEF CancelFits
  <2>9. QuietFits'
    BY <1>0, <2>0, <1>a DEF QuietFits
  <2>10. WaitFits'
    BY <1>0, <2>0, <1>a DEF WaitFits
  <2>11. QED BY <2>1, <2>2, <2>3, <2>4, <2>5, <2>6, <2>7, <2>8, <2>9, <2>10 DEF ComposerInv
<1>15. ASSUME NEW u \in Solvers, Act(u), solver[u].action = "cancel" PROVE ComposerInv'
  <2>0. /\ solver[u].at = "act" /\ solver[u].action = "cancel" /\ cancelSet' = TRUE
        /\ solver[u].card \in Cards /\ solver[u].action \in Actions
        /\ solver' \in [Solvers -> Tasks] /\ solver'[u].at \in {"finalize", "release"} /\ solver'[u].card = solver[u].card /\ solver'[u].action = solver[u].action
        /\ (\A v \in Solvers : v # u => solver'[v] = solver[v])
        /\ UNCHANGED <<record, card, slot, streamAt, ask, cardRow, ending, received, told, answers>>
    <3>1. PICK at \in {"finalize", "release"} : SolverTo(u, at)
      BY <1>15 DEF Act
    <3>2. solver[u].at = "act" /\ cancelSet' = TRUE /\ UNCHANGED <<record, card, slot, streamAt, ask, cardRow, ending, received, told, answers>>
      BY <1>15 DEF Act
    <3>3. solver[u].card \in Cards /\ solver[u].action \in Actions
      BY <1>0, <3>2 DEF HoldersFit
    <3>4. QED BY <1>0, <1>15, <3>1, <3>2, <3>3, SolverMoves
  <2>1. ComposerTyped'
    BY <1>0, <2>0, <1>a DEF ComposerTyped, StreamPlaces
  <2>2. AskFits'
    BY <1>0, <2>0, <1>a DEF AskFits, Asking
  <2>3. HoldersFit'
    BY <1>0, <2>0, <1>a DEF HoldersFit, Holds
  <2>4. SettledFits'
    BY <1>0, <2>0, <1>a DEF SettledFits, Settled, HoldersFit, Holds
  <2>5. ToldArrives'
    BY <1>0, <2>0, <1>a DEF ToldArrives, Arrived
  <2>6. SolverArrives'
    BY <1>0, <2>0, <1>a DEF SolverArrives, Arrived
  <2>7. PopFits'
    BY <1>0, <2>0, <1>a DEF PopFits
  <2>8. CancelFits'
    BY <1>0, <2>0, <1>a DEF CancelFits
  <2>9. QuietFits'
    BY <1>0, <2>0, <1>a DEF QuietFits
  <2>10. WaitFits'
    BY <1>0, <2>0, <1>a DEF WaitFits
  <2>11. QED BY <2>1, <2>2, <2>3, <2>4, <2>5, <2>6, <2>7, <2>8, <2>9, <2>10 DEF ComposerInv
<1>16. ASSUME NEW u \in Solvers, Act(u), solver[u].action # "cancel", slot[solver[u].card] # "none" PROVE ComposerInv'
  <2>0. /\ solver[u].at = "act" /\ solver[u].action # "cancel" /\ slot[solver[u].card] # "none"
        /\ solver[u].card \in Cards /\ solver[u].action \in Actions
        /\ solver' \in [Solvers -> Tasks] /\ solver'[u].at = "finalize" /\ solver'[u].card = solver[u].card /\ solver'[u].action = solver[u].action
        /\ (\A v \in Solvers : v # u => solver'[v] = solver[v])
        /\ slot' \in [Cards -> SlotStates] /\ (\A c \in Cards : slot'[c] = IF c = solver[u].card THEN solver[u].action ELSE slot[c])
        /\ solver[u].action \in Actions /\ solver[u].action # "none" /\ card[solver[u].card] \notin {"none", "pending"}
        /\ UNCHANGED <<record, card, streamAt, ask, cardRow, ending, cancelSet, received, told, answers>>
    <3>1. solver[u].at = "act" /\ slot' = [slot EXCEPT ![solver[u].card] = solver[u].action] /\ SolverTo(u, "finalize") /\ UNCHANGED <<record, card, streamAt, ask, cardRow, ending, cancelSet, received, told, answers>>
      BY <1>16 DEF Act
    <3>2. /\ solver[u].card \in Cards /\ solver[u].action \in Actions /\ slot \in [Cards -> SlotStates]
          /\ card[solver[u].card] \notin {"none", "pending"}
      BY <1>0, <3>1 DEF HoldersFit, Holds, ComposerTyped
    <3> DEFINE k == solver[u].card
                a == solver[u].action
    <3> HIDE DEF k, a
    <3>3. slot' = [slot EXCEPT ![k] = a] /\ k \in Cards /\ a \in Actions
      BY <3>1, <3>2 DEF k, a
    <3>4. slot' \in [Cards -> SlotStates] /\ (\A c \in Cards : slot'[c] = IF c = k THEN a ELSE slot[c])
      BY <3>2, <3>3 DEF SlotStates
    <3>5. solver[u].action # "none"
      BY <3>2 DEF Actions
    <3>6. QED BY <1>0, <1>16, <3>1, <3>2, <3>4, <3>5, SolverMoves DEF k, a
  <2>1. ComposerTyped'
    BY <1>0, <2>0, <1>a DEF ComposerTyped, StreamPlaces
  <2>2. AskFits'
    BY <1>0, <2>0, <1>a DEF AskFits, Asking
  <2>3. HoldersFit'
    BY <1>0, <2>0, <1>a DEF HoldersFit, Holds
  <2>4. SettledFits'
    BY <1>0, <2>0, <1>a DEF SettledFits, Settled, HoldersFit, Holds
  <2>5. ToldArrives'
    <3>1. told[solver[u].card] = "none"
      BY <1>0, <2>0 DEF SettledFits, Settled
    <3>2. QED BY <1>0, <2>0, <1>a, <3>1 DEF ToldArrives, Arrived
  <2>6. SolverArrives'
    <3>1. \A v \in Solvers : v # u /\ solver[v].at \in {"finalize", "update"} => solver[v].card # solver[u].card
      BY <1>0, <2>0 DEF HoldersFit, Holds
    <3>2. QED BY <1>0, <2>0, <1>a, <3>1 DEF SolverArrives, Arrived
  <2>7. PopFits'
    <3>1. slot[ask.card] \in Actions /\ ask.card \in Cards => ask.card # solver[u].card
      BY <1>0, <2>0 DEF SettledFits, Settled
    <3>2. streamAt = "pop" => ask.card \in Cards
      BY <1>0 DEF AskFits, Asking
    <3>3. QED BY <1>0, <2>0, <1>a, <3>1, <3>2 DEF PopFits
  <2>8. CancelFits'
    BY <1>0, <2>0, <1>a DEF CancelFits
  <2>9. QuietFits'
    BY <1>0, <2>0, <1>a DEF QuietFits
  <2>10. WaitFits'
    <3>1. SUFFICES ASSUME streamAt \in {"mark", "wait"} /\ ~cancelSet /\ record # "cancelled"
                 PROVE  \/ slot'[ask.card] \in Actions \/ card[ask.card] = "pending"
                        \/ \E v \in Solvers : solver'[v].card = ask.card /\ solver'[v].at = "act"
      BY <2>0 DEF WaitFits
    <3>2. ask.card \in Cards
      BY <1>0, <3>1 DEF AskFits, Asking
    <3>3. CASE ask.card = solver[u].card
      BY <2>0, <3>2, <3>3
    <3>4. CASE ask.card # solver[u].card
      <4>1. slot'[ask.card] = slot[ask.card]
        BY <2>0, <3>2, <3>4
      <4>2. \A v \in Solvers : v # u => solver'[v] = solver[v]
        BY <2>0
      <4>3. \/ slot[ask.card] \in Actions \/ card[ask.card] = "pending"
            \/ \E v \in Solvers : solver[v].card = ask.card /\ solver[v].at = "act"
        BY <1>0, <3>1 DEF WaitFits
      <4>4. QED BY <3>4, <4>1, <4>2, <4>3
    <3>5. QED BY <3>3, <3>4
  <2>11. QED BY <2>1, <2>2, <2>3, <2>4, <2>5, <2>6, <2>7, <2>8, <2>9, <2>10 DEF ComposerInv
<1>17. ASSUME NEW u \in Solvers, Act(u), solver[u].action # "cancel", slot[solver[u].card] = "none" PROVE ComposerInv'
  <2>0. /\ solver[u].at = "act" /\ slot[solver[u].card] = "none"
        /\ solver[u].card \in Cards /\ solver[u].action \in Actions
        /\ solver' \in [Solvers -> Tasks] /\ solver'[u].at = "release" /\ solver'[u].card = solver[u].card /\ solver'[u].action = solver[u].action
        /\ (\A v \in Solvers : v # u => solver'[v] = solver[v])
        /\ UNCHANGED <<record, card, slot, streamAt, ask, cardRow, ending, cancelSet, received, told, answers>>
    <3>1. solver[u].at = "act" /\ SolverTo(u, "release") /\ UNCHANGED <<record, card, slot, streamAt, ask, cardRow, ending, cancelSet, received, told, answers>>
      BY <1>17 DEF Act
    <3>2. solver[u].card \in Cards /\ solver[u].action \in Actions
      BY <1>0, <3>1 DEF HoldersFit
    <3>3. QED BY <1>0, <1>17, <3>1, <3>2, SolverMoves
  <2>1. ComposerTyped'
    BY <1>0, <2>0, <1>a DEF ComposerTyped, StreamPlaces
  <2>2. AskFits'
    BY <1>0, <2>0, <1>a DEF AskFits, Asking
  <2>3. HoldersFit'
    BY <1>0, <2>0, <1>a DEF HoldersFit, Holds
  <2>4. SettledFits'
    BY <1>0, <2>0, <1>a DEF SettledFits, Settled, HoldersFit, Holds
  <2>5. ToldArrives'
    BY <1>0, <2>0, <1>a DEF ToldArrives, Arrived
  <2>6. SolverArrives'
    BY <1>0, <2>0, <1>a DEF SolverArrives, Arrived
  <2>7. PopFits'
    BY <1>0, <2>0, <1>a DEF PopFits
  <2>8. CancelFits'
    BY <1>0, <2>0, <1>a DEF CancelFits
  <2>9. QuietFits'
    BY <1>0, <2>0, <1>a DEF QuietFits
  <2>10. WaitFits'
    <3>1. streamAt \in {"mark", "wait"} => cancelSet
      BY <1>0, <2>0 DEF QuietFits
    <3>2. QED BY <2>0, <3>1 DEF WaitFits
  <2>11. QED BY <2>1, <2>2, <2>3, <2>4, <2>5, <2>6, <2>7, <2>8, <2>9, <2>10 DEF ComposerInv
<1>18. ASSUME NEW u \in Solvers, FinalizeCard(u) PROVE ComposerInv'
  <2>0. /\ solver[u].at = "finalize"
        /\ solver[u].card \in Cards /\ solver[u].action \in Actions
        /\ solver' \in [Solvers -> Tasks] /\ solver'[u].at = "update" /\ solver'[u].card = solver[u].card /\ solver'[u].action = solver[u].action
        /\ (\A v \in Solvers : v # u => solver'[v] = solver[v])
        /\ card' \in [Cards -> CardStates] /\ (\A c \in Cards : c # solver[u].card => card'[c] = card[c])
        /\ card'[solver[u].card] \notin {"none", "pending"} /\ card[solver[u].card] \notin {"none", "pending"}
        /\ UNCHANGED <<record, slot, streamAt, ask, cardRow, ending, cancelSet, received, told, answers>>
    <3>1. solver[u].at = "finalize" /\ card' = [card EXCEPT ![solver[u].card] = ResultOf(solver[u].action)] /\ SolverTo(u, "update") /\ UNCHANGED <<record, slot, streamAt, ask, cardRow, ending, cancelSet, received, told, answers>>
      BY <1>18 DEF FinalizeCard
    <3>2. /\ solver[u].card \in Cards /\ solver[u].action \in Actions /\ card[solver[u].card] \notin {"none", "pending"}
      BY <1>0, <3>1 DEF HoldersFit, Holds
    <3> DEFINE k == solver[u].card
                s == ResultOf(solver[u].action)
    <3>3. s \in Terminal
      BY <3>2, ResultFinal
    <3> HIDE DEF s
    <3>4. s \in CardStates /\ s \notin {"none", "pending"}
      BY <3>3 DEF CardStates, Terminal
    <3>5. card' \in [Cards -> CardStates] /\ (\A c \in Cards : card'[c] = IF c = k THEN s ELSE card[c])
      BY <1>0, <3>1, <3>4, CardChanges DEF s
    <3>6. QED BY <1>0, <3>1, <3>2, <3>4, <3>5, SolverMoves
  <2>1. ComposerTyped'
    BY <1>0, <2>0, <1>a DEF ComposerTyped, StreamPlaces
  <2>2. AskFits'
    BY <1>0, <2>0, <1>a DEF AskFits, Asking
  <2>3. HoldersFit'
    BY <1>0, <2>0, <1>a DEF HoldersFit, Holds
  <2>4. SettledFits'
    BY <1>0, <2>0, <1>a DEF SettledFits, Settled, HoldersFit, Holds
  <2>5. ToldArrives'
    BY <1>0, <2>0, <1>a DEF ToldArrives, Arrived
  <2>6. SolverArrives'
    BY <1>0, <2>0, <1>a DEF SolverArrives, Arrived
  <2>7. PopFits'
    BY <1>0, <2>0, <1>a DEF PopFits
  <2>8. CancelFits'
    BY <1>0, <2>0, <1>a DEF CancelFits
  <2>9. QuietFits'
    BY <1>0, <2>0, <1>a DEF QuietFits
  <2>10. WaitFits'
    <3>1. SUFFICES ASSUME streamAt \in {"mark", "wait"} /\ ~cancelSet /\ record # "cancelled", slot[ask.card] \notin Actions
                 PROVE  card'[ask.card] = "pending" \/ \E v \in Solvers : solver'[v].card = ask.card /\ solver'[v].at = "act"
      BY <2>0 DEF WaitFits
    <3>2. ask.card \in Cards
      BY <1>0, <3>1 DEF AskFits, Asking
    <3>3. card[ask.card] = "pending" => card'[ask.card] = "pending"
      BY <2>0, <3>2
    <3>4. \A v \in Solvers : solver[v].at = "act" => solver'[v] = solver[v]
      BY <2>0
    <3>5. card[ask.card] = "pending" \/ \E v \in Solvers : solver[v].card = ask.card /\ solver[v].at = "act"
      BY <1>0, <3>1 DEF WaitFits
    <3>6. QED BY <3>3, <3>4, <3>5
  <2>11. QED BY <2>1, <2>2, <2>3, <2>4, <2>5, <2>6, <2>7, <2>8, <2>9, <2>10 DEF ComposerInv
<1>19. ASSUME NEW u \in Solvers, UpdateRecord(u) PROVE ComposerInv'
  <2>0. /\ solver[u].at = "update" /\ solver[u].card \in Cards /\ solver[u].action \in Actions /\ solver[u].action # "none"
        /\ record' \in RecordStates /\ (record = "cancelled" => record' = "cancelled")
        /\ told' \in [Cards -> CardOutcomes] /\ (\A c \in Cards : told'[c] = IF c = solver[u].card THEN solver[u].action ELSE told[c])
        /\ card[solver[u].card] \notin {"none", "pending"}
        /\ solver' \in [Solvers -> Tasks] /\ solver'[u].at = "idle" /\ solver'[u].card = 0
        /\ (\A v \in Solvers : v # u => solver'[v] = solver[v])
        /\ UNCHANGED <<card, slot, streamAt, ask, cardRow, ending, cancelSet, received, answers>>
    <3>1. /\ solver[u].at = "update" /\ SetRecord(IF solver[u].action = "cancel" THEN "cancelled" ELSE "running")
          /\ told' = [told EXCEPT ![solver[u].card] = solver[u].action] /\ solver' = [solver EXCEPT ![u] = NoTask]
          /\ UNCHANGED <<card, slot, streamAt, ask, cardRow, ending, cancelSet, received, answers>>
      BY <1>19 DEF UpdateRecord
    <3>2. /\ solver[u].card \in Cards /\ solver[u].action \in Actions /\ told \in [Cards -> CardOutcomes]
          /\ card[solver[u].card] \notin {"none", "pending"}
      BY <1>0, <3>1 DEF HoldersFit, Holds, ComposerTyped
    <3> DEFINE k == solver[u].card
                a == solver[u].action
                s == IF solver[u].action = "cancel" THEN "cancelled" ELSE "running"
    <3>3. s \in RecordStates
      BY DEF RecordStates, RunEnded
    <3> HIDE DEF k, a, s
    <3>4. told' = [told EXCEPT ![k] = a] /\ k \in Cards /\ a \in Actions
      BY <3>1, <3>2 DEF k, a
    <3>5. told' \in [Cards -> CardOutcomes] /\ (\A c \in Cards : told'[c] = IF c = k THEN a ELSE told[c])
      BY <3>2, <3>4 DEF CardOutcomes
    <3>6. record' \in RecordStates /\ (record = "cancelled" => record' = "cancelled")
      BY <1>0, <3>1, <3>3, RecordSet DEF s
    <3>7. solver[u].action # "none"
      BY <3>2 DEF Actions
    <3>8. QED BY <1>0, <3>1, <3>2, <3>5, <3>6, <3>7, SolverLeaves DEF k, a
  <2>1. ComposerTyped'
    BY <1>0, <2>0, <1>a DEF ComposerTyped, StreamPlaces
  <2>2. AskFits'
    BY <1>0, <2>0, <1>a DEF AskFits, Asking
  <2>3. HoldersFit'
    BY <1>0, <2>0, <1>a DEF HoldersFit, Holds
  <2>4. SettledFits'
    BY <1>0, <2>0, <1>a DEF SettledFits, Settled, HoldersFit, Holds
  <2>5. ToldArrives'
    <3>1. solver[u].action # "cancel" => Arrived(solver[u].card, solver[u].action)
      BY <1>0, <2>0 DEF SolverArrives
    <3>2. QED BY <1>0, <2>0, <1>a, <3>1 DEF ToldArrives, Arrived
  <2>6. SolverArrives'
    BY <1>0, <2>0, <1>a DEF SolverArrives, Arrived
  <2>7. PopFits'
    BY <1>0, <2>0, <1>a DEF PopFits
  <2>8. CancelFits'
    BY <1>0, <2>0, <1>a DEF CancelFits
  <2>9. QuietFits'
    BY <1>0, <2>0, <1>a DEF QuietFits
  <2>10. WaitFits'
    BY <1>0, <2>0, <1>a DEF WaitFits
  <2>11. QED BY <2>1, <2>2, <2>3, <2>4, <2>5, <2>6, <2>7, <2>8, <2>9, <2>10 DEF ComposerInv
<1>20. ASSUME NEW u \in Solvers, ReleaseClaim(u) PROVE ComposerInv'
  <2>0. /\ solver[u].at = "release"
        /\ solver[u].card \in Cards /\ solver[u].action \in Actions
        /\ solver' \in [Solvers -> Tasks] /\ solver'[u].at = "revert" /\ solver'[u].card = solver[u].card /\ solver'[u].action = solver[u].action
        /\ (\A v \in Solvers : v # u => solver'[v] = solver[v])
        /\ card' \in [Cards -> CardStates] /\ (\A c \in Cards : c # solver[u].card => card'[c] = card[c])
        /\ card'[solver[u].card] # "none"
        /\ UNCHANGED <<record, slot, streamAt, ask, cardRow, ending, cancelSet, received, told, answers>>
    <3>1. /\ solver[u].at = "release" /\ SolverTo(u, "revert")
          /\ card' = IF card[solver[u].card] = "resolving" THEN [card EXCEPT ![solver[u].card] = "pending"] ELSE card
          /\ UNCHANGED <<record, slot, streamAt, ask, cardRow, ending, cancelSet, received, told, answers>>
      BY <1>20 DEF ReleaseClaim
    <3>2. /\ solver[u].card \in Cards /\ solver[u].action \in Actions /\ card[solver[u].card] # "none" /\ card \in [Cards -> CardStates]
      BY <1>0, <3>1 DEF HoldersFit, ComposerTyped
    <3>3. "pending" \in CardStates
      BY DEF CardStates
    <3>4. QED BY <1>0, <3>1, <3>2, <3>3, SolverMoves, CardChanges
  <2>1. ComposerTyped'
    BY <1>0, <2>0, <1>a DEF ComposerTyped, StreamPlaces
  <2>2. AskFits'
    <3>1. streamAt = "card" => ask.card # solver[u].card /\ ask.card \in Cards
      BY <1>0, <2>0 DEF AskFits, Asking, HoldersFit
    <3>2. QED BY <1>0, <2>0, <1>a, <3>1 DEF AskFits, Asking
  <2>3. HoldersFit'
    BY <1>0, <2>0, <1>a DEF HoldersFit, Holds
  <2>4. SettledFits'
    BY <1>0, <2>0, <1>a DEF SettledFits, Settled, HoldersFit, Holds
  <2>5. ToldArrives'
    BY <1>0, <2>0, <1>a DEF ToldArrives, Arrived
  <2>6. SolverArrives'
    BY <1>0, <2>0, <1>a DEF SolverArrives, Arrived
  <2>7. PopFits'
    BY <1>0, <2>0, <1>a DEF PopFits
  <2>8. CancelFits'
    BY <1>0, <2>0, <1>a DEF CancelFits
  <2>9. QuietFits'
    BY <1>0, <2>0, <1>a DEF QuietFits
  <2>10. WaitFits'
    <3>1. streamAt \in {"mark", "wait"} => cancelSet
      BY <1>0, <2>0 DEF QuietFits
    <3>2. QED BY <2>0, <3>1 DEF WaitFits
  <2>11. QED BY <2>1, <2>2, <2>3, <2>4, <2>5, <2>6, <2>7, <2>8, <2>9, <2>10 DEF ComposerInv
<1>21. ASSUME NEW u \in Solvers, RevertRecord(u) PROVE ComposerInv'
  <2>0. /\ solver[u].at = "revert" /\ record' \in RecordStates /\ (record = "cancelled" => record' = "cancelled")
        /\ solver' \in [Solvers -> Tasks] /\ solver'[u].at = "idle" /\ solver'[u].card = 0
        /\ (\A v \in Solvers : v # u => solver'[v] = solver[v])
        /\ UNCHANGED <<card, slot, streamAt, ask, cardRow, ending, cancelSet, received, told, answers>>
    <3>1. /\ solver[u].at = "revert" /\ record' = (IF record = "running" THEN "waiting" ELSE record)
          /\ solver' = [solver EXCEPT ![u] = NoTask] /\ UNCHANGED <<card, slot, streamAt, ask, cardRow, ending, cancelSet, received, told, answers>>
      BY <1>21 DEF RevertRecord
    <3>2. record' \in RecordStates /\ (record = "cancelled" => record' = "cancelled")
      BY <1>0, <3>1 DEF ComposerTyped, RecordStates
    <3>3. QED BY <1>0, <3>1, <3>2, SolverLeaves
  <2>1. ComposerTyped'
    BY <1>0, <2>0, <1>a DEF ComposerTyped, StreamPlaces
  <2>2. AskFits'
    BY <1>0, <2>0, <1>a DEF AskFits, Asking
  <2>3. HoldersFit'
    BY <1>0, <2>0, <1>a DEF HoldersFit, Holds
  <2>4. SettledFits'
    BY <1>0, <2>0, <1>a DEF SettledFits, Settled, HoldersFit, Holds
  <2>5. ToldArrives'
    BY <1>0, <2>0, <1>a DEF ToldArrives, Arrived
  <2>6. SolverArrives'
    BY <1>0, <2>0, <1>a DEF SolverArrives, Arrived
  <2>7. PopFits'
    BY <1>0, <2>0, <1>a DEF PopFits
  <2>8. CancelFits'
    BY <1>0, <2>0, <1>a DEF CancelFits
  <2>9. QuietFits'
    BY <1>0, <2>0, <1>a DEF QuietFits
  <2>10. WaitFits'
    BY <1>0, <2>0, <1>a DEF WaitFits
  <2>11. QED BY <2>1, <2>2, <2>3, <2>4, <2>5, <2>6, <2>7, <2>8, <2>9, <2>10 DEF ComposerInv
<1>22. CASE StopChat \/ StopRecord
  <2>0. /\ record' \in RecordStates /\ (record = "cancelled" => record' = "cancelled")
        /\ cancelSet' \in BOOLEAN /\ (cancelSet => cancelSet')
        /\ UNCHANGED <<card, slot, streamAt, ask, cardRow, ending, solver, received, told, answers>>
    <3>1. CASE StopChat
      BY <1>0, <3>1 DEF StopChat, ComposerTyped
    <3>2. CASE StopRecord
      BY <1>0, <3>2 DEF StopRecord, ComposerTyped, RecordStates, RunEnded
    <3>3. QED BY <1>22, <3>1, <3>2
  <2>1. ComposerTyped'
    BY <1>0, <2>0, <1>a DEF ComposerTyped, StreamPlaces
  <2>2. AskFits'
    BY <1>0, <2>0, <1>a DEF AskFits, Asking
  <2>3. HoldersFit'
    BY <1>0, <2>0, <1>a DEF HoldersFit, Holds
  <2>4. SettledFits'
    BY <1>0, <2>0, <1>a DEF SettledFits, Settled, HoldersFit, Holds
  <2>5. ToldArrives'
    BY <1>0, <2>0, <1>a DEF ToldArrives, Arrived
  <2>6. SolverArrives'
    BY <1>0, <2>0, <1>a DEF SolverArrives, Arrived
  <2>7. PopFits'
    BY <1>0, <2>0, <1>a DEF PopFits
  <2>8. CancelFits'
    BY <1>0, <2>0, <1>a DEF CancelFits
  <2>9. QuietFits'
    BY <1>0, <2>0, <1>a DEF QuietFits
  <2>10. WaitFits'
    BY <1>0, <2>0, <1>a DEF WaitFits
  <2>11. QED BY <2>1, <2>2, <2>3, <2>4, <2>5, <2>6, <2>7, <2>8, <2>9, <2>10 DEF ComposerInv
<1>23. CASE Restart
  <2>0. /\ streamAt' = "over" /\ ask' \in Questions /\ ask'.card = 0 /\ cardRow' = 0 /\ ending' \in Endings /\ cancelSet' = FALSE
        /\ record' \in RecordStates
        /\ card' \in [Cards -> CardStates] /\ (\A c \in Cards : card'[c] = card[c] \/ card'[c] = "cancelled")
        /\ slot' \in [Cards -> SlotStates] /\ (\A c \in Cards : slot'[c] = "none")
        /\ solver' \in [Solvers -> Tasks] /\ (\A v \in Solvers : solver'[v].at = "idle" /\ solver'[v].card = 0)
        /\ UNCHANGED <<received, told, answers>>
    <3> DEFINE open == {c \in Cards : card[c] \in {"pending", "resolving"}}
    <3>1. /\ streamAt' = "over" /\ ask' = NoAsk /\ cardRow' = 0 /\ ending' = NoEnding /\ cancelSet' = FALSE
          /\ record' = (IF open # {} THEN "cancelled" ELSE record)
          /\ card' = [c \in Cards |-> IF c \in open THEN "cancelled" ELSE card[c]]
          /\ slot' = [c \in Cards |-> "none"] /\ solver' = [u \in Solvers |-> NoTask]
          /\ UNCHANGED <<received, told, answers>>
      BY <1>23 DEF Restart
    <3> HIDE DEF open
    <3>2. record' \in RecordStates
      BY <1>0, <3>1 DEF ComposerTyped, RecordStates, RunEnded
    <3>3. card' \in [Cards -> CardStates] /\ (\A c \in Cards : card'[c] = card[c] \/ card'[c] = "cancelled")
      BY <1>0, <3>1 DEF ComposerTyped, CardStates, Terminal
    <3>4. slot' \in [Cards -> SlotStates] /\ (\A c \in Cards : slot'[c] = "none")
      BY <3>1 DEF SlotStates
    <3>5. solver' \in [Solvers -> Tasks] /\ (\A v \in Solvers : solver'[v].at = "idle" /\ solver'[v].card = 0)
      BY <3>1, EmptyFields
    <3>6. QED BY <3>1, <3>2, <3>3, <3>4, <3>5, EmptyFields
  <2>1. ComposerTyped'
    BY <1>0, <2>0, <1>a DEF ComposerTyped, StreamPlaces
  <2>2. AskFits'
    BY <1>0, <2>0, <1>a DEF AskFits, Asking
  <2>3. HoldersFit'
    BY <1>0, <2>0, <1>a DEF HoldersFit, Holds
  <2>4. SettledFits'
    BY <1>0, <2>0, <1>a DEF SettledFits, Settled, HoldersFit, Holds
  <2>5. ToldArrives'
    BY <1>0, <2>0, <1>a DEF ToldArrives, Arrived
  <2>6. SolverArrives'
    BY <1>0, <2>0, <1>a DEF SolverArrives, Arrived
  <2>7. PopFits'
    BY <1>0, <2>0, <1>a DEF PopFits
  <2>8. CancelFits'
    BY <1>0, <2>0, <1>a DEF CancelFits
  <2>9. QuietFits'
    BY <1>0, <2>0, <1>a DEF QuietFits
  <2>10. WaitFits'
    BY <1>0, <2>0, <1>a DEF WaitFits
  <2>11. QED BY <2>1, <2>2, <2>3, <2>4, <2>5, <2>6, <2>7, <2>8, <2>9, <2>10 DEF ComposerInv
<1>24. CASE Ask
  <2>1. PICK k \in Cards, first \in BOOLEAN :
          /\ slot[k] = "none" /\ card[k] = "none" /\ slot' = [slot EXCEPT ![k] = "open"]
          /\ ask' = [card |-> k, responseFirst |-> first]
    BY <1>24 DEF Ask
  <2>2. QED BY <1>2, <1>24, <2>1
<1>25. CASE StreamThread
  BY <1>1, <1>3, <1>4, <1>5, <1>6, <1>7, <1>8, <1>9, <1>10, <1>11, <1>24, <1>25 DEF StreamThread
<1>26. ASSUME NEW u \in Solvers, SolverThread(u) PROVE ComposerInv'
  BY <1>12, <1>13, <1>14, <1>15, <1>16, <1>17, <1>18, <1>19, <1>20, <1>21, <1>26 DEF SolverThread
<1>27. QED BY <1>22, <1>23, <1>25, <1>26 DEF ComposerNext

LEMMA ComposerInitial == ComposerInit => ComposerInv
<1> SUFFICES ASSUME ComposerInit PROVE ComposerInv
  OBVIOUS
<1>1. /\ record = "none" /\ streamAt = "off" /\ ask = NoAsk /\ cardRow = 0 /\ ending = NoEnding /\ cancelSet = FALSE /\ answers = 0
      /\ card = [c \in Cards |-> "none"] /\ slot = [c \in Cards |-> "none"] /\ solver = [u \in Solvers |-> NoTask]
      /\ received = [c \in Cards |-> "none"] /\ told = [c \in Cards |-> "none"]
  BY DEF ComposerInit
<1>2. ComposerTyped
  <2>1. record \in RecordStates /\ streamAt \in StreamPlaces /\ ask \in Questions /\ ending \in Endings
        /\ cancelSet \in BOOLEAN /\ answers \in 0..MaxAnswers
    <3>1. "none" \in RecordStates /\ "off" \in StreamPlaces /\ FALSE \in BOOLEAN /\ 0 \in 0..MaxAnswers
      BY DEF RecordStates, StreamPlaces
    <3>2. QED BY <1>1, <3>1, EmptyFields
  <2>2. card \in [Cards -> CardStates] /\ slot \in [Cards -> SlotStates] /\ received \in [Cards -> CardOutcomes] /\ told \in [Cards -> CardOutcomes]
    BY <1>1 DEF CardStates, SlotStates, CardOutcomes
  <2>3. solver \in [Solvers -> Tasks]
    BY <1>1, EmptyFields
  <2>4. QED BY <1>1, <2>1, <2>2, <2>3 DEF ComposerTyped
<1>3. /\ \A u \in Solvers : solver[u].at = "idle"
      /\ \A c \in Cards : card[c] = "none" /\ slot[c] = "none" /\ told[c] = "none"
      /\ ask.card = 0
  BY <1>1, EmptyFields
<1>4. AskFits /\ HoldersFit /\ PopFits /\ CancelFits /\ QuietFits /\ WaitFits
  BY <1>1, <1>3 DEF AskFits, Asking, HoldersFit, Holds, PopFits, CancelFits, QuietFits, WaitFits
<1>5. SettledFits /\ ToldArrives /\ SolverArrives
  BY <1>3 DEF SettledFits, ToldArrives, SolverArrives, Actions
<1>6. QED BY <1>2, <1>4, <1>5 DEF ComposerInv

LEMMA ComposerInductive == ComposerInv /\ [ComposerNext]_composerVars => ComposerInv'
<1>1. ComposerInv /\ ComposerNext => ComposerInv'
  BY ComposerStep
<1>2. ComposerInv /\ UNCHANGED composerVars => ComposerInv'
  <2> SUFFICES ASSUME ComposerInv, UNCHANGED composerVars PROVE ComposerInv'
    OBVIOUS
  <2>1. UNCHANGED <<record, card, slot, streamAt, ask, cardRow, ending, cancelSet, solver, received, told, answers>>
    BY DEF composerVars
  <2>2. ComposerTyped' /\ AskFits' /\ HoldersFit' /\ PopFits' /\ CancelFits' /\ QuietFits' /\ WaitFits'
    BY <2>1 DEF ComposerInv, ComposerTyped, AskFits, Asking, HoldersFit, Holds, PopFits, CancelFits, QuietFits, WaitFits
  <2>3. SettledFits' /\ ToldArrives' /\ SolverArrives'
    BY <2>1 DEF ComposerInv, SettledFits, Settled, ToldArrives, SolverArrives, Arrived
  <2>4. QED BY <2>2, <2>3 DEF ComposerInv
<1>3. QED BY <1>1, <1>2

LEMMA ComposerInvariant == ComposerSpec => []ComposerInv
<1>1. QED BY ComposerInitial, ComposerInductive, PTL DEF ComposerSpec

\* The record, its cards, the slots and the threads keep their types.
THEOREM ComposerTypeCorrect == ComposerSpec => []ComposerTypeOK
<1>1. ComposerInv => ComposerTypeOK
  BY DEF ComposerInv, ComposerTyped, ComposerTypeOK, RecordStates, CardStates, SlotStates, StreamPlaces, Questions, Endings,
         Tasks, CardOutcomes
<1>2. QED BY <1>1, ComposerInvariant, PTL

\* An answer acknowledged to the user reaches the agent that asked, and an agent that
\* waits can be answered, whichever threads answer, release and cancel meanwhile.
THEOREM ComposerCardsWork == ComposerSpec => []CardsWork
<1>1. ComposerInv => CardsWork
  <2> SUFFICES ASSUME ComposerInv PROVE CardsWork
    OBVIOUS
  <2>1. AnswersArrive
    BY DEF ComposerInv, ToldArrives, Arrived, AskFits, AnswersArrive
  <2>2. WaitingIsAnswerable
    BY DEF ComposerInv, WaitFits, AskFits, WaitingIsAnswerable
  <2>3. QED BY <2>1, <2>2 DEF CardsWork
<1>2. QED BY <1>1, ComposerInvariant, PTL


HIDE ComposerAssumption

-------------------------------------------------------------------------------
(******************************************************************************)
(* The index of a project.  That it is in step when nobody is at work is an   *)
(* invariant only together with what each timer and the pass under way still  *)
(* owe the file (Owed): an edit during a pass is always owed a look, and what *)
(* a pass is about to commit is the file, or somebody knows better.           *)
(******************************************************************************)

TimerPlaces == {"armed", "fired", "check", "unindex", "index", "indexing", "done"}
TimerJobs == [deleted : BOOLEAN, at : TimerPlaces]
RowValues == Files \cup {"failed"}
PassPlaces == {"off", "manifest", "read", "publish", "commit", "fail", "stale"}
PassRecords == [at : PassPlaces, seen : BOOLEAN, prior : RowValues, hash : Files]

\* The types, and that the sequences are bounded.
CorpusTyped ==
    /\ disk \in Files /\ chunks \in Files /\ manifest \in RowValues
    /\ news \in Seq(BOOLEAN) /\ timers \in Seq(TimerJobs) /\ Len(timers) + Len(news) <= MaxEdits
    /\ pending \in 0..MaxEdits /\ indexing \in 0..Manual /\ pass \in PassRecords
    /\ passes \in 0..MaxPasses /\ behind \in BOOLEAN

\* A search finds what the manifest names.
IndexAgrees == chunks = IF manifest \in Contents THEN manifest ELSE "none"

\* Who holds the lock, and what its pass has found.
PassFits ==
    /\ pass.at = "off" <=> indexing = Nobody
    /\ \A i \in Timers : timers[i].at = "indexing" <=> indexing = i
    /\ indexing \notin {Nobody, Manual} => indexing \in Timers
    /\ pass.at \in {"read", "publish", "commit", "fail"} => pass.seen
    /\ pass.at \in {"publish", "commit"} => pass.hash \in Contents

\* Somebody has still to look at the file.
Owed == \E i \in Timers : StillOwes(i)

\* What is about to be written is what the file holds, unless it has changed since and
\* somebody knows, or the last who knew has failed.
CommitIsLive == pass.at = "commit" => pass.hash = disk \/ news # <<>> \/ Owed \/ behind

\* A file the listing of a whole project did not show has not come back unnoticed.
ListingFits == indexing = Manual /\ ~pass.seen /\ ~behind => disk = "none" \/ news # <<>> \/ Owed

\* When nobody owes the file a look, the index has it or the pass under way brings it.
IndexSettled ==
    ~behind /\ news = <<>> /\ ~Owed =>
        \/ chunks = disk
        \/ indexing # Manual /\ pass.at = "read" /\ disk # "none" /\ pass.prior = manifest
        \/ indexing # Manual /\ pass.at \in {"publish", "commit"} /\ pass.hash = disk

CorpusInv == CorpusTyped /\ IndexAgrees /\ PassFits /\ CommitIsLive /\ ListingFits /\ IndexSettled

USE CorpusAssumption

(***************************************************************************)
(* The operators of the model                                              *)
(***************************************************************************)

LEMMA TimerMoves ==
  ASSUME CorpusTyped, NEW i \in Timers, NEW at \in TimerPlaces, TimerTo(i, at)
  PROVE  /\ timers' \in Seq(TimerJobs) /\ Len(timers') = Len(timers) /\ Timers' = Timers
         /\ timers'[i].at = at /\ \A k \in Timers : k # i => timers'[k] = timers[k]
<1> DEFINE m == [timers[i] EXCEPT !.at = at]
<1>1. timers \in Seq(TimerJobs) /\ timers[i] \in TimerJobs /\ i \in 1..Len(timers)
  BY DEF CorpusTyped, Timers
<1>2. m \in TimerJobs /\ m.at = at
  BY <1>1 DEF TimerJobs
<1>3. timers' = [timers EXCEPT ![i] = m]
  BY DEF TimerTo
<1> HIDE DEF m
<1>4. timers' \in Seq(TimerJobs) /\ Len(timers') = Len(timers) /\ timers'[i] = m /\ \A k \in 1..Len(timers) : k # i => timers'[k] = timers[k]
  BY <1>1, <1>2, <1>3
<1>5. QED BY <1>2, <1>4 DEF Timers

\* A pass goes on.
LEMMA PassMoves ==
  ASSUME CorpusTyped, NEW at \in PassPlaces, PassTo(at)
  PROVE  pass' \in PassRecords /\ pass'.at = at /\ pass'.seen = pass.seen /\ pass'.prior = pass.prior /\ pass'.hash = pass.hash
  BY DEF CorpusTyped, PassTo, PassRecords

LEMMA NoPassFields ==
  NoPass \in PassRecords /\ NoPass.at = "off" /\ NoPass.seen = FALSE /\ NoPass.prior = "none" /\ NoPass.hash = "none"
  BY DEF NoPass, PassRecords, PassPlaces, RowValues, Files

\* What begins is a pass of its own, that has listed the file or not.
LEMMA PassBegins ==
  ASSUME CorpusTyped, NEW who, Begin(who)
  PROVE  /\ indexing = Nobody /\ indexing' = who /\ pass' \in PassRecords /\ pass'.at = "manifest"
         /\ (pass'.seen <=> disk # "none")
  BY DEF Begin, NoPass, PassRecords, PassPlaces, RowValues, Files

LEMMA CorpusStep ==
  ASSUME CorpusInv, CorpusNext
  PROVE  CorpusInv'
<1>0. CorpusTyped /\ IndexAgrees /\ PassFits /\ CommitIsLive /\ ListingFits /\ IndexSettled
  BY DEF CorpusInv
<1>a. /\ Len(timers) \in Nat /\ Timers = 1..Len(timers) /\ Len(timers) <= MaxEdits /\ Manual = MaxEdits + 1 /\ Manual \notin Timers
      /\ Nobody = 0 /\ Nobody \notin Timers /\ \A i \in Timers : i \in 0..Manual
  <2>1. Len(timers) \in Nat /\ Len(news) \in Nat /\ Len(timers) + Len(news) <= MaxEdits
    BY <1>0 DEF CorpusTyped
  <2>2. QED BY <2>1 DEF Timers, Manual, Nobody
<1>1. CASE Edit
  <2>0. /\ news' \in Seq(BOOLEAN) /\ news' # <<>> /\ Len(timers) + Len(news') <= MaxEdits /\ disk' \in Files /\ Timers' = Timers
        /\ UNCHANGED <<timers, pending, indexing, pass, manifest, chunks, passes, behind>>
    <3>1. PICK c \in Files : disk' = c /\ news' = Append(news, c = "none")
      BY <1>1 DEF Edit
    <3>2. news \in Seq(BOOLEAN) /\ (c = "none") \in BOOLEAN
      BY <1>0 DEF CorpusTyped
    <3> DEFINE b == c = "none"
    <3> HIDE DEF b
    <3>3. news' = Append(news, b) /\ b \in BOOLEAN
      BY <3>1, <3>2 DEF b
    <3>4. news' \in Seq(BOOLEAN) /\ Len(news') = Len(news) + 1 /\ news' # <<>>
      BY <3>2, <3>3
    <3>5. Len(timers) + Len(news') <= MaxEdits
      <4>1. Len(timers) \in Nat /\ Len(news) \in Nat /\ Len(timers) + Len(news) < MaxEdits
        BY <1>0, <1>1 DEF Edit, CorpusTyped
      <4>2. QED BY <3>4, <4>1
    <3>6. QED BY <1>1, <3>1, <3>4, <3>5 DEF Edit, Timers
  <2>1. CorpusTyped'
    BY <1>0, <2>0, <1>a DEF CorpusTyped
  <2>2. IndexAgrees'
    BY <1>0, <2>0, <1>a DEF IndexAgrees
  <2>3. PassFits'
    BY <1>0, <2>0, <1>a DEF PassFits, Nobody, Manual
  <2>4. CommitIsLive'
    BY <1>0, <2>0, <1>a DEF CommitIsLive, Owed, StillOwes
  <2>5. ListingFits'
    BY <1>0, <2>0, <1>a DEF ListingFits, Owed, StillOwes, PassFits, Nobody, Manual
  <2>6. IndexSettled'
    BY <1>0, <2>0, <1>a DEF IndexSettled, Owed, StillOwes
  <2>7. QED BY <2>1, <2>2, <2>3, <2>4, <2>5, <2>6 DEF CorpusInv
<1>2. CASE Schedule
  <2>0. /\ timers' \in Seq(TimerJobs) /\ Len(timers') = Len(timers) + 1 /\ Len(timers) \in Nat /\ Len(timers) < MaxEdits
        /\ Timers' = 1..(Len(timers) + 1) /\ Timers = 1..Len(timers)
        /\ timers'[Len(timers) + 1].at = "armed" /\ (\A k \in Timers : timers'[k].at = timers[k].at \/ (timers[k].at = "armed" /\ timers'[k].at = "done"))
        /\ pending' \in 0..MaxEdits /\ news' \in Seq(BOOLEAN) /\ Len(timers') + Len(news') <= MaxEdits
        /\ UNCHANGED <<disk, indexing, pass, manifest, chunks, passes, behind>>
    <3> DEFINE old == [i \in Timers |-> IF i = pending /\ timers[i].at = "armed"
                                         THEN [timers[i] EXCEPT !.at = "done"] ELSE timers[i]]
                new == [deleted |-> Head(news), at |-> "armed"]
    <3>1. news \in Seq(BOOLEAN) /\ news # <<>> /\ timers \in Seq(TimerJobs) /\ Len(timers) + Len(news) <= MaxEdits
      BY <1>0, <1>2 DEF Schedule, CorpusTyped
    <3>2. Len(timers) \in Nat /\ Len(news) \in Nat /\ Len(news) > 0 /\ Head(news) \in BOOLEAN
      BY <3>1
    <3>3. new \in TimerJobs /\ new.at = "armed"
      BY <3>2 DEF TimerJobs, TimerPlaces
    <3>4. \A k \in 1..Len(timers) : old[k] \in TimerJobs /\ (old[k].at = timers[k].at \/ (timers[k].at = "armed" /\ old[k].at = "done"))
      <4>1. SUFFICES ASSUME NEW k \in 1..Len(timers)
                     PROVE  old[k] \in TimerJobs /\ (old[k].at = timers[k].at \/ (timers[k].at = "armed" /\ old[k].at = "done"))
        OBVIOUS
      <4> DEFINE was == timers[k]
                 ended == [was EXCEPT !.at = "done"]
      <4>2. was \in TimerJobs
        BY <3>1, <4>1
      <4>3. ended \in TimerJobs /\ ended.at = "done"
        BY <4>2 DEF TimerJobs, TimerPlaces
      <4>4. old[k] = IF k = pending /\ was.at = "armed" THEN ended ELSE was
        BY <4>1 DEF Timers
      <4> HIDE DEF old, was, ended
      <4>5. QED BY <4>2, <4>3, <4>4 DEF was
    <3>5. old \in Seq(TimerJobs) /\ Len(old) = Len(timers)
      <4>1. old = [k \in 1..Len(timers) |-> old[k]]
        BY DEF Timers
      <4> HIDE DEF old
      <4>2. QED BY <3>2, <3>4, <4>1
    <3>6. timers' = Append(old, new) /\ news' = Tail(news) /\ pending' = Len(timers) + 1 /\ UNCHANGED <<disk, indexing, pass, manifest, chunks, passes, behind>>
      BY <1>2 DEF Schedule
    <3> HIDE DEF old, new
    <3>7. /\ timers' \in Seq(TimerJobs) /\ Len(timers') = Len(timers) + 1 /\ timers'[Len(timers) + 1] = new
          /\ \A k \in 1..Len(timers) : timers'[k] = old[k]
      BY <3>2, <3>3, <3>5, <3>6
    <3>8. news' \in Seq(BOOLEAN) /\ Len(news') = Len(news) - 1
      BY <3>1, <3>6
    <3>9. Len(timers) < MaxEdits /\ Len(timers') + Len(news') <= MaxEdits /\ pending' \in 0..MaxEdits
      BY <3>1, <3>2, <3>6, <3>7, <3>8
    <3>10. QED BY <3>2, <3>3, <3>4, <3>6, <3>7, <3>8, <3>9 DEF Timers
  <2>1. CorpusTyped'
    BY <1>0, <2>0, <1>a DEF CorpusTyped
  <2>2. IndexAgrees'
    BY <1>0, <2>0, <1>a DEF IndexAgrees
  <2>3. PassFits'
    <3>1. indexing # Len(timers) + 1
      BY <1>0, <2>0 DEF PassFits, Nobody, Manual
    <3>2. \A k \in Timers' : k \in Timers \/ k = Len(timers) + 1
      BY <2>0
    <3>3. QED BY <1>0, <2>0, <3>1, <3>2 DEF PassFits, Nobody, Manual
  <2>4. CommitIsLive'
    BY <1>0, <2>0 DEF CommitIsLive, Owed, StillOwes
  <2>5. ListingFits'
    BY <1>0, <2>0 DEF ListingFits, Owed, StillOwes
  <2>6. IndexSettled'
    BY <1>0, <2>0 DEF IndexSettled, Owed, StillOwes
  <2>7. QED BY <2>1, <2>2, <2>3, <2>4, <2>5, <2>6 DEF CorpusInv
<1>3. ASSUME NEW i \in Timers, FireTimer(i) PROVE CorpusInv'
  <2>0. /\ timers' \in Seq(TimerJobs) /\ Len(timers') = Len(timers) /\ Timers' = Timers
        /\ timers[i].at = "armed" /\ timers'[i].at = "fired" /\ (\A k \in Timers : k # i => timers'[k] = timers[k])
        /\ UNCHANGED <<disk, news, pending, indexing, pass, manifest, chunks, passes, behind>>
    BY <1>0, <1>3, TimerMoves DEF FireTimer, TimerPlaces
  <2>1. CorpusTyped'
    BY <1>0, <2>0, <1>a DEF CorpusTyped
  <2>2. IndexAgrees'
    BY <1>0, <2>0, <1>a DEF IndexAgrees
  <2>3. PassFits'
    BY <1>0, <2>0, <1>a DEF PassFits, Nobody, Manual
  <2>4. CommitIsLive'
    BY <1>0, <2>0, <1>a DEF CommitIsLive, Owed, StillOwes
  <2>5. ListingFits'
    BY <1>0, <2>0, <1>a DEF ListingFits, Owed, StillOwes, PassFits, Nobody, Manual
  <2>6. IndexSettled'
    BY <1>0, <2>0, <1>a DEF IndexSettled, Owed, StillOwes
  <2>7. QED BY <2>1, <2>2, <2>3, <2>4, <2>5, <2>6 DEF CorpusInv
<1>4. ASSUME NEW i \in Timers, PopTimer(i) PROVE CorpusInv'
  <2>0. /\ timers' \in Seq(TimerJobs) /\ Len(timers') = Len(timers) /\ Timers' = Timers
        /\ timers[i].at = "fired" /\ timers'[i].at \in {"unindex", "check"} /\ (\A k \in Timers : k # i => timers'[k] = timers[k])
        /\ pending' \in 0..MaxEdits
        /\ UNCHANGED <<disk, news, indexing, pass, manifest, chunks, passes, behind>>
    BY <1>0, <1>4, TimerMoves DEF PopTimer, TimerPlaces
  <2>1. CorpusTyped'
    BY <1>0, <2>0, <1>a DEF CorpusTyped
  <2>2. IndexAgrees'
    BY <1>0, <2>0, <1>a DEF IndexAgrees
  <2>3. PassFits'
    BY <1>0, <2>0, <1>a DEF PassFits, Nobody, Manual
  <2>4. CommitIsLive'
    BY <1>0, <2>0, <1>a DEF CommitIsLive, Owed, StillOwes
  <2>5. ListingFits'
    BY <1>0, <2>0, <1>a DEF ListingFits, Owed, StillOwes, PassFits, Nobody, Manual
  <2>6. IndexSettled'
    BY <1>0, <2>0, <1>a DEF IndexSettled, Owed, StillOwes
  <2>7. QED BY <2>1, <2>2, <2>3, <2>4, <2>5, <2>6 DEF CorpusInv
<1>5. ASSUME NEW i \in Timers, Check(i) PROVE CorpusInv'
  <2>0. /\ timers' \in Seq(TimerJobs) /\ Len(timers') = Len(timers) /\ Timers' = Timers
        /\ timers[i].at = "check" /\ timers'[i].at \in {"unindex", "index"} /\ (\A k \in Timers : k # i => timers'[k] = timers[k])
        /\ UNCHANGED <<disk, news, pending, indexing, pass, manifest, chunks, passes, behind>>
    BY <1>0, <1>5, TimerMoves DEF Check, TimerPlaces
  <2>1. CorpusTyped'
    BY <1>0, <2>0, <1>a DEF CorpusTyped
  <2>2. IndexAgrees'
    BY <1>0, <2>0, <1>a DEF IndexAgrees
  <2>3. PassFits'
    BY <1>0, <2>0, <1>a DEF PassFits, Nobody, Manual
  <2>4. CommitIsLive'
    BY <1>0, <2>0, <1>a DEF CommitIsLive, Owed, StillOwes
  <2>5. ListingFits'
    BY <1>0, <2>0, <1>a DEF ListingFits, Owed, StillOwes, PassFits, Nobody, Manual
  <2>6. IndexSettled'
    BY <1>0, <2>0, <1>a DEF IndexSettled, Owed, StillOwes
  <2>7. QED BY <2>1, <2>2, <2>3, <2>4, <2>5, <2>6 DEF CorpusInv
<1>6. ASSUME NEW i \in Timers, Unindex(i) PROVE CorpusInv'
  <2>0. /\ timers' \in Seq(TimerJobs) /\ Len(timers') = Len(timers) /\ Timers' = Timers
        /\ timers[i].at = "unindex" /\ timers'[i].at = "done" /\ (\A k \in Timers : k # i => timers'[k] = timers[k])
        /\ pass.at # "commit" /\ manifest' = "none" /\ chunks' = "none" /\ behind' \in BOOLEAN /\ (disk # "none" /\ behind => behind')
        /\ (~behind' /\ disk # "none" /\ news = <<>> => \E k \in Timers : k # i /\ StillOwes(k))
        /\ UNCHANGED <<disk, news, pending, indexing, pass, passes>>
    <3>1. /\ timers[i].at = "unindex" /\ TimerTo(i, "done") /\ pass.at # "commit" /\ manifest' = "none" /\ chunks' = "none"
          /\ behind' = (disk # "none" /\ (behind \/ LooksLast(i))) /\ UNCHANGED <<disk, news, pending, indexing, pass, passes>>
      BY <1>6 DEF Unindex, Writing
    <3>2. behind' \in BOOLEAN /\ (disk # "none" /\ behind => behind')
      BY <1>0, <3>1 DEF CorpusTyped
    <3>3. ~behind' /\ disk # "none" /\ news = <<>> => \E k \in Timers : k # i /\ StillOwes(k)
      BY <3>1 DEF LooksLast
    <3>4. QED BY <1>0, <3>1, <3>2, <3>3, TimerMoves DEF TimerPlaces
  <2>1. CorpusTyped'
    BY <1>0, <2>0 DEF CorpusTyped, Files, RowValues
  <2>2. IndexAgrees'
    BY <1>0, <2>0 DEF IndexAgrees
  <2>3. PassFits'
    BY <1>0, <2>0, <1>a DEF PassFits, Nobody, Manual
  <2>4. CommitIsLive'
    BY <1>0, <2>0, <1>a DEF CommitIsLive, Owed, StillOwes
  <2>5. ListingFits'
    BY <1>0, <2>0, <1>a DEF ListingFits, Owed, StillOwes, PassFits, Nobody, Manual
  <2>6. IndexSettled'
    BY <1>0, <2>0, <1>a DEF IndexSettled, Owed, StillOwes
  <2>7. QED BY <2>1, <2>2, <2>3, <2>4, <2>5, <2>6 DEF CorpusInv
<1>7. ASSUME NEW i \in Timers, BeginFile(i) PROVE CorpusInv'
  <2>0. /\ timers' \in Seq(TimerJobs) /\ Len(timers') = Len(timers) /\ Timers' = Timers
        /\ timers[i].at = "index" /\ timers'[i].at = "indexing" /\ (\A k \in Timers : k # i => timers'[k] = timers[k])
        /\ indexing = Nobody /\ indexing' = i /\ pass' \in PassRecords /\ pass'.at = "manifest" /\ (pass'.seen <=> disk # "none")
        /\ UNCHANGED <<disk, news, pending, manifest, chunks, passes, behind>>
    BY <1>0, <1>7, TimerMoves, PassBegins DEF BeginFile, TimerPlaces
  <2>1. CorpusTyped'
    BY <1>0, <2>0, <1>a DEF CorpusTyped, Manual
  <2>2. IndexAgrees'
    BY <1>0, <2>0, <1>a DEF IndexAgrees
  <2>3. PassFits'
    BY <1>0, <2>0, <1>a DEF PassFits, Nobody, Manual
  <2>4. CommitIsLive'
    BY <1>0, <2>0, <1>a DEF CommitIsLive, Owed, StillOwes, PassFits, Nobody, Manual
  <2>5. ListingFits'
    BY <1>0, <2>0, <1>a DEF ListingFits, Owed, StillOwes, PassFits, Nobody, Manual, PassFits, Nobody, Manual
  <2>6. IndexSettled'
    BY <1>0, <2>0, <1>a DEF IndexSettled, Owed, StillOwes, PassFits, Nobody, Manual
  <2>7. QED BY <2>1, <2>2, <2>3, <2>4, <2>5, <2>6 DEF CorpusInv
<1>8. CASE BeginProject
  <2>0. /\ indexing = Nobody /\ indexing' = Manual /\ pass' \in PassRecords /\ pass'.at = "manifest" /\ (pass'.seen <=> disk # "none")
        /\ passes' \in 0..MaxPasses /\ Timers' = Timers
        /\ UNCHANGED <<disk, news, timers, pending, manifest, chunks, behind>>
    <3>1. passes' \in 0..MaxPasses
      BY <1>0, <1>8 DEF BeginProject, CorpusTyped
    <3>2. QED BY <1>0, <1>8, <3>1, PassBegins DEF BeginProject, Timers
  <2>1. CorpusTyped'
    BY <1>0, <2>0, <1>a DEF CorpusTyped, Manual
  <2>2. IndexAgrees'
    BY <1>0, <2>0, <1>a DEF IndexAgrees
  <2>3. PassFits'
    BY <1>0, <2>0, <1>a DEF PassFits, Nobody, Manual
  <2>4. CommitIsLive'
    BY <1>0, <2>0, <1>a DEF CommitIsLive, Owed, StillOwes, PassFits, Nobody, Manual
  <2>5. ListingFits'
    BY <1>0, <2>0, <1>a DEF ListingFits, Owed, StillOwes, PassFits, Nobody, Manual, PassFits, Nobody, Manual
  <2>6. IndexSettled'
    BY <1>0, <2>0, <1>a DEF IndexSettled, Owed, StillOwes, PassFits, Nobody, Manual
  <2>7. QED BY <2>1, <2>2, <2>3, <2>4, <2>5, <2>6 DEF CorpusInv
<1>9. CASE ReadManifest
  <2>0. /\ Timers' = Timers /\ pass' \in PassRecords /\ pass.at = "manifest" /\ pass'.seen = pass.seen
        /\ pass'.prior = manifest /\ pass'.hash = pass.hash /\ pass'.at = (IF pass.seen THEN "read" ELSE "stale")
        /\ UNCHANGED <<disk, news, timers, pending, indexing, manifest, chunks, passes, behind>>
    BY <1>0, <1>9 DEF ReadManifest, CorpusTyped, PassRecords, PassPlaces, Timers
  <2>1. CorpusTyped'
    BY <1>0, <2>0, <1>a DEF CorpusTyped
  <2>2. IndexAgrees'
    BY <1>0, <2>0, <1>a DEF IndexAgrees
  <2>3. PassFits'
    BY <1>0, <2>0, <1>a DEF PassFits, Nobody, Manual
  <2>4. CommitIsLive'
    BY <1>0, <2>0, <1>a DEF CommitIsLive, Owed, StillOwes
  <2>5. ListingFits'
    BY <1>0, <2>0, <1>a DEF ListingFits, Owed, StillOwes, PassFits, Nobody, Manual
  <2>6. IndexSettled'
    <3>1. SUFFICES ASSUME ~behind, news = <<>>, ~Owed'
                   PROVE  chunks = disk \/ (indexing # Manual /\ pass'.at = "read" /\ disk # "none" /\ pass'.prior = manifest)
      BY <2>0 DEF IndexSettled
    <3>2. CASE Owed
      <4>1. PICK i \in Timers : StillOwes(i)
        BY <3>2 DEF Owed
      <4>2. ~StillOwes(i)' /\ timers' = timers
        BY <2>0, <3>1, <4>1 DEF Owed
      <4>3. timers[i].at = "indexing" /\ pass.seen /\ disk # "none"
        BY <2>0, <4>1, <4>2 DEF StillOwes
      <4>4. indexing = i /\ i # Manual
        BY <1>0, <1>a, <4>3 DEF PassFits
      <4>5. QED BY <2>0, <4>3, <4>4
    <3>3. CASE ~Owed
      BY <1>0, <2>0, <3>1, <3>3 DEF IndexSettled
    <3>4. QED BY <3>2, <3>3
  <2>7. QED BY <2>1, <2>2, <2>3, <2>4, <2>5, <2>6 DEF CorpusInv
<1>10. CASE ReadFile
  <2>0. /\ Timers' = Timers /\ pass' \in PassRecords /\ pass.at = "read" /\ pass'.seen = pass.seen
        /\ pass'.prior = pass.prior /\ pass'.hash = disk /\ pass'.at = (IF disk \in {"none", pass.prior} THEN "stale" ELSE "publish")
        /\ UNCHANGED <<disk, news, timers, pending, indexing, manifest, chunks, passes, behind>>
    BY <1>0, <1>10 DEF ReadFile, CorpusTyped, PassRecords, PassPlaces, Timers
  <2>1. CorpusTyped'
    BY <1>0, <2>0, <1>a DEF CorpusTyped
  <2>2. IndexAgrees'
    BY <1>0, <2>0, <1>a DEF IndexAgrees
  <2>3. PassFits'
    BY <1>0, <2>0, <1>a DEF PassFits, Nobody, Manual, CorpusTyped, Files
  <2>4. CommitIsLive'
    BY <1>0, <2>0, <1>a DEF CommitIsLive, Owed, StillOwes
  <2>5. ListingFits'
    BY <1>0, <2>0, <1>a DEF ListingFits, Owed, StillOwes, PassFits, Nobody, Manual
  <2>6. IndexSettled'
    BY <1>0, <2>0, <1>a DEF IndexSettled, Owed, StillOwes, IndexAgrees, PassFits, CorpusTyped, Files
  <2>7. QED BY <2>1, <2>2, <2>3, <2>4, <2>5, <2>6 DEF CorpusInv
<1>11. CASE Recheck
  <2>0. /\ Timers' = Timers /\ pass' \in PassRecords /\ pass.at = "publish" /\ pass'.seen = pass.seen
        /\ pass'.prior = pass.prior /\ pass'.hash = pass.hash /\ pass'.at = (IF disk = pass.hash THEN "commit" ELSE "fail")
        /\ UNCHANGED <<disk, news, timers, pending, indexing, manifest, chunks, passes, behind>>
    <3>1. (IF disk = pass.hash THEN "commit" ELSE "fail") \in PassPlaces
      BY DEF PassPlaces
    <3>2. QED BY <1>0, <1>11, <3>1, PassMoves DEF Recheck, Timers
  <2>1. CorpusTyped'
    BY <1>0, <2>0, <1>a DEF CorpusTyped
  <2>2. IndexAgrees'
    BY <1>0, <2>0, <1>a DEF IndexAgrees
  <2>3. PassFits'
    BY <1>0, <2>0, <1>a DEF PassFits, Nobody, Manual
  <2>4. CommitIsLive'
    BY <1>0, <2>0, <1>a DEF CommitIsLive, Owed, StillOwes
  <2>5. ListingFits'
    BY <1>0, <2>0, <1>a DEF ListingFits, Owed, StillOwes, PassFits, Nobody, Manual
  <2>6. IndexSettled'
    BY <1>0, <2>0, <1>a DEF IndexSettled, Owed, StillOwes
  <2>7. QED BY <2>1, <2>2, <2>3, <2>4, <2>5, <2>6 DEF CorpusInv
<1>12. CASE Publish
  <2>0. /\ Timers' = Timers /\ pass' \in PassRecords /\ pass.at = "commit" /\ pass'.seen = pass.seen
        /\ pass'.at = "stale" /\ pass.hash \in Contents /\ chunks' = pass.hash /\ manifest' = pass.hash
        /\ UNCHANGED <<disk, news, timers, pending, indexing, passes, behind>>
    BY <1>0, <1>12, PassMoves DEF Publish, Timers, PassPlaces, PassFits
  <2>1. CorpusTyped'
    BY <1>0, <2>0, NoPassFields DEF CorpusTyped, Files, RowValues, Manual, Nobody
  <2>2. IndexAgrees'
    BY <1>0, <2>0, <1>a DEF IndexAgrees
  <2>3. PassFits'
    BY <1>0, <2>0, <1>a DEF PassFits, Nobody, Manual
  <2>4. CommitIsLive'
    BY <1>0, <2>0, <1>a DEF CommitIsLive, Owed, StillOwes
  <2>5. ListingFits'
    BY <1>0, <2>0, <1>a DEF ListingFits, Owed, StillOwes, PassFits, Nobody, Manual
  <2>6. IndexSettled'
    BY <1>0, <2>0, <1>a DEF IndexSettled, CommitIsLive, Owed, StillOwes, PassFits
  <2>7. QED BY <2>1, <2>2, <2>3, <2>4, <2>5, <2>6 DEF CorpusInv
<1>13. CASE RecordFailure
  <2>0. /\ Timers' = Timers /\ pass' \in PassRecords /\ pass.at = "fail" /\ pass'.seen = pass.seen
        /\ pass'.at = "stale" /\ manifest' \in {manifest, IF manifest \in Contents THEN manifest ELSE "failed"}
        /\ UNCHANGED <<disk, news, timers, pending, indexing, chunks, passes, behind>>
    BY <1>0, <1>13, PassMoves DEF RecordFailure, Timers, PassPlaces
  <2>1. CorpusTyped'
    BY <1>0, <2>0, NoPassFields DEF CorpusTyped, Files, RowValues, Manual, Nobody
  <2>2. IndexAgrees'
    BY <1>0, <2>0, <1>a DEF IndexAgrees
  <2>3. PassFits'
    BY <1>0, <2>0, <1>a DEF PassFits, Nobody, Manual
  <2>4. CommitIsLive'
    BY <1>0, <2>0, <1>a DEF CommitIsLive, Owed, StillOwes
  <2>5. ListingFits'
    BY <1>0, <2>0, <1>a DEF ListingFits, Owed, StillOwes, PassFits, Nobody, Manual
  <2>6. IndexSettled'
    BY <1>0, <2>0, <1>a DEF IndexSettled, Owed, StillOwes
  <2>7. QED BY <2>1, <2>2, <2>3, <2>4, <2>5, <2>6 DEF CorpusInv
<1>14. CASE Finish /\ indexing = Manual
  <2>0. /\ Timers' = Timers /\ pass.at = "stale" /\ indexing = Manual /\ pass' = NoPass /\ indexing' = Nobody
        /\ \/ ~pass.seen /\ manifest' = "none" /\ chunks' = "none"
           \/ manifest' = manifest /\ chunks' = chunks
        /\ (\A k \in Timers : timers[k].at # "indexing")
        /\ behind' \in BOOLEAN /\ (~behind' => ~behind \/ chunks' = disk)
        /\ UNCHANGED <<disk, news, timers, pending, passes>>
    <3>1. \A k \in Timers : timers[k].at # "indexing"
      <4>1. \A k \in Timers : k # Manual
        BY <1>0 DEF CorpusTyped, Timers, Manual
      <4>2. QED BY <1>0, <1>14, <4>1 DEF PassFits
    <3>2. behind' \in BOOLEAN /\ (~behind' => ~behind \/ chunks' = disk)
      BY <1>0, <1>14 DEF Finish, CorpusTyped
    <3>3. QED BY <1>14, <3>1, <3>2 DEF Finish, Timers
  <2>1. CorpusTyped'
    BY <1>0, <2>0, NoPassFields DEF CorpusTyped, Files, RowValues, Manual, Nobody
  <2>2. IndexAgrees'
    BY <1>0, <2>0, <1>a DEF IndexAgrees
  <2>3. PassFits'
    BY <1>0, <2>0, <1>a, NoPassFields DEF PassFits, Nobody, Manual, PassFits
  <2>4. CommitIsLive'
    BY <1>0, <2>0, <1>a, NoPassFields DEF CommitIsLive, Owed, StillOwes, PassFits
  <2>5. ListingFits'
    BY <1>0, <2>0, <1>a, NoPassFields DEF ListingFits, Owed, StillOwes, PassFits, Nobody, Manual, PassFits
  <2>6. IndexSettled'
    <3>1. Owed => Owed'
      BY <2>0 DEF Owed, StillOwes
    <3>2. CASE ~pass.seen /\ chunks' = "none"
      BY <1>0, <2>0, <3>1, <3>2 DEF IndexSettled, ListingFits
    <3>3. CASE chunks' = chunks
      BY <1>0, <2>0, <3>1, <3>3 DEF IndexSettled
    <3>4. QED BY <2>0, <3>2, <3>3
  <2>7. QED BY <2>1, <2>2, <2>3, <2>4, <2>5, <2>6 DEF CorpusInv
<1>15. ASSUME NEW i \in Timers, i = indexing, Finish, indexing # Manual PROVE CorpusInv'
  <2>0. /\ timers' \in Seq(TimerJobs) /\ Len(timers') = Len(timers) /\ Timers' = Timers
        /\ timers[i].at = "indexing" /\ timers'[i].at = (IF pass.seen THEN "done" ELSE "unindex") /\ (\A k \in Timers : k # i => timers'[k] = timers[k])
        /\ pass.at = "stale" /\ pass' = NoPass /\ indexing' = Nobody
        /\ behind' \in BOOLEAN /\ (~behind' => ~behind \/ chunks' = disk)
        /\ UNCHANGED <<disk, news, pending, manifest, chunks, passes>>
    <3>1. timers[i].at = "indexing"
      BY <1>0, <1>15 DEF PassFits
    <3>2. TimerTo(i, IF pass.seen THEN "done" ELSE "unindex") /\ (IF pass.seen THEN "done" ELSE "unindex") \in TimerPlaces
      BY <1>15 DEF Finish, TimerPlaces
    <3>3. behind' \in BOOLEAN /\ (~behind' => ~behind \/ chunks' = disk)
      BY <1>0, <1>15 DEF Finish, CorpusTyped
    <3>4. QED BY <1>0, <1>15, <3>1, <3>2, <3>3, TimerMoves DEF Finish
  <2>1. CorpusTyped'
    BY <1>0, <2>0, NoPassFields DEF CorpusTyped, Files, RowValues, Manual, Nobody
  <2>2. IndexAgrees'
    BY <1>0, <2>0, <1>a DEF IndexAgrees
  <2>3. PassFits'
    BY <1>0, <2>0, <1>a, NoPassFields DEF PassFits, Nobody, Manual, PassFits
  <2>4. CommitIsLive'
    BY <1>0, <2>0, <1>a, NoPassFields DEF CommitIsLive, Owed, StillOwes, PassFits
  <2>5. ListingFits'
    BY <1>0, <2>0, <1>a, NoPassFields DEF ListingFits, Owed, StillOwes, PassFits, Nobody, Manual, PassFits
  <2>6. IndexSettled'
    BY <1>0, <2>0, <1>a, NoPassFields DEF IndexSettled, Owed, StillOwes, PassFits
  <2>7. QED BY <2>1, <2>2, <2>3, <2>4, <2>5, <2>6 DEF CorpusInv
<1>16. indexing # Manual /\ Finish => indexing \in Timers
  <2>1. Finish => pass.at # "off"
    BY DEF Finish
  <2>2. QED BY <1>0, <2>1 DEF PassFits
<1>17. ASSUME NEW i \in Timers, TimerFails(i) PROVE CorpusInv'
  <2>0. /\ timers' \in Seq(TimerJobs) /\ Len(timers') = Len(timers) /\ Timers' = Timers
        /\ timers[i].at \in {"check", "unindex"} /\ timers'[i].at = "done" /\ (\A k \in Timers : k # i => timers'[k] = timers[k])
        /\ behind' \in BOOLEAN /\ (behind => behind')
        /\ (~behind' /\ news = <<>> => \E k \in Timers : k # i /\ StillOwes(k))
        /\ UNCHANGED <<disk, news, pending, indexing, pass, manifest, chunks, passes>>
    <3>1. /\ timers[i].at \in {"check", "unindex"} /\ TimerTo(i, "done") /\ behind' = (behind \/ LooksLast(i))
          /\ UNCHANGED <<disk, news, pending, indexing, pass, manifest, chunks, passes>>
      BY <1>17 DEF TimerFails
    <3>2. behind' \in BOOLEAN /\ (behind => behind')
      BY <1>0, <3>1 DEF CorpusTyped
    <3>3. ~behind' /\ news = <<>> => \E k \in Timers : k # i /\ StillOwes(k)
      BY <3>1 DEF LooksLast
    <3>4. QED BY <1>0, <3>1, <3>2, <3>3, TimerMoves DEF TimerPlaces
  <2>1. CorpusTyped'
    BY <1>0, <2>0, <1>a, NoPassFields DEF CorpusTyped, Manual, Nobody
  <2>2. IndexAgrees'
    BY <1>0, <2>0, <1>a DEF IndexAgrees
  <2>3. PassFits'
    BY <1>0, <2>0, <1>a, NoPassFields DEF PassFits, Nobody, Manual
  <2>4. CommitIsLive'
    BY <1>0, <2>0, <1>a, NoPassFields DEF CommitIsLive, Owed, StillOwes, PassFits
  <2>5. ListingFits'
    BY <1>0, <2>0, <1>a, NoPassFields DEF ListingFits, Owed, StillOwes, PassFits, Nobody, Manual
  <2>6. IndexSettled'
    BY <1>0, <2>0, <1>a, NoPassFields DEF IndexSettled, Owed, StillOwes, PassFits, Nobody, Manual
  <2>7. QED BY <2>1, <2>2, <2>3, <2>4, <2>5, <2>6 DEF CorpusInv
<1>18. ASSUME NEW i \in Timers, ListingFails(i) PROVE CorpusInv'
  <2>0. /\ timers' \in Seq(TimerJobs) /\ Len(timers') = Len(timers) /\ Timers' = Timers
        /\ timers[i].at = "index" /\ timers'[i].at = "unindex" /\ (\A k \in Timers : k # i => timers'[k] = timers[k])
        /\ UNCHANGED <<disk, news, pending, indexing, pass, manifest, chunks, passes, behind>>
    BY <1>0, <1>18, TimerMoves DEF ListingFails, TimerPlaces
  <2>1. CorpusTyped'
    BY <1>0, <2>0, <1>a, NoPassFields DEF CorpusTyped, Manual, Nobody
  <2>2. IndexAgrees'
    BY <1>0, <2>0, <1>a DEF IndexAgrees
  <2>3. PassFits'
    BY <1>0, <2>0, <1>a, NoPassFields DEF PassFits, Nobody, Manual
  <2>4. CommitIsLive'
    BY <1>0, <2>0, <1>a, NoPassFields DEF CommitIsLive, Owed, StillOwes, PassFits
  <2>5. ListingFits'
    BY <1>0, <2>0, <1>a, NoPassFields DEF ListingFits, Owed, StillOwes, PassFits, Nobody, Manual
  <2>6. IndexSettled'
    BY <1>0, <2>0, <1>a, NoPassFields DEF IndexSettled, Owed, StillOwes, PassFits, Nobody, Manual
  <2>7. QED BY <2>1, <2>2, <2>3, <2>4, <2>5, <2>6 DEF CorpusInv
<1>19. CASE PassFails
  <2>0. /\ Timers' = Timers /\ pass' \in PassRecords /\ pass.at \in {"read", "publish", "commit"} /\ pass'.seen = pass.seen
        /\ pass'.at \in {"stale", "fail"} /\ pass'.at \notin {"off", "manifest", "read", "publish", "commit"}
        /\ behind' \in BOOLEAN /\ (behind => behind')
        /\ (~behind' /\ indexing # Manual /\ news = <<>> => \E k \in Timers : k # indexing /\ StillOwes(k))
        /\ UNCHANGED <<disk, news, timers, pending, indexing, manifest, chunks, passes>>
    <3>1. /\ pass.at \in {"read", "publish", "commit"} /\ PassTo(IF pass.at = "read" THEN "stale" ELSE "fail")
          /\ behind' = (behind \/ (indexing # Manual /\ LooksLast(indexing)))
          /\ UNCHANGED <<disk, news, timers, pending, indexing, manifest, chunks, passes>>
      BY <1>19 DEF PassFails, Missed
    <3>2. behind' \in BOOLEAN /\ (behind => behind')
      BY <1>0, <3>1 DEF CorpusTyped
    <3>3. ~behind' /\ indexing # Manual /\ news = <<>> => \E k \in Timers : k # indexing /\ StillOwes(k)
      BY <3>1 DEF LooksLast
    <3>4. (IF pass.at = "read" THEN "stale" ELSE "fail") \in PassPlaces
      BY DEF PassPlaces
    <3>5. QED BY <1>0, <3>1, <3>2, <3>3, <3>4, PassMoves DEF Timers
  <2>1. CorpusTyped'
    BY <1>0, <2>0, <1>a, NoPassFields DEF CorpusTyped, Manual, Nobody
  <2>2. IndexAgrees'
    BY <1>0, <2>0, <1>a DEF IndexAgrees
  <2>3. PassFits'
    BY <1>0, <2>0, <1>a, NoPassFields DEF PassFits, Nobody, Manual
  <2>4. CommitIsLive'
    BY <1>0, <2>0, <1>a, NoPassFields DEF CommitIsLive, Owed, StillOwes, PassFits
  <2>5. ListingFits'
    BY <1>0, <2>0, <1>a, NoPassFields DEF ListingFits, Owed, StillOwes, PassFits, Nobody, Manual
  <2>6. IndexSettled'
    BY <1>0, <2>0, <1>a, NoPassFields DEF IndexSettled, Owed, StillOwes, PassFits, Nobody, Manual
  <2>7. QED BY <2>1, <2>2, <2>3, <2>4, <2>5, <2>6 DEF CorpusInv
<1>20. CASE Abandon /\ indexing = Manual
  <2>0. /\ Timers' = Timers /\ indexing = Manual /\ pass' = NoPass /\ indexing' = Nobody
        /\ pass.at \in {"manifest", "stale"} /\ behind' = behind /\ (\A k \in Timers : timers[k].at # "indexing")
        /\ UNCHANGED <<disk, news, timers, pending, manifest, chunks, passes>>
    <3>1. \A k \in Timers : timers[k].at # "indexing"
      BY <1>0, <1>a, <1>20 DEF PassFits
    <3>2. behind' = behind
      BY <1>0, <1>20 DEF Abandon, Missed, CorpusTyped
    <3>3. QED BY <1>20, <3>1, <3>2 DEF Abandon, Timers
  <2>1. CorpusTyped'
    BY <1>0, <2>0, <1>a, NoPassFields DEF CorpusTyped, Manual, Nobody
  <2>2. IndexAgrees'
    BY <1>0, <2>0, <1>a DEF IndexAgrees
  <2>3. PassFits'
    BY <1>0, <2>0, <1>a, NoPassFields DEF PassFits, Nobody, Manual
  <2>4. CommitIsLive'
    BY <1>0, <2>0, <1>a, NoPassFields DEF CommitIsLive, Owed, StillOwes, PassFits
  <2>5. ListingFits'
    BY <1>0, <2>0, <1>a, NoPassFields DEF ListingFits, Owed, StillOwes, PassFits, Nobody, Manual
  <2>6. IndexSettled'
    BY <1>0, <2>0, <1>a, NoPassFields DEF IndexSettled, Owed, StillOwes, PassFits, Nobody, Manual
  <2>7. QED BY <2>1, <2>2, <2>3, <2>4, <2>5, <2>6 DEF CorpusInv
<1>21. ASSUME NEW i \in Timers, i = indexing, Abandon, indexing # Manual PROVE CorpusInv'
  <2>0. /\ timers' \in Seq(TimerJobs) /\ Len(timers') = Len(timers) /\ Timers' = Timers
        /\ timers[i].at = "indexing" /\ timers'[i].at = "done" /\ (\A k \in Timers : k # i => timers'[k] = timers[k])
        /\ pass.at = "manifest" /\ pass' = NoPass /\ indexing' = Nobody
        /\ behind' \in BOOLEAN /\ (behind => behind')
        /\ (~behind' /\ news = <<>> => \E k \in Timers : k # i /\ StillOwes(k))
        /\ UNCHANGED <<disk, news, pending, manifest, chunks, passes>>
    <3>1. timers[i].at = "indexing"
      BY <1>0, <1>21 DEF PassFits
    <3>2. /\ pass.at = "manifest" /\ TimerTo(i, "done") /\ behind' = (behind \/ LooksLast(i)) /\ pass' = NoPass
          /\ indexing' = Nobody /\ UNCHANGED <<disk, news, pending, manifest, chunks, passes>>
      BY <1>21 DEF Abandon, Missed
    <3>3. behind' \in BOOLEAN /\ (behind => behind')
      BY <1>0, <3>2 DEF CorpusTyped
    <3>4. ~behind' /\ news = <<>> => \E k \in Timers : k # i /\ StillOwes(k)
      BY <3>2 DEF LooksLast
    <3>5. QED BY <1>0, <3>1, <3>2, <3>3, <3>4, TimerMoves DEF TimerPlaces
  <2>1. CorpusTyped'
    BY <1>0, <2>0, <1>a, NoPassFields DEF CorpusTyped, Manual, Nobody
  <2>2. IndexAgrees'
    BY <1>0, <2>0, <1>a DEF IndexAgrees
  <2>3. PassFits'
    BY <1>0, <2>0, <1>a, NoPassFields DEF PassFits, Nobody, Manual
  <2>4. CommitIsLive'
    BY <1>0, <2>0, <1>a, NoPassFields DEF CommitIsLive, Owed, StillOwes, PassFits
  <2>5. ListingFits'
    BY <1>0, <2>0, <1>a, NoPassFields DEF ListingFits, Owed, StillOwes, PassFits, Nobody, Manual
  <2>6. IndexSettled'
    BY <1>0, <2>0, <1>a, NoPassFields DEF IndexSettled, Owed, StillOwes, PassFits, Nobody, Manual
  <2>7. QED BY <2>1, <2>2, <2>3, <2>4, <2>5, <2>6 DEF CorpusInv
<1>22. indexing # Manual /\ Abandon => indexing \in Timers
  <2>1. Abandon => pass.at # "off"
    BY DEF Abandon
  <2>2. QED BY <1>0, <2>1 DEF PassFits
<1>23. QED BY <1>1, <1>2, <1>3, <1>4, <1>5, <1>6, <1>7, <1>8, <1>9, <1>10, <1>11, <1>12, <1>13, <1>14, <1>15, <1>16,
              <1>17, <1>18, <1>19, <1>20, <1>21, <1>22 DEF CorpusNext, Indexing

LEMMA CorpusStarts == CorpusInit => CorpusInv
<1> SUFFICES ASSUME CorpusInit PROVE CorpusInv
  OBVIOUS
<1>1. /\ disk \in Files /\ manifest = disk /\ chunks = disk /\ news = <<>> /\ timers = <<>> /\ pending = 0
      /\ indexing = Nobody /\ pass = NoPass /\ passes = 0 /\ behind = FALSE
  BY DEF CorpusInit
<1>2. Timers = {} /\ Len(timers) = 0 /\ Len(news) = 0 /\ timers \in Seq(TimerJobs) /\ news \in Seq(BOOLEAN)
  BY <1>1 DEF Timers
<1>3. 0 \in 0..MaxEdits /\ 0 \in 0..MaxPasses /\ 0 \in 0..Manual /\ FALSE \in BOOLEAN /\ 0 + 0 <= MaxEdits
  BY DEF Manual
<1>4. CorpusTyped
  BY <1>1, <1>2, <1>3, NoPassFields DEF CorpusTyped, RowValues, Nobody
<1>5. IndexAgrees
  BY <1>1 DEF IndexAgrees, Files
<1>6. PassFits /\ CommitIsLive /\ ListingFits /\ IndexSettled
  BY <1>1, <1>2, NoPassFields DEF PassFits, CommitIsLive, ListingFits, IndexSettled, Nobody, Manual
<1>7. QED BY <1>4, <1>5, <1>6 DEF CorpusInv

LEMMA CorpusKept == CorpusSpec => []CorpusInv
<1>1. CorpusInv /\ [CorpusNext]_corpusVars => CorpusInv'
  <2>1. CASE CorpusNext
    BY <2>1, CorpusStep
  <2>2. ASSUME CorpusInv, UNCHANGED corpusVars PROVE CorpusInv'
    BY <2>2 DEF corpusVars, CorpusInv, CorpusTyped, IndexAgrees, PassFits, CommitIsLive, ListingFits, IndexSettled,
                Owed, StillOwes, Timers
  <2>3. QED BY <2>1, <2>2
<1>2. QED BY <1>1, CorpusStarts, PTL DEF CorpusSpec

\* Types: the file, the timers, the pass and the rows have their types.
THEOREM CorpusTypeCorrect == CorpusSpec => []CorpusTypeOK
<1>1. CorpusInv => CorpusTypeOK
  <2>1. CorpusTyped => \A k \in DOMAIN news : news[k] \in BOOLEAN
    BY DEF CorpusTyped
  <2>2. CorpusTyped => \A i \in Timers : timers[i] \in TimerJobs
    BY DEF CorpusTyped, Timers
  <2>3. QED BY <2>1, <2>2 DEF CorpusInv, CorpusTyped, CorpusTypeOK, TimerJobs, TimerPlaces, PassRecords, PassPlaces, RowValues
<1>2. QED BY <1>1, CorpusKept, PTL

\* Once the watcher has nothing left to do, a search finds what the file holds,
\* whichever events, timers and indexings crossed and whatever failed on the way;
\* unless the last look at it failed, or was undone by a removal, and nobody has
\* found the index right since (file_watcher.py:125, indexing.py:360).
THEOREM CorpusInSync == CorpusSpec => []InSync
<1>1. CorpusInv => InSync
  <2> SUFFICES ASSUME CorpusInv, ~behind, news = <<>>, indexing = Nobody, \A i \in Timers : timers[i].at = "done"
               PROVE  chunks = disk
    BY DEF InSync
  <2>1. ~Owed
    BY DEF Owed, StillOwes
  <2>2. pass.at = "off"
    BY DEF CorpusInv, PassFits
  <2>3. QED BY <2>1, <2>2 DEF CorpusInv, IndexSettled
<1>2. QED BY <1>1, CorpusKept, PTL


HIDE CorpusAssumption

-------------------------------------------------------------------------------
(************************************************************************************)
(* The chat of the desktop client.  What its transcript says agrees with the server *)
(* because a stream ends once and with a done after the answer (Fits), because a    *)
(* Stop is posted only when no Resume may still begin the run (AwaitFits), and      *)
(* because the messages are told apart by their ids (LettersFit).                   *)
(************************************************************************************)

ControlStates == {"idle", "running", "stopping", "cancel_failed", "stopped"}
Overs == {"done", "cut", "refused", "failed"}
Events == [what : Overs \cup {"headers", "final", "applied"}, id : Requests \cup {0}]
ChatTurns == [running : BOOLEAN, answer : {"none", "draft", "accepted", "interrupted"}, control : ControlStates, resumable : BOOLEAN]
Transcripts == [ChatRuns -> ChatTurns]
ShownStates == [Requests -> {"none", "accepted", "applied"}]
Saves == [turns : Transcripts, shown : ShownStates]
Inputs == [run : ChatRuns, id : Requests, text : Nat]
Rows == [id : Requests, run : ChatRuns, text : Nat, applied : BOOLEAN]
Steerings == [at : {"idle", "posted", "uncertain", "accepted"}, now : Inputs \cup {NoInput}, pending : Inputs \cup {NoInput},
              late : SUBSET Inputs, ids : 0..MaxRequests, text : Nat, lost : SUBSET ChatRuns]

ServerTyped ==
    /\ gen \in [ChatRuns -> {"none", "live", "cut", "done"}] /\ awaited \in [ChatRuns -> {"no", "start", "resume"}]
    /\ stopAsked \in [ChatRuns -> BOOLEAN] /\ rows \subseteq Rows
    /\ pipe \in [ChatRuns -> Seq(Events)] /\ reading \subseteq ChatRuns

EntryTyped ==
    /\ control \in ControlStates /\ runId \in ChatRuns \cup {NoRun}
    /\ lastMode \in BOOLEAN /\ answered \subseteq ChatRuns
    /\ cancellation \in {"none", "waits", "posted"} /\ turns \in Transcripts
    /\ shown \in ShownStates /\ steering \in Steerings /\ persisted \in Saves

\* The chat is about one run while it is running or its Stop is not confirmed.
ControlFits ==
    /\ runId = NoRun <=> control \in {"idle", "stopped"}
    /\ cancellation # "none" => control = "stopping"

\* The only reader is that run's, and a stream begins when its run is prepared.
ReadersFit ==
    /\ reading \subseteq {runId} \ {NoRun}
    /\ \A r \in ChatRuns : r \notin reading \/ awaited[r] # "no" => pipe[r] = <<>>

\* A stream ends once, and with a done after the answer.
Fits(p, g) ==
    \A i \in DOMAIN p :
        /\ \A j \in DOMAIN p : i < j => p[i].what \notin Overs /\ (p[i].what = "final" => p[j].what = "done")
        /\ p[i].what = "final" => g = "done" /\ i + 1 \in DOMAIN p
        /\ p[i].what = "applied" => p[i].id \in Requests
PipeFits == \A r \in ChatRuns : Fits(pipe[r], gen[r])

\* What it says of messages.
NoNews(p) == \A i \in DOMAIN p : p[i].what # "applied"
Tells(p, id) == \E i \in DOMAIN p : p[i].what = "applied" /\ p[i].id = id
StreamOver(p) == \E i \in DOMAIN p : p[i].what \in Overs

\* A request that starts a run is the first of its name; one that resumes a run has
\* the chat's reader, which has not been stopped, or has been given up.
AwaitFits ==
    \A r \in ChatRuns :
        /\ awaited[r] = "start" => gen[r] = "none"
        /\ awaited[r] = "resume" /\ r \notin crossed =>
              r \in reading /\ resuming /\ ~runReady /\ cancellation # "posted"

\* An accepted answer is the last of its run, in the transcript and in what is saved.
AnswersFit ==
    /\ AnswerStays
    /\ \A r \in ChatRuns :
        /\ turns[r].answer = "accepted" =>
              gen[r] = "done" /\ NoNews(pipe[r])
        /\ persisted.turns[r].answer = "accepted" => gen[r] = "done"
        /\ StopUnconfirmed /\ r \in reading => turns[r].answer \in {"accepted", "interrupted"}

\* What a run has read is shown, or on its way to the reader, or nobody will see it.
ReadFits ==
    \A x \in rows : x.applied /\ x.id \notin dropped =>
        shown[x.id] = "applied" \/ Tells(pipe[x.run], x.id)

\* The messages that have been sent.
LetterOf(x) == [run |-> x.run, id |-> x.id, text |-> x.text]
Letters == steering.late \cup ({steering.pending} \ {NoInput}) \cup {LetterOf(x) : x \in rows}

\* They are told apart by their ids, and by their runs and texts too, but for the
\* runs the chat has forgotten.
LettersFit ==
    /\ \A a \in Letters : a.id <= steering.ids /\ a.text <= steering.text
    /\ \A a, b \in Letters : a.id = b.id \/ (a.run = b.run /\ a.text = b.text /\ a.run \notin steering.lost) => a = b
    /\ \A a \in Letters : a.text = steering.text => a.run \in steering.lost \cup {steering.pending.run}
    /\ \A x, y \in rows : x.id = y.id => x = y

SteeringFits ==
    /\ steering.now = steering.pending /\ (steering.at # "idle" => steering.pending # NoInput)
    /\ steering.pending # NoInput => steering.pending.text = steering.text

ChatInv ==
    /\ ServerTyped /\ EntryTyped /\ ControlFits /\ ReadersFit /\ PipeFits /\ AwaitFits /\ StopIsTrue
    /\ AnswersFit /\ ReadFits /\ LettersFit /\ SteeringFits

USE BackgroundAssumption

(***************************************************************************)
(* Streams of events, and the operators of the model                       *)
(***************************************************************************)

LEMMA NothingSent ==
  /\ <<>> \in Seq(Events) /\ NoNews(<<>>)
  /\ \A g : Fits(<<>>, g)
  /\ ~StreamOver(<<>>)
  /\ \A id : ~Tells(<<>>, id)
<1>1. <<>> \in Seq(Events) /\ Len(<<>>) = 0
  BY EmptySeq
<1>2. DOMAIN <<>> = 1..0
  BY <1>1, LenProperties
<1>3. \A i : i \notin 1..0
  OBVIOUS
<1>4. QED BY <1>1, <1>2, <1>3 DEF NoNews, Fits, Tells, StreamOver

\* An answer that is on its way is followed by its done.
LEMMA OpenStream ==
  ASSUME NEW p \in Seq(Events), NEW g, Fits(p, g), ~StreamOver(p)
  PROVE  \A i \in DOMAIN p : p[i].what \notin Overs /\ p[i].what # "final"
  BY DEF Fits, StreamOver, Overs

LEMMA FitsLater ==
  ASSUME NEW p, NEW g, NEW h, Fits(p, g), g = "done" => h = "done"
  PROVE  Fits(p, h)
  BY DEF Fits

LEMMA SentOne ==
  ASSUME NEW p \in Seq(Events), NEW g, Fits(p, g), ~StreamOver(p),
         NEW e \in Events, e.what # "final", e.what = "applied" => e.id \in Requests
  PROVE  /\ p \o <<e>> \in Seq(Events)
         /\ \A h : Fits(p \o <<e>>, h)
         /\ \A id : Tells(p, id) => Tells(p \o <<e>>, id)
         /\ e.what = "applied" => Tells(p \o <<e>>, e.id)
         /\ e.what # "applied" /\ NoNews(p) => NoNews(p \o <<e>>)
<1> DEFINE q == p \o <<e>>
<1>1. <<e>> \in Seq(Events) /\ Len(<<e>>) = 1 /\ <<e>>[1] = e
  OBVIOUS
<1>2. Len(p) \in Nat /\ DOMAIN p = 1..Len(p)
  BY LenProperties
<1>3. /\ q \in Seq(Events) /\ Len(q) = Len(p) + 1
      /\ \A i \in 1..(Len(p) + 1) : q[i] = IF i <= Len(p) THEN p[i] ELSE <<e>>[i - Len(p)]
  BY <1>1, ConcatProperties
<1> HIDE DEF q
<1>4. DOMAIN q = 1..(Len(p) + 1)
  BY <1>3, LenProperties
<1>5. /\ \A i \in DOMAIN p : i \in DOMAIN q /\ q[i] = p[i] /\ i < Len(p) + 1
      /\ Len(p) + 1 \in DOMAIN q /\ q[Len(p) + 1] = e
      /\ \A i \in DOMAIN q : i \in DOMAIN p \/ i = Len(p) + 1
  BY <1>1, <1>2, <1>3, <1>4
<1>6. \A i \in DOMAIN p : p[i].what \notin Overs /\ p[i].what # "final"
  BY OpenStream
<1>7. \A i, j \in DOMAIN q : i < j => i \in DOMAIN p
  BY <1>2, <1>4
<1>8. \A h : Fits(q, h)
  <2>1. \A i \in DOMAIN q : q[i].what # "final" /\ (q[i].what = "applied" => q[i].id \in Requests)
    BY <1>5, <1>6 DEF Fits
  <2>2. QED BY <1>5, <1>6, <1>7, <2>1 DEF Fits
<1>9. QED BY <1>3, <1>5, <1>8 DEF Tells, NoNews, q

LEMMA SentTwo ==
  ASSUME NEW p \in Seq(Events), NEW g, Fits(p, g), ~StreamOver(p), NEW h,
         NEW e \in Events, e.what \in {"headers", "final"}, NEW d \in Events, d.what \in Overs,
         e.what = "final" => d.what = "done" /\ h = "done"
  PROVE  /\ p \o <<e, d>> \in Seq(Events)
         /\ Fits(p \o <<e, d>>, h)
         /\ \A id : Tells(p, id) => Tells(p \o <<e, d>>, id)
         /\ NoNews(p) => NoNews(p \o <<e, d>>)
<1> DEFINE q == p \o <<e, d>>
<1>1. <<e, d>> \in Seq(Events) /\ Len(<<e, d>>) = 2 /\ <<e, d>>[1] = e /\ <<e, d>>[2] = d
  OBVIOUS
<1>2. Len(p) \in Nat /\ DOMAIN p = 1..Len(p)
  BY LenProperties
<1>3. /\ q \in Seq(Events) /\ Len(q) = Len(p) + 2
      /\ \A i \in 1..(Len(p) + 2) : q[i] = IF i <= Len(p) THEN p[i] ELSE <<e, d>>[i - Len(p)]
  BY <1>1, ConcatProperties
<1> HIDE DEF q
<1>4. DOMAIN q = 1..(Len(p) + 2)
  BY <1>3, LenProperties
<1>5. /\ \A i \in DOMAIN p : i \in DOMAIN q /\ q[i] = p[i]
      /\ Len(p) + 1 \in DOMAIN q /\ Len(p) + 2 \in DOMAIN q
      /\ \A i \in DOMAIN q : i \in DOMAIN p \/ i = Len(p) + 1 \/ i = Len(p) + 2
  BY <1>1, <1>2, <1>3, <1>4
<1>a. q[Len(p) + 1] = e /\ q[Len(p) + 2] = d
  <2>1. Len(p) + 1 \in 1..(Len(p) + 2) /\ ~(Len(p) + 1 <= Len(p)) /\ (Len(p) + 1) - Len(p) = 1
    BY <1>2
  <2>2. Len(p) + 2 \in 1..(Len(p) + 2) /\ ~(Len(p) + 2 <= Len(p)) /\ (Len(p) + 2) - Len(p) = 2
    BY <1>2
  <2>3. QED BY <1>1, <1>3, <2>1, <2>2
<1>6. \A i \in DOMAIN p : p[i].what \notin Overs /\ p[i].what # "final"
  BY OpenStream
<1>7. \A i, j \in DOMAIN q : i < j => i \in DOMAIN p \/ (i = Len(p) + 1 /\ j = Len(p) + 2)
  BY <1>2, <1>4
<1>8. Fits(q, h)
  <2>1. \A i \in DOMAIN q : /\ q[i].what = "applied" => q[i].id \in Requests
                            /\ q[i].what = "final" => h = "done" /\ i = Len(p) + 1
    BY <1>5, <1>a, <1>6 DEF Fits, Overs
  <2>2. \A i \in DOMAIN q : q[i].what = "final" => i + 1 \in DOMAIN q
    BY <1>2, <1>5, <2>1
  <2>3. ASSUME NEW i \in DOMAIN q, NEW j \in DOMAIN q, i < j
        PROVE  q[i].what \notin Overs /\ (q[i].what = "final" => q[j].what = "done")
    <3>1. CASE i \in DOMAIN p
      BY <1>5, <1>6, <3>1
    <3>2. CASE i = Len(p) + 1 /\ j = Len(p) + 2
      BY <1>a, <3>2 DEF Overs
    <3>3. QED BY <1>7, <2>3, <3>1, <3>2
  <2>4. QED BY <2>1, <2>2, <2>3 DEF Fits
<1>9. NoNews(p) => NoNews(q)
  BY <1>5, <1>a DEF NoNews, Overs
<1>10. QED BY <1>3, <1>5, <1>8, <1>9 DEF Tells, q

LEMMA SeenOne ==
  ASSUME NEW p \in Seq(Events), p # <<>>, NEW g, Fits(p, g)
  PROVE  /\ Head(p) \in Events /\ Tail(p) \in Seq(Events) /\ Fits(Tail(p), g)
         /\ Head(p).what \in Overs => Tail(p) = <<>>
         /\ Head(p).what = "final" => g = "done" /\ NoNews(Tail(p))
         /\ Head(p).what = "applied" => Head(p).id \in Requests /\ ~NoNews(p)
         /\ NoNews(p) => NoNews(Tail(p))
         /\ \A id : Tells(p, id) => Tells(Tail(p), id) \/ (Head(p).what = "applied" /\ Head(p).id = id)
<1> DEFINE q == Tail(p)
<1>1. /\ Head(p) = p[1] /\ Head(p) \in Events /\ q \in Seq(Events) /\ Len(q) = Len(p) - 1
      /\ \A i \in 1..Len(q) : q[i] = p[i + 1]
  BY HeadTailProperties
<1>2. Len(p) \in Nat /\ DOMAIN p = 1..Len(p) /\ Len(q) \in Nat
  BY <1>1, LenProperties
<1>3. DOMAIN q = 1..Len(q)
  BY <1>1, LenProperties
<1>4. Len(q) = 0 => q = <<>>
  BY <1>1, EmptySeq
<1> HIDE DEF q
<1>5. /\ 1 \in DOMAIN p
      /\ \A i \in DOMAIN q : i + 1 \in DOMAIN p /\ q[i] = p[i + 1] /\ 1 < i + 1
      /\ \A i \in DOMAIN p : i = 1 \/ (i - 1 \in DOMAIN q /\ q[i - 1] = p[i])
  <2>1. 1 \in DOMAIN p /\ \A i \in DOMAIN q : i + 1 \in DOMAIN p /\ q[i] = p[i + 1] /\ 1 < i + 1
    BY <1>1, <1>2, <1>3
  <2>2. ASSUME NEW i \in DOMAIN p, i # 1 PROVE i - 1 \in DOMAIN q /\ q[i - 1] = p[i]
    <3>1. i - 1 \in 1..Len(q) /\ (i - 1) + 1 = i
      BY <1>1, <1>2, <2>2
    <3>2. QED BY <1>1, <1>3, <3>1
  <2>3. QED BY <2>1, <2>2
<1>6. Head(p).what \in Overs => q = <<>>
  <2>1. Len(q) # 0 => 1 \in DOMAIN q
    BY <1>2, <1>3
  <2>2. QED BY <1>1, <1>4, <1>5, <2>1 DEF Fits
<1>7. Head(p).what = "final" => g = "done" /\ NoNews(q)
  BY <1>1, <1>5 DEF Fits, NoNews
<1>8. Fits(q, g)
  <2>1. \A i, j \in DOMAIN q : i < j => i + 1 < j + 1
    BY <1>3
  <2>2. \A i \in DOMAIN q : (i + 1) + 1 \in DOMAIN p => i + 1 \in DOMAIN q
    BY <1>1, <1>2, <1>3
  <2>3. QED BY <1>5, <2>1, <2>2 DEF Fits
<1>9. Head(p).what = "applied" => Head(p).id \in Requests /\ ~NoNews(p)
  BY <1>1, <1>5 DEF Fits, NoNews
<1>10. NoNews(p) => NoNews(q)
  BY <1>5 DEF NoNews
<1>11. \A id : Tells(p, id) => Tells(q, id) \/ (Head(p).what = "applied" /\ Head(p).id = id)
  BY <1>1, <1>5 DEF Tells
<1>12. QED BY <1>1, <1>6, <1>7, <1>8, <1>9, <1>10, <1>11 DEF q

LEMMA EventTyped == \A w \in {"headers", "final", "done", "cut", "refused", "failed"} :
    Event(w) \in Events /\ Event(w).what = w
  BY DEF Event, Events, Overs

\* What a live run sends reaches only the reader of its stream.
LEMMA EmitsOne ==
  ASSUME ServerTyped, ReadersFit, PipeFits, NEW r \in ChatRuns, NEW e \in Events, e.what # "final",
         e.what = "applied" => e.id \in Requests, Emit(r, <<e>>),
         \A q \in ChatRuns : gen[q] = "done" => gen'[q] = "done"
  PROVE  /\ pipe' \in [ChatRuns -> Seq(Events)]
         /\ \A q \in ChatRuns : /\ Fits(pipe'[q], gen'[q])
                                /\ q \notin reading \/ awaited[q] # "no" => pipe'[q] = <<>>
                                /\ \A id : Tells(pipe[q], id) => Tells(pipe'[q], id)
                                /\ e.what # "applied" \/ q # r => (NoNews(pipe[q]) => NoNews(pipe'[q]))
         /\ Attended(r) /\ e.what = "applied" => Tells(pipe'[r], e.id)
<1>1. pipe \in [ChatRuns -> Seq(Events)] /\ \A q \in ChatRuns : Fits(pipe[q], gen[q])
  BY DEF ServerTyped, PipeFits
<1>2. CASE Attended(r)
  <2>1. pipe' = [pipe EXCEPT ![r] = pipe[r] \o <<e>>]
    BY <1>2 DEF Emit
  <2>2. ~StreamOver(pipe[r]) /\ r \in reading /\ awaited[r] = "no"
    BY <1>2 DEF Attended, StreamEnded, StreamOver, Overs
  <2>3. /\ pipe[r] \o <<e>> \in Seq(Events) /\ Fits(pipe[r] \o <<e>>, gen'[r])
        /\ \A id : Tells(pipe[r], id) => Tells(pipe[r] \o <<e>>, id)
        /\ e.what = "applied" => Tells(pipe[r] \o <<e>>, e.id)
        /\ e.what # "applied" /\ NoNews(pipe[r]) => NoNews(pipe[r] \o <<e>>)
    BY <1>1, <2>2, SentOne
  <2> DEFINE p == pipe[r] \o <<e>>
  <2>4. pipe' \in [ChatRuns -> Seq(Events)] /\ pipe'[r] = p /\ \A q \in ChatRuns : q # r => pipe'[q] = pipe[q]
    BY <1>1, <2>1, <2>3
  <2> HIDE DEF p
  <2>5. QED BY <1>1, <2>2, <2>3, <2>4, FitsLater DEF ReadersFit, p
<1>3. CASE ~Attended(r)
  <2>1. pipe' = pipe
    BY <1>1, <1>3 DEF Emit
  <2>2. QED BY <1>1, <1>3, <2>1, FitsLater DEF ReadersFit
<1>4. QED BY <1>2, <1>3

LEMMA EmitsAnswer ==
  ASSUME ServerTyped, ReadersFit, PipeFits, NEW r \in ChatRuns, Emit(r, <<Event("final"), Event("done")>>),
         \A q \in ChatRuns : gen[q] = "done" => gen'[q] = "done", gen'[r] = "done"
  PROVE  /\ pipe' \in [ChatRuns -> Seq(Events)]
         /\ \A q \in ChatRuns : /\ Fits(pipe'[q], gen'[q])
                                /\ q \notin reading \/ awaited[q] # "no" => pipe'[q] = <<>>
                                /\ \A id : Tells(pipe[q], id) => Tells(pipe'[q], id)
                                /\ NoNews(pipe[q]) => NoNews(pipe'[q])
<1> DEFINE e == Event("final")
           d == Event("done")
<1>1. pipe \in [ChatRuns -> Seq(Events)] /\ \A q \in ChatRuns : Fits(pipe[q], gen[q])
  BY DEF ServerTyped, PipeFits
<1>2. e \in Events /\ e.what = "final" /\ d \in Events /\ d.what = "done"
  BY EventTyped
<1>3. CASE Attended(r)
  <2>1. pipe' = [pipe EXCEPT ![r] = pipe[r] \o <<e, d>>]
    BY <1>3 DEF Emit
  <2>2. ~StreamOver(pipe[r]) /\ r \in reading /\ awaited[r] = "no"
    BY <1>3 DEF Attended, StreamEnded, StreamOver, Overs
  <2> HIDE DEF e, d
  <2>3. /\ pipe[r] \o <<e, d>> \in Seq(Events) /\ Fits(pipe[r] \o <<e, d>>, gen'[r])
        /\ \A id : Tells(pipe[r], id) => Tells(pipe[r] \o <<e, d>>, id)
        /\ NoNews(pipe[r]) => NoNews(pipe[r] \o <<e, d>>)
    <3>1. d.what \in Overs /\ e.what \in {"headers", "final"}
      BY <1>2 DEF Overs
    <3>2. QED BY <1>1, <1>2, <2>2, <3>1, SentTwo
  <2> DEFINE p == pipe[r] \o <<e, d>>
  <2>4. pipe' \in [ChatRuns -> Seq(Events)] /\ pipe'[r] = p /\ \A q \in ChatRuns : q # r => pipe'[q] = pipe[q]
    BY <1>1, <2>1, <2>3
  <2> HIDE DEF p
  <2>5. QED BY <1>1, <2>2, <2>3, <2>4, FitsLater DEF ReadersFit, p
<1>4. CASE ~Attended(r)
  <2>1. pipe' = pipe
    BY <1>1, <1>4 DEF Emit
  <2>2. QED BY <1>1, <2>1, FitsLater DEF ReadersFit
<1>5. QED BY <1>3, <1>4

\* The answer to a request begins a stream.
LEMMA Responds ==
  ASSUME ServerTyped, ReadersFit, PipeFits, NEW r \in ChatRuns, awaited[r] # "no", NEW s,
         Respond(r, s), <<>> \o s \in Seq(Events), Fits(<<>> \o s, gen'[r]), NoNews(<<>> \o s),
         \A q \in ChatRuns : (gen[q] = "done" => gen'[q] = "done") /\ (q # r => awaited'[q] = awaited[q]),
         awaited'[r] = "no"
  PROVE  /\ pipe' \in [ChatRuns -> Seq(Events)]
         /\ \A q \in ChatRuns : /\ Fits(pipe'[q], gen'[q])
                                /\ q \notin reading \/ awaited'[q] # "no" => pipe'[q] = <<>>
                                /\ \A id : Tells(pipe[q], id) => Tells(pipe'[q], id)
                                /\ NoNews(pipe[q]) => NoNews(pipe'[q])
<1>1. /\ pipe \in [ChatRuns -> Seq(Events)] /\ pipe[r] = <<>>
      /\ \A q \in ChatRuns : Fits(pipe[q], gen[q]) /\ (q \notin reading \/ awaited[q] # "no" => pipe[q] = <<>>)
  BY DEF ServerTyped, PipeFits, ReadersFit
<1>2. \A id : ~Tells(<<>>, id)
  BY NothingSent
<1> DEFINE p == <<>> \o s
<1>3. CASE r \in reading
  <2>1. pipe' = [pipe EXCEPT ![r] = p]
    BY <1>1, <1>3 DEF Respond
  <2>2. p \in Seq(Events) /\ Fits(p, gen'[r]) /\ NoNews(p)
    OBVIOUS
  <2> HIDE DEF p
  <2>3. pipe' \in [ChatRuns -> Seq(Events)] /\ pipe'[r] = p /\ \A q \in ChatRuns : q # r => pipe'[q] = pipe[q]
    BY <1>1, <2>1, <2>2
  <2>4. \A q \in ChatRuns : q # r => Fits(pipe'[q], gen'[q])
    BY <1>1, <2>3, FitsLater
  <2>5. \A q \in ChatRuns : q \notin reading \/ awaited'[q] # "no" => pipe'[q] = <<>>
    BY <1>1, <1>3, <2>3
  <2>6. \A q \in ChatRuns : (\A id : Tells(pipe[q], id) => Tells(pipe'[q], id)) /\ (NoNews(pipe[q]) => NoNews(pipe'[q]))
    BY <1>1, <1>2, <2>2, <2>3
  <2>7. QED BY <2>2, <2>3, <2>4, <2>5, <2>6
<1>4. CASE r \notin reading
  <2>1. pipe' = pipe
    BY <1>1, <1>4 DEF Respond
  <2>2. QED BY <1>1, <1>4, <2>1, FitsLater
<1>5. QED BY <1>3, <1>4

LEMMA NothingElse ==
  ASSUME ServerTyped, ReadersFit, PipeFits, UNCHANGED <<pipe, reading>>,
         \A q \in ChatRuns : (gen[q] = "done" => gen'[q] = "done") /\ (awaited'[q] # "no" => awaited[q] # "no")
  PROVE  /\ pipe' \in [ChatRuns -> Seq(Events)]
         /\ \A q \in ChatRuns : /\ Fits(pipe'[q], gen'[q])
                                /\ q \notin reading' \/ awaited'[q] # "no" => pipe'[q] = <<>>
  BY FitsLater DEF ServerTyped, ReadersFit, PipeFits

(***************************************************************************)
(* The turns of the transcript and what is saved of them                   *)
(***************************************************************************)

LEMMA TurnBecomes ==
  ASSUME EntryTyped, NEW r \in ChatRuns, NEW w \in ChatTurns, turns' = [turns EXCEPT ![r] = w]
  PROVE  turns' \in Transcripts /\ turns'[r] = w /\ \A q \in ChatRuns : q # r => turns'[q] = turns[q]
  BY DEF EntryTyped, Transcripts

LEMMA TurnTyped == EntryTyped => \A r \in ChatRuns : turns[r] \in ChatTurns
  BY DEF EntryTyped, Transcripts

LEMMA TurnEnds ==
  ASSUME EntryTyped, NEW r \in ChatRuns, NEW b \in BOOLEAN, EndTurn(r, b)
  PROVE  /\ turns' \in Transcripts /\ (\A q \in ChatRuns : q # r => turns'[q] = turns[q])
         /\ turns'[r].control = turns[r].control
         /\ turns'[r].answer = (IF turns[r].answer = "accepted" THEN "accepted" ELSE "interrupted")
<1> DEFINE a == IF turns[r].answer = "accepted" THEN turns[r].answer ELSE "interrupted"
           w == [turns[r] EXCEPT !.running = FALSE, !.answer = a, !.resumable = b]
<1>1. a \in {"accepted", "interrupted"} /\ turns[r] \in ChatTurns
  BY TurnTyped
<1>2. turns' = [turns EXCEPT ![r] = w]
  BY DEF EndTurn
<1>3. a = IF turns[r].answer = "accepted" THEN "accepted" ELSE "interrupted"
  OBVIOUS
<1> HIDE DEF a
<1>4. w \in ChatTurns /\ w.answer = a /\ w.control = turns[r].control
  BY <1>1 DEF ChatTurns
<1> HIDE DEF w
<1>5. QED BY <1>2, <1>3, <1>4, TurnBecomes

LEMMA Saved ==
  ASSUME persisted \in Saves, turns' \in Transcripts, shown' \in ShownStates, Persist
  PROVE  /\ persisted' \in Saves
         /\ \A q \in ChatRuns : persisted'.turns[q].answer \in {turns'[q].answer, persisted.turns[q].answer}
<1> DEFINE ts == [r \in ChatRuns |-> [turns'[r] EXCEPT !.running = FALSE]]
           s == [turns |-> ts, shown |-> shown']
<1>1. \A q \in ChatRuns : turns'[q] \in ChatTurns
  BY DEF Transcripts
<1>2. \A q \in ChatRuns : [turns'[q] EXCEPT !.running = FALSE] \in ChatTurns /\ [turns'[q] EXCEPT !.running = FALSE].answer = turns'[q].answer
  BY <1>1 DEF ChatTurns
<1>3. ts \in Transcripts /\ \A q \in ChatRuns : ts[q].answer = turns'[q].answer
  BY <1>2 DEF Transcripts
<1>4. persisted' \in {persisted, s}
  BY DEF Persist
<1> HIDE DEF ts
<1>5. s \in Saves /\ s.turns = ts
  BY <1>3 DEF Saves
<1> HIDE DEF s
<1>6. QED BY <1>3, <1>4, <1>5

LEMMA TurnUnconfirmed ==
  ASSUME EntryTyped, runId \in ChatRuns, NEW how \in {"stopping", "cancel_failed"}, Unconfirmed(how)
  PROVE  /\ control' = how /\ turns' \in Transcripts /\ (\A q \in ChatRuns : q # runId => turns'[q] = turns[q])
         /\ turns'[runId].control = how
         /\ turns'[runId].answer = (IF turns[runId].answer = "accepted" THEN "accepted" ELSE "interrupted")
         /\ shown' = shown /\ persisted' \in Saves
         /\ \A q \in ChatRuns : persisted'.turns[q].answer \in {turns'[q].answer, persisted.turns[q].answer}
<1> DEFINE a == IF turns[runId].answer = "accepted" THEN turns[runId].answer ELSE "interrupted"
           w == [turns[runId] EXCEPT !.running = FALSE, !.control = how, !.resumable = FALSE, !.answer = a]
<1>1. a \in {"accepted", "interrupted"} /\ turns[runId] \in ChatTurns
  BY TurnTyped
<1>2. turns' = [turns EXCEPT ![runId] = w]
  BY DEF Unconfirmed
<1>3. a = IF turns[runId].answer = "accepted" THEN "accepted" ELSE "interrupted"
  OBVIOUS
<1> HIDE DEF a
<1>4. w \in ChatTurns /\ w.answer = a /\ w.control = how
  BY <1>1 DEF ChatTurns, ControlStates
<1> HIDE DEF w
<1>5. /\ turns' \in Transcripts /\ (\A q \in ChatRuns : q # runId => turns'[q] = turns[q])
      /\ turns'[runId].control = how /\ turns'[runId].answer = a
  BY <1>2, <1>4, TurnBecomes
<1>6. control' = how /\ shown' = shown /\ Persist
  BY DEF Unconfirmed
<1>7. persisted \in Saves /\ shown' \in ShownStates
  BY <1>6 DEF EntryTyped
<1>8. QED BY <1>3, <1>5, <1>6, <1>7, Saved

\* What an applied message does to the transcript.
LEMMA Recorded ==
  ASSUME shown \in ShownStates, NEW id \in Requests, NEW s \in {"accepted", "applied"}, Record(id, s)
  PROVE  /\ shown' \in ShownStates /\ (\A n \in Requests : shown[n] = "applied" => shown'[n] = "applied")
         /\ s = "applied" => shown'[id] = "applied"
  BY DEF Record, ShownStates

(***************************************************************************)
(* The messages                                                            *)
(***************************************************************************)

LEMMA MailRests ==
  ASSUME UNCHANGED <<rows, steering>>
  PROVE  (LettersFit <=> LettersFit') /\ (SteeringFits <=> SteeringFits')
  BY DEF LettersFit, SteeringFits, Letters

LEMMA LettersTyped ==
  ASSUME ServerTyped, EntryTyped
  PROVE  /\ Letters \subseteq Inputs
         /\ steering.text \in Nat /\ steering.ids \in 0..MaxRequests /\ steering.lost \subseteq ChatRuns
         /\ steering.now \in Inputs \cup {NoInput} /\ steering.pending \in Inputs \cup {NoInput} /\ steering.late \subseteq Inputs
<1>1. steering \in Steerings /\ rows \subseteq Rows
  BY DEF ServerTyped, EntryTyped
<1>2. \A x \in Rows : LetterOf(x) \in Inputs
  BY DEF Rows, LetterOf, Inputs
<1>3. QED BY <1>1, <1>2 DEF Steerings, Letters

LEMMA LettersMove ==
  ASSUME ServerTyped, EntryTyped, LettersFit, Letters' \subseteq Letters,
         steering'.ids = steering.ids, steering'.lost = steering.lost,
         \/ steering'.text = steering.text /\ steering'.pending = steering.pending
         \/ steering'.text = steering.text + 1,
         \A x, y \in rows' : x.id = y.id => x = y
  PROVE  LettersFit'
<1>1. Letters \subseteq Inputs /\ steering.text \in Nat
  BY LettersTyped
<1>2. \A a \in Letters : a.text \in Nat /\ a.text <= steering.text
  BY <1>1 DEF LettersFit, Inputs
<1>3. steering'.text = steering.text + 1 => \A a \in Letters : a.text <= steering'.text /\ a.text # steering'.text
  BY <1>1, <1>2
<1>4. \A a \in Letters' : a.id <= steering'.ids /\ a.text <= steering'.text
  BY <1>2, <1>3 DEF LettersFit
<1>5. \A a \in Letters' : a.text = steering'.text => a.run \in steering'.lost \cup {steering'.pending.run}
  BY <1>3 DEF LettersFit
<1>6. \A a, b \in Letters' : a.id = b.id \/ (a.run = b.run /\ a.text = b.text /\ a.run \notin steering'.lost) => a = b
  BY DEF LettersFit
<1>7. QED BY <1>4, <1>5, <1>6 DEF LettersFit

LEMMA LettersAre ==
  /\ \A x \in rows : LetterOf(x) \in Letters
  /\ \A a \in steering.late : a \in Letters
  /\ steering.pending # NoInput => steering.pending \in Letters
  /\ \A a \in Letters : a \in steering.late \/ (a = steering.pending /\ a # NoInput) \/ \E x \in rows : a = LetterOf(x)
  BY DEF Letters

\* What a /cancel does to a run.
LEMMA CancelsRun ==
  ASSUME ServerTyped, ReadersFit, PipeFits, NEW r \in ChatRuns, CancelRun(r), UNCHANGED <<awaited, reading>>
  PROVE  /\ pipe' \in [ChatRuns -> Seq(Events)] /\ gen' \in [ChatRuns -> {"none", "live", "cut", "done"}]
         /\ (\A q \in ChatRuns : /\ Fits(pipe'[q], gen'[q]) /\ (gen[q] = "done" => gen'[q] = "done")
                                /\ (q \notin reading' \/ awaited'[q] # "no" => pipe'[q] = <<>>)
                                 /\ (NoNews(pipe[q]) => NoNews(pipe'[q]))
                                 /\ (\A id : Tells(pipe[q], id) => Tells(pipe'[q], id)))
         /\ (\A q \in ChatRuns : gen'[q] = gen[q] \/ (gen[q] = "live" /\ gen'[q] = "cut"))
         /\ stopAsked' \in [ChatRuns -> BOOLEAN] /\ (\A q \in ChatRuns : stopAsked[q] => stopAsked'[q])
<1>0. gen \in [ChatRuns -> {"none", "live", "cut", "done"}] /\ stopAsked \in [ChatRuns -> BOOLEAN]
  BY DEF ServerTyped
<1>1. stopAsked' \in [ChatRuns -> BOOLEAN] /\ (\A q \in ChatRuns : stopAsked[q] => stopAsked'[q])
  <2> DEFINE b == stopAsked[r] \/ gen[r] = "none"
  <2>1. b \in BOOLEAN /\ stopAsked' = [stopAsked EXCEPT ![r] = b] /\ (stopAsked[r] => b)
    BY DEF CancelRun
  <2> HIDE DEF b
  <2>2. stopAsked' \in [ChatRuns -> BOOLEAN] /\ stopAsked'[r] = b /\ (\A q \in ChatRuns : q # r => stopAsked'[q] = stopAsked[q])
    BY <1>0, <2>1
  <2>3. stopAsked[r] => stopAsked'[r]
    BY <2>1, <2>2, Zenon
  <2>4. QED BY <2>2, <2>3
<1>2. CASE gen[r] = "live"
  <2>1. gen' = [gen EXCEPT ![r] = "cut"] /\ Emit(r, <<Event("cut")>>)
    BY <1>2 DEF CancelRun
  <2>2. /\ gen' \in [ChatRuns -> {"none", "live", "cut", "done"}]
        /\ (\A q \in ChatRuns : gen'[q] = gen[q] \/ (gen[q] = "live" /\ gen'[q] = "cut"))
    BY <1>0, <1>2, <2>1
  <2>3. \A q \in ChatRuns : gen[q] = "done" => gen'[q] = "done"
    BY <2>2
  <2>4. Event("cut") \in Events /\ Event("cut").what = "cut"
    BY EventTyped
  <2>5. QED BY <1>1, <2>1, <2>2, <2>3, <2>4, EmitsOne
<1>3. CASE gen[r] # "live"
  <2>1. gen' = gen /\ pipe' = pipe
    BY <1>3 DEF CancelRun
  <2>2. QED BY <1>0, <1>1, <2>1, NothingElse
<1>4. QED BY <1>2, <1>3

\* What a run has read stays shown, on its way, or out of sight.
LEMMA ReadKept ==
  ASSUME ServerTyped, ReadFits, UNCHANGED rows, dropped \subseteq dropped',
         \A id \in Requests : shown[id] = "applied" => shown'[id] = "applied",
         \A q \in ChatRuns : \A id : Tells(pipe[q], id) => Tells(pipe'[q], id) \/ shown'[id] = "applied" \/ id \in dropped'
  PROVE  ReadFits'
  BY DEF ReadFits, ServerTyped, Rows

LEMMA UnseenAre ==
  ASSUME NEW r \in ChatRuns, pipe[r] \in Seq(Events)
  PROVE  \A id : Tells(pipe[r], id) => id \in Unseen(r)
<1>1. DOMAIN pipe[r] = 1..Len(pipe[r])
  BY LenProperties
<1>2. QED BY <1>1 DEF Tells, Unseen

\* The reader of a stream with events is that of the chat's run.
LEMMA OneStream ==
  ASSUME ServerTyped, ControlFits, ReadersFit, AwaitFits, NEW r \in reading
  PROVE  /\ r \in ChatRuns /\ runId = r /\ control \notin {"idle", "stopped"}
         /\ \A q \in ChatRuns : q # r => q \notin reading /\ pipe[q] = <<>> /\ (awaited[q] = "resume" => q \in crossed)
         /\ pipe[r] # <<>> => awaited[r] = "no"
  BY DEF ServerTyped, ControlFits, ReadersFit, AwaitFits

LEMMA PipeCleared ==
  ASSUME ServerTyped, PipeFits, NEW r \in ChatRuns, pipe' = [pipe EXCEPT ![r] = <<>>]
  PROVE  /\ pipe' \in [ChatRuns -> Seq(Events)] /\ pipe'[r] = <<>> /\ (\A q \in ChatRuns : q # r => pipe'[q] = pipe[q])
         /\ \A q \in ChatRuns : Fits(pipe'[q], gen[q]) /\ (NoNews(pipe[q]) => NoNews(pipe'[q]))
<1>1. pipe \in [ChatRuns -> Seq(Events)] /\ (\A q \in ChatRuns : Fits(pipe[q], gen[q]))
  BY DEF ServerTyped, PipeFits
<1>2. <<>> \in Seq(Events) /\ NoNews(<<>>) /\ \A g : Fits(<<>>, g)
  BY NothingSent
<1>3. pipe' \in [ChatRuns -> Seq(Events)] /\ pipe'[r] = <<>> /\ (\A q \in ChatRuns : q # r => pipe'[q] = pipe[q])
  BY <1>1, <1>2
<1>4. QED BY <1>1, <1>2, <1>3

\* An error of the reader.
LEMMA FailsAre ==
  ASSUME EntryTyped, NEW r \in ChatRuns, ReaderFails(r), shown' = shown
  PROVE  /\ turns' \in Transcripts /\ persisted' \in Saves
         /\ \A q \in ChatRuns : /\ turns'[q].control = turns[q].control /\ (turns'[q].answer = "accepted" <=> turns[q].answer = "accepted")
                                /\ persisted'.turns[q].answer \in {turns'[q].answer, persisted.turns[q].answer}
         /\ \/ StopUnconfirmed /\ control' = control /\ runId' = runId
            \/ ~StopUnconfirmed /\ control' = "idle" /\ runId' = NoRun
<1>1. turns \in Transcripts /\ persisted \in Saves /\ shown \in ShownStates
  BY DEF EntryTyped
<1>2. CASE StopUnconfirmed
  <2>1. UNCHANGED <<control, runId, turns, persisted>>
    BY <1>2 DEF ReaderFails
  <2>2. QED BY <1>1, <1>2, <2>1
<1>3. CASE ~StopUnconfirmed
  <2> DEFINE b == turns[r].answer # "accepted"
  <2>1. control' = "idle" /\ runId' = NoRun /\ EndTurn(r, b) /\ Persist
    BY <1>3 DEF ReaderFails, Idle
  <2>2. b \in BOOLEAN
    OBVIOUS
  <2> HIDE DEF b
  <2>3. /\ turns' \in Transcripts /\ (\A q \in ChatRuns : q # r => turns'[q] = turns[q])
        /\ turns'[r].control = turns[r].control
        /\ turns'[r].answer = (IF turns[r].answer = "accepted" THEN "accepted" ELSE "interrupted")
    BY <2>1, <2>2, TurnEnds
  <2>4. persisted' \in Saves /\ \A q \in ChatRuns : persisted'.turns[q].answer \in {turns'[q].answer, persisted.turns[q].answer}
    BY <1>1, <2>1, <2>3, Saved
  <2>5. QED BY <1>3, <2>1, <2>3, <2>4
<1>4. QED BY <1>2, <1>3

\* A Stop that is not confirmed.
LEMMA StopsAre ==
  ASSUME EntryTyped, ReadersFit, runId \in ChatRuns, NEW how \in {"stopping", "cancel_failed"}, Unconfirmed(how)
  PROVE  /\ control' = how /\ turns' \in Transcripts /\ persisted' \in Saves /\ shown' = shown
         /\ \A q \in ChatRuns : /\ turns'[q].control = "stopped" => turns[q].control = "stopped"
                                /\ turns'[q].answer = "accepted" <=> turns[q].answer = "accepted"
                                /\ q \in reading => turns'[q].answer \in {"accepted", "interrupted"}
                                /\ persisted'.turns[q].answer \in {turns'[q].answer, persisted.turns[q].answer}
<1>1. /\ control' = how /\ turns' \in Transcripts /\ (\A q \in ChatRuns : q # runId => turns'[q] = turns[q])
      /\ turns'[runId].control = how
      /\ turns'[runId].answer = (IF turns[runId].answer = "accepted" THEN "accepted" ELSE "interrupted")
      /\ shown' = shown /\ persisted' \in Saves
      /\ \A q \in ChatRuns : persisted'.turns[q].answer \in {turns'[q].answer, persisted.turns[q].answer}
  BY TurnUnconfirmed
<1>2. \A q \in ChatRuns : q \in reading => q = runId
  BY DEF ReadersFit
<1>3. QED BY <1>1, <1>2

\* A message that reaches the run.
LEMMA Takes ==
  ASSUME ServerTyped, EntryTyped, LettersFit, NEW input \in Letters, TakeInput(input)
  PROVE  /\ rows' \subseteq Rows /\ (\A x \in rows' : x \in rows \/ ~x.applied)
         /\ (\A x, y \in rows' : x.id = y.id => x = y)
         /\ (\A x \in rows' : LetterOf(x) \in Letters)
<1> DEFINE n == [id |-> input.id, run |-> input.run, text |-> input.text, applied |-> FALSE]
<1>1. input \in Inputs /\ rows \subseteq Rows
  BY LettersTyped DEF ServerTyped
<1>2. n \in Rows /\ ~n.applied /\ n.id = input.id /\ LetterOf(n) = input
  BY <1>1 DEF Rows, Inputs, LetterOf
<1>3. \A x, y \in rows : x.id = y.id => x = y
  BY DEF LettersFit
<1>4. rows' = rows \/ (rows' = rows \cup {n} /\ \A x \in rows : x.id # input.id)
  BY DEF TakeInput, RowOf
<1> HIDE DEF n
<1>5. \A x \in rows : LetterOf(x) \in Letters
  BY DEF Letters
<1>6. QED BY <1>1, <1>2, <1>3, <1>4, <1>5

LEMMA ChatStep ==
  ASSUME ChatInv, BackgroundNext
  PROVE  ChatInv'
<1>0. ServerTyped /\ EntryTyped /\ ControlFits /\ ReadersFit /\ PipeFits /\ AwaitFits /\ StopIsTrue /\ AnswersFit /\ ReadFits /\ LettersFit /\ SteeringFits
  BY DEF ChatInv
<1>1. ASSUME NEW r \in ChatRuns, RunPrepared(r) PROVE ChatInv'
  <2>0. /\ pipe' \in [ChatRuns -> Seq(Events)] /\ gen' \in [ChatRuns -> {"none", "live", "cut", "done"}]
        /\ (\A q \in ChatRuns : /\ Fits(pipe'[q], gen'[q]) /\ (gen[q] = "done" => gen'[q] = "done")
                               /\ (q \notin reading' \/ awaited'[q] # "no" => pipe'[q] = <<>>)
                                /\ (NoNews(pipe[q]) => NoNews(pipe'[q]))
                                /\ (\A id : Tells(pipe[q], id) => Tells(pipe'[q], id)))
        /\ (LettersFit <=> LettersFit') /\ (SteeringFits <=> SteeringFits')
        /\ awaited[r] # "no" /\ awaited' \in [ChatRuns -> {"no", "start", "resume"}] /\ awaited'[r] = "no"
        /\ (\A q \in ChatRuns : q # r => awaited'[q] = awaited[q] /\ gen'[q] = gen[q])
        /\ (gen'[r] = "live" => gen[r] = "live" \/ awaited[r] = "resume" \/ (awaited[r] = "start" /\ ~stopAsked[r]))
        /\ UNCHANGED <<stopAsked, rows, reading, control, runId, runReady, resuming, lastMode, cancellation, turns, shown, steering, persisted, answered, crossed, dropped>>
    <3>1. /\ awaited[r] # "no" /\ awaited' = [awaited EXCEPT ![r] = "no"]
          /\ UNCHANGED <<stopAsked, rows, reading, control, runId, runReady, resuming, lastMode, cancellation, turns, shown, steering, persisted, answered, crossed, dropped>>
      BY <1>1 DEF RunPrepared, entryVars
    <3>2. /\ awaited' \in [ChatRuns -> {"no", "start", "resume"}] /\ awaited'[r] = "no" /\ (\A q \in ChatRuns : q # r => awaited'[q] = awaited[q])
          /\ gen \in [ChatRuns -> {"none", "live", "cut", "done"}]
      BY <1>0, <3>1 DEF ServerTyped
    <3>3. awaited[r] = "start" => gen[r] = "none"
      BY <1>0 DEF AwaitFits
    <3>4. \A w \in {"headers", "cut", "refused", "failed"} : Event(w) \in Events /\ Event(w).what = w
      BY EventTyped
    <3>5. <<>> \in Seq(Events) /\ (\A g : Fits(<<>>, g)) /\ ~StreamOver(<<>>) /\ NoNews(<<>>)
      BY NothingSent
    <3>6. \A w \in {"headers", "failed"} : /\ <<>> \o <<Event(w)>> \in Seq(Events) /\ NoNews(<<>> \o <<Event(w)>>)
                                           /\ \A h : Fits(<<>> \o <<Event(w)>>, h)
      BY <3>4, <3>5, SentOne
    <3>7. \A w \in {"cut", "refused"} : /\ <<>> \o <<Event("headers"), Event(w)>> \in Seq(Events) /\ NoNews(<<>> \o <<Event("headers"), Event(w)>>)
                                        /\ \A h : Fits(<<>> \o <<Event("headers"), Event(w)>>, h)
      <4>1. SUFFICES ASSUME NEW w \in {"cut", "refused"}, NEW h
                     PROVE  /\ <<>> \o <<Event("headers"), Event(w)>> \in Seq(Events) /\ NoNews(<<>> \o <<Event("headers"), Event(w)>>)
                            /\ Fits(<<>> \o <<Event("headers"), Event(w)>>, h)
        OBVIOUS
      <4>2. Event("headers") \in Events /\ Event("headers").what = "headers" /\ Event(w) \in Events /\ Event(w).what \in Overs
        BY <3>4 DEF Overs
      <4>3. QED BY <3>5, <4>2, SentTwo
    <3>8. /\ gen' \in [ChatRuns -> {"none", "live", "cut", "done"}] /\ (\A q \in ChatRuns : q # r => gen'[q] = gen[q])
          /\ (gen[r] = "done" => gen'[r] = "done")
          /\ (gen'[r] = "live" => gen[r] = "live" \/ awaited[r] = "resume" \/ (awaited[r] = "start" /\ ~stopAsked[r]))
      BY <1>1, <3>2, <3>3 DEF RunPrepared
    <3>9. /\ pipe' \in [ChatRuns -> Seq(Events)]
          /\ \A q \in ChatRuns : /\ Fits(pipe'[q], gen'[q])
                                 /\ q \notin reading \/ awaited'[q] # "no" => pipe'[q] = <<>>
                                 /\ \A id : Tells(pipe[q], id) => Tells(pipe'[q], id)
                                 /\ NoNews(pipe[q]) => NoNews(pipe'[q])
      <4>0. \A q \in ChatRuns : (gen[q] = "done" => gen'[q] = "done") /\ (q # r => awaited'[q] = awaited[q])
        BY <3>2, <3>8
      <4>1. CASE Respond(r, <<Event("headers"), Event("cut")>>)
        BY <1>0, <3>1, <3>2, <3>7, <4>0, <4>1, Responds
      <4>2. CASE Respond(r, <<Event("headers")>>)
        BY <1>0, <3>1, <3>2, <3>6, <4>0, <4>2, Responds
      <4>3. CASE Respond(r, <<Event("failed")>>)
        BY <1>0, <3>1, <3>2, <3>6, <4>0, <4>3, Responds
      <4>4. CASE Respond(r, <<Event("headers"), Event("refused")>>)
        BY <1>0, <3>1, <3>2, <3>7, <4>0, <4>4, Responds
      <4>5. QED BY <1>1, <4>1, <4>2, <4>3, <4>4 DEF RunPrepared
    <3>10. QED BY <3>1, <3>2, <3>8, <3>9, MailRests
  <2>1. ServerTyped'
    BY <1>0, <2>0 DEF ServerTyped
  <2>2. EntryTyped'
    BY <1>0, <2>0 DEF EntryTyped, ControlStates
  <2>3. ControlFits'
    BY <1>0, <2>0 DEF ControlFits
  <2>4. ReadersFit'
    BY <1>0, <2>0 DEF ReadersFit
  <2>5. PipeFits'
    BY <1>0, <2>0 DEF PipeFits
  <2>6. AwaitFits'
    BY <1>0, <2>0 DEF AwaitFits
  <2>7. StopIsTrue'
    BY <1>0, <2>0 DEF StopIsTrue
  <2>8. AnswersFit'
    BY <1>0, <2>0 DEF AnswersFit, AnswerStays, StopUnconfirmed
  <2>9. ReadFits'
    BY <1>0, <2>0, ReadKept
  <2>10. LettersFit'
    BY <1>0, <2>0 DEF LettersFit
  <2>11. SteeringFits'
    BY <1>0, <2>0 DEF SteeringFits
  <2>12. QED BY <2>1, <2>2, <2>3, <2>4, <2>5, <2>6, <2>7, <2>8, <2>9, <2>10, <2>11 DEF ChatInv
<1>2. ASSUME NEW r \in ChatRuns, RunOver(r) PROVE ChatInv'
  <2>0. /\ pipe' \in [ChatRuns -> Seq(Events)] /\ gen' \in [ChatRuns -> {"none", "live", "cut", "done"}]
        /\ (\A q \in ChatRuns : /\ Fits(pipe'[q], gen'[q]) /\ (gen[q] = "done" => gen'[q] = "done")
                               /\ (q \notin reading' \/ awaited'[q] # "no" => pipe'[q] = <<>>)
                                /\ (NoNews(pipe[q]) => NoNews(pipe'[q]))
                                /\ (\A id : Tells(pipe[q], id) => Tells(pipe'[q], id)))
        /\ (LettersFit <=> LettersFit') /\ (SteeringFits <=> SteeringFits')
        /\ gen[r] = "live" /\ gen'[r] \in {"cut", "done"} /\ (\A q \in ChatRuns : q # r => gen'[q] = gen[q])
        /\ UNCHANGED <<awaited, stopAsked, rows, reading, control, runId, runReady, resuming, lastMode, cancellation, turns, shown, steering, persisted, answered, crossed, dropped>>
    <3>1. gen[r] = "live" /\ gen \in [ChatRuns -> {"none", "live", "cut", "done"}]
          /\ UNCHANGED <<awaited, stopAsked, rows, reading, control, runId, runReady, resuming, lastMode, cancellation, turns, shown, steering, persisted, answered, crossed, dropped>>
      BY <1>0, <1>2 DEF RunOver, entryVars, ServerTyped
    <3>2. /\ gen' \in [ChatRuns -> {"none", "live", "cut", "done"}] /\ gen'[r] \in {"cut", "done"} /\ (\A q \in ChatRuns : q # r => gen'[q] = gen[q])
          /\ (\A q \in ChatRuns : gen[q] = "done" => gen'[q] = "done")
      BY <1>2, <3>1 DEF RunOver
    <3>3. CASE gen' = [gen EXCEPT ![r] = "done"] /\ Emit(r, <<Event("final"), Event("done")>>)
      <4>1. gen'[r] = "done"
        BY <3>1, <3>3
      <4>2. QED BY <1>0, <3>1, <3>2, <3>3, <4>1, EmitsAnswer, MailRests
    <3>4. CASE Emit(r, <<Event("cut")>>)
      <4>1. Event("cut") \in Events /\ Event("cut").what = "cut"
        BY EventTyped
      <4>2. QED BY <1>0, <3>1, <3>2, <3>4, <4>1, EmitsOne, MailRests
    <3>5. QED BY <1>2, <3>3, <3>4 DEF RunOver
  <2>1. ServerTyped'
    BY <1>0, <2>0 DEF ServerTyped
  <2>2. EntryTyped'
    BY <1>0, <2>0 DEF EntryTyped, ControlStates
  <2>3. ControlFits'
    BY <1>0, <2>0 DEF ControlFits
  <2>4. ReadersFit'
    BY <1>0, <2>0 DEF ReadersFit
  <2>5. PipeFits'
    BY <1>0, <2>0 DEF PipeFits
  <2>6. AwaitFits'
    BY <1>0, <2>0 DEF AwaitFits
  <2>7. StopIsTrue'
    BY <1>0, <2>0 DEF StopIsTrue
  <2>8. AnswersFit'
    BY <1>0, <2>0 DEF AnswersFit, AnswerStays, StopUnconfirmed
  <2>9. ReadFits'
    BY <1>0, <2>0, ReadKept
  <2>10. LettersFit'
    BY <1>0, <2>0 DEF LettersFit
  <2>11. SteeringFits'
    BY <1>0, <2>0 DEF SteeringFits
  <2>12. QED BY <2>1, <2>2, <2>3, <2>4, <2>5, <2>6, <2>7, <2>8, <2>9, <2>10, <2>11 DEF ChatInv
<1>3. ASSUME NEW x \in rows, RunReads(x) PROVE ChatInv'
  <2>0. /\ pipe' \in [ChatRuns -> Seq(Events)] /\ gen' \in [ChatRuns -> {"none", "live", "cut", "done"}]
        /\ (\A q \in ChatRuns : /\ Fits(pipe'[q], gen'[q]) /\ (gen[q] = "done" => gen'[q] = "done")
                               /\ (q \notin reading' \/ awaited'[q] # "no" => pipe'[q] = <<>>)
                                /\ (\A id : Tells(pipe[q], id) => Tells(pipe'[q], id)))
        /\ (\A q \in ChatRuns : q # x.run => (NoNews(pipe[q]) => NoNews(pipe'[q])))
        /\ x \in Rows /\ x.run \in ChatRuns /\ gen[x.run] = "live" /\ rows' \subseteq Rows /\ dropped \subseteq dropped'
        /\ (\A y \in rows' : \/ y \in rows
                             \/ y.id = x.id /\ y.run = x.run /\ (x.id \in dropped' \/ Tells(pipe'[x.run], x.id)))
        /\ Letters' = Letters /\ (\A y, z \in rows' : y.id = z.id => y = z)
        /\ LettersFit' /\ (SteeringFits' <=> SteeringFits)
        /\ UNCHANGED <<gen, awaited, stopAsked, reading, control, runId, runReady, resuming, lastMode, cancellation, turns, shown, steering, persisted, answered, crossed>>
    <3> DEFINE e == [what |-> "applied", id |-> x.id]
               n == [x EXCEPT !.applied = TRUE]
    <3>1. /\ gen[x.run] = "live" /\ rows' = (rows \ {x}) \cup {n} /\ Emit(x.run, <<e>>)
          /\ dropped' = (IF Attended(x.run) THEN dropped ELSE dropped \cup {x.id})
          /\ UNCHANGED <<gen, awaited, stopAsked, reading, control, runId, runReady, resuming, lastMode, cancellation, turns, shown, steering, persisted, answered, crossed>>
      BY <1>3 DEF RunReads, entryVars
    <3>2. /\ x \in Rows /\ x.run \in ChatRuns /\ x.id \in Requests /\ n \in Rows /\ n.id = x.id /\ n.run = x.run /\ n.text = x.text
          /\ rows \subseteq Rows /\ gen \in [ChatRuns -> {"none", "live", "cut", "done"}]
      BY <1>0 DEF ServerTyped, Rows
    <3>3. e \in Events /\ e.what = "applied" /\ e.id = x.id
      BY <3>2 DEF Events
    <3> HIDE DEF e
    <3>4. /\ pipe' \in [ChatRuns -> Seq(Events)]
          /\ \A q \in ChatRuns : /\ Fits(pipe'[q], gen'[q])
                                 /\ q \notin reading \/ awaited[q] # "no" => pipe'[q] = <<>>
                                 /\ \A id : Tells(pipe[q], id) => Tells(pipe'[q], id)
                                 /\ q # x.run => (NoNews(pipe[q]) => NoNews(pipe'[q]))
          /\ Attended(x.run) => Tells(pipe'[x.run], x.id)
      BY <1>0, <3>1, <3>2, <3>3, EmitsOne
    <3>5. LetterOf(n) = LetterOf(x)
      BY <3>2 DEF LetterOf
    <3> HIDE DEF n
    <3>6. Letters' = Letters
      <4>1. {LetterOf(y) : y \in rows'} = {LetterOf(y) : y \in rows}
        BY <3>1, <3>5
      <4>2. QED BY <3>1, <4>1 DEF Letters
    <3>7. \A y, z \in rows' : y.id = z.id => y = z
      <4>1. \A y, z \in rows : y.id = z.id => y = z
        BY <1>0 DEF LettersFit
      <4>2. QED BY <3>1, <3>2, <4>1
    <3>8. LettersFit' /\ (SteeringFits' <=> SteeringFits)
      BY <1>0, <3>1, <3>6, <3>7, LettersMove DEF SteeringFits
    <3>9. /\ rows' \subseteq Rows /\ dropped \subseteq dropped'
          /\ \A y \in rows' : \/ y \in rows
                              \/ y.id = x.id /\ y.run = x.run /\ (x.id \in dropped' \/ Tells(pipe'[x.run], x.id))
      BY <3>1, <3>2, <3>4
    <3>10. /\ pipe' \in [ChatRuns -> Seq(Events)] /\ gen' \in [ChatRuns -> {"none", "live", "cut", "done"}]
           /\ (\A q \in ChatRuns : /\ Fits(pipe'[q], gen'[q]) /\ (gen[q] = "done" => gen'[q] = "done")
                                  /\ (q \notin reading' \/ awaited'[q] # "no" => pipe'[q] = <<>>)
                                   /\ (\A id : Tells(pipe[q], id) => Tells(pipe'[q], id)))
      BY <3>1, <3>2, <3>4
    <3>11. \A q \in ChatRuns : q # x.run => (NoNews(pipe[q]) => NoNews(pipe'[q]))
      BY <3>4
    <3>12. /\ x \in Rows /\ x.run \in ChatRuns /\ gen[x.run] = "live"
           /\ UNCHANGED <<gen, awaited, stopAsked, reading, control, runId, runReady, resuming, lastMode, cancellation, turns, shown, steering, persisted, answered, crossed>>
      BY <3>1, <3>2
    <3>13. QED BY <3>6, <3>7, <3>8, <3>9, <3>10, <3>11, <3>12
  <2>1. ServerTyped'
    BY <1>0, <2>0 DEF ServerTyped
  <2>2. EntryTyped'
    BY <1>0, <2>0 DEF EntryTyped, ControlStates
  <2>3. ControlFits'
    BY <1>0, <2>0 DEF ControlFits
  <2>4. ReadersFit'
    BY <1>0, <2>0 DEF ReadersFit
  <2>5. PipeFits'
    BY <1>0, <2>0 DEF PipeFits
  <2>6. AwaitFits'
    BY <1>0, <2>0 DEF AwaitFits
  <2>7. StopIsTrue'
    BY <1>0, <2>0 DEF StopIsTrue
  <2>8. AnswersFit'
    BY <1>0, <2>0 DEF AnswersFit, AnswerStays, StopUnconfirmed
  <2>9. ReadFits'
    <3>1. \A y \in rows : y.run \in ChatRuns
      BY <1>0 DEF ServerTyped, Rows
    <3>2. \A y \in rows : y.applied /\ y.id \notin dropped => shown[y.id] = "applied" \/ Tells(pipe[y.run], y.id)
      BY <1>0 DEF ReadFits
    <3>3. \A y \in rows' : y.applied /\ y.id \notin dropped' => shown'[y.id] = "applied" \/ Tells(pipe'[y.run], y.id)
      BY <2>0, <3>1, <3>2
    <3>4. QED BY <3>3 DEF ReadFits
  <2>10. LettersFit'
    BY <1>0, <2>0 DEF LettersFit
  <2>11. SteeringFits'
    BY <1>0, <2>0 DEF SteeringFits
  <2>12. QED BY <2>1, <2>2, <2>3, <2>4, <2>5, <2>6, <2>7, <2>8, <2>9, <2>10, <2>11 DEF ChatInv
<1>4. ASSUME NEW r \in ChatRuns, Disconnected(r) PROVE ChatInv'
  <2>0. /\ pipe' \in [ChatRuns -> Seq(Events)] /\ gen' \in [ChatRuns -> {"none", "live", "cut", "done"}]
        /\ (\A q \in ChatRuns : /\ Fits(pipe'[q], gen'[q]) /\ (gen[q] = "done" => gen'[q] = "done")
                               /\ (q \notin reading' \/ awaited'[q] # "no" => pipe'[q] = <<>>)
                                /\ (NoNews(pipe[q]) => NoNews(pipe'[q]))
                                /\ (\A id : Tells(pipe[q], id) => Tells(pipe'[q], id)))
        /\ (LettersFit <=> LettersFit') /\ (SteeringFits <=> SteeringFits')
        /\ gen[r] = "live" /\ gen'[r] = "cut" /\ (\A q \in ChatRuns : q # r => gen'[q] = gen[q])
        /\ UNCHANGED <<awaited, stopAsked, rows, pipe, reading, control, runId, runReady, resuming, lastMode, cancellation, turns, shown, steering, persisted, answered, crossed, dropped>>
    <3>1. gen[r] = "live" /\ gen' = [gen EXCEPT ![r] = "cut"] /\ gen \in [ChatRuns -> {"none", "live", "cut", "done"}]
          /\ UNCHANGED <<awaited, stopAsked, rows, pipe, reading, control, runId, runReady, resuming, lastMode, cancellation, turns, shown, steering, persisted, answered, crossed, dropped>>
      BY <1>0, <1>4 DEF Disconnected, entryVars, wireVars, ServerTyped
    <3>2. QED BY <1>0, <3>1, NothingElse, MailRests
  <2>1. ServerTyped'
    BY <1>0, <2>0 DEF ServerTyped
  <2>2. EntryTyped'
    BY <1>0, <2>0 DEF EntryTyped, ControlStates
  <2>3. ControlFits'
    BY <1>0, <2>0 DEF ControlFits
  <2>4. ReadersFit'
    BY <1>0, <2>0 DEF ReadersFit
  <2>5. PipeFits'
    BY <1>0, <2>0 DEF PipeFits
  <2>6. AwaitFits'
    BY <1>0, <2>0 DEF AwaitFits
  <2>7. StopIsTrue'
    BY <1>0, <2>0 DEF StopIsTrue
  <2>8. AnswersFit'
    BY <1>0, <2>0 DEF AnswersFit, AnswerStays, StopUnconfirmed
  <2>9. ReadFits'
    BY <1>0, <2>0, ReadKept
  <2>10. LettersFit'
    BY <1>0, <2>0 DEF LettersFit
  <2>11. SteeringFits'
    BY <1>0, <2>0 DEF SteeringFits
  <2>12. QED BY <2>1, <2>2, <2>3, <2>4, <2>5, <2>6, <2>7, <2>8, <2>9, <2>10, <2>11 DEF ChatInv
<1>5. ASSUME NEW r \in ChatRuns, LateCancel(r) PROVE ChatInv'
  <2>0. /\ pipe' \in [ChatRuns -> Seq(Events)] /\ gen' \in [ChatRuns -> {"none", "live", "cut", "done"}]
        /\ (\A q \in ChatRuns : /\ Fits(pipe'[q], gen'[q]) /\ (gen[q] = "done" => gen'[q] = "done")
                               /\ (q \notin reading' \/ awaited'[q] # "no" => pipe'[q] = <<>>)
                                /\ (NoNews(pipe[q]) => NoNews(pipe'[q]))
                                /\ (\A id : Tells(pipe[q], id) => Tells(pipe'[q], id)))
        /\ (LettersFit <=> LettersFit') /\ (SteeringFits <=> SteeringFits')
        /\ (\A q \in ChatRuns : gen'[q] = gen[q] \/ (gen[q] = "live" /\ gen'[q] = "cut"))
        /\ stopAsked' \in [ChatRuns -> BOOLEAN] /\ (\A q \in ChatRuns : stopAsked[q] => stopAsked'[q])
        /\ UNCHANGED <<awaited, rows, reading, control, runId, runReady, resuming, lastMode, cancellation, turns, shown, steering, persisted, answered, crossed, dropped>>
    <3>1. CancelRun(r)
          /\ UNCHANGED <<awaited, rows, reading, control, runId, runReady, resuming, lastMode, cancellation, turns, shown, steering, persisted, answered, crossed, dropped>>
      BY <1>5 DEF LateCancel, entryVars
    <3>2. QED BY <1>0, <3>1, CancelsRun, MailRests
  <2>1. ServerTyped'
    BY <1>0, <2>0 DEF ServerTyped
  <2>2. EntryTyped'
    BY <1>0, <2>0 DEF EntryTyped, ControlStates
  <2>3. ControlFits'
    BY <1>0, <2>0 DEF ControlFits
  <2>4. ReadersFit'
    BY <1>0, <2>0 DEF ReadersFit
  <2>5. PipeFits'
    BY <1>0, <2>0 DEF PipeFits
  <2>6. AwaitFits'
    BY <1>0, <2>0 DEF AwaitFits
  <2>7. StopIsTrue'
    BY <1>0, <2>0 DEF StopIsTrue
  <2>8. AnswersFit'
    BY <1>0, <2>0 DEF AnswersFit, AnswerStays, StopUnconfirmed
  <2>9. ReadFits'
    BY <1>0, <2>0, ReadKept
  <2>10. LettersFit'
    BY <1>0, <2>0 DEF LettersFit
  <2>11. SteeringFits'
    BY <1>0, <2>0 DEF SteeringFits
  <2>12. QED BY <2>1, <2>2, <2>3, <2>4, <2>5, <2>6, <2>7, <2>8, <2>9, <2>10, <2>11 DEF ChatInv
<1>6. ASSUME NEW r \in ChatRuns, SendMessage(r) PROVE ChatInv'
  <2>0. /\ pipe' \in [ChatRuns -> Seq(Events)] /\ gen' \in [ChatRuns -> {"none", "live", "cut", "done"}]
        /\ (\A q \in ChatRuns : /\ Fits(pipe'[q], gen'[q]) /\ (gen[q] = "done" => gen'[q] = "done")
                               /\ (q \notin reading' \/ awaited'[q] # "no" => pipe'[q] = <<>>)
                                /\ (NoNews(pipe[q]) => NoNews(pipe'[q]))
                                /\ (\A id : Tells(pipe[q], id) => Tells(pipe'[q], id)))
        /\ (LettersFit <=> LettersFit') /\ (SteeringFits <=> SteeringFits')
        /\ control' = "running" /\ runId' = r /\ runReady' = FALSE /\ resuming' = FALSE /\ lastMode' = TRUE
        /\ reading = {} /\ reading' = {r} /\ cancellation = "none" /\ awaited' \in [ChatRuns -> {"no", "start", "resume"}]
        /\ awaited'[r] = "start" /\ (\A q \in ChatRuns : q # r => awaited'[q] = awaited[q] /\ turns'[q] = turns[q])
        /\ turns' \in Transcripts /\ turns'[r].control # "stopped" /\ turns'[r].answer = "draft"
        /\ answered' \subseteq answered /\ r \notin answered' /\ gen[r] = "none"
        /\ UNCHANGED <<gen, stopAsked, rows, cancellation, shown, steering, persisted, crossed, dropped>>
    <3>1. /\ control \notin {"running", "stopping", "cancel_failed"} /\ Wire(r, FALSE)
          /\ turns[r] = EmptyTurn /\ gen[r] = "none" /\ answered' = answered
      BY <1>6 DEF SendMessage, ChatRunning, StopUnconfirmed
    <3>2. /\ control' = "running" /\ runId' = r /\ runReady' = FALSE /\ resuming' = FALSE /\ lastMode' = TRUE
          /\ reading' = reading \cup {r} /\ pipe' = [pipe EXCEPT ![r] = <<>>] /\ awaited' = [awaited EXCEPT ![r] = "start"]
          /\ turns' = [turns EXCEPT ![r] = [EmptyTurn EXCEPT !.running = TRUE, !.answer = "draft", !.control = "idle"]]
          /\ UNCHANGED <<gen, stopAsked, rows, cancellation, shown, steering, persisted, crossed, dropped>>
      BY <3>1 DEF Wire
    <3>3. runId = NoRun /\ cancellation = "none"
      BY <1>0, <3>1 DEF ControlFits, EntryTyped, ControlStates
    <3>4. reading = {} /\ (\A q \in ChatRuns : pipe[q] = <<>>)
      BY <1>0, <3>3 DEF ReadersFit
    <3>5. pipe \in [ChatRuns -> Seq(Events)] /\ gen \in [ChatRuns -> {"none", "live", "cut", "done"}] /\ awaited \in [ChatRuns -> {"no", "start", "resume"}]
      BY <1>0 DEF ServerTyped
    <3>6. pipe' = pipe
      BY <3>2, <3>4, <3>5
    <3>7. awaited' \in [ChatRuns -> {"no", "start", "resume"}] /\ awaited'[r] = "start" /\ (\A q \in ChatRuns : q # r => awaited'[q] = awaited[q])
      BY <3>2, <3>5
    <3> DEFINE w == [EmptyTurn EXCEPT !.running = TRUE, !.answer = "draft", !.control = "idle"]
    <3>8. w \in ChatTurns /\ w.answer = "draft" /\ w.control # "stopped" /\ turns' = [turns EXCEPT ![r] = w]
      BY <3>2 DEF EmptyTurn, ChatTurns, ControlStates
    <3> HIDE DEF w
    <3>9. turns' \in Transcripts /\ turns'[r].control # "stopped" /\ turns'[r].answer = "draft" /\ (\A q \in ChatRuns : q # r => turns'[q] = turns[q])
      BY <1>0, <3>8, TurnBecomes
    <3>10. answered' \subseteq answered /\ r \notin answered'
      BY <1>0, <3>1 DEF AnswersFit, AnswerStays, EmptyTurn
    <3>11. QED BY <1>0, <3>1, <3>2, <3>3, <3>4, <3>5, <3>6, <3>7, <3>9, <3>10, FitsLater, MailRests DEF PipeFits
  <2>1. ServerTyped'
    BY <1>0, <2>0 DEF ServerTyped
  <2>2. EntryTyped'
    BY <1>0, <2>0 DEF EntryTyped, ControlStates
  <2>3. ControlFits'
    BY <1>0, <2>0 DEF ControlFits
  <2>4. ReadersFit'
    BY <1>0, <2>0 DEF ReadersFit
  <2>5. PipeFits'
    BY <1>0, <2>0 DEF PipeFits
  <2>6. AwaitFits'
    BY <1>0, <2>0 DEF AwaitFits
  <2>7. StopIsTrue'
    BY <1>0, <2>0 DEF StopIsTrue
  <2>8. AnswersFit'
    BY <1>0, <2>0 DEF AnswersFit, AnswerStays, StopUnconfirmed, EntryTyped
  <2>9. ReadFits'
    BY <1>0, <2>0, ReadKept
  <2>10. LettersFit'
    BY <1>0, <2>0 DEF LettersFit
  <2>11. SteeringFits'
    BY <1>0, <2>0 DEF SteeringFits
  <2>12. QED BY <2>1, <2>2, <2>3, <2>4, <2>5, <2>6, <2>7, <2>8, <2>9, <2>10, <2>11 DEF ChatInv
<1>7. ASSUME NEW r \in ChatRuns, Resume(r) PROVE ChatInv'
  <2>0. /\ pipe' \in [ChatRuns -> Seq(Events)] /\ gen' \in [ChatRuns -> {"none", "live", "cut", "done"}]
        /\ (\A q \in ChatRuns : /\ Fits(pipe'[q], gen'[q]) /\ (gen[q] = "done" => gen'[q] = "done")
                               /\ (q \notin reading' \/ awaited'[q] # "no" => pipe'[q] = <<>>)
                                /\ (NoNews(pipe[q]) => NoNews(pipe'[q]))
                                /\ (\A id : Tells(pipe[q], id) => Tells(pipe'[q], id)))
        /\ (LettersFit <=> LettersFit') /\ (SteeringFits <=> SteeringFits')
        /\ control' = "running" /\ runId' = r /\ runReady' = FALSE /\ resuming' = TRUE /\ lastMode' = TRUE
        /\ reading = {} /\ reading' = {r} /\ cancellation = "none" /\ awaited' \in [ChatRuns -> {"no", "start", "resume"}]
        /\ awaited'[r] = "resume" /\ (\A q \in ChatRuns : q # r => awaited'[q] = awaited[q] /\ turns'[q] = turns[q])
        /\ turns' \in Transcripts /\ turns'[r].control # "stopped" /\ turns'[r].answer = "draft"
        /\ answered' \subseteq answered /\ r \notin answered' 
        /\ UNCHANGED <<gen, stopAsked, rows, cancellation, shown, steering, persisted, crossed, dropped>>
    <3>1. /\ control \notin {"running", "stopping", "cancel_failed"} /\ Wire(r, TRUE)
          /\ answered' = answered \ {r}
      BY <1>7 DEF Resume, ChatRunning, StopUnconfirmed
    <3>2. /\ control' = "running" /\ runId' = r /\ runReady' = FALSE /\ resuming' = TRUE /\ lastMode' = TRUE
          /\ reading' = reading \cup {r} /\ pipe' = [pipe EXCEPT ![r] = <<>>] /\ awaited' = [awaited EXCEPT ![r] = "resume"]
          /\ turns' = [turns EXCEPT ![r] = [EmptyTurn EXCEPT !.running = TRUE, !.answer = "draft", !.control = "running"]]
          /\ UNCHANGED <<gen, stopAsked, rows, cancellation, shown, steering, persisted, crossed, dropped>>
      BY <3>1 DEF Wire
    <3>3. runId = NoRun /\ cancellation = "none"
      BY <1>0, <3>1 DEF ControlFits, EntryTyped, ControlStates
    <3>4. reading = {} /\ (\A q \in ChatRuns : pipe[q] = <<>>)
      BY <1>0, <3>3 DEF ReadersFit
    <3>5. pipe \in [ChatRuns -> Seq(Events)] /\ gen \in [ChatRuns -> {"none", "live", "cut", "done"}] /\ awaited \in [ChatRuns -> {"no", "start", "resume"}]
      BY <1>0 DEF ServerTyped
    <3>6. pipe' = pipe
      BY <3>2, <3>4, <3>5
    <3>7. awaited' \in [ChatRuns -> {"no", "start", "resume"}] /\ awaited'[r] = "resume" /\ (\A q \in ChatRuns : q # r => awaited'[q] = awaited[q])
      BY <3>2, <3>5
    <3> DEFINE w == [EmptyTurn EXCEPT !.running = TRUE, !.answer = "draft", !.control = "running"]
    <3>8. w \in ChatTurns /\ w.answer = "draft" /\ w.control # "stopped" /\ turns' = [turns EXCEPT ![r] = w]
      BY <3>2 DEF EmptyTurn, ChatTurns, ControlStates
    <3> HIDE DEF w
    <3>9. turns' \in Transcripts /\ turns'[r].control # "stopped" /\ turns'[r].answer = "draft" /\ (\A q \in ChatRuns : q # r => turns'[q] = turns[q])
      BY <1>0, <3>8, TurnBecomes
    <3>10. answered' \subseteq answered /\ r \notin answered'
      BY <1>0, <3>1 DEF AnswersFit, AnswerStays, EmptyTurn
    <3>11. QED BY <1>0, <3>1, <3>2, <3>3, <3>4, <3>5, <3>6, <3>7, <3>9, <3>10, FitsLater, MailRests DEF PipeFits
  <2>1. ServerTyped'
    BY <1>0, <2>0 DEF ServerTyped
  <2>2. EntryTyped'
    BY <1>0, <2>0 DEF EntryTyped, ControlStates
  <2>3. ControlFits'
    BY <1>0, <2>0 DEF ControlFits
  <2>4. ReadersFit'
    BY <1>0, <2>0 DEF ReadersFit
  <2>5. PipeFits'
    BY <1>0, <2>0 DEF PipeFits
  <2>6. AwaitFits'
    BY <1>0, <2>0 DEF AwaitFits
  <2>7. StopIsTrue'
    BY <1>0, <2>0 DEF StopIsTrue
  <2>8. AnswersFit'
    BY <1>0, <2>0 DEF AnswersFit, AnswerStays, StopUnconfirmed, EntryTyped
  <2>9. ReadFits'
    BY <1>0, <2>0, ReadKept
  <2>10. LettersFit'
    BY <1>0, <2>0 DEF LettersFit
  <2>11. SteeringFits'
    BY <1>0, <2>0 DEF SteeringFits
  <2>12. QED BY <2>1, <2>2, <2>3, <2>4, <2>5, <2>6, <2>7, <2>8, <2>9, <2>10, <2>11 DEF ChatInv
<1>8. ASSUME NEW r \in ChatRuns, See(r) PROVE ChatInv'
  <2>0. /\ r \in ChatRuns /\ r \in reading /\ runId = r /\ awaited[r] = "no" /\ reading' \subseteq reading
        /\ (\A q \in ChatRuns : q # r => q \notin reading /\ pipe[q] = <<>> /\ (awaited[q] = "resume" => q \in crossed))
        /\ pipe' \in [ChatRuns -> Seq(Events)] /\ (\A q \in ChatRuns : q # r => pipe'[q] = pipe[q])
        /\ Fits(pipe'[r], gen[r]) /\ (NoNews(pipe[r]) => NoNews(pipe'[r])) /\ (r \notin reading' => pipe'[r] = <<>>)
        /\ (\A id : Tells(pipe[r], id) => Tells(pipe'[r], id) \/ shown'[id] = "applied")
        /\ shown' \in ShownStates /\ (\A id \in Requests : shown[id] = "applied" => shown'[id] = "applied")
        /\ turns' \in Transcripts /\ (\A q \in ChatRuns : q # r => turns'[q] = turns[q]) /\ turns'[r].control = turns[r].control
        /\ (turns[r].answer = "accepted" => turns'[r].answer = "accepted")
        /\ (turns'[r].answer = "accepted" => gen[r] = "done" /\ NoNews(pipe'[r]))
        /\ persisted' \in Saves /\ (\A q \in ChatRuns : persisted'.turns[q].answer \in {turns'[q].answer, persisted.turns[q].answer})
        /\ answered' \subseteq answered \cup {r} /\ (r \in answered' => turns'[r].answer = "accepted")
        /\ (\/ control' = control /\ runId' = runId /\ (StopUnconfirmed => turns' = turns)
            \/ ~StopUnconfirmed /\ control' = "idle" /\ runId' = NoRun /\ r \notin reading')
        /\ (LettersFit <=> LettersFit') /\ (SteeringFits <=> SteeringFits')
        /\ UNCHANGED <<gen, awaited, stopAsked, rows, resuming, lastMode, cancellation, steering, crossed, dropped>>
    <3> DEFINE e == Head(pipe[r])
               over == e.what \in {"done", "cut", "refused"}
               mine == ~StopUnconfirmed
               taken == e.what = "applied" /\ (mine \/ turns[r].answer = "interrupted")
    <3>1. /\ r \in reading /\ pipe[r] # <<>> /\ e.what # "failed"
          /\ (IF taken THEN Record(e.id, "applied") ELSE UNCHANGED shown)
          /\ (IF mine /\ over THEN Idle /\ EndTurn(r, e.what = "cut") ELSE
                 /\ UNCHANGED <<control, runId>>
                 /\ turns' = IF mine /\ e.what = "final" THEN [turns EXCEPT ![r].answer = "accepted", ![r].running = FALSE] ELSE turns)
          /\ (persisted' = persisted \/ Persist)
          /\ answered' = (IF mine /\ e.what = "final" THEN answered \cup {r} ELSE answered)
          /\ reading' = (IF over THEN reading \ {r} ELSE reading)
          /\ pipe' = [pipe EXCEPT ![r] = Tail(pipe[r])]
          /\ UNCHANGED <<gen, awaited, stopAsked, rows, resuming, lastMode, cancellation, steering, crossed, dropped>>
      BY <1>8 DEF See, serverVars
    <3>2. /\ runId = r /\ control \notin {"idle", "stopped"}
          /\ (\A q \in ChatRuns : q # r => q \notin reading /\ pipe[q] = <<>> /\ (awaited[q] = "resume" => q \in crossed))
          /\ awaited[r] = "no"
      BY <1>0, <3>1, OneStream
    <3>3. pipe \in [ChatRuns -> Seq(Events)] /\ pipe[r] \in Seq(Events) /\ Fits(pipe[r], gen[r])
      BY <1>0 DEF ServerTyped, PipeFits
    <3>4. /\ e \in Events /\ Tail(pipe[r]) \in Seq(Events) /\ Fits(Tail(pipe[r]), gen[r])
          /\ (e.what \in Overs => Tail(pipe[r]) = <<>>)
          /\ (e.what = "final" => gen[r] = "done" /\ NoNews(Tail(pipe[r])))
          /\ (e.what = "applied" => e.id \in Requests /\ ~NoNews(pipe[r]))
          /\ (NoNews(pipe[r]) => NoNews(Tail(pipe[r])))
          /\ (\A id : Tells(pipe[r], id) => Tells(Tail(pipe[r]), id) \/ (e.what = "applied" /\ e.id = id))
      BY <3>1, <3>3, SeenOne
    <3> HIDE DEF e
    <3>5. pipe' \in [ChatRuns -> Seq(Events)] /\ pipe'[r] = Tail(pipe[r]) /\ (\A q \in ChatRuns : q # r => pipe'[q] = pipe[q])
      BY <3>1, <3>3, <3>4
    <3>6. /\ turns \in Transcripts /\ turns[r] \in ChatTurns /\ persisted \in Saves /\ shown \in ShownStates
          /\ (turns[r].answer = "accepted" => gen[r] = "done" /\ NoNews(pipe[r]))
          /\ (StopUnconfirmed => turns[r].answer \in {"accepted", "interrupted"})
          /\ (r \in answered => turns[r].answer = "accepted")
      BY <1>0, <3>1, TurnTyped DEF EntryTyped, AnswersFit, AnswerStays
    <3>7. e.what = "applied" => taken
      BY <3>4, <3>6
    <3>8. /\ shown' \in ShownStates /\ (\A id \in Requests : shown[id] = "applied" => shown'[id] = "applied")
          /\ (e.what = "applied" => shown'[e.id] = "applied")
      <4>1. CASE taken
        BY <3>1, <3>4, <3>6, <4>1, Recorded
      <4>2. CASE ~taken
        BY <3>1, <3>6, <3>7, <4>2
      <4>3. QED BY <4>1, <4>2
    <3>9. /\ turns' \in Transcripts /\ (\A q \in ChatRuns : q # r => turns'[q] = turns[q]) /\ turns'[r].control = turns[r].control
          /\ (turns[r].answer = "accepted" => turns'[r].answer = "accepted")
          /\ (turns'[r].answer = "accepted" => turns[r].answer = "accepted" \/ (mine /\ e.what = "final"))
          /\ (mine /\ e.what = "final" => turns'[r].answer = "accepted")
      <4>1. CASE mine /\ over
        <5>1. EndTurn(r, e.what = "cut") /\ (e.what = "cut") \in BOOLEAN /\ e.what # "final"
          BY <3>1, <4>1
        <5>2. QED BY <1>0, <5>1, TurnEnds
      <4>2. CASE mine /\ e.what = "final"
        <5> DEFINE w == [turns[r] EXCEPT !.answer = "accepted", !.running = FALSE]
        <5>1. turns' = [turns EXCEPT ![r] = w]
          BY <3>1, <4>2
        <5>2. w \in ChatTurns /\ w.answer = "accepted" /\ w.control = turns[r].control
          BY <3>6 DEF ChatTurns
        <5> HIDE DEF w
        <5>3. QED BY <1>0, <4>2, <5>1, <5>2, TurnBecomes
      <4>3. CASE ~(mine /\ over) /\ ~(mine /\ e.what = "final")
        BY <3>1, <3>6, <4>3
      <4>4. QED BY <4>1, <4>2, <4>3
    <3>10. persisted' \in Saves /\ (\A q \in ChatRuns : persisted'.turns[q].answer \in {turns'[q].answer, persisted.turns[q].answer})
      BY <3>1, <3>6, <3>8, <3>9, Saved
    <3>11. turns'[r].answer = "accepted" => gen[r] = "done" /\ NoNews(pipe'[r])
      BY <3>4, <3>5, <3>6, <3>9
    <3>12. \/ control' = control /\ runId' = runId /\ (StopUnconfirmed => turns' = turns)
           \/ ~StopUnconfirmed /\ control' = "idle" /\ runId' = NoRun /\ r \notin reading'
      BY <3>1 DEF Idle
    <3>13. /\ reading' \subseteq reading /\ (r \notin reading' => pipe'[r] = <<>>)
           /\ answered' \subseteq answered \cup {r} /\ (r \in answered' => turns'[r].answer = "accepted")
      BY <3>1, <3>4, <3>5, <3>6, <3>9 DEF Overs
    <3>14. \A id : Tells(pipe[r], id) => Tells(pipe'[r], id) \/ shown'[id] = "applied"
      BY <3>4, <3>5, <3>8
    <3>15. Fits(pipe'[r], gen[r]) /\ (NoNews(pipe[r]) => NoNews(pipe'[r]))
      BY <3>4, <3>5
    <3> HIDE DEF over, mine, taken
    <3>16. /\ (LettersFit <=> LettersFit') /\ (SteeringFits <=> SteeringFits')
      BY <3>1, MailRests
    <3>17. QED BY <3>1, <3>2, <3>5, <3>8, <3>9, <3>10, <3>11, <3>12, <3>13, <3>14, <3>15, <3>16
  <2>1. ServerTyped'
    BY <1>0, <2>0 DEF ServerTyped
  <2>2. EntryTyped'
    BY <1>0, <2>0 DEF EntryTyped, ControlStates
  <2>3. ControlFits'
    BY <1>0, <2>0 DEF ControlFits, EntryTyped, ControlStates, StopUnconfirmed
  <2>4. ReadersFit'
    BY <1>0, <2>0 DEF ReadersFit
  <2>5. PipeFits'
    BY <1>0, <2>0 DEF PipeFits
  <2>6. AwaitFits'
    BY <1>0, <2>0 DEF AwaitFits
  <2>7. StopIsTrue'
    BY <1>0, <2>0 DEF StopIsTrue
  <2>8. AnswersFit'
    <3>1. AnswerStays'
      BY <1>0, <2>0 DEF AnswersFit, AnswerStays, EntryTyped
    <3>2. StopUnconfirmed' /\ r \in reading' => turns'[r].answer \in {"accepted", "interrupted"}
      BY <1>0, <2>0 DEF AnswersFit, StopUnconfirmed
    <3>3. \A q \in ChatRuns : turns'[q].answer = "accepted" => gen'[q] = "done" /\ NoNews(pipe'[q])
      BY <1>0, <2>0 DEF AnswersFit
    <3>4. \A q \in ChatRuns : persisted'.turns[q].answer = "accepted" => gen'[q] = "done"
      BY <1>0, <2>0 DEF AnswersFit
    <3>5. \A q \in ChatRuns : q \in reading' => q = r
      BY <2>0
    <3>6. QED BY <3>1, <3>2, <3>3, <3>4, <3>5 DEF AnswersFit
  <2>9. ReadFits'
    BY <1>0, <2>0, ReadKept
  <2>10. LettersFit'
    BY <1>0, <2>0 DEF LettersFit
  <2>11. SteeringFits'
    BY <1>0, <2>0 DEF SteeringFits
  <2>12. QED BY <2>1, <2>2, <2>3, <2>4, <2>5, <2>6, <2>7, <2>8, <2>9, <2>10, <2>11 DEF ChatInv
<1>9. ASSUME NEW r \in ChatRuns, ResumeRefused(r) PROVE ChatInv'
  <2>0. /\ r \in ChatRuns /\ runId = r /\ control \notin {"idle", "stopped"} /\ reading' = {}
        /\ pipe' \in [ChatRuns -> Seq(Events)]
        /\ (\A q \in ChatRuns : /\ pipe'[q] = <<>> /\ Fits(pipe'[q], gen[q]) /\ (NoNews(pipe[q]) => NoNews(pipe'[q]))
                                /\ (\A id : Tells(pipe[q], id) => Tells(pipe'[q], id) \/ id \in dropped'))
        /\ dropped \subseteq dropped' /\ crossed \subseteq crossed'
        /\ turns' \in Transcripts /\ persisted' \in Saves
        /\ (\A q \in ChatRuns : /\ turns'[q].control = turns[q].control /\ (turns'[q].answer = "accepted" <=> turns[q].answer = "accepted")
                                /\ persisted'.turns[q].answer \in {turns'[q].answer, persisted.turns[q].answer})
        /\ (\/ StopUnconfirmed /\ control' = control /\ runId' = runId
            \/ ~StopUnconfirmed /\ control' = "idle" /\ runId' = NoRun)
        /\ (\A q \in ChatRuns : awaited[q] = "resume" => q \in crossed)
        /\ (LettersFit <=> LettersFit') /\ (SteeringFits <=> SteeringFits')
        /\ UNCHANGED <<gen, awaited, stopAsked, rows, runReady, lastMode, cancellation, shown, steering, answered, crossed, dropped>>
    <3>1. /\ r \in reading /\ pipe[r] # <<>> /\ Head(pipe[r]).what = "failed" /\ reading' = reading \ {r}
          /\ pipe' = [pipe EXCEPT ![r] = <<>>] /\ ReaderFails(r)
          /\ UNCHANGED <<gen, awaited, stopAsked, rows, runReady, lastMode, cancellation, shown, steering, answered, crossed, dropped>>
      BY <1>9 DEF ResumeRefused, serverVars
    <3>2. /\ r \in ChatRuns /\ runId = r /\ control \notin {"idle", "stopped"}
          /\ (\A q \in ChatRuns : q # r => q \notin reading /\ pipe[q] = <<>> /\ (awaited[q] = "resume" => q \in crossed))
          /\ (pipe[r] # <<>> => awaited[r] = "no")
      BY <1>0, <3>1, OneStream
    <3>3. /\ pipe' \in [ChatRuns -> Seq(Events)] /\ pipe'[r] = <<>> /\ (\A q \in ChatRuns : q # r => pipe'[q] = pipe[q])
          /\ \A q \in ChatRuns : Fits(pipe'[q], gen[q]) /\ (NoNews(pipe[q]) => NoNews(pipe'[q]))
      BY <1>0, <3>1, <3>2, PipeCleared
    <3>4. /\ turns' \in Transcripts /\ persisted' \in Saves
          /\ (\A q \in ChatRuns : /\ turns'[q].control = turns[q].control /\ (turns'[q].answer = "accepted" <=> turns[q].answer = "accepted")
                                  /\ persisted'.turns[q].answer \in {turns'[q].answer, persisted.turns[q].answer})
          /\ (\/ StopUnconfirmed /\ control' = control /\ runId' = runId
              \/ ~StopUnconfirmed /\ control' = "idle" /\ runId' = NoRun)
      BY <1>0, <3>1, <3>2, FailsAre
    <3>5. \A id : ~Tells(pipe[r], id)
      <4>1. pipe[r] \in Seq(Events) /\ Fits(pipe[r], gen[r])
        BY <1>0 DEF ServerTyped, PipeFits
      <4>2. Tail(pipe[r]) = <<>> /\ (\A id : Tells(pipe[r], id) => Tells(Tail(pipe[r]), id))
        BY <3>1, <4>1, SeenOne DEF Overs
      <4>3. QED BY <4>2, NothingSent
    <3>6. reading' = {} /\ \A q \in ChatRuns : /\ pipe'[q] = <<>>
                                                /\ \A id : Tells(pipe[q], id) => Tells(pipe'[q], id) \/ id \in dropped'
      <4>1. \A q \in reading : q = r
        BY <1>0, <3>2 DEF ServerTyped
      <4>2. QED BY <3>1, <3>2, <3>3, <3>5, <4>1
    <3>7. \A q \in ChatRuns : awaited[q] = "resume" => q \in crossed
      BY <3>1, <3>2
    <3>8. QED BY <3>1, <3>2, <3>3, <3>4, <3>6, <3>7, MailRests
  <2>1. ServerTyped'
    BY <1>0, <2>0 DEF ServerTyped
  <2>2. EntryTyped'
    BY <1>0, <2>0 DEF EntryTyped, ControlStates, StopUnconfirmed
  <2>3. ControlFits'
    BY <1>0, <2>0 DEF ControlFits, EntryTyped, ControlStates, StopUnconfirmed
  <2>4. ReadersFit'
    BY <1>0, <2>0 DEF ReadersFit
  <2>5. PipeFits'
    BY <1>0, <2>0 DEF PipeFits
  <2>6. AwaitFits'
    BY <1>0, <2>0 DEF AwaitFits
  <2>7. StopIsTrue'
    BY <1>0, <2>0 DEF StopIsTrue
  <2>8. AnswersFit'
    BY <1>0, <2>0, NothingSent DEF AnswersFit, AnswerStays, StopUnconfirmed, EntryTyped
  <2>9. ReadFits'
    BY <1>0, <2>0, ReadKept
  <2>10. LettersFit'
    BY <1>0, <2>0 DEF LettersFit
  <2>11. SteeringFits'
    BY <1>0, <2>0 DEF SteeringFits
  <2>12. QED BY <2>1, <2>2, <2>3, <2>4, <2>5, <2>6, <2>7, <2>8, <2>9, <2>10, <2>11 DEF ChatInv
<1>10. ASSUME NEW r \in ChatRuns, StreamBreaks(r) PROVE ChatInv'
  <2>0. /\ r \in ChatRuns /\ runId = r /\ control \notin {"idle", "stopped"} /\ reading' = {}
        /\ pipe' \in [ChatRuns -> Seq(Events)]
        /\ (\A q \in ChatRuns : /\ pipe'[q] = <<>> /\ Fits(pipe'[q], gen[q]) /\ (NoNews(pipe[q]) => NoNews(pipe'[q]))
                                /\ (\A id : Tells(pipe[q], id) => Tells(pipe'[q], id) \/ id \in dropped'))
        /\ dropped \subseteq dropped' /\ crossed \subseteq crossed'
        /\ turns' \in Transcripts /\ persisted' \in Saves
        /\ (\A q \in ChatRuns : /\ turns'[q].control = turns[q].control /\ (turns'[q].answer = "accepted" <=> turns[q].answer = "accepted")
                                /\ persisted'.turns[q].answer \in {turns'[q].answer, persisted.turns[q].answer})
        /\ (\/ StopUnconfirmed /\ control' = control /\ runId' = runId
            \/ ~StopUnconfirmed /\ control' = "idle" /\ runId' = NoRun)
        /\ awaited' \in [ChatRuns -> {"no", "start", "resume"}] /\ (\A q \in ChatRuns : awaited'[q] \in {awaited[q], "no"})
        /\ (\A q \in ChatRuns : awaited'[q] = "resume" => q \in crossed')
        /\ (\A q \in ChatRuns : q \notin crossed' => awaited'[q] = awaited[q] \/ awaited'[q] = "no")
        /\ (LettersFit <=> LettersFit') /\ (SteeringFits <=> SteeringFits')
        /\ UNCHANGED <<gen, stopAsked, rows, runReady, lastMode, cancellation, shown, steering, answered>>
    <3>1. /\ r \in reading /\ reading' = reading \ {r}
          /\ pipe' = [pipe EXCEPT ![r] = <<>>] /\ ReaderFails(r) /\ awaited' \in {awaited, [awaited EXCEPT ![r] = "no"]}
          /\ crossed' = (IF awaited'[r] # "no" THEN crossed \cup {r} ELSE crossed) /\ dropped' = dropped \cup Unseen(r)
          /\ UNCHANGED <<gen, stopAsked, rows, runReady, lastMode, cancellation, shown, steering, answered>>
      BY <1>10 DEF StreamBreaks
    <3>2. /\ r \in ChatRuns /\ runId = r /\ control \notin {"idle", "stopped"}
          /\ (\A q \in ChatRuns : q # r => q \notin reading /\ pipe[q] = <<>> /\ (awaited[q] = "resume" => q \in crossed))
          /\ (pipe[r] # <<>> => awaited[r] = "no")
      BY <1>0, <3>1, OneStream
    <3>3. /\ pipe' \in [ChatRuns -> Seq(Events)] /\ pipe'[r] = <<>> /\ (\A q \in ChatRuns : q # r => pipe'[q] = pipe[q])
          /\ \A q \in ChatRuns : Fits(pipe'[q], gen[q]) /\ (NoNews(pipe[q]) => NoNews(pipe'[q]))
      BY <1>0, <3>1, <3>2, PipeCleared
    <3>4. /\ turns' \in Transcripts /\ persisted' \in Saves
          /\ (\A q \in ChatRuns : /\ turns'[q].control = turns[q].control /\ (turns'[q].answer = "accepted" <=> turns[q].answer = "accepted")
                                  /\ persisted'.turns[q].answer \in {turns'[q].answer, persisted.turns[q].answer})
          /\ (\/ StopUnconfirmed /\ control' = control /\ runId' = runId
              \/ ~StopUnconfirmed /\ control' = "idle" /\ runId' = NoRun)
      BY <1>0, <3>1, <3>2, FailsAre
    <3>5. \A id : Tells(pipe[r], id) => id \in dropped'
      <4>1. pipe[r] \in Seq(Events)
        BY <1>0 DEF ServerTyped
      <4>2. QED BY <3>1, <4>1, UnseenAre
    <3>6. reading' = {} /\ \A q \in ChatRuns : /\ pipe'[q] = <<>>
                                                /\ \A id : Tells(pipe[q], id) => Tells(pipe'[q], id) \/ id \in dropped'
      <4>1. \A q \in reading : q = r
        BY <1>0, <3>2 DEF ServerTyped
      <4>2. QED BY <3>1, <3>2, <3>3, <3>5, <4>1
    <3>7. /\ awaited' \in [ChatRuns -> {"no", "start", "resume"}] /\ (\A q \in ChatRuns : awaited'[q] \in {awaited[q], "no"})
          /\ (\A q \in ChatRuns : q # r => awaited'[q] = awaited[q])
      <4>1. awaited \in [ChatRuns -> {"no", "start", "resume"}]
        BY <1>0 DEF ServerTyped
      <4>2. QED BY <3>1, <4>1
    <3>8. \A q \in ChatRuns : awaited'[q] = "resume" => q \in crossed'
      BY <3>1, <3>2, <3>7
    <3>9. crossed \subseteq crossed' /\ dropped \subseteq dropped'
      BY <3>1
    <3>10. QED BY <3>1, <3>2, <3>3, <3>4, <3>6, <3>7, <3>8, <3>9, MailRests
  <2>1. ServerTyped'
    BY <1>0, <2>0 DEF ServerTyped
  <2>2. EntryTyped'
    BY <1>0, <2>0 DEF EntryTyped, ControlStates, StopUnconfirmed
  <2>3. ControlFits'
    BY <1>0, <2>0 DEF ControlFits, EntryTyped, ControlStates, StopUnconfirmed
  <2>4. ReadersFit'
    BY <1>0, <2>0 DEF ReadersFit
  <2>5. PipeFits'
    BY <1>0, <2>0 DEF PipeFits
  <2>6. AwaitFits'
    BY <1>0, <2>0 DEF AwaitFits
  <2>7. StopIsTrue'
    BY <1>0, <2>0 DEF StopIsTrue
  <2>8. AnswersFit'
    BY <1>0, <2>0, NothingSent DEF AnswersFit, AnswerStays, StopUnconfirmed, EntryTyped
  <2>9. ReadFits'
    BY <1>0, <2>0, ReadKept
  <2>10. LettersFit'
    BY <1>0, <2>0 DEF LettersFit
  <2>11. SteeringFits'
    BY <1>0, <2>0 DEF SteeringFits
  <2>12. QED BY <2>1, <2>2, <2>3, <2>4, <2>5, <2>6, <2>7, <2>8, <2>9, <2>10, <2>11 DEF ChatInv
<1>11. CASE Stop
  <2>0. /\ runId \in ChatRuns /\ control' \in {"stopping", "cancel_failed"} /\ turns' \in Transcripts /\ persisted' \in Saves
        /\ (\A q \in ChatRuns : /\ (turns'[q].control = "stopped" => turns[q].control = "stopped")
                                /\ (turns'[q].answer = "accepted" <=> turns[q].answer = "accepted")
                                /\ (q \in reading => turns'[q].answer \in {"accepted", "interrupted"})
                                /\ persisted'.turns[q].answer \in {turns'[q].answer, persisted.turns[q].answer})
        /\ cancellation' \in {"none", "waits", "posted"} /\ (cancellation' # "none" => control' = "stopping")
        /\ (cancellation' = "posted" => \A q \in ChatRuns : awaited[q] = "resume" => q \in crossed)
        /\ (LettersFit <=> LettersFit') /\ (SteeringFits <=> SteeringFits')
        /\ UNCHANGED <<gen, awaited, stopAsked, rows, pipe, reading, runId, runReady, resuming, lastMode, shown, steering, answered, crossed, dropped>>
    <3>1. /\ control \in {"running", "stopping", "cancel_failed"} /\ cancellation = "none" /\ Unconfirmed("stopping")
          /\ cancellation' \in {"waits", "posted"} /\ (cancellation' = "posted" => ~resuming \/ runReady)
          /\ UNCHANGED <<gen, awaited, stopAsked, rows, pipe, reading, runId, runReady, resuming, lastMode, steering, answered, crossed, dropped>>
      BY <1>11 DEF Stop, ChatRunning, StopUnconfirmed, SendCancel, wireVars
    <3>2. runId \in ChatRuns
      BY <1>0, <3>1 DEF ControlFits, EntryTyped
    <3>3. /\ control' = "stopping" /\ turns' \in Transcripts /\ persisted' \in Saves /\ shown' = shown
          /\ (\A q \in ChatRuns : /\ (turns'[q].control = "stopped" => turns[q].control = "stopped")
                                  /\ (turns'[q].answer = "accepted" <=> turns[q].answer = "accepted")
                                  /\ (q \in reading => turns'[q].answer \in {"accepted", "interrupted"})
                                  /\ persisted'.turns[q].answer \in {turns'[q].answer, persisted.turns[q].answer})
      BY <1>0, <3>1, <3>2, StopsAre
    <3>4. cancellation' = "posted" => \A q \in ChatRuns : awaited[q] = "resume" => q \in crossed
      BY <1>0, <3>1 DEF AwaitFits
    <3>5. QED BY <3>1, <3>2, <3>3, <3>4, MailRests
  <2>1. ServerTyped'
    BY <1>0, <2>0 DEF ServerTyped
  <2>2. EntryTyped'
    BY <1>0, <2>0 DEF EntryTyped, ControlStates
  <2>3. ControlFits'
    BY <1>0, <2>0 DEF ControlFits, EntryTyped, ControlStates
  <2>4. ReadersFit'
    BY <1>0, <2>0 DEF ReadersFit
  <2>5. PipeFits'
    BY <1>0, <2>0 DEF PipeFits
  <2>6. AwaitFits'
    BY <1>0, <2>0 DEF AwaitFits
  <2>7. StopIsTrue'
    BY <1>0, <2>0 DEF StopIsTrue
  <2>8. AnswersFit'
    BY <1>0, <2>0 DEF AnswersFit, AnswerStays, StopUnconfirmed, EntryTyped
  <2>9. ReadFits'
    BY <1>0, <2>0, ReadKept
  <2>10. LettersFit'
    BY <1>0, <2>0 DEF LettersFit
  <2>11. SteeringFits'
    BY <1>0, <2>0 DEF SteeringFits
  <2>12. QED BY <2>1, <2>2, <2>3, <2>4, <2>5, <2>6, <2>7, <2>8, <2>9, <2>10, <2>11 DEF ChatInv
<1>12. CASE Waited
  <2>0. /\ runId \in ChatRuns /\ control' \in {"stopping", "cancel_failed"} /\ turns' \in Transcripts /\ persisted' \in Saves
        /\ (\A q \in ChatRuns : /\ (turns'[q].control = "stopped" => turns[q].control = "stopped")
                                /\ (turns'[q].answer = "accepted" <=> turns[q].answer = "accepted")
                                /\ (q \in reading => turns'[q].answer \in {"accepted", "interrupted"})
                                /\ persisted'.turns[q].answer \in {turns'[q].answer, persisted.turns[q].answer})
        /\ cancellation' \in {"none", "waits", "posted"} /\ (cancellation' # "none" => control' = "stopping")
        /\ (cancellation' = "posted" => \A q \in ChatRuns : awaited[q] = "resume" => q \in crossed)
        /\ (LettersFit <=> LettersFit') /\ (SteeringFits <=> SteeringFits')
        /\ UNCHANGED <<gen, awaited, stopAsked, rows, pipe, reading, runId, runReady, resuming, lastMode, shown, steering, answered, crossed, dropped>>
    <3>1. /\ cancellation = "waits"
          /\ UNCHANGED <<gen, awaited, stopAsked, rows, pipe, reading, runId, runReady, resuming, lastMode, steering, answered, crossed, dropped>>
      BY <1>12 DEF Waited, wireVars
    <3>2. control = "stopping" /\ runId \in ChatRuns /\ turns \in Transcripts /\ persisted \in Saves
      BY <1>0, <3>1 DEF ControlFits, EntryTyped
    <3>3. CASE runReady /\ cancellation' = "posted" /\ UNCHANGED <<control, turns, shown, persisted>>
      <4>1. \A q \in ChatRuns : awaited[q] = "resume" => q \in crossed
        BY <1>0, <3>3 DEF AwaitFits
      <4>2. \A q \in ChatRuns : q \in reading => turns[q].answer \in {"accepted", "interrupted"}
        BY <1>0, <3>2 DEF AnswersFit, StopUnconfirmed
      <4>3. QED BY <3>1, <3>2, <3>3, <4>1, <4>2, MailRests
    <3>4. CASE StopFails
      <4>1. cancellation' = "none" /\ Unconfirmed("cancel_failed")
        BY <3>4 DEF StopFails
      <4>2. /\ control' = "cancel_failed" /\ turns' \in Transcripts /\ persisted' \in Saves /\ shown' = shown
            /\ (\A q \in ChatRuns : /\ (turns'[q].control = "stopped" => turns[q].control = "stopped")
                                    /\ (turns'[q].answer = "accepted" <=> turns[q].answer = "accepted")
                                    /\ (q \in reading => turns'[q].answer \in {"accepted", "interrupted"})
                                    /\ persisted'.turns[q].answer \in {turns'[q].answer, persisted.turns[q].answer})
        BY <1>0, <3>2, <4>1, StopsAre
      <4>3. QED BY <3>1, <3>2, <4>1, <4>2, MailRests
    <3>5. QED BY <1>12, <3>3, <3>4 DEF Waited, HeadersSeen, SendCancel
  <2>1. ServerTyped'
    BY <1>0, <2>0 DEF ServerTyped
  <2>2. EntryTyped'
    BY <1>0, <2>0 DEF EntryTyped, ControlStates
  <2>3. ControlFits'
    BY <1>0, <2>0 DEF ControlFits, EntryTyped, ControlStates
  <2>4. ReadersFit'
    BY <1>0, <2>0 DEF ReadersFit
  <2>5. PipeFits'
    BY <1>0, <2>0 DEF PipeFits
  <2>6. AwaitFits'
    BY <1>0, <2>0 DEF AwaitFits
  <2>7. StopIsTrue'
    BY <1>0, <2>0 DEF StopIsTrue
  <2>8. AnswersFit'
    BY <1>0, <2>0 DEF AnswersFit, AnswerStays, StopUnconfirmed, EntryTyped
  <2>9. ReadFits'
    BY <1>0, <2>0, ReadKept
  <2>10. LettersFit'
    BY <1>0, <2>0 DEF LettersFit
  <2>11. SteeringFits'
    BY <1>0, <2>0 DEF SteeringFits
  <2>12. QED BY <2>1, <2>2, <2>3, <2>4, <2>5, <2>6, <2>7, <2>8, <2>9, <2>10, <2>11 DEF ChatInv
<1>13. CASE Confirmed
  <2>0. /\ runId \in ChatRuns /\ control' = "stopped" /\ runId' = NoRun /\ cancellation' = "none" /\ reading' = {}
        /\ gen' \in [ChatRuns -> {"none", "live", "cut", "done"}]
        /\ (\A q \in ChatRuns : gen'[q] = gen[q] \/ (gen[q] = "live" /\ gen'[q] = "cut"))
        /\ stopAsked' \in [ChatRuns -> BOOLEAN] /\ (\A q \in ChatRuns : stopAsked[q] => stopAsked'[q])
        /\ gen'[runId] # "live" /\ (gen[runId] = "none" => stopAsked'[runId])
        /\ pipe' \in [ChatRuns -> Seq(Events)]
        /\ (\A q \in ChatRuns : /\ pipe'[q] = <<>> /\ Fits(pipe'[q], gen'[q]) /\ NoNews(pipe'[q])
                                /\ (\A id : Tells(pipe[q], id) => Tells(pipe'[q], id) \/ id \in dropped')
                                /\ (awaited[q] = "resume" => q \in crossed))
        /\ dropped \subseteq dropped' /\ turns' \in Transcripts /\ (\A q \in ChatRuns : q # runId => turns'[q] = turns[q])
        /\ turns'[runId].answer = turns[runId].answer /\ persisted' \in Saves
        /\ (\A q \in ChatRuns : persisted'.turns[q].answer \in {turns'[q].answer, persisted.turns[q].answer})
        /\ (LettersFit <=> LettersFit') /\ (SteeringFits <=> SteeringFits')
        /\ UNCHANGED <<awaited, rows, runReady, resuming, lastMode, shown, steering, answered, crossed>>
    <3>1. /\ cancellation = "posted" /\ cancellation' = "none" /\ control' = "stopped" /\ runId' = NoRun
          /\ (IF gen[runId] = "live" THEN gen' = [gen EXCEPT ![runId] = "cut"] ELSE UNCHANGED gen)
          /\ stopAsked' = [stopAsked EXCEPT ![runId] = stopAsked[runId] \/ gen[runId] = "none"]
          /\ turns' = [turns EXCEPT ![runId].control = "stopped", ![runId].resumable = lastMode]
          /\ reading' = reading \ {runId} /\ pipe' = [pipe EXCEPT ![runId] = <<>>] /\ dropped' = dropped \cup Unseen(runId)
          /\ Persist
          /\ UNCHANGED <<awaited, rows, runReady, resuming, lastMode, shown, steering, answered, crossed>>
      BY <1>13 DEF Confirmed
    <3>2. /\ runId \in ChatRuns /\ (\A q \in ChatRuns : awaited[q] = "resume" => q \in crossed) /\ reading \subseteq {runId}
          /\ (\A q \in ChatRuns : q # runId => pipe[q] = <<>>)
      BY <1>0, <3>1 DEF ControlFits, EntryTyped, AwaitFits, ReadersFit
    <3>3. /\ gen \in [ChatRuns -> {"none", "live", "cut", "done"}] /\ stopAsked \in [ChatRuns -> BOOLEAN]
          /\ pipe \in [ChatRuns -> Seq(Events)] /\ lastMode \in BOOLEAN /\ turns[runId] \in ChatTurns /\ persisted \in Saves /\ shown \in ShownStates
      BY <1>0, <3>2, TurnTyped DEF ServerTyped, EntryTyped
    <3>4. /\ gen' \in [ChatRuns -> {"none", "live", "cut", "done"}] /\ gen'[runId] # "live"
          /\ (\A q \in ChatRuns : gen'[q] = gen[q] \/ (gen[q] = "live" /\ gen'[q] = "cut"))
      BY <3>1, <3>2, <3>3
    <3>5. /\ stopAsked' \in [ChatRuns -> BOOLEAN] /\ (\A q \in ChatRuns : stopAsked[q] => stopAsked'[q])
          /\ (gen[runId] = "none" => stopAsked'[runId])
      <4> DEFINE b == stopAsked[runId] \/ gen[runId] = "none"
      <4>1. b \in BOOLEAN /\ stopAsked' = [stopAsked EXCEPT ![runId] = b] /\ (stopAsked[runId] => b) /\ (gen[runId] = "none" => b)
        BY <3>1
      <4> HIDE DEF b
      <4>2. stopAsked' \in [ChatRuns -> BOOLEAN] /\ stopAsked'[runId] = b /\ (\A q \in ChatRuns : q # runId => stopAsked'[q] = stopAsked[q])
        BY <3>2, <3>3, <4>1
      <4>3. (stopAsked[runId] => stopAsked'[runId]) /\ (gen[runId] = "none" => stopAsked'[runId])
        BY <4>1, <4>2, Zenon
      <4>4. QED BY <4>2, <4>3
    <3>6. /\ pipe' \in [ChatRuns -> Seq(Events)] /\ pipe'[runId] = <<>> /\ (\A q \in ChatRuns : q # runId => pipe'[q] = pipe[q])
      BY <1>0, <3>1, <3>2, PipeCleared
    <3>7. reading' = {} /\ dropped \subseteq dropped' /\ (\A q \in ChatRuns : pipe'[q] = <<>>)
      BY <3>1, <3>2, <3>6
    <3>8. \A q \in ChatRuns : \A id : Tells(pipe[q], id) => Tells(pipe'[q], id) \/ id \in dropped'
      <4>1. \A id : Tells(pipe[runId], id) => id \in dropped'
        BY <3>1, <3>2, <3>3, UnseenAre
      <4>2. QED BY <3>6, <4>1
    <3>9. \A q \in ChatRuns : Fits(pipe'[q], gen'[q]) /\ NoNews(pipe'[q])
      BY <3>7, NothingSent
    <3>10. turns' \in Transcripts /\ (\A q \in ChatRuns : q # runId => turns'[q] = turns[q]) /\ turns'[runId].answer = turns[runId].answer
      <4> DEFINE w == [turns[runId] EXCEPT !.control = "stopped", !.resumable = lastMode]
      <4>1. turns' = [turns EXCEPT ![runId] = w]
        BY <3>1
      <4>2. w \in ChatTurns /\ w.answer = turns[runId].answer
        BY <3>3 DEF ChatTurns, ControlStates
      <4> HIDE DEF w
      <4>3. QED BY <1>0, <3>2, <4>1, <4>2, TurnBecomes
    <3>11. /\ persisted' \in Saves
           /\ (\A q \in ChatRuns : persisted'.turns[q].answer \in {turns'[q].answer, persisted.turns[q].answer})
      <4>1. shown' \in ShownStates
        BY <3>1, <3>3
      <4>2. QED BY <3>1, <3>3, <3>10, <4>1, Saved
    <3>12. /\ (LettersFit <=> LettersFit') /\ (SteeringFits <=> SteeringFits')
      BY <3>1, MailRests
    <3>13. /\ cancellation' = "none" /\ control' = "stopped" /\ runId' = NoRun
           /\ UNCHANGED <<awaited, rows, runReady, resuming, lastMode, shown, steering, answered, crossed>>
      BY <3>1
    <3>14. QED BY <3>2, <3>4, <3>5, <3>6, <3>7, <3>8, <3>9, <3>10, <3>11, <3>12, <3>13
  <2>1. ServerTyped'
    BY <1>0, <2>0 DEF ServerTyped
  <2>2. EntryTyped'
    BY <1>0, <2>0 DEF EntryTyped, ControlStates
  <2>3. ControlFits'
    BY <1>0, <2>0 DEF ControlFits, EntryTyped, ControlStates
  <2>4. ReadersFit'
    BY <1>0, <2>0 DEF ReadersFit
  <2>5. PipeFits'
    BY <1>0, <2>0 DEF PipeFits
  <2>6. AwaitFits'
    BY <1>0, <2>0 DEF AwaitFits
  <2>7. StopIsTrue'
    <3> SUFFICES ASSUME NEW q \in ChatRuns \ crossed, turns'[q].control = "stopped"
                 PROVE  gen'[q] # "live" /\ (awaited'[q] = "no" \/ (awaited'[q] = "start" /\ stopAsked'[q]))
      BY <2>0 DEF StopIsTrue
    <3>1. CASE q = runId
      <4>1. awaited[q] \in {"no", "start"} /\ (awaited[q] = "start" => gen[q] = "none")
        BY <1>0, <2>0 DEF AwaitFits, ServerTyped
      <4>2. QED BY <2>0, <3>1, <4>1
    <3>2. CASE q # runId
      BY <1>0, <2>0, <3>2 DEF StopIsTrue
    <3>3. QED BY <3>1, <3>2
  <2>8. AnswersFit'
    BY <1>0, <2>0 DEF AnswersFit, AnswerStays, StopUnconfirmed, EntryTyped
  <2>9. ReadFits'
    BY <1>0, <2>0, ReadKept
  <2>10. LettersFit'
    BY <1>0, <2>0 DEF LettersFit
  <2>11. SteeringFits'
    BY <1>0, <2>0 DEF SteeringFits
  <2>12. QED BY <2>1, <2>2, <2>3, <2>4, <2>5, <2>6, <2>7, <2>8, <2>9, <2>10, <2>11 DEF ChatInv
<1>14. CASE Unanswered
  <2>0. /\ pipe' \in [ChatRuns -> Seq(Events)] /\ gen' \in [ChatRuns -> {"none", "live", "cut", "done"}]
        /\ (\A q \in ChatRuns : /\ Fits(pipe'[q], gen'[q]) /\ (gen[q] = "done" => gen'[q] = "done")
                               /\ (q \notin reading' \/ awaited'[q] # "no" => pipe'[q] = <<>>)
                                /\ (NoNews(pipe[q]) => NoNews(pipe'[q]))
                                /\ (\A id : Tells(pipe[q], id) => Tells(pipe'[q], id)))
        /\ runId \in ChatRuns /\ control' \in {"stopping", "cancel_failed"} /\ turns' \in Transcripts /\ persisted' \in Saves
        /\ (\A q \in ChatRuns : /\ (turns'[q].control = "stopped" => turns[q].control = "stopped")
                                /\ (turns'[q].answer = "accepted" <=> turns[q].answer = "accepted")
                                /\ (q \in reading => turns'[q].answer \in {"accepted", "interrupted"})
                                /\ persisted'.turns[q].answer \in {turns'[q].answer, persisted.turns[q].answer})
        /\ cancellation' \in {"none", "waits", "posted"} /\ (cancellation' # "none" => control' = "stopping")
        /\ (cancellation' = "posted" => \A q \in ChatRuns : awaited[q] = "resume" => q \in crossed)
        /\ (LettersFit <=> LettersFit') /\ (SteeringFits <=> SteeringFits')
        /\ (\A q \in ChatRuns : gen'[q] = gen[q] \/ (gen[q] = "live" /\ gen'[q] = "cut"))
        /\ stopAsked' \in [ChatRuns -> BOOLEAN] /\ (\A q \in ChatRuns : stopAsked[q] => stopAsked'[q])
        /\ UNCHANGED <<awaited, rows, reading, runId, runReady, resuming, lastMode, shown, steering, answered, crossed, dropped>>
    <3>1. /\ cancellation = "posted" /\ StopFails
          /\ UNCHANGED <<awaited, rows, reading, runId, runReady, resuming, lastMode, steering, answered, crossed, dropped>>
      BY <1>14 DEF Unanswered
    <3>2. runId \in ChatRuns
      BY <1>0, <3>1 DEF ControlFits, EntryTyped
    <3>3. cancellation' = "none" /\ Unconfirmed("cancel_failed")
      BY <3>1 DEF StopFails
    <3>4. /\ control' = "cancel_failed" /\ turns' \in Transcripts /\ persisted' \in Saves /\ shown' = shown
          /\ (\A q \in ChatRuns : /\ (turns'[q].control = "stopped" => turns[q].control = "stopped")
                                  /\ (turns'[q].answer = "accepted" <=> turns[q].answer = "accepted")
                                  /\ (q \in reading => turns'[q].answer \in {"accepted", "interrupted"})
                                  /\ persisted'.turns[q].answer \in {turns'[q].answer, persisted.turns[q].answer})
      BY <1>0, <3>2, <3>3, StopsAre
    <3>5. /\ pipe' \in [ChatRuns -> Seq(Events)] /\ gen' \in [ChatRuns -> {"none", "live", "cut", "done"}]
          /\ (\A q \in ChatRuns : /\ Fits(pipe'[q], gen'[q]) /\ (gen[q] = "done" => gen'[q] = "done")
                                 /\ (q \notin reading' \/ awaited'[q] # "no" => pipe'[q] = <<>>)
                                  /\ (NoNews(pipe[q]) => NoNews(pipe'[q]))
                                  /\ (\A id : Tells(pipe[q], id) => Tells(pipe'[q], id)))
          /\ (\A q \in ChatRuns : gen'[q] = gen[q] \/ (gen[q] = "live" /\ gen'[q] = "cut"))
          /\ stopAsked' \in [ChatRuns -> BOOLEAN] /\ (\A q \in ChatRuns : stopAsked[q] => stopAsked'[q])
      <4>1. CASE CancelRun(runId)
        BY <1>0, <3>1, <3>2, <4>1, CancelsRun
      <4>2. CASE UNCHANGED <<gen, stopAsked, pipe>>
        BY <1>0, <3>1, <4>2, NothingElse DEF ServerTyped
      <4>3. QED BY <1>14, <4>1, <4>2 DEF Unanswered
    <3>6. /\ (LettersFit <=> LettersFit') /\ (SteeringFits <=> SteeringFits')
      BY <3>1, MailRests
    <3>7. QED BY <3>1, <3>2, <3>3, <3>4, <3>5, <3>6
  <2>1. ServerTyped'
    BY <1>0, <2>0 DEF ServerTyped
  <2>2. EntryTyped'
    BY <1>0, <2>0 DEF EntryTyped, ControlStates
  <2>3. ControlFits'
    BY <1>0, <2>0 DEF ControlFits, EntryTyped, ControlStates
  <2>4. ReadersFit'
    BY <1>0, <2>0 DEF ReadersFit
  <2>5. PipeFits'
    BY <1>0, <2>0 DEF PipeFits
  <2>6. AwaitFits'
    BY <1>0, <2>0 DEF AwaitFits
  <2>7. StopIsTrue'
    BY <1>0, <2>0 DEF StopIsTrue
  <2>8. AnswersFit'
    BY <1>0, <2>0 DEF AnswersFit, AnswerStays, StopUnconfirmed, EntryTyped
  <2>9. ReadFits'
    BY <1>0, <2>0, ReadKept
  <2>10. LettersFit'
    BY <1>0, <2>0 DEF LettersFit
  <2>11. SteeringFits'
    BY <1>0, <2>0 DEF SteeringFits
  <2>12. QED BY <2>1, <2>2, <2>3, <2>4, <2>5, <2>6, <2>7, <2>8, <2>9, <2>10, <2>11 DEF ChatInv
<1>15. CASE Steer
  <2>0. /\ steering' \in Steerings /\ LettersFit' /\ SteeringFits'
        /\ UNCHANGED <<gen, awaited, stopAsked, pipe, reading, control, runId, runReady, resuming, lastMode, cancellation, turns, persisted, answered, crossed, dropped, rows, shown>>
    <3> DEFINE input == [run |-> runId, id |-> SteerId, text |-> steering.text]
               ids == IF SteerId > steering.ids THEN SteerId ELSE steering.ids
               lost == steering.lost \cup ({steering.pending.run} \ {runId, NoRun})
    <3>1. /\ control = "running" /\ SteerId \in Requests
          /\ steering' = [steering EXCEPT !.at = "posted", !.now = input, !.pending = input, !.ids = ids, !.lost = lost]
          /\ UNCHANGED <<gen, awaited, stopAsked, pipe, reading, control, runId, runReady, resuming, lastMode, cancellation, turns, persisted, answered, crossed, dropped, rows, shown>>
      BY <1>15 DEF Steer, ChatRunning, SteeringVars, wireVars, entryVars
    <3>2. runId \in ChatRuns /\ runId # NoRun /\ steering \in Steerings
      BY <1>0, <3>1 DEF ControlFits, EntryTyped
    <3>3. /\ Letters \subseteq Inputs /\ steering.text \in Nat /\ steering.ids \in 0..MaxRequests /\ steering.lost \subseteq ChatRuns
          /\ steering.pending \in Inputs \cup {NoInput} /\ steering.late \subseteq Inputs
      BY <1>0, LettersTyped
    <3>4. /\ input \in Inputs /\ input # NoInput /\ input.run = runId /\ input.id = SteerId /\ input.text = steering.text
      BY <3>1, <3>2, <3>3 DEF Inputs, NoInput
    <3>5. ids \in 0..MaxRequests /\ SteerId <= ids /\ (SteerId <= steering.ids => ids = steering.ids)
      BY <3>1, <3>3 DEF Requests
    <3>6. lost \subseteq ChatRuns
      BY <3>3 DEF Inputs, NoInput
    <3> HIDE DEF input, ids, lost
    <3>7. /\ steering' \in Steerings /\ steering'.pending = input /\ steering'.now = input /\ steering'.ids = ids /\ steering'.lost = lost
          /\ steering'.text = steering.text /\ steering'.late = steering.late
      BY <3>1, <3>2, <3>4, <3>5, <3>6 DEF Steerings
    <3>8. SteeringFits'
      BY <3>4, <3>7 DEF SteeringFits
    <3>9. \A a \in Letters' : a \in Letters \/ a = input
      BY <3>1, <3>7 DEF Letters
    <3>10. \A x, y \in rows' : x.id = y.id => x = y
      BY <1>0, <3>1 DEF LettersFit
    <3>11. CASE steering.pending.run = runId
      <4>1. steering.pending # NoInput /\ SteerId = steering.pending.id
        BY <3>2, <3>11 DEF NoInput, SteerId
      <4>2. steering.pending \in Letters /\ steering.pending \in Inputs /\ steering.pending.text = steering.text
        BY <1>0, <3>3, <4>1, LettersAre DEF SteeringFits
      <4>3. input = steering.pending
        BY <3>4, <3>11, <4>1, <4>2 DEF Inputs
      <4>4. SteerId <= steering.ids
        BY <1>0, <4>1, <4>2 DEF LettersFit
      <4>5. ids = steering.ids /\ lost = steering.lost
        BY <3>5, <3>11, <4>4 DEF lost
      <4>6. Letters' \subseteq Letters
        BY <3>9, <4>2, <4>3
      <4>7. LettersFit'
        BY <1>0, <3>7, <3>10, <4>3, <4>5, <4>6, LettersMove
      <4>8. QED BY <3>1, <3>7, <3>8, <4>7
    <3>12. CASE steering.pending.run # runId
      <4>1. SteerId = steering.ids + 1
        BY <3>12 DEF SteerId
      <4>2. \A a \in Letters : a.id \in Nat /\ a.id <= steering.ids /\ a.text <= steering.text /\ a.run \in ChatRuns /\ a.run # NoRun
        BY <1>0, <3>3 DEF LettersFit, Inputs, Requests
      <4>3. \A a \in Letters : a.id # input.id /\ a.id <= ids
        BY <3>3, <3>4, <3>5, <4>1, <4>2
      <4>4. \A a \in Letters : a.text = steering.text => a.run \in steering.lost \cup {steering.pending.run}
        BY <1>0 DEF LettersFit
      <4>5. \A a \in Letters : a.text = steering.text => a.run \in lost
        BY <3>12, <4>2, <4>4 DEF lost
      <4>a. steering.lost \subseteq lost
        BY DEF lost
      <4>6. \A a, b \in Letters : a.id = b.id \/ (a.run = b.run /\ a.text = b.text /\ a.run \notin steering.lost) => a = b
        BY <1>0 DEF LettersFit
      <4>7. \A a \in Letters' : a.id <= steering'.ids /\ a.text <= steering'.text
        BY <3>3, <3>4, <3>5, <3>7, <3>9, <4>2, <4>3
      <4>8. \A a, b \in Letters' : a.id = b.id \/ (a.run = b.run /\ a.text = b.text /\ a.run \notin steering'.lost) => a = b
        BY <3>4, <3>7, <3>9, <4>3, <4>5, <4>6, <4>a
      <4>9. \A a \in Letters' : a.text = steering'.text => a.run \in steering'.lost \cup {steering'.pending.run}
        BY <3>4, <3>7, <3>9, <4>5
      <4>10. LettersFit'
        BY <3>10, <4>7, <4>8, <4>9 DEF LettersFit
      <4>11. QED BY <3>1, <3>7, <3>8, <4>10
    <3>13. QED BY <3>11, <3>12
  <2>1. ServerTyped'
    BY <1>0, <2>0 DEF ServerTyped
  <2>2. EntryTyped'
    BY <1>0, <2>0 DEF EntryTyped, ControlStates
  <2>3. ControlFits'
    BY <1>0, <2>0 DEF ControlFits
  <2>4. ReadersFit'
    BY <1>0, <2>0 DEF ReadersFit
  <2>5. PipeFits'
    BY <1>0, <2>0 DEF PipeFits
  <2>6. AwaitFits'
    BY <1>0, <2>0 DEF AwaitFits
  <2>7. StopIsTrue'
    BY <1>0, <2>0 DEF StopIsTrue
  <2>8. AnswersFit'
    BY <1>0, <2>0 DEF AnswersFit, AnswerStays, StopUnconfirmed
  <2>9. ReadFits'
    BY <1>0, <2>0 DEF ReadFits
  <2>10. LettersFit'
    BY <2>0
  <2>11. SteeringFits'
    BY <2>0
  <2>12. QED BY <2>1, <2>2, <2>3, <2>4, <2>5, <2>6, <2>7, <2>8, <2>9, <2>10, <2>11 DEF ChatInv
<1>16. CASE Posted
  <2>0. /\ steering' \in Steerings /\ LettersFit' /\ SteeringFits'
        /\ rows' \subseteq Rows /\ (\A x \in rows' : x \in rows \/ ~x.applied)
        /\ UNCHANGED <<gen, awaited, stopAsked, pipe, reading, control, runId, runReady, resuming, lastMode, cancellation, turns, persisted, answered, crossed, dropped, shown>>
    <3>1. /\ steering.at = "posted"
          /\ UNCHANGED <<gen, awaited, stopAsked, pipe, reading, control, runId, runReady, resuming, lastMode, cancellation, turns, persisted, answered, crossed, dropped, shown>>
      BY <1>16 DEF Posted, SteeringVars, wireVars, entryVars
    <3>2. /\ steering \in Steerings /\ Letters \subseteq Inputs /\ steering.text \in Nat
      BY <1>0, LettersTyped DEF EntryTyped
    <3>3. steering.now = steering.pending /\ steering.pending \in Letters
      BY <1>0, <3>1, LettersAre DEF SteeringFits
    <3>4. /\ rows' \subseteq Rows /\ (\A x \in rows' : x \in rows \/ ~x.applied)
          /\ (\A x, y \in rows' : x.id = y.id => x = y) /\ (\A x \in rows' : LetterOf(x) \in Letters)
      <4>1. CASE TakeInput(steering.now)
        BY <1>0, <3>3, <4>1, Takes
      <4>2. CASE rows' = rows
        BY <1>0, <4>2, LettersAre DEF ServerTyped, LettersFit
      <4>3. QED BY <1>16, <4>1, <4>2 DEF Posted
    <3>5. \E s \in {"accepted", "uncertain", "idle"} : steering' = [steering EXCEPT !.at = s]
      BY <1>16 DEF Posted
    <3>6. /\ steering' \in Steerings /\ steering'.text = steering.text /\ steering'.ids = steering.ids /\ steering'.lost = steering.lost
          /\ steering'.now = steering.now /\ steering'.pending = steering.pending /\ steering'.late = steering.late
      BY <3>2, <3>5 DEF Steerings
    <3>7. Letters' \subseteq Letters
      BY <3>4, <3>6 DEF Letters
    <3>8. LettersFit'
      BY <1>0, <3>4, <3>6, <3>7, LettersMove
    <3>9. SteeringFits'
      BY <1>0, <3>1, <3>6 DEF SteeringFits
    <3>10. QED BY <3>1, <3>4, <3>6, <3>8, <3>9
  <2>1. ServerTyped'
    BY <1>0, <2>0 DEF ServerTyped
  <2>2. EntryTyped'
    BY <1>0, <2>0 DEF EntryTyped, ControlStates
  <2>3. ControlFits'
    BY <1>0, <2>0 DEF ControlFits
  <2>4. ReadersFit'
    BY <1>0, <2>0 DEF ReadersFit
  <2>5. PipeFits'
    BY <1>0, <2>0 DEF PipeFits
  <2>6. AwaitFits'
    BY <1>0, <2>0 DEF AwaitFits
  <2>7. StopIsTrue'
    BY <1>0, <2>0 DEF StopIsTrue
  <2>8. AnswersFit'
    BY <1>0, <2>0 DEF AnswersFit, AnswerStays, StopUnconfirmed
  <2>9. ReadFits'
    BY <1>0, <2>0 DEF ReadFits
  <2>10. LettersFit'
    BY <2>0
  <2>11. SteeringFits'
    BY <2>0
  <2>12. QED BY <2>1, <2>2, <2>3, <2>4, <2>5, <2>6, <2>7, <2>8, <2>9, <2>10, <2>11 DEF ChatInv
<1>17. CASE Late
  <2>0. /\ steering' \in Steerings /\ LettersFit' /\ SteeringFits'
        /\ UNCHANGED <<gen, awaited, stopAsked, pipe, reading, control, runId, runReady, resuming, lastMode, cancellation, turns, persisted, answered, crossed, dropped, rows, shown>>
    <3>1. /\ steering.at = "posted" /\ steering' = [steering EXCEPT !.at = "uncertain", !.late = steering.late \cup {steering.now}]
          /\ UNCHANGED <<gen, awaited, stopAsked, pipe, reading, control, runId, runReady, resuming, lastMode, cancellation, turns, persisted, answered, crossed, dropped, rows, shown>>
      BY <1>17 DEF Late, SteeringVars, wireVars, entryVars
    <3>2. /\ steering \in Steerings /\ Letters \subseteq Inputs /\ steering.text \in Nat
      BY <1>0, LettersTyped DEF EntryTyped
    <3>3. steering.now = steering.pending /\ steering.pending \in Letters /\ steering.pending \in Inputs /\ steering.late \subseteq Inputs
      BY <1>0, <3>1, <3>2, LettersAre, LettersTyped DEF SteeringFits
    <3>6. /\ steering' \in Steerings /\ steering'.text = steering.text /\ steering'.ids = steering.ids /\ steering'.lost = steering.lost
          /\ steering'.now = steering.now /\ steering'.pending = steering.pending /\ steering'.late = steering.late \cup {steering.now}
      BY <3>1, <3>2, <3>3 DEF Steerings
    <3>7. Letters' \subseteq Letters
      BY <3>1, <3>3, <3>6 DEF Letters
    <3>8. LettersFit'
      <4>1. \A x, y \in rows' : x.id = y.id => x = y
        BY <1>0, <3>1 DEF LettersFit
      <4>2. QED BY <1>0, <3>6, <3>7, <4>1, LettersMove
    <3>9. SteeringFits'
      BY <1>0, <3>1, <3>6 DEF SteeringFits
    <3>10. QED BY <3>1, <3>6, <3>8, <3>9
  <2>1. ServerTyped'
    BY <1>0, <2>0 DEF ServerTyped
  <2>2. EntryTyped'
    BY <1>0, <2>0 DEF EntryTyped, ControlStates
  <2>3. ControlFits'
    BY <1>0, <2>0 DEF ControlFits
  <2>4. ReadersFit'
    BY <1>0, <2>0 DEF ReadersFit
  <2>5. PipeFits'
    BY <1>0, <2>0 DEF PipeFits
  <2>6. AwaitFits'
    BY <1>0, <2>0 DEF AwaitFits
  <2>7. StopIsTrue'
    BY <1>0, <2>0 DEF StopIsTrue
  <2>8. AnswersFit'
    BY <1>0, <2>0 DEF AnswersFit, AnswerStays, StopUnconfirmed
  <2>9. ReadFits'
    BY <1>0, <2>0 DEF ReadFits
  <2>10. LettersFit'
    BY <2>0
  <2>11. SteeringFits'
    BY <2>0
  <2>12. QED BY <2>1, <2>2, <2>3, <2>4, <2>5, <2>6, <2>7, <2>8, <2>9, <2>10, <2>11 DEF ChatInv
<1>18. CASE Reconcile
  <2>0. /\ steering' \in Steerings /\ LettersFit' /\ SteeringFits'
        /\ UNCHANGED <<gen, awaited, stopAsked, pipe, reading, control, runId, runReady, resuming, lastMode, cancellation, turns, persisted, answered, crossed, dropped, rows, shown>>
    <3>1. /\ steering.at = "uncertain" /\ (\E s \in {"accepted", "idle"} : steering' = [steering EXCEPT !.at = s])
          /\ UNCHANGED <<gen, awaited, stopAsked, pipe, reading, control, runId, runReady, resuming, lastMode, cancellation, turns, persisted, answered, crossed, dropped, rows, shown>>
      BY <1>18 DEF Reconcile, SteeringVars, wireVars, entryVars
    <3>2. /\ steering \in Steerings /\ Letters \subseteq Inputs /\ steering.text \in Nat
      BY <1>0, LettersTyped DEF EntryTyped
    <3>6. /\ steering' \in Steerings /\ steering'.text = steering.text /\ steering'.ids = steering.ids /\ steering'.lost = steering.lost
          /\ steering'.now = steering.now /\ steering'.pending = steering.pending /\ steering'.late = steering.late
      BY <3>1, <3>2 DEF Steerings
    <3>7. Letters' \subseteq Letters
      BY <3>1, <3>6 DEF Letters
    <3>8. LettersFit'
      <4>1. \A x, y \in rows' : x.id = y.id => x = y
        BY <1>0, <3>1 DEF LettersFit
      <4>2. QED BY <1>0, <3>6, <3>7, <4>1, LettersMove
    <3>9. SteeringFits'
      BY <1>0, <3>1, <3>6 DEF SteeringFits
    <3>10. QED BY <3>1, <3>6, <3>8, <3>9
  <2>1. ServerTyped'
    BY <1>0, <2>0 DEF ServerTyped
  <2>2. EntryTyped'
    BY <1>0, <2>0 DEF EntryTyped, ControlStates
  <2>3. ControlFits'
    BY <1>0, <2>0 DEF ControlFits
  <2>4. ReadersFit'
    BY <1>0, <2>0 DEF ReadersFit
  <2>5. PipeFits'
    BY <1>0, <2>0 DEF PipeFits
  <2>6. AwaitFits'
    BY <1>0, <2>0 DEF AwaitFits
  <2>7. StopIsTrue'
    BY <1>0, <2>0 DEF StopIsTrue
  <2>8. AnswersFit'
    BY <1>0, <2>0 DEF AnswersFit, AnswerStays, StopUnconfirmed
  <2>9. ReadFits'
    BY <1>0, <2>0 DEF ReadFits
  <2>10. LettersFit'
    BY <2>0
  <2>11. SteeringFits'
    BY <2>0
  <2>12. QED BY <2>1, <2>2, <2>3, <2>4, <2>5, <2>6, <2>7, <2>8, <2>9, <2>10, <2>11 DEF ChatInv
<1>19. CASE Receipt
  <2>0. /\ steering' \in Steerings /\ LettersFit' /\ SteeringFits'
        /\ shown' \in ShownStates /\ (\A id \in Requests : shown[id] = "applied" => shown'[id] = "applied")
        /\ UNCHANGED <<gen, awaited, stopAsked, pipe, reading, control, runId, runReady, resuming, lastMode, cancellation, turns, persisted, answered, crossed, dropped, rows>>
    <3>1. /\ steering.at = "accepted" /\ (\E s \in {"accepted", "applied"} : Record(steering.now.id, s))
          /\ steering' = [steering EXCEPT !.at = "idle", !.now = NoInput, !.pending = NoInput, !.text = steering.text + 1]
          /\ UNCHANGED <<gen, awaited, stopAsked, pipe, reading, control, runId, runReady, resuming, lastMode, cancellation, turns, persisted, answered, crossed, dropped, rows>>
      BY <1>19 DEF Receipt, SteeringVars, wireVars, entryVars
    <3>2. /\ steering \in Steerings /\ Letters \subseteq Inputs /\ steering.text \in Nat
      BY <1>0, LettersTyped DEF EntryTyped
    <3>3. steering.now.id \in Requests
      <4>1. steering.now = steering.pending /\ steering.pending \in Letters
        BY <1>0, <3>1, LettersAre DEF SteeringFits
      <4>2. QED BY <3>2, <4>1 DEF Inputs
    <3>4. /\ shown' \in ShownStates /\ (\A id \in Requests : shown[id] = "applied" => shown'[id] = "applied")
      BY <1>0, <3>1, <3>3, Recorded DEF EntryTyped
    <3>6. /\ steering' \in Steerings /\ steering'.text = steering.text + 1 /\ steering'.ids = steering.ids /\ steering'.lost = steering.lost
          /\ steering'.now = NoInput /\ steering'.pending = NoInput /\ steering'.late = steering.late /\ steering'.at = "idle"
      <4>1. steering.text + 1 \in Nat
        BY <3>2
      <4>2. QED BY <3>1, <3>2, <4>1 DEF Steerings
    <3>7. Letters' \subseteq Letters
      BY <3>1, <3>6 DEF Letters
    <3>8. LettersFit'
      <4>1. \A x, y \in rows' : x.id = y.id => x = y
        BY <1>0, <3>1 DEF LettersFit
      <4>2. QED BY <1>0, <3>6, <3>7, <4>1, LettersMove
    <3>9. SteeringFits'
      BY <3>6 DEF SteeringFits
    <3>10. QED BY <3>1, <3>4, <3>6, <3>8, <3>9
  <2>1. ServerTyped'
    BY <1>0, <2>0 DEF ServerTyped
  <2>2. EntryTyped'
    BY <1>0, <2>0 DEF EntryTyped, ControlStates
  <2>3. ControlFits'
    BY <1>0, <2>0 DEF ControlFits
  <2>4. ReadersFit'
    BY <1>0, <2>0 DEF ReadersFit
  <2>5. PipeFits'
    BY <1>0, <2>0 DEF PipeFits
  <2>6. AwaitFits'
    BY <1>0, <2>0 DEF AwaitFits
  <2>7. StopIsTrue'
    BY <1>0, <2>0 DEF StopIsTrue
  <2>8. AnswersFit'
    BY <1>0, <2>0 DEF AnswersFit, AnswerStays, StopUnconfirmed
  <2>9. ReadFits'
    BY <1>0, <2>0, ReadKept
  <2>10. LettersFit'
    BY <2>0
  <2>11. SteeringFits'
    BY <2>0
  <2>12. QED BY <2>1, <2>2, <2>3, <2>4, <2>5, <2>6, <2>7, <2>8, <2>9, <2>10, <2>11 DEF ChatInv
<1>20. ASSUME NEW input \in steering.late, Arrives(input) PROVE ChatInv'
  <2>0. /\ steering' \in Steerings /\ LettersFit' /\ SteeringFits'
        /\ rows' \subseteq Rows /\ (\A x \in rows' : x \in rows \/ ~x.applied)
        /\ UNCHANGED <<gen, awaited, stopAsked, pipe, reading, control, runId, runReady, resuming, lastMode, cancellation, turns, persisted, answered, crossed, dropped, shown>>
    <3>1. /\ TakeInput(input) /\ steering' = [steering EXCEPT !.late = steering.late \ {input}]
          /\ UNCHANGED <<gen, awaited, stopAsked, pipe, reading, control, runId, runReady, resuming, lastMode, cancellation, turns, persisted, answered, crossed, dropped, shown>>
      BY <1>20 DEF Arrives, SteeringVars, wireVars, entryVars
    <3>2. /\ steering \in Steerings /\ Letters \subseteq Inputs /\ steering.text \in Nat
      BY <1>0, LettersTyped DEF EntryTyped
    <3>3. input \in Letters
      BY LettersAre
    <3>4. /\ rows' \subseteq Rows /\ (\A x \in rows' : x \in rows \/ ~x.applied)
          /\ (\A x, y \in rows' : x.id = y.id => x = y) /\ (\A x \in rows' : LetterOf(x) \in Letters)
      BY <1>0, <3>1, <3>3, Takes
    <3>6. /\ steering' \in Steerings /\ steering'.text = steering.text /\ steering'.ids = steering.ids /\ steering'.lost = steering.lost
          /\ steering'.now = steering.now /\ steering'.pending = steering.pending /\ steering'.late = steering.late \ {input} /\ steering'.at = steering.at
      BY <3>1, <3>2 DEF Steerings
    <3>7. Letters' \subseteq Letters
      BY <3>4, <3>6 DEF Letters
    <3>8. LettersFit'
      BY <1>0, <3>4, <3>6, <3>7, LettersMove
    <3>9. SteeringFits'
      BY <1>0, <3>6 DEF SteeringFits
    <3>10. QED BY <3>1, <3>4, <3>6, <3>8, <3>9
  <2>1. ServerTyped'
    BY <1>0, <2>0 DEF ServerTyped
  <2>2. EntryTyped'
    BY <1>0, <2>0 DEF EntryTyped, ControlStates
  <2>3. ControlFits'
    BY <1>0, <2>0 DEF ControlFits
  <2>4. ReadersFit'
    BY <1>0, <2>0 DEF ReadersFit
  <2>5. PipeFits'
    BY <1>0, <2>0 DEF PipeFits
  <2>6. AwaitFits'
    BY <1>0, <2>0 DEF AwaitFits
  <2>7. StopIsTrue'
    BY <1>0, <2>0 DEF StopIsTrue
  <2>8. AnswersFit'
    BY <1>0, <2>0 DEF AnswersFit, AnswerStays, StopUnconfirmed
  <2>9. ReadFits'
    BY <1>0, <2>0 DEF ReadFits
  <2>10. LettersFit'
    BY <2>0
  <2>11. SteeringFits'
    BY <2>0
  <2>12. QED BY <2>1, <2>2, <2>3, <2>4, <2>5, <2>6, <2>7, <2>8, <2>9, <2>10, <2>11 DEF ChatInv
<1>21. CASE Reload
  <2>0. /\ steering' \in Steerings /\ LettersFit' /\ SteeringFits'
        /\ turns' = persisted.turns /\ turns' \in Transcripts /\ shown' = persisted.shown /\ shown' \in ShownStates
        /\ ((control' = "idle" /\ runId' = NoRun) \/ (control' = "cancel_failed" /\ runId' \in ChatRuns))
        /\ lastMode' = FALSE /\ cancellation' = "none" /\ reading' = {} /\ pipe' \in [ChatRuns -> Seq(Events)]
        /\ (\A q \in ChatRuns : /\ pipe'[q] = <<>> /\ Fits(pipe'[q], gen[q]) /\ NoNews(pipe'[q])
                                /\ (q \notin crossed' => awaited[q] = "no" /\ gen[q] # "live"))
        /\ answered' \subseteq answered /\ (\A q \in answered' : turns'[q].answer = "accepted")
        /\ (\A x \in rows : x.id \in dropped')
        /\ UNCHANGED <<gen, awaited, stopAsked, rows, persisted>>
    <3>1. /\ turns' = persisted.turns /\ shown' = persisted.shown
          /\ lastMode' = FALSE /\ cancellation' = "none"
          /\ steering' = [steering EXCEPT !.at = "idle", !.now = NoInput, !.pending = NoInput, !.text = steering.text + 1]
          /\ reading' = {} /\ pipe' = [r \in ChatRuns |-> <<>>]
          /\ answered' = {r \in answered : persisted.turns[r].answer = "accepted"}
          /\ crossed' = crossed \cup {r \in ChatRuns : awaited[r] # "no" \/ gen[r] = "live"}
          /\ dropped' = dropped \cup {x.id : x \in rows}
          /\ UNCHANGED <<gen, awaited, stopAsked, rows, persisted>>
      BY <1>21 DEF Reload, serverVars
    <3>0. (control' = "idle" /\ runId' = NoRun) \/ (control' = "cancel_failed" /\ runId' \in ChatRuns)
      BY <1>21 DEF Reload
    <3>2. /\ steering \in Steerings /\ Letters \subseteq Inputs /\ steering.text \in Nat
      BY <1>0, LettersTyped DEF EntryTyped
    <3>3. turns' \in Transcripts /\ shown' \in ShownStates
      BY <1>0, <3>1 DEF EntryTyped, Saves
    <3>4. pipe' \in [ChatRuns -> Seq(Events)] /\ \A q \in ChatRuns : pipe'[q] = <<>> /\ Fits(pipe'[q], gen[q]) /\ NoNews(pipe'[q])
      BY <3>1, NothingSent
    <3>5. /\ answered' \subseteq answered /\ (\A q \in answered' : turns'[q].answer = "accepted") /\ (\A x \in rows : x.id \in dropped')
          /\ \A q \in ChatRuns : q \notin crossed' => awaited[q] = "no" /\ gen[q] # "live"
      BY <3>1
    <3>6. /\ steering' \in Steerings /\ steering'.text = steering.text + 1 /\ steering'.ids = steering.ids /\ steering'.lost = steering.lost
          /\ steering'.now = NoInput /\ steering'.pending = NoInput /\ steering'.late = steering.late /\ steering'.at = "idle"
      <4>1. steering.text + 1 \in Nat
        BY <3>2
      <4>2. QED BY <3>1, <3>2, <4>1 DEF Steerings
    <3>7. Letters' \subseteq Letters
      BY <3>1, <3>6 DEF Letters
    <3>8. LettersFit'
      <4>1. \A x, y \in rows' : x.id = y.id => x = y
        BY <1>0, <3>1 DEF LettersFit
      <4>2. QED BY <1>0, <3>6, <3>7, <4>1, LettersMove
    <3>9. SteeringFits'
      BY <3>6 DEF SteeringFits
    <3>10. QED BY <3>0, <3>1, <3>3, <3>4, <3>5, <3>6, <3>8, <3>9
  <2>1. ServerTyped'
    BY <1>0, <2>0 DEF ServerTyped
  <2>2. EntryTyped'
    BY <1>0, <2>0 DEF EntryTyped, ControlStates
  <2>3. ControlFits'
    BY <1>0, <2>0 DEF ControlFits
  <2>4. ReadersFit'
    BY <1>0, <2>0 DEF ReadersFit
  <2>5. PipeFits'
    BY <1>0, <2>0 DEF PipeFits
  <2>6. AwaitFits'
    BY <1>0, <2>0 DEF AwaitFits, ServerTyped
  <2>7. StopIsTrue'
    BY <2>0 DEF StopIsTrue
  <2>8. AnswersFit'
    BY <1>0, <2>0 DEF AnswersFit, AnswerStays, StopUnconfirmed
  <2>9. ReadFits'
    BY <2>0 DEF ReadFits
  <2>10. LettersFit'
    BY <2>0
  <2>11. SteeringFits'
    BY <2>0
  <2>12. QED BY <2>1, <2>2, <2>3, <2>4, <2>5, <2>6, <2>7, <2>8, <2>9, <2>10, <2>11 DEF ChatInv
<1>22. QED BY <1>1, <1>2, <1>3, <1>4, <1>5, <1>6, <1>7, <1>8, <1>9, <1>10, <1>11, <1>12, <1>13, <1>14, <1>15, <1>16, <1>17, <1>18, <1>19, <1>20, <1>21 DEF BackgroundNext

LEMMA ChatStarts == BackgroundInit => ChatInv
<1> SUFFICES ASSUME BackgroundInit PROVE ChatInv
  OBVIOUS
<1>1. /\ gen = [r \in ChatRuns |-> "none"] /\ awaited = [r \in ChatRuns |-> "no"] /\ stopAsked = [r \in ChatRuns |-> FALSE]
      /\ rows = {} /\ pipe = [r \in ChatRuns |-> <<>>] /\ reading = {} /\ control = "idle" /\ runId = NoRun /\ lastMode = FALSE
      /\ cancellation = "none" /\ turns = [r \in ChatRuns |-> EmptyTurn] /\ shown = [id \in Requests |-> "none"]
      /\ steering = NoSteering /\ persisted = [turns |-> turns, shown |-> shown] /\ answered = {}
  BY DEF BackgroundInit
<1>2. <<>> \in Seq(Events) /\ \A g : Fits(<<>>, g)
  BY NothingSent
<1>3. ServerTyped
  BY <1>1, <1>2 DEF ServerTyped
<1>4. EmptyTurn \in ChatTurns /\ EmptyTurn.answer = "none" /\ EmptyTurn.control = "idle"
  BY DEF EmptyTurn, ChatTurns, ControlStates
<1>5. turns \in Transcripts /\ shown \in ShownStates /\ \A r \in ChatRuns : turns[r].answer = "none" /\ turns[r].control = "idle"
  BY <1>1, <1>4 DEF Transcripts, ShownStates
<1>6. persisted \in Saves /\ persisted.turns = turns
  BY <1>1, <1>5 DEF Saves
<1>7. NoSteering \in Steerings
  <2>1. 0 \in 0..MaxRequests
    OBVIOUS
  <2>2. QED BY <2>1 DEF NoSteering, Steerings
<1>8. /\ steering.late = {} /\ steering.pending = NoInput /\ steering.now = NoInput /\ steering.at = "idle"
  BY <1>1 DEF NoSteering
<1>9. EntryTyped
  BY <1>1, <1>5, <1>6, <1>7 DEF EntryTyped, ControlStates
<1>10. ControlFits /\ ReadersFit /\ AwaitFits
  BY <1>1 DEF ControlFits, ReadersFit, AwaitFits
<1>11. PipeFits /\ StopIsTrue /\ ReadFits
  BY <1>1, <1>2, <1>5 DEF PipeFits, StopIsTrue, ReadFits
<1>12. AnswersFit
  BY <1>1, <1>5, <1>6 DEF AnswersFit, AnswerStays
<1>13. LettersFit /\ SteeringFits
  <2>1. Letters = {}
    BY <1>1, <1>8 DEF Letters
  <2>2. QED BY <1>1, <1>8, <2>1 DEF LettersFit, SteeringFits
<1>14. QED BY <1>3, <1>9, <1>10, <1>11, <1>12, <1>13 DEF ChatInv

LEMMA ChatStays == ChatInv /\ UNCHANGED backgroundVars => ChatInv'
<1> SUFFICES ASSUME ChatInv, UNCHANGED backgroundVars PROVE ChatInv'
  OBVIOUS
<1>1. UNCHANGED <<gen, awaited, stopAsked, rows, pipe, reading, control, runId, runReady, resuming, lastMode>>
  BY DEF backgroundVars, serverVars, wireVars, entryVars
<1>2. UNCHANGED <<cancellation, turns, shown, steering, persisted, answered, crossed, dropped>>
  BY DEF backgroundVars
<1>3. ServerTyped' /\ EntryTyped' /\ ControlFits' /\ ReadersFit' /\ PipeFits' /\ AwaitFits' /\ StopIsTrue'
  BY <1>1, <1>2 DEF ChatInv, ServerTyped, EntryTyped, ControlFits, ReadersFit, PipeFits, AwaitFits, StopIsTrue
<1>4. AnswersFit' /\ ReadFits'
  BY <1>1, <1>2 DEF ChatInv, AnswersFit, AnswerStays, StopUnconfirmed, ReadFits
<1>5. LettersFit' /\ SteeringFits'
  BY <1>1, <1>2, MailRests DEF ChatInv
<1>6. QED BY <1>3, <1>4, <1>5 DEF ChatInv

LEMMA ChatKept == BackgroundSpec => []ChatInv
<1>1. ChatInv /\ [BackgroundNext]_backgroundVars => ChatInv'
  BY ChatStep, ChatStays
<1>2. QED BY <1>1, ChatStarts, PTL DEF BackgroundSpec

\* Types: the server's generations, the entry of the chat and its transcript have
\* their types, and the entry names a run just while the run is running or unstopped.
THEOREM ChatTypeCorrect == BackgroundSpec => []BackgroundTypeOK
<1>1. ChatInv => BackgroundTypeOK
  BY DEF ChatInv, ServerTyped, EntryTyped, ControlFits, ControlStates, ShownStates, BackgroundTypeOK
<1>2. QED BY <1>1, ChatKept, PTL

\* "Stopped" is shown of a run that is over, or is going to end before it begins, for
\* every number of runs, failing calls, broken streams and loads of the page.
THEOREM StopsAreTrue == BackgroundSpec => []StopIsTrue
<1>1. ChatInv => StopIsTrue
  BY DEF ChatInv
<1>2. QED BY <1>1, ChatKept, PTL

\* One reader; a message that is sent until it is taken is queued once; what was read
\* is shown with the answer; an answer stays: for every number of runs and messages.
THEOREM ChatAlwaysHolds == BackgroundSpec => []ChatHolds
<1>1. ChatInv => ChatHolds
  <2> SUFFICES ASSUME ChatInv PROVE ChatHolds
    OBVIOUS
  <2>1. OneReader
    <3>1. reading \subseteq {runId} /\ IsFiniteSet({runId}) /\ Cardinality({runId}) = 1
      BY FS_Singleton DEF ChatInv, ReadersFit
    <3>2. Cardinality(reading) <= Cardinality({runId})
      BY <3>1, FS_Subset
    <3>3. QED BY <3>1, <3>2 DEF OneReader
  <2>2. SteerOnce
    <3>1. SUFFICES ASSUME NEW x \in rows, NEW y \in rows, x.run = y.run, x.text = y.text, x.run \notin steering.lost
                   PROVE  x = y
      BY DEF SteerOnce
    <3>2. LetterOf(x) \in Letters /\ LetterOf(y) \in Letters
      BY LettersAre
    <3>3. LetterOf(x) = LetterOf(y)
      BY <3>1, <3>2 DEF ChatInv, LettersFit, LetterOf
    <3>4. x.id = y.id
      BY <3>3 DEF LetterOf
    <3>5. QED BY <3>4 DEF ChatInv, LettersFit
  <2>3. ReadIsShown
    <3>1. SUFFICES ASSUME NEW x \in rows, x.applied, x.run \in answered, x.id \notin dropped
                   PROVE  shown[x.id] = "applied"
      BY DEF ReadIsShown
    <3>2. x.run \in ChatRuns
      BY DEF ChatInv, ServerTyped, Rows
    <3>3. NoNews(pipe[x.run])
      BY <3>1, <3>2 DEF ChatInv, AnswersFit, AnswerStays
    <3>4. ~Tells(pipe[x.run], x.id)
      BY <3>3 DEF NoNews, Tells
    <3>5. QED BY <3>1, <3>4 DEF ChatInv, ReadFits
  <2>4. AnswerStays
    BY DEF ChatInv, AnswersFit
  <2>5. QED BY <2>1, <2>2, <2>3, <2>4 DEF ChatHolds
<1>2. QED BY <1>1, ChatKept, PTL

===============================================================================
