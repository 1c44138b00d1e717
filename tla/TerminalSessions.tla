--------------------------- MODULE TerminalSessions ---------------------------
(***************************************************************************)
(* One tab of the console panel (application/terminal/sessions.py): the    *)
(* shell behind its pseudo-console, the thread that reads it, the sockets   *)
(* that show it (api/routes/terminal_routes.py), the user who types into   *)
(* it and the calls of run_bash(terminal=...) that run commands in it.     *)
(*                                                                         *)
(* The tab's lock is a condition variable: whoever waits on it lets the    *)
(* others in.  A chunk of output is the prompt that ends a command; the    *)
(* waits for silence may run out before it is silent.  Counts of prompts,  *)
(* exits, chunks and blocks of the log are kept as what their readers       *)
(* compare: the first prompt since, the chunks behind.  A block of the log is   *)
(* "new" after _agent_seen (or "crossed", if a run was under way when it    *)
(* came), and before it "shown" to Elira, "cut" from what she was shown,    *)
(* "passed" by the mark_seen of that run, or "missed" by any other.          *)
(***************************************************************************)
EXTENDS Integers, Sequences

CONSTANTS
    Turns,          \* calls of _run_in_terminal with a command
    Sockets,        \* websockets that open the tab
    MaxEnters       \* bound: lines the user enters

\* A run is told from the user and from what the shell does.
ASSUME TerminalAssumption ==
    /\ Turns \cap {"user", "mixed", "none", "starts", "prompt", "gone", "start", "redraw", "^C"} = {}
    /\ MaxEnters \in Nat

VARIABLES
    \* the shell
    shellDoes,  \* "starts", "prompt", "gone" or the line it runs, by its owner
    lines,      \* its input: lines by their owners, and ^C
    half,       \* keys of the user's on the line of the prompt
    printed,    \* prompts in the pipe, each with the line it ends
    \* the tab
    ready,      \* its first prompt has come: _prompts > 0
    tabBusy, tabAlive,
    handed,     \* the chunk the reader is handing on, and to whom
    log,        \* _log: of each block, what Elira knows of it
    \* those who use it
    socket,     \* each websocket, and how many chunks it is behind its tab
    entering,   \* an Enter of the user's is between its mark and its write
    turn,       \* each run, its result and the first prompt since its mark
    stray,      \* history: two have used the tab at once (see below)
    enters      \* lines the user has entered

shellVars == <<shellDoes, lines, half, printed>>
tabVars == <<ready, tabBusy, tabAlive>>
terminalVars == <<shellVars, tabVars, log, handed, socket, entering, turn, stray, enters>>

Owners == Turns \cup {"user", "mixed"}
Input == {lines[i] : i \in DOMAIN lines}
ShellLives == shellDoes # "gone"
NoChunk == [what |-> "none", to |-> {}]
NoTurn == [at |-> "idle", outcome |-> "none", got |-> "none"]
NoSocket == [at |-> "out", behind |-> 0]
Listening == {w \in Sockets : socket[w].at = "in"}
TurnTo(c, p) == turn' = [turn EXCEPT ![c].at = p]
Returns(c, how) == turn' = [turn EXCEPT ![c].at = "ran", ![c].outcome = how]

\* Something the shell has been sent, or has printed, is not settled.
Unsettled == ~ready \/ shellDoes # "prompt" \/ lines # <<>> \/ printed # <<>>

\* Runs that have found the tab free and have not typed.
Entering == {c \in Turns : turn[c].at \in {"quiet", "marked"}}

---------------------------------------------------------------------------
(* The shell, its pseudo-console and the programs it starts *)

Prints(chunk) == printed' = Append(printed, chunk) /\ shellDoes' = "prompt"

ShellStarts ==
    /\ shellDoes = "starts"
    /\ Prints("start")
    /\ UNCHANGED <<lines, half, tabVars, log, handed, socket, entering, turn, stray, enters>>

TakeLine ==
    /\ shellDoes = "prompt" /\ lines # <<>> /\ Head(lines) # "^C"
    /\ shellDoes' = Head(lines) /\ lines' = Tail(lines)
    /\ UNCHANGED <<half, printed, tabVars, log, handed, socket, entering, turn, stray, enters>>

\* By itself, by kill_running, or by a ^C; which may also stay in the input ...
CommandEnds ==
    /\ shellDoes \in Owners
    /\ Prints(shellDoes)
    /\ \/ UNCHANGED lines
       \/ \E i \in 1..Len(lines) :
             lines[i] = "^C" /\ lines' = SubSeq(lines, 1, i - 1) \o SubSeq(lines, i + 1, Len(lines))
    /\ UNCHANGED <<half, tabVars, log, handed, socket, entering, turn, stray, enters>>

\* ... and cancel the line of the prompt.
Redraw ==
    /\ shellDoes = "prompt" /\ lines # <<>> /\ Head(lines) = "^C"
    /\ lines' = Tail(lines) /\ half' = FALSE
    /\ Prints("redraw")
    /\ UNCHANGED <<tabVars, log, handed, socket, entering, turn, stray, enters>>

\* exit, or close() of the tab.
ShellExits ==
    /\ ShellLives
    /\ shellDoes' = "gone" /\ lines' = <<>> /\ half' = FALSE
    /\ UNCHANGED <<printed, tabVars, log, handed, socket, entering, turn, stray, enters>>

---------------------------------------------------------------------------
(* _read_loop *)

\* Runs between recent and mark_seen.
Asking == {c \in Turns : turn[c].at \notin {"idle", "over"}}

\* What a prompt ends: the wait of the runs that have marked their place, and a
\* command of the log.
Fed(owner) ==
    /\ turn' = [c \in Turns |->
          IF turn[c].at \in {"marked", "waiting", "stopping"} /\ turn[c].got = "none"
          THEN [turn[c] EXCEPT !.got = owner] ELSE turn[c]]
    /\ log' = IF owner \in Owners /\ ready
              THEN Append(log, IF Asking = {} THEN "new" ELSE "crossed")
              ELSE log
    /\ socket' = [w \in Sockets |->
          IF socket[w].at = "in" THEN [socket[w] EXCEPT !.behind = @ + 1] ELSE socket[w]]

\* A prompt is fed under the lock; the listeners of that moment get the chunk after
\* it.  stray: the busy mark of a line that is being entered is lost.
Read ==
    /\ tabAlive /\ handed = NoChunk /\ printed # <<>>
    /\ printed' = Tail(printed) /\ ready' = TRUE /\ tabBusy' = FALSE
    /\ handed' = [what |-> "chunk", to |-> Listening]
    /\ Fed(Head(printed))
    /\ stray' = (stray \/ entering)
    /\ UNCHANGED <<shellDoes, lines, half, tabAlive, entering, enters>>

HandOn ==
    /\ handed # NoChunk
    /\ socket' = [w \in Sockets |->
          IF w \notin handed.to \/ socket[w].at # "in" THEN socket[w]
          ELSE IF handed.what = "end" THEN NoSocket
          ELSE [socket[w] EXCEPT !.behind = @ - 1]]
    /\ handed' = NoChunk
    /\ UNCHANGED <<shellVars, tabVars, log, entering, turn, stray, enters>>

\* The end of the output, what is still in the pipe read or not.
ReadEnds ==
    /\ tabAlive /\ handed = NoChunk /\ ~ShellLives
    /\ tabAlive' = FALSE
    /\ handed' = [what |-> "end", to |-> Listening]
    /\ UNCHANGED <<shellVars, ready, tabBusy, log, socket, entering, turn, stray, enters>>

---------------------------------------------------------------------------
(* The sockets *)

SocketTo(w, p) == socket' = [socket EXCEPT ![w].at = p]

OpenSocket(w) ==
    /\ socket[w].at = "out" /\ tabAlive /\ ShellLives
    /\ SocketTo(w, "found")
    /\ UNCHANGED <<shellVars, tabVars, log, handed, entering, turn, stray, enters>>

\* subscribe: the replay and the listener under one lock.  A socket that comes after
\* the end is never told of it ("late").
Subscribe(w) ==
    /\ socket[w].at = "found"
    /\ SocketTo(w, IF tabAlive THEN "in" ELSE "late")
    /\ UNCHANGED <<shellVars, tabVars, log, handed, entering, turn, stray, enters>>

\* The client leaves; what is still handed to it is dropped.
Unsubscribe(w) ==
    /\ socket[w].at \in {"in", "late"}
    /\ socket' = [socket EXCEPT ![w] = NoSocket]
    /\ handed' = [handed EXCEPT !.to = @ \ {w}]
    /\ UNCHANGED <<shellVars, tabVars, log, entering, turn, stray, enters>>

---------------------------------------------------------------------------
(* The user: write *)

TypeKeys ==
    /\ shellDoes = "prompt" /\ lines = <<>> /\ ~half /\ ~entering /\ enters < MaxEnters
    /\ half' = TRUE
    /\ UNCHANGED <<shellDoes, lines, printed, tabVars, log, handed, socket, entering, turn, stray, enters>>

\* An Enter marks the tab busy, under the lock, and is written after that.
\* stray: while another line is not settled, or a run has found the tab free.
EnterMarks ==
    /\ tabAlive /\ ~entering /\ enters < MaxEnters
    /\ entering' = TRUE /\ tabBusy' = TRUE /\ enters' = enters + 1
    /\ stray' = (stray \/ Unsettled \/ Entering # {})
    /\ UNCHANGED <<shellVars, ready, tabAlive, log, handed, socket, turn>>

EnterTypes ==
    /\ entering
    /\ entering' = FALSE
    /\ lines' = IF ShellLives THEN Append(lines, "user") ELSE lines
    /\ half' = FALSE
    /\ UNCHANGED <<shellDoes, printed, tabVars, log, handed, socket, turn, stray, enters>>

---------------------------------------------------------------------------
(* Elira: _run_in_terminal and run *)

Unseen == {"new", "crossed"}
Seen == {"shown", "cut", "passed", "missed"}

\* recent: the newest of the blocks asked for, as many as the limit has room for and
\* at least one; all are seen from now on, and the older ones stay cut.
ShownOf(asked) ==
    \E k \in 0..Len(log) :
        /\ k = Len(log) => log = <<>>
        /\ log' = [i \in DOMAIN log |->
              IF log[i] \in asked /\ i > k THEN "shown"
              ELSE IF log[i] \in Unseen THEN "cut" ELSE log[i]]

\* An empty command reads the whole log.
ReadTab ==
    /\ tabAlive /\ ShellLives /\ log # <<>>
    /\ ShownOf(Unseen \cup Seen)
    /\ UNCHANGED <<shellVars, tabVars, handed, socket, entering, turn, stray, enters>>

\* What the user ran since the last command comes with the result.
Recent(c) ==
    /\ turn[c].at = "idle" /\ tabAlive /\ ShellLives
    /\ ShownOf(Unseen)
    /\ TurnTo(c, "asked")
    /\ UNCHANGED <<shellVars, tabVars, handed, socket, entering, stray, enters>>

\* Mutant of Begin: a tab that is busy is not refused.
BeginAnyway(c) ==
    /\ turn[c].at = "asked"
    /\ \/ ~tabAlive /\ Returns(c, "closed") /\ UNCHANGED stray
       \/ tabAlive /\ ~ready /\ Returns(c, "not_ready") /\ UNCHANGED stray
       \/ /\ tabAlive /\ ready
          /\ TurnTo(c, "quiet")
          /\ stray' = (stray \/ Entering # {})
    /\ UNCHANGED <<shellVars, tabVars, log, handed, socket, entering, enters>>

\* The first prompt has come and the tab is not busy.  The wait for silence lets
\* others in.  stray: another run waits in the same way.
Begin(c) ==
    /\ turn[c].at = "asked"
    /\ \/ ~tabAlive /\ Returns(c, "closed") /\ UNCHANGED stray
       \/ tabAlive /\ ~ready /\ Returns(c, "not_ready") /\ UNCHANGED stray
       \/ tabAlive /\ ready /\ tabBusy /\ Returns(c, "busy") /\ UNCHANGED stray
       \/ /\ tabAlive /\ ready /\ ~tabBusy
          /\ TurnTo(c, "quiet")
          /\ stray' = (stray \/ Entering # {})
    /\ UNCHANGED <<shellVars, tabVars, log, handed, socket, entering, enters>>

\* Busy is not tested again.  stray: the wait ran out before it was silent.
Mark(c) ==
    /\ turn[c].at = "quiet"
    /\ TurnTo(c, "marked")
    /\ tabBusy' = TRUE
    /\ stray' = (stray \/ "^C" \in Input \/ printed # <<>>)
    /\ UNCHANGED <<shellVars, ready, tabAlive, log, handed, socket, entering, enters>>

\* What the user has typed so far is part of the line (stray); a shell that is gone raises.
Type(c) ==
    /\ turn[c].at = "marked"
    /\ IF ShellLives
       THEN /\ lines' = Append(lines, IF half THEN "mixed" ELSE c)
            /\ half' = FALSE /\ stray' = (stray \/ half)
            /\ TurnTo(c, "waiting")
       ELSE /\ turn' = [turn EXCEPT ![c] = [NoTurn EXCEPT !.at = "over"]]
            /\ UNCHANGED <<lines, half, stray>>
    /\ UNCHANGED <<shellDoes, printed, tabVars, log, handed, socket, entering, enters>>

Prompted(c) == turn[c].got # "none"

CommandDone(c) ==
    /\ turn[c].at = "waiting"
    /\ Prompted(c) \/ ~tabAlive
    /\ Returns(c, IF tabAlive THEN "ok" ELSE "closed")
    /\ UNCHANGED <<shellVars, tabVars, log, handed, socket, entering, stray, enters>>

\* The run has been stopped: ^C, and the command returns when its waits are over.
StopTyped(c) ==
    /\ turn[c].at = "waiting" /\ ~Prompted(c) /\ tabAlive
    /\ lines' = IF ShellLives THEN Append(lines, "^C") ELSE lines
    /\ TurnTo(c, "stopping")
    /\ UNCHANGED <<shellDoes, half, printed, tabVars, log, handed, socket, entering, stray, enters>>

GiveUp(c) ==
    /\ turn[c].at = "stopping"
    /\ Returns(c, "cancelled")
    /\ UNCHANGED <<shellVars, tabVars, log, handed, socket, entering, stray, enters>>

\* mark_seen: up to now, whatever has come to the log since.
MarkSeen(c) ==
    /\ turn[c].at = "ran"
    /\ turn' = [turn EXCEPT ![c] = [NoTurn EXCEPT !.at = "over"]]
    /\ log' = [i \in DOMAIN log |->
          CASE log[i] = "new" -> "missed" [] log[i] = "crossed" -> "passed" [] OTHER -> log[i]]
    /\ UNCHANGED <<shellVars, tabVars, handed, socket, entering, stray, enters>>

---------------------------------------------------------------------------
TerminalInit ==
    /\ shellDoes = "starts" /\ lines = <<>> /\ half = FALSE /\ printed = <<>>
    /\ ready = FALSE /\ tabBusy = FALSE /\ tabAlive = TRUE
    /\ handed = NoChunk /\ log = <<>>
    /\ socket = [w \in Sockets |-> NoSocket] /\ entering = FALSE
    /\ turn = [c \in Turns |-> NoTurn]
    /\ stray = FALSE /\ enters = 0

Run(c) ==
    \/ Recent(c) \/ Begin(c) \/ Mark(c) \/ Type(c) \/ CommandDone(c) \/ StopTyped(c) \/ GiveUp(c) \/ MarkSeen(c)

TerminalNext ==
    \/ ShellStarts \/ TakeLine \/ CommandEnds \/ Redraw \/ ShellExits
    \/ Read \/ HandOn \/ ReadEnds
    \/ \E w \in Sockets : OpenSocket(w) \/ Subscribe(w) \/ Unsubscribe(w)
    \/ TypeKeys \/ EnterMarks \/ EnterTypes \/ ReadTab
    \/ \E c \in Turns : Run(c)

TerminalSpec == TerminalInit /\ [][TerminalNext]_terminalVars

---------------------------------------------------------------------------
(* Properties *)

\* Shell, tab, sockets and runs have their types.
TerminalTypeOK ==
    /\ shellDoes \in Owners \cup {"starts", "prompt", "gone"}
    /\ \A i \in DOMAIN lines : lines[i] \in Owners \cup {"^C"}
    /\ \A i \in DOMAIN printed : printed[i] \in Owners \cup {"start", "redraw"}
    /\ {half, ready, tabBusy, tabAlive, entering, stray} \subseteq BOOLEAN
    /\ handed.what \in {"none", "chunk", "end"} /\ handed.to \subseteq Sockets
    /\ log \in Seq(Unseen \cup Seen)
    /\ enters \in 0..MaxEnters
    /\ socket \in [Sockets -> [at : {"out", "found", "in", "late"}, behind : -1..1]]
    /\ \A c \in Turns :
          /\ turn[c].at \in {"idle", "asked", "quiet", "marked", "waiting", "stopping", "ran", "over"}
          /\ turn[c].outcome \in {"none", "ok", "busy", "closed", "not_ready", "cancelled"}
          /\ turn[c].got \in Owners \cup {"none", "start", "redraw"}

InFlight == shellDoes \in Owners \/ Input \cap Owners # {} \/ \E i \in DOMAIN printed : printed[i] \in Owners

\* "What the user ran here since Elira's last command comes with every result": so
\* it does, but for what recent cuts and for what came to the log while a run was
\* under way.  mark_seen passes over nothing else, and a block is cut only for newer
\* ones that are shown.
UserWorkShown ==
    \A i \in DOMAIN log :
        /\ log[i] # "missed"
        /\ log[i] = "cut" => \E j \in DOMAIN log : j > i /\ log[j] = "shown"

\* Unless two have used the tab at once, a run returns the output and the exit code
\* of its own command, and as long as somebody's command runs the tab reads busy, so
\* that no run types into it; and of what the user has run Elira has the newest.
TabAnswers ==
    /\ TerminalTypeOK
    /\ ~stray => /\ \A c \in Turns : turn[c].outcome = "ok" => turn[c].got = c
                 /\ tabAlive /\ InFlight => tabBusy
    /\ UserWorkShown

\* "Replay of the output so far and live chunks after it, with no gap (None = shell
\* ended)": a socket misses no chunk and gets none twice, but for the one the reader
\* is handing to it, and if it came before the end it is told of it.
NoGap ==
    \A w \in Listening :
        /\ socket[w].behind = IF handed.what = "chunk" /\ w \in handed.to THEN 1 ELSE 0
        /\ ~tabAlive => handed.what = "end" /\ w \in handed.to

\* Who uses a tab gets what is his: a run its own command's output, the user's work
\* its showing, a socket every chunk.
TabsHold == TabAnswers /\ NoGap

=============================================================================
