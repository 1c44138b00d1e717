------------------------------- MODULE McpServer -------------------------------
(***************************************************************************)
(* One configured MCP server: its entry in mcp_servers.json, starting and  *)
(* stopping it (mcp_runtime.py), the client of each start with its process *)
(* and its reader thread, and the calls that wait for an answer            *)
(* (mcp_client.py).                                                        *)
(*                                                                         *)
(* _LOCK makes an access to the registry one step, _START_LOCK leaves one  *)
(* start at a time; handshakes, discovery and calls run outside both.      *)
(***************************************************************************)
EXTENDS Naturals, FiniteSets

CONSTANTS
    Specs,          \* what an entry says of the process (command, env, ...)
    Callers,        \* threads that call a tool
    MaxClients,     \* bound: clients made
    MaxSaves        \* bound: changes of the configuration

ASSUME McpAssumption ==
    /\ {"absent", "off"} \cap Specs = {}
    /\ MaxClients \in Nat /\ MaxSaves \in Nat

VARIABLES
    config,     \* the entry: a spec, "off" (enabled: false) or "absent"
    clients,    \* how many clients have been made: 1..clients
    client,     \* each client: its spec, who made it, and whether stop() was called
    process,    \* its process: "none", "runs", "closed" (stdout at its end) or "gone"
    reader,     \* its reader thread: "none", "reads" or "ended"
    live,       \* _LIVE_CLIENTS: the published client (0: none)
    token,      \* _STARTING: the start under way has not been cancelled
    starter,    \* the thread inside start_server
    warmCancel, \* _WARM_CANCEL
    call,       \* each caller: the client it asks, and how far it is
    mcpSaves,
    edited      \* history: the file was changed other than by save_servers

mcpVars == <<config, clients, client, process, reader, live, token, starter, warmCancel, call, mcpSaves, edited>>
clientVars == <<clients, client, process, reader, call>>

Entries == Specs \cup {"off", "absent"}
Made == 1..clients
NoCall == [to |-> 0, at |-> "idle"]
NotStarting == [at |-> "idle", spec |-> "absent", new |-> 0, warm |-> FALSE]
NoToken == [on |-> FALSE, client |-> 0]
Running(g) == process[g] \in {"runs", "closed"}
StarterTo(at) == starter' = [starter EXCEPT !.at = at]
StartEnds == starter' = NotStarting /\ token' = NoToken

\* McpClient.stop() of each of gs: the process ends, as a kill is assumed to do, and
\* whoever waits is woken.
StopClients(gs) ==
    /\ client' = [g \in DOMAIN client |-> IF g \in gs THEN [client[g] EXCEPT !.stopped = TRUE] ELSE client[g]]
    /\ process' = [g \in DOMAIN process |-> IF g \in gs /\ Running(g) THEN "gone" ELSE process[g]]
    /\ reader' = [g \in DOMAIN reader |-> IF g \in gs /\ reader[g] = "reads" THEN "ended" ELSE reader[g]]
    /\ call' = [c \in Callers |-> IF call[c].to \in gs THEN NoCall ELSE call[c]]

\* _stop_locked: the start under way is cancelled, its client and the live one stop.
StopLocked ==
    /\ token' = NoToken /\ live' = 0
    /\ StopClients({live, token.client} \ {0})

---------------------------------------------------------------------------
(* The configuration *)

\* save_servers: what changed, or is gone, is stopped.
SaveServers ==
    /\ mcpSaves < MaxSaves
    /\ \E e \in Entries : config' = e /\ IF e # config THEN StopLocked
                                         ELSE UNCHANGED <<token, live, client, process, reader, call>>
    /\ mcpSaves' = mcpSaves + 1
    /\ UNCHANGED <<clients, starter, warmCancel, edited>>

\* The file is edited by the model or the user; every call reads it anew.
EditFile ==
    /\ mcpSaves < MaxSaves
    /\ \E e \in Entries \ {config} : config' = e
    /\ mcpSaves' = mcpSaves + 1
    /\ edited' = TRUE
    /\ UNCHANGED <<clientVars, live, token, starter, warmCancel>>

---------------------------------------------------------------------------
(* start_server *)

\* Under _LOCK: a server that is off, absent or cancelled is refused; a live one
\* is kept if it runs what the entry says now, and stopped otherwise.
BeginStart ==
    /\ starter.at = "idle"
    /\ config \in Specs
    /\ \E warm \in BOOLEAN :
          /\ warm => ~warmCancel
          /\ LET keep == live # 0 /\ Running(live) /\ client[live].spec = config
             IN /\ starter' = [at |-> IF keep THEN "ask" ELSE "make", spec |-> config,
                               new |-> 0, warm |-> warm]
                /\ token' = [on |-> TRUE, client |-> 0]
                /\ IF live # 0 /\ ~keep
                   THEN live' = 0 /\ StopClients({live})
                   ELSE UNCHANGED <<live, client, process, reader, call>>
    /\ UNCHANGED <<config, clients, warmCancel, mcpSaves, edited>>

\* The tools of the live client are listed; nothing is published.
AskLive ==
    /\ starter.at = "ask"
    /\ StartEnds
    /\ UNCHANGED <<config, clientVars, live, warmCancel, mcpSaves, edited>>

\* The client is constructed, and attached to the token unless that was cancelled;
\* a secret or a directory that is missing ends the start.
MakeClient ==
    /\ starter.at = "make"
    /\ \/ StartEnds /\ UNCHANGED <<clients, client>>
       \/ /\ clients < MaxClients
          /\ clients' = clients + 1
          /\ client' = [client EXCEPT ![clients + 1] = [spec |-> starter.spec, warm |-> starter.warm, stopped |-> ~token.on]]
          /\ IF token.on
             THEN starter' = [starter EXCEPT !.at = "spawn", !.new = clients + 1] /\ token' = [token EXCEPT !.client = clients + 1]
             ELSE StartEnds
    /\ UNCHANGED <<config, process, reader, live, warmCancel, call, mcpSaves, edited>>

\* start(): the process may fail to start; under the lifecycle lock, a client that
\* was stopped does not spawn.
SpawnServer(g) ==
    /\ starter.at = "spawn" /\ starter.new = g
    /\ \/ StartEnds /\ UNCHANGED <<process, reader>>
       \/ /\ ~client[g].stopped
          /\ process' = [process EXCEPT ![g] = "runs"] /\ reader' = [reader EXCEPT ![g] = "reads"]
          /\ StarterTo("discover") /\ UNCHANGED token
    /\ UNCHANGED <<config, clients, client, live, warmCancel, call, mcpSaves, edited>>

\* The handshake and the listing of the tools; a failure stops the client.
Discover(g) ==
    /\ starter.at = "discover" /\ starter.new = g
    /\ \/ process[g] = "runs" /\ StarterTo("publish") /\ UNCHANGED <<token, client, process, reader, call>>
       \/ StopClients({g}) /\ StartEnds
    /\ UNCHANGED <<config, clients, live, warmCancel, mcpSaves, edited>>

\* Mutant of PublishClient: the token is not looked at again after the handshake.
PublishClientBlind(g) ==
    /\ starter.at = "publish" /\ starter.new = g
    /\ live' = g
    /\ StartEnds
    /\ UNCHANGED <<config, clientVars, warmCancel, mcpSaves, edited>>

\* Under _LOCK: published, unless the start was cancelled or the entry changed.
PublishClient(g) ==
    /\ starter.at = "publish" /\ starter.new = g
    /\ IF token.on /\ config = starter.spec /\ ~(starter.warm /\ warmCancel)
       THEN live' = g /\ UNCHANGED <<client, process, reader, call>>
       ELSE StopClients({g}) /\ UNCHANGED live
    /\ StartEnds
    /\ UNCHANGED <<config, clients, warmCancel, mcpSaves, edited>>

---------------------------------------------------------------------------
(* stop_server, also of a run's Stop, and stop_all_servers at shutdown *)

StopServer ==
    /\ StopLocked
    /\ UNCHANGED <<config, clients, starter, warmCancel, mcpSaves, edited>>

StopAll ==
    /\ warmCancel' = TRUE
    /\ StopLocked
    /\ UNCHANGED <<config, clients, starter, mcpSaves, edited>>

---------------------------------------------------------------------------
(* Calls, and the end of a process *)

\* dispatch: the live client is looked up, and the request is registered in _pending.
RegisterCall(c) ==
    /\ call[c] = NoCall
    /\ live # 0 /\ Running(live)
    /\ call' = [call EXCEPT ![c] = [to |-> live, at |-> "registered"]]
    /\ UNCHANGED <<config, clients, client, process, reader, live, token, starter, warmCancel, mcpSaves, edited>>

\* _send, which refuses a process that has exited; then the wait, without a deadline.
Send(c) ==
    /\ call[c].at = "registered"
    /\ call' = [call EXCEPT ![c] = IF Running(call[c].to) THEN [@ EXCEPT !.at = "waits"] ELSE NoCall]
    /\ UNCHANGED <<config, clients, client, process, reader, live, token, starter, warmCancel, mcpSaves, edited>>

Answer(c) ==
    /\ call[c].at = "waits" /\ reader[call[c].to] = "reads"
    /\ call' = [call EXCEPT ![c] = NoCall]
    /\ UNCHANGED <<config, clients, client, process, reader, live, token, starter, warmCancel, mcpSaves, edited>>

\* The process dies: its output ends, the reader wakes everybody who is registered,
\* and it is gone for poll().
CloseOutput(g) ==
    /\ process[g] = "runs"
    /\ process' = [process EXCEPT ![g] = "closed"]
    /\ UNCHANGED <<config, clients, client, reader, live, token, starter, warmCancel, call, mcpSaves, edited>>

EndReader(g) ==
    /\ process[g] \in {"closed", "gone"} /\ reader[g] = "reads"
    /\ reader' = [reader EXCEPT ![g] = "ended"]
    /\ call' = [c \in Callers |-> IF call[c].to = g THEN NoCall ELSE call[c]]
    /\ UNCHANGED <<config, clients, client, process, live, token, starter, warmCancel, mcpSaves, edited>>

Vanish(g) ==
    /\ process[g] = "closed"
    /\ process' = [process EXCEPT ![g] = "gone"]
    /\ UNCHANGED <<config, clients, client, reader, live, token, starter, warmCancel, call, mcpSaves, edited>>

---------------------------------------------------------------------------
McpInit ==
    /\ config \in Entries
    /\ clients = 0
    /\ client = [g \in 1..MaxClients |-> [spec |-> "absent", warm |-> FALSE, stopped |-> FALSE]]
    /\ process = [g \in 1..MaxClients |-> "none"] /\ reader = [g \in 1..MaxClients |-> "none"]
    /\ live = 0 /\ token = NoToken /\ starter = NotStarting
    /\ warmCancel = FALSE
    /\ call = [c \in Callers |-> NoCall]
    /\ mcpSaves = 0 /\ edited = FALSE

StartSteps(g) == SpawnServer(g) \/ Discover(g) \/ PublishClient(g)
ProcessSteps(g) == CloseOutput(g) \/ EndReader(g) \/ Vanish(g)

McpNext ==
    \/ SaveServers \/ EditFile
    \/ BeginStart \/ AskLive \/ MakeClient
    \/ StopServer \/ StopAll
    \/ \E g \in Made : StartSteps(g) \/ ProcessSteps(g)
    \/ \E c \in Callers : RegisterCall(c) \/ Send(c) \/ Answer(c)

McpSpec == McpInit /\ [][McpNext]_mcpVars

---------------------------------------------------------------------------
(* Properties *)

\* The entry, the clients, their processes and the calls have their types.
McpTypeOK ==
    /\ config \in Entries /\ clients \in 0..MaxClients /\ live \in 0..MaxClients
    /\ client \in [1..MaxClients -> [spec : Entries, warm : BOOLEAN, stopped : BOOLEAN]]
    /\ process \in [1..MaxClients -> {"none", "runs", "closed", "gone"}]
    /\ reader \in [1..MaxClients -> {"none", "reads", "ended"}]
    /\ token \in [on : BOOLEAN, client : 0..MaxClients]
    /\ starter \in [at : {"idle", "ask", "make", "spawn", "discover", "publish"}, spec : Entries,
                    new : 0..MaxClients, warm : BOOLEAN]
    /\ warmCancel \in BOOLEAN /\ edited \in BOOLEAN
    /\ call \in [Callers -> [to : 0..MaxClients, at : {"idle", "registered", "waits"}]]
    /\ mcpSaves \in 0..MaxSaves

\* No server process is left to itself: whatever is cancelled, saved or stopped
\* during a start, a process that runs is published or its start is still at it.
NoProcessLost == \A g \in Made : Running(g) => live = g \/ starter.new = g

\* What is published is what the configuration asks for: a start that was
\* cancelled by a save or the shutdown never publishes what it had begun with.
PublishedIsWanted ==
    live # 0 => /\ edited \/ client[live].spec = config
                /\ ~(client[live].warm /\ warmCancel)

\* Every server process has an owner that will stop it, and the one that answers
\* calls is wanted by the configuration.
ClientsAreOwned == NoProcessLost /\ PublishedIsWanted

=============================================================================
