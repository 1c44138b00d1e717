------------------------------ MODULE MCServices ------------------------------
(***************************************************************************)
(* The parts of one machine that share no state with each other, side by   *)
(* side for TLC: the messages sent to a live run, a run's attempts and its *)
(* files, the lock files between processes, the durable control record,    *)
(* background jobs, the project corpus, an MCP server, the vault, the      *)
(* Telegram bot, the Windows Foundation and one chat of the desktop client *)
(* (two runs without messages, or one run with them).  `part` names the    *)
(* one a behaviour belongs to; the others stay where they began.  The      *)
(* third process acquires locks only once the first is dead; of the two    *)
(* threads that serve the bot's API one only starts it, until a crash.     *)
(***************************************************************************)
EXTENDS SessionInputs, AgentRun, RunLocks, ComposerRun,
        BackgroundJobs, ProjectCorpus, McpServer, Vault, TelegramBot, FoundationService, BackgroundRuns

CONSTANTS a1, i1, i2, i3, p1, p2, p3, r1, r2, turn1, turn2

MCInputs == {i1, i2, i3}
MCProcesses == {p1, p2, p3}
MCRuns == {r1, r2}
MCChatRuns == {turn1, turn2}
MCParentOf == [r \in MCRuns |-> IF r = r2 THEN r1 ELSE NoRunId]

VARIABLE part

servicesVars == <<inputsVars, runVars, lockVars, composerVars, jobVars, corpusVars, mcpVars,
                  vaultVars, botVars, foundationVars, backgroundVars, part>>

Others(p) ==
    /\ p # "inputs" => UNCHANGED inputsVars
    /\ p # "run" => UNCHANGED runVars
    /\ p # "locks" => UNCHANGED lockVars
    /\ p # "card" => UNCHANGED composerVars
    /\ p # "jobs" => UNCHANGED jobVars
    /\ p # "corpus" => UNCHANGED corpusVars
    /\ p # "mcp" => UNCHANGED mcpVars
    /\ p # "vault" => UNCHANGED vaultVars
    /\ p # "bot" => UNCHANGED botVars
    /\ p # "foundation" => UNCHANGED foundationVars
    /\ p \notin {"chats", "letters"} => UNCHANGED backgroundVars

ServicesInit ==
    /\ InputsInit /\ RunInit /\ LocksInit /\ ComposerInit
    /\ JobsInit /\ CorpusInit /\ McpInit /\ VaultInit /\ BotInit /\ FoundationInit /\ BackgroundInit
    /\ part \in {"inputs", "run", "locks", "card", "jobs", "corpus", "mcp", "vault", "bot", "foundation",
                "chats", "letters"}
    /\ part # "corpus" => disk = "none"
    /\ part # "mcp" => config = "absent"
    /\ part # "foundation" => ~desiredFile

ServicesNext ==
    /\ Others(part) /\ UNCHANGED part
    /\ \/ part = "inputs" /\ InputsNext
       \/ part = "run" /\ RunNext
       \/ part = "locks" /\ LocksNext /\ (acquiring'[p3].at # "idle" => p1 \notin alive)
       \/ part = "card" /\ ComposerNext
       \/ part = "jobs" /\ JobsNext
       \/ part = "corpus" /\ CorpusNext
       \/ part = "mcp" /\ McpNext
       \/ part = "vault" /\ VaultNext
       \/ part = "bot" /\ BotNext /\ api'[a1] # "join" /\ (botCrashes' = 1 => api'[a1] = "idle")
       \/ part = "foundation" /\ FoundationNext
       \/ /\ part \in {"chats", "letters"} /\ BackgroundNext
          /\ part = "chats" => steering.at' = "idle"
          /\ part = "letters" => runId' # turn2

\* For TLC: the variables of the other parts have the same values all along.
View == <<part,
    CASE part = "inputs" -> inputsVars
      [] part = "run" -> runVars
      [] part = "locks" -> lockVars
      [] part = "card" -> composerVars
      [] part = "jobs" -> jobVars
      [] part = "corpus" -> corpusVars
      [] part = "mcp" -> mcpVars
      [] part = "vault" -> vaultVars
      [] part = "bot" -> botVars
      [] part = "foundation" -> foundationVars
      [] part \in {"chats", "letters"} -> backgroundVars>>

ServicesSpec == ServicesInit /\ [][ServicesNext]_servicesVars

\* The part a behaviour belongs to keeps its types.
ServicesTypeOK ==
    /\ part = "inputs" => InputsTypeOK
    /\ part = "run" => RunTypeOK
    /\ part = "locks" => LocksTypeOK
    /\ part = "card" => ComposerTypeOK
    /\ part = "jobs" => JobsTypeOK
    /\ part = "corpus" => CorpusTypeOK
    /\ part = "mcp" => McpTypeOK
    /\ part = "vault" => VaultTypeOK
    /\ part = "bot" => BotTypeOK
    /\ part = "foundation" => FoundationTypeOK
    /\ part \in {"chats", "letters"} => BackgroundTypeOK

=============================================================================
