----------------------------- MODULE Lifecycle -----------------------------
(***************************************************************************)
(* The daemon from start to exit (CoreApp.run in repo_claude/core/app.py,  *)
(* core/mcp/server.py, SocketServer.start and stop): configuration, MCP    *)
(* servers, the port, runs, and the shutdown in its order - against        *)
(* servers that fail, a port that is taken, signals at any time and        *)
(* clients that go on sending while the daemon shuts down.                 *)
(*                                                                         *)
(* The stop of the trace, last in the shutdown, is in LlmCall; what a run  *)
(* does is in SessionManager.                                              *)
(***************************************************************************)
EXTENDS Configuration, FiniteSets

CONSTANTS
    AgentRuns,    \* runs that clients ask for with agent.run
    SessionRuns,  \* and with session.send_message
    Machines      \* the configurations found

ASSUME LifecycleAssumption == Machines \subseteq Sources /\ AgentRuns \cap SessionRuns = {}

Runs == AgentRuns \cup SessionRuns

VARIABLES
    src,       \* what get_config finds; fixed in LifecycleInit
    config,    \* the RepoConfig
    phase,     \* where CoreApp.run stands
    todo,      \* places in config.mcp.servers that start_all has not reached
    open,      \* places with a connection, or a process, that is not closed
    clients,   \* McpServerManager._clients: the place of each name, 0 if none
    tools,     \* places whose tools are known
    signal,    \* SIGINT or SIGTERM came
    running,   \* the runs at work; those of agent.run are _running_runs
    doomed     \* the runs the shutdown cancelled and waits for

lifecycleVars == <<src, config, phase, todo, open, clients, tools, signal, running, doomed>>

Names == UNION {{s.global.servers[i] : i \in 1..Len(s.global.servers)}
                \cup {s.project.servers[i] : i \in 1..Len(s.project.servers)}
                \cup {s.explicit.servers[i] : i \in 1..Len(s.explicit.servers)} : s \in Machines}
Places == 1..Len(config.servers)
Serving == {"serving", "cancelling", "closing_mcp"}

LifecycleTypeOK ==
    /\ src \in Machines
    /\ DOMAIN config.values = Settings
    /\ phase \in Serving \cup {"loading", "starting", "binding", "stopping", "exited", "died"}
    /\ \A i \in 1..Len(todo) : todo[i] \in Places
    /\ open \subseteq Places /\ tools \subseteq Places
    /\ clients \in [Names -> 0..Len(config.servers)]
    /\ signal \in BOOLEAN
    /\ running \subseteq Runs /\ doomed \subseteq running \cap AgentRuns

LifecycleInit ==
    /\ src \in Machines
    /\ config = Defaults
    /\ phase = "loading"
    /\ todo = <<>> /\ open = {} /\ tools = {}
    /\ clients = [n \in Names |-> 0]
    /\ signal = FALSE
    /\ running = {} /\ doomed = {}

mcp == <<todo, open, clients, tools>>
runs == <<running, doomed>>

\* The configuration is read and the provider is made, or the daemon refuses.
Load ==
    /\ phase = "loading"
    /\ IF Refuses(src)
       THEN phase' = "died" /\ UNCHANGED <<config, todo>>
       ELSE /\ phase' = "starting"
            /\ config' = GetConfig(src)
            /\ todo' = [i \in 1..Len(config'.servers) |-> i]
    /\ UNCHANGED <<src, open, clients, tools, signal, runs>>

\* start_all, one server: it cannot be reached; it is reached and fails in
\* initialize or tools/list, and is forgotten as it is; or it is registered
\* under its name, over whoever had the name.
StartServer ==
    /\ phase = "starting" /\ todo # <<>>
    /\ LET i == Head(todo) IN
       \/ UNCHANGED <<open, clients, tools>>
       \/ open' = open \cup {i} /\ UNCHANGED <<clients, tools>>
       \/ /\ open' = open \cup {i}
          /\ tools' = tools \cup {i}
          /\ clients' = [clients EXCEPT ![config.servers[i]] = i]
    /\ todo' = Tail(todo)
    /\ UNCHANGED <<src, config, phase, signal, runs>>

ServersStarted ==
    /\ phase = "starting" /\ todo = <<>>
    /\ phase' = "binding"
    /\ UNCHANGED <<src, config, mcp, signal, runs>>

\* SocketServer.start: a port that answers, or cannot be bound, ends the daemon.
Bind ==
    /\ phase = "binding"
    /\ phase' \in {"serving", "died"}
    /\ UNCHANGED <<src, config, mcp, signal, runs>>

\* agent.run or session.send_message, in any phase in which the server listens.
\* Only the task of agent.run is put into _running_runs.
Admit(r) ==
    /\ phase \in Serving /\ r \notin running
    /\ running' = running \cup {r}
    /\ UNCHANGED <<src, config, phase, mcp, signal, doomed>>

RunEnds(r) ==
    /\ r \in running
    /\ running' = running \ {r}
    /\ doomed' = doomed \ {r}
    /\ UNCHANGED <<src, config, phase, mcp, signal>>

\* Before the handlers are installed a signal ends the process where it stands.
Signal ==
    /\ ~signal /\ phase \notin {"exited", "died"}
    /\ signal' = TRUE
    /\ phase' = IF phase = "serving" THEN "serving" ELSE "died"
    /\ UNCHANGED <<src, config, mcp, runs>>

\* The shutdown event is set: cancel all runs of _running_runs.  The tasks of
\* sessions are neither cancelled nor waited for ...
CancelRuns ==
    /\ phase = "serving" /\ signal
    /\ phase' = "cancelling"
    /\ doomed' = running \cap AgentRuns
    /\ UNCHANGED <<src, config, mcp, signal, running>>

\* Mutant: no gather, the shutdown goes on at once.
Gather_AtOnce ==
    /\ phase = "cancelling"
    /\ phase' = "closing_mcp"
    /\ UNCHANGED <<src, config, mcp, signal, runs>>

\* ... and wait for them.
Gather ==
    /\ phase = "cancelling" /\ doomed = {}
    /\ phase' = "closing_mcp"
    /\ UNCHANGED <<src, config, mcp, signal, runs>>

\* Mutant: a close that raises ends the loop over the clients.
CloseClient_StopsAtError ==
    /\ phase = "closing_mcp"
    /\ \E n \in Names :
          /\ clients[n] # 0
          /\ clients' \in {[clients EXCEPT ![n] = 0], [m \in Names |-> 0]}
          /\ open' = open \ {clients[n]}
    /\ UNCHANGED <<src, config, phase, todo, tools, signal, runs>>

\* stop_all: every client of the dict, each ended by terminate, kill, or an
\* error that is logged.
CloseClient ==
    /\ phase = "closing_mcp"
    /\ \E n \in Names :
          /\ clients[n] # 0
          /\ clients' = [clients EXCEPT ![n] = 0]
          /\ open' = open \ {clients[n]}
    /\ UNCHANGED <<src, config, phase, todo, tools, signal, runs>>

ClientsClosed ==
    /\ phase = "closing_mcp" /\ \A n \in Names : clients[n] = 0
    /\ phase' = "stopping"
    /\ UNCHANGED <<src, config, mcp, signal, runs>>

\* server.stop closes every connection and waits at most 2 s; the trace stops;
\* the event loop takes what still runs with it.
Exit ==
    /\ phase = "stopping"
    /\ phase' = "exited"
    /\ running' = {} /\ doomed' = {}
    /\ UNCHANGED <<src, config, mcp, signal>>

DaemonStep ==
    \/ Load \/ StartServer \/ ServersStarted \/ Bind
    \/ CancelRuns \/ Gather \/ CloseClient \/ ClientsClosed \/ Exit

LifecycleNext ==
    \/ DaemonStep \/ Signal
    \/ \E r \in Runs : Admit(r) \/ RunEnds(r)

LifecycleSpec == LifecycleInit /\ [][LifecycleNext]_lifecycleVars

(***************************************************************************)
(* Properties.                                                             *)
(***************************************************************************)

\* A daemon that came so far as to start servers runs on sound sources, and
\* every setting has the value of the last source that gives one: default,
\* global file, project file (or REPO_CONFIG's alone), .env, shell - but .env
\* before the shell for the API key.
Order == <<"global", "project", "explicit", "dotenv", "shell">>
Gives(l, s) ==
    IF l \in {"dotenv", "shell"} THEN s \in src[l]
    ELSE src[l].state = "read" /\ s \in src[l].sets /\ (l = "explicit") = src.asked
LastSourceWins ==
    phase \notin {"loading", "died"} =>
        \A s \in Settings :
            LET givers == {i \in 1..5 : Gives(Order[i], s)}
                last   == CHOOSE i \in givers : \A j \in givers : j <= i
            IN config.values[s] =
                  IF givers = {} THEN Defaults.values[s]
                  ELSE IF s = "api_key" /\ s \in src.dotenv THEN "dotenv"
                  ELSE Order[last]

\* The shutdown takes the MCP connections away from no run of agent.run that was
\* at work when it began - but from the runs of sessions, and from those admitted
\* since.
ConnectionsOutliveRuns ==
    [][ open' # open /\ phase \in {"closing_mcp", "stopping"} => doomed = {} ]_lifecycleVars

\* An orderly exit leaves no MCP connection behind - but of servers that
\* failed after they were reached, and of those whose name a later one took.
ExitClosesClients ==
    phase = "exited" =>
        \A i \in open :
            i \in tools => \E j \in tools : j > i /\ config.servers[j] = config.servers[i]

=============================================================================
