----------------------------- MODULE Subagents -----------------------------
(***************************************************************************)
(* spawn_agent and agent_result (repo_claude/core/subagent/tool.py): runs  *)
(* of one session, the subagents they derive, and theirs.  A foreground    *)
(* child runs inside the tool call of its parent, in the same asyncio      *)
(* task; a background child is a task of its own that no code waits for    *)
(* and that only the end of the daemon cancels.                            *)
(*                                                                         *)
(* An agent's loop is reduced to its steps: each is one answer of the LLM  *)
(* with at most one tool call (AgentLoop has the rest).                    *)
(***************************************************************************)
EXTENDS Naturals, FiniteSets

CONSTANTS
    MaxAgents,   \* bound: run ids given to runs and subagents
    MaxRuns,     \* bound: runs of the session
    MaxSteps,    \* agent.max_steps, the same for subagents
    MaxRetries,  \* _MAX_RETRIES of invoke_tool
    ProfileFiles \* the files of a role: project, user and built-in

SubagentTools == {"spawn_agent", "agent_result"}

ASSUME SubagentAssumption ==
    /\ {MaxAgents, MaxRuns, MaxSteps, MaxRetries} \subseteq Nat
    /\ MaxSteps > 0
    /\ ProfileFiles \subseteq [1..3 -> [state : {"absent", "broken", "read"},
                                        limits : BOOLEAN, allowed : SUBSET SubagentTools]]

\* AgentProfileLoader.load takes the first file that is there.  One that cannot
\* be parsed is no profile, as is a role without a file; and no profile, like
\* an empty allowed_tools, restricts nothing.
AllowedBy(files) ==
    LET there == {i \in 1..3 : files[i].state # "absent"}
        first == CHOOSE i \in there : \A j \in there : i <= j
    IN IF there = {} \/ files[first].state = "broken" \/ ~files[first].limits
       THEN SubagentTools ELSE files[first].allowed
Profiles == {AllowedBy(files) : files \in ProfileFiles}

Agents == 1..MaxAgents
None   == 0

VARIABLES
    born,      \* how many run ids were given
    kind,      \* "run", "foreground", "background"
    parent,    \* who spawned the agent
    runner,    \* the run whose AgentRunner, and registry, the agent uses
    oneShot,   \* runs of agent.run, whose tasks _running_runs holds
    tools,     \* the tools of this module in the agent's registry
    pc,        \* where the agent stands
    status,    \* context.status
    step,      \* context.step
    child,     \* the foreground child of the present spawn_agent call
    tries,     \* how often invoke_tool started the present call
    ended,     \* how the agent came to its end
    registry,  \* _task_registry: run ids of background agents, per run
    finished,  \* agents with subagent.finished published
    reported,  \* agents that agent_result reported as over
    daemon     \* "up", "stopping", "down"

tree == <<born, kind, parent, runner, oneShot, tools, registry>>
call == <<child, tries>>
vars == <<tree, call, pc, status, step, ended, finished, reported, daemon>>

TypeOK ==
    /\ born \in 0..MaxAgents
    /\ kind \in [Agents -> {"none", "run", "foreground", "background"}]
    /\ parent \in [Agents -> 0..MaxAgents]
    /\ runner \in [Agents -> 0..MaxAgents]
    /\ oneShot \subseteq Agents
    /\ tools \in [Agents -> SUBSET SubagentTools]
    /\ pc \in [Agents -> {"unborn", "opening", "thinking", "calling", "ending",
                          "published", "over"}]
    /\ status \in [Agents -> {"running", "success", "failed"}]
    /\ step \in [Agents -> 0..MaxSteps]
    /\ child \in [Agents -> 0..MaxAgents]
    /\ tries \in [Agents -> 0..(MaxRetries + 1)]
    /\ ended \in [Agents -> {"no", "returned", "raised", "cancelled"}]
    /\ registry \in [Agents -> SUBSET Agents]
    /\ finished \subseteq Agents
    /\ reported \subseteq Agents
    /\ daemon \in {"up", "stopping", "down"}

Init ==
    /\ born = 0
    /\ kind = [a \in Agents |-> "none"]
    /\ parent = [a \in Agents |-> None]
    /\ runner = [a \in Agents |-> None]
    /\ tools = [a \in Agents |-> {}]
    /\ pc = [a \in Agents |-> "unborn"]
    /\ status = [a \in Agents |-> "running"]
    /\ step = [a \in Agents |-> 0]
    /\ child = [a \in Agents |-> None]
    /\ tries = [a \in Agents |-> 0]
    /\ ended = [a \in Agents |-> "no"]
    /\ registry = [a \in Agents |-> {}]
    /\ oneShot = {} /\ finished = {} /\ reported = {}
    /\ daemon = "up"

Alive(a)   == pc[a] \notin {"unborn", "over"}
Runs       == {a \in Agents : kind[a] = "run"}
Level(a)   == IF parent[a] = None THEN 0 ELSE IF parent[parent[a]] = None THEN 1 ELSE 2

\* a and the foreground agents below it: what one task runs.
Chain(a) ==
    LET c == child[a] IN
    IF c = None THEN {a}
    ELSE IF child[c] = None THEN {a, c}
    ELSE {a, c, child[c]}

\* _build_child_registry: spawn_agent and agent_result down to the first
\* level of children, as far as the profile allows them.
Offered(level, profile) == IF level < 2 THEN profile ELSE {}

\* A run id and a context for a new agent.
Bear(k, p, r, profile) ==
    LET a == born + 1 IN
    /\ a \in Agents
    /\ born' = a
    /\ kind' = [kind EXCEPT ![a] = k]
    /\ parent' = [parent EXCEPT ![a] = p]
    /\ runner' = [runner EXCEPT ![a] = IF r = None THEN a ELSE r]
    /\ tools' = [tools EXCEPT ![a] = Offered(IF p = None THEN 0 ELSE Level(p) + 1, profile)]

\* run_and_capture: an AgentRunner per run.  agent.run makes a session for each of
\* its runs; those of session.send_message are here of one session, one at a time.
StartRun ==
    /\ daemon = "up" /\ Cardinality(Runs) < MaxRuns
    /\ \/ oneShot' = oneShot \cup {born + 1}
       \/ (\A r \in Runs \ oneShot : pc[r] = "over") /\ UNCHANGED oneShot
    /\ Bear("run", None, None, SubagentTools)
    /\ pc' = [pc EXCEPT ![born + 1] = "opening"]
    /\ UNCHANGED <<registry, call, status, step, ended, finished, reported, daemon>>

\* The event file is opened and the loop makes its first step.
Open(a) ==
    /\ pc[a] = "opening"
    /\ pc' = [pc EXCEPT ![a] = "thinking"]
    /\ step' = [step EXCEPT ![a] = 1]
    /\ UNCHANGED <<tree, call, status, ended, finished, reported, daemon>>

\* The next step of an agent whose tool call is over, or its end behind the
\* last one.  next and marks are pc and status with what the same step does to others.
GoOn(a, next, marks) ==
    IF step[a] < MaxSteps
    THEN /\ pc' = [next EXCEPT ![a] = "thinking"]
         /\ step' = [step EXCEPT ![a] = @ + 1]
         /\ status' = marks
    ELSE /\ pc' = [next EXCEPT ![a] = "ending"]
         /\ status' = [marks EXCEPT ![a] = "failed"]
         /\ UNCHANGED step

Continue(a, next) == GoOn(a, next, status)

Hangup(a) == child' = [child EXCEPT ![a] = None]
Redial(a) == tries' = [tries EXCEPT ![a] = 0]

\* The call of p fails with a runtime_error or an exception: invoke_tool
\* waits and tries again, or gives the error to the loop.
CallFails(p, next) ==
    /\ Hangup(p)
    /\ IF tries[p] <= MaxRetries
       THEN pc' = next /\ UNCHANGED <<status, step, tries>>
       ELSE Continue(p, next) /\ Redial(p)

\* The event file cannot be opened: the exception goes to invoke_tool, or ends the
\* background task.
OpenFails(a) ==
    /\ pc[a] = "opening" /\ kind[a] # "run"
    /\ ended' = [ended EXCEPT ![a] = "raised"]
    /\ IF kind[a] = "foreground"
       THEN CallFails(parent[a], [pc EXCEPT ![a] = "over"])
       ELSE pc' = [pc EXCEPT ![a] = "over"] /\ UNCHANGED <<call, status, step>>
    /\ UNCHANGED <<tree, finished, reported, daemon>>

\* end_turn, or a failure of the LLM.
LoopEnds(a, s) ==
    /\ pc[a] = "thinking"
    /\ pc' = [pc EXCEPT ![a] = "ending"]
    /\ status' = [status EXCEPT ![a] = s]
    /\ UNCHANGED <<tree, call, step, ended, finished, reported, daemon>>

\* Any other tool, an answer that is no end_turn and calls no tool, and a
\* spawn_agent whose timer ends it before subagent.started is out.
UseTool(a) ==
    /\ pc[a] = "thinking"
    /\ Continue(a, pc)
    /\ UNCHANGED <<tree, call, ended, finished, reported, daemon>>

\* The first attempt of a spawn_agent of kind k, or one after a failure: invoke_tool
\* repeats the call as it was.
Attempts(a, k) ==
    \/ pc[a] = "thinking" /\ "spawn_agent" \in tools[a]
    \/ /\ pc[a] = "calling" /\ child[a] = None
       /\ \E b \in Agents : /\ parent[b] = a /\ kind[b] = k
                            /\ \A c \in Agents : parent[c] = a => c <= b

\* spawn_agent in the foreground, behind subagent.started.
SpawnForeground(a, profile) ==
    /\ Attempts(a, "foreground")
    /\ Bear("foreground", a, runner[a], profile)
    /\ pc' = [pc EXCEPT ![a] = "calling", ![born + 1] = "opening"]
    /\ child' = [child EXCEPT ![a] = born + 1]
    /\ tries' = [tries EXCEPT ![a] = @ + 1]
    /\ UNCHANGED <<oneShot, registry, status, step, ended, finished, reported, daemon>>

\* Bound: with all run ids given, a failed call is not tried again.
OutOfIds(a) ==
    /\ pc[a] = "calling" /\ child[a] = None /\ born = MaxAgents
    /\ Continue(a, pc)
    /\ Hangup(a) /\ Redial(a)
    /\ UNCHANGED <<tree, ended, finished, reported, daemon>>

\* BackgroundTaskRegistry.register, of the agent just born, and get.
Register(a) == registry' = [registry EXCEPT ![runner[a]] = @ \cup {born + 1}]
Known(a, b) == b \in registry[runner[a]]

\* In the background: a task, an entry in the registry, and the run id at once.
SpawnBackground(a, profile) ==
    /\ Attempts(a, "background")
    /\ Bear("background", a, runner[a], profile)
    /\ Register(a)
    /\ Continue(a, [pc EXCEPT ![born + 1] = "opening"])
    /\ Redial(a)
    /\ UNCHANGED <<oneShot, child, ended, finished, reported, daemon>>

\* Behind subagent.started the directory of the run cannot be made: no task, no
\* entry, and the call fails.  (In the foreground that is OpenFails.)
SpawnFails(a, profile) ==
    /\ Attempts(a, "background")
    /\ Bear("background", a, runner[a], profile)
    /\ ended' = [ended EXCEPT ![born + 1] = "raised"]
    /\ LET next == [pc EXCEPT ![born + 1] = "over"] IN
       IF tries[a] < MaxRetries
       THEN /\ pc' = [next EXCEPT ![a] = "calling"]
            /\ tries' = [tries EXCEPT ![a] = @ + 1]
            /\ UNCHANGED <<status, step>>
       ELSE Continue(a, next) /\ Redial(a)
    /\ UNCHANGED <<oneShot, registry, child, finished, reported, daemon>>

\* Mutant: the context is looked at, not the task.
IsOver_ByStatus(b) == status[b] # "running"

\* task.done()
IsOver(b) == pc[b] = "over"

\* agent_result: an id the registry of this run does not hold is unknown, a
\* task that is not done is still running, any other is reported as over.
Query(a, b) ==
    /\ pc[a] = "thinking" /\ "agent_result" \in tools[a]
    /\ kind[b] = "background"
    /\ reported' = IF Known(a, b) /\ IsOver(b) THEN reported \cup {b} ELSE reported
    /\ Continue(a, pc)
    /\ UNCHANGED <<tree, call, ended, finished, daemon>>

\* Mutant: a subagent that failed ends in silence.
PublishFinished_Success(a) ==
    /\ pc[a] = "ending"
    /\ pc' = [pc EXCEPT ![a] = "published"]
    /\ finished' = IF kind[a] # "run" /\ status[a] = "success" THEN finished \cup {a} ELSE finished
    /\ UNCHANGED <<tree, call, status, step, ended, reported, daemon>>

\* run.finished, or subagent.finished on the parent's bus.
PublishFinished(a) ==
    /\ pc[a] = "ending"
    /\ pc' = [pc EXCEPT ![a] = "published"]
    /\ finished' = IF kind[a] = "run" THEN finished ELSE finished \cup {a}
    /\ UNCHANGED <<tree, call, status, step, ended, reported, daemon>>

\* The agent is over.  A foreground child hands its parent the result: only
\* success is no error.
Return(a) ==
    /\ pc[a] = "published"
    /\ ended' = [ended EXCEPT ![a] = "returned"]
    /\ LET next == [pc EXCEPT ![a] = "over"] IN
       \/ /\ kind[a] = "foreground" /\ status[a] = "success"
          /\ Continue(parent[a], next)
          /\ Hangup(parent[a]) /\ Redial(parent[a])
       \/ /\ kind[a] = "foreground" /\ status[a] # "success"
          /\ CallFails(parent[a], next)
       \/ /\ kind[a] # "foreground"
          /\ pc' = next
          /\ UNCHANGED <<call, status, step>>
    /\ UNCHANGED <<tree, finished, reported, daemon>>

\* A cancellation marks a run, and an agent that waits for the LLM, as failed.
Marked(s) ==
    [a \in Agents |-> IF a \in s /\ (kind[a] = "run" \/ pc[a] = "thinking")
                         /\ status[a] = "running" THEN "failed" ELSE status[a]]

\* Cancelled where it awaits, agent a leaves with its foreground agents, none
\* of which gets to publish anything.  A run still reports itself.
Cancelled(s) ==
    /\ pc' = [a \in Agents |-> IF a \notin s THEN pc[a]
                               ELSE IF kind[a] = "run" THEN "ending" ELSE "over"]
    /\ ended' = [a \in Agents |-> IF a \in s THEN "cancelled" ELSE ended[a]]
    /\ status' = Marked(s)

AtWork(rs) == {r \in rs : pc[r] \in {"opening", "thinking", "calling"}}

\* run.cancel, which knows the tasks of session.send_message alone.
CancelRun(r) ==
    /\ r \in AtWork(Runs \ oneShot)
    /\ Cancelled(Chain(r))
    /\ Hangup(r) /\ Redial(r)
    /\ UNCHANGED <<tree, step, finished, reported, daemon>>

\* Mutant: the timer ends the call and leaves the child at work.
ToolTimeout_Leaves(a) ==
    /\ pc[a] = "calling" /\ child[a] # None
    /\ ended' = [ended EXCEPT ![child[a]] = "cancelled"]
    /\ Continue(a, pc)
    /\ Hangup(a) /\ Redial(a)
    /\ UNCHANGED <<tree, finished, reported, daemon>>

\* invoke_tool's timer: the child is cancelled with all it waits for; a
\* timeout is not tried again.
ToolTimeout(a) ==
    /\ pc[a] = "calling" /\ child[a] # None
    /\ LET dead == Chain(child[a])
           next == [b \in Agents |-> IF b \in dead THEN "over" ELSE pc[b]] IN
       /\ ended' = [b \in Agents |-> IF b \in dead THEN "cancelled" ELSE ended[b]]
       /\ GoOn(a, next, Marked(dead))
    /\ Hangup(a) /\ Redial(a)
    /\ UNCHANGED <<tree, finished, reported, daemon>>

\* Their calls end with the runs rs.
HangupAll(rs) ==
    /\ child' = [a \in Agents |-> IF a \in rs THEN None ELSE child[a]]
    /\ tries' = [a \in Agents |-> IF a \in rs THEN 0 ELSE tries[a]]

\* CoreApp.run at its end: the runs of agent.run are cancelled and waited for ...
Shutdown ==
    /\ daemon = "up" /\ daemon' = "stopping"
    /\ Cancelled(UNION {Chain(r) : r \in AtWork(oneShot)})
    /\ HangupAll(AtWork(oneShot))
    /\ UNCHANGED <<tree, step, finished, reported>>

\* ... and with the event loop go the runs of session.send_message and the
\* background agents.  Cancelled, they still get to their ends.
Exit ==
    /\ daemon = "stopping" /\ \A r \in oneShot : pc[r] = "over"
    /\ daemon' = "down"
    /\ Cancelled({a \in Agents : Alive(a) /\ (kind[a] = "run" => a \in AtWork(Runs))})
    /\ HangupAll(AtWork(Runs))
    /\ UNCHANGED <<tree, step, finished, reported>>

AgentStep(a) ==
    \/ Open(a) \/ OpenFails(a)
    \/ LoopEnds(a, "success") \/ LoopEnds(a, "failed")
    \/ UseTool(a) \/ OutOfIds(a)
    \/ \E p \in Profiles : SpawnForeground(a, p) \/ SpawnBackground(a, p) \/ SpawnFails(a, p)
    \/ \E b \in Agents : Query(a, b)
    \/ PublishFinished(a) \/ Return(a)
    \/ ToolTimeout(a)

Next ==
    \/ StartRun
    \/ \E a \in Agents : AgentStep(a) \/ CancelRun(a)
    \/ Shutdown \/ Exit

Spec == Init /\ [][Next]_vars
\* The event loop runs every task, and every LLM call and tool comes back or
\* is given up by its timer.  Nobody owes a run, a cancel or a shutdown.
FairSpec == Spec /\ \A a \in Agents : WF_vars(AgentStep(a))

(***************************************************************************)
(* Properties.                                                             *)
(***************************************************************************)

\* A foreground agent at work has a parent that waits for exactly it, up to a
\* run or a background agent: a call, a timeout, a cancel or a shutdown never
\* leaves one behind, and a retry never starts a second one beside it.
ForegroundNested ==
    \A a \in Agents :
        kind[a] = "foreground" /\ Alive(a)
            => pc[parent[a]] = "calling" /\ child[parent[a]] = a

\* Once subagent.finished is out the agent makes no step and its status
\* stands; once agent_result reported it as over it is not heard of again.
NoNewsAfterTheEnd ==
    [][ \A a \in Agents :
          /\ a \in finished => step'[a] = step[a] /\ status'[a] = status[a]
          /\ a \in reported => step'[a] = step[a] /\ (a \in finished' => a \in finished) ]_vars

\* Whoever hears of a subagent's start hears of its end - unless it was
\* cancelled or its directory or event file could not be made.
ChildrenReported ==
    \A a \in Agents :
        kind[a] \in {"foreground", "background"} ~>
            (a \in finished \/ ended[a] \in {"raised", "cancelled"})
=============================================================================
