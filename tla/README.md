# RepoClaude in TLA+

RepoClaude is a coding agent split in two: a daemon (`repo_claude/core`) that
keeps sessions, runs the agent loop, calls the LLM and the tools, and clients
(CLI, TUI, web) that talk to it over a Unix socket with JSON-RPC commands and
receive events. The daemon is one asyncio process: code between two `await`s is
atomic, and everything else may interleave there. These modules model that
process: one action is the code from one await to the next.

Paths below are relative to `src/src/repo_claude/`, unless they start with
`web/`, `docs/` or `tests/`.

## 1. Inventory

| Component | State it keeps | Operations | What is hard | What makes it correct |
|---|---|---|---|---|
| Permission gate (`core/permissions/`) | `_pending` Futures, session and persistent `always_*` caches, `policy.toml` | `check_and_wait`, `respond`, `cancel_session`, load and save | a Future is resolved, timed out, cancelled and answered twice in any order; a failing or interrupted save | no call runs that policy forces to ask; answers are applied once; whoever waits can be answered |
| Sessions (`core/session/`) | `_sessions`, one lock and one status each; `thread.jsonl`, `meta.json` | create, send_message, close, compact, truncate, list, get_history | background tasks, cancellation at any await, two writers of one thread | one turn at a time; a run answers the thread it read; nothing said is lost; every turn is reported |
| Command handlers (`core/app.py`) | `_session_tasks`, `_run_tasks` | `agent.run`, `session.*`, `run.cancel`, `permission.respond`, `event.subscribe`, shutdown | the task on record against the task at work | a cancel reaches the run that works |
| Run assembly (`core/runner.py`) | `prefill_len`, the registry, the bus of the run | `run_and_capture` | history read before a run and used after it | what is appended is what the run added |
| Agent loop (`core/loop.py`, `context.py`) | messages, step, status | plan, act, observe, finish | cut-off answers, tool calls under another stop reason, failing LLM, cancellation between a tool_use and its result | bounded steps; every tool_use the loop took up paired |
| Compaction (`core/compact/`) | none of its own | `maybe_compact`, `compact`, tool-result budget | replaces what others have indexed | nothing newer is dropped |
| Tool invocation (`core/tools/invocation.py`) | attempt count, events | lookup, validation, permission, `wait_for`, retries | a retry beside an attempt that still runs | no attempt without consent; one closing event |
| Builtin tools (`core/tools/builtin/`) | child processes, files | bash, read, write, list, notes | a child that outlives its call | at most one process per call |
| Event bus and writers (`core/events/`, `runs.py`) | subscriber list, open files | publish, subscribe, write | subscribers are awaited in order; they come and go during a publish | each run's file holds its own events, in order |
| IPC transport (`core/transport/`) | subscriptions, connections, pending calls of a client | subscribe, replay, broadcast, request and response | replay against live events, a client that does not read, a lost connection | no gap and no duplicate; one client cannot stop the others |
| Trace (`core/trace/`) | queue, its count of open tasks, the drain task | emit, drain, stop | a write that fails, a stop amid records | the file tells the calls in order; stop returns |
| MCP (`core/mcp/`) | child processes, ids, one lock and one line stream per server | connect, list, call, stop | answers that come after their timeout, servers that stop reading or fail halfway | an answer goes to its own request; every call returns whose write is not held; an exit closes what was registered |
| Subagents (`core/subagent/`, `agents/`) | the background registry of a run | `spawn_agent`, `agent_result` | a child inside a tool call that times out, is retried, cancelled | no child outlives the call that waits for it; every start has an end |
| LLM provider (`core/llm/`) | the stream of one call | `chat` | a stream that drops amid the answer | the answer is the text of one attempt |
| Configuration (`core/config.py`) | `RepoConfig` | `get_config` | five sources in layers | a setting has the value of its last source |
| Lifecycle (`CoreApp.run` in `core/app.py`) | MCP clients, the port, running runs | start, signal, shutdown | signals at any time, runs admitted during the shutdown, tasks of sessions that it does not know of | what a run of `agent.run` uses outlives it |
| TUI (`tui/`) | connection, `_busy`, the prompt, permission blocks and selects | connect, send, compact, decide, quit | four tasks on one connection that may break, events of other sessions and of a replayed run, turns that end in silence | a locked prompt has its reason; a pending request can be answered |
| Tasks (`core/task/`) | one file per task | create, update, get, list | read-modify-write over several files | the dependency graph is consistent |
| CLI, web client | connection, dialogs, current session | render, send, reconnect | late events, two dialogs | the dialog answers the request it shows |
| Skills, memory, wire protocol | none that changes | load | – | – |

How they interact: a client's line becomes a task of its own in the socket
server, which runs a handler of `app.py`. `session.send_message` creates a
background task and answers at once; that task calls `SessionManager`, which
takes the session's lock, appends the user's message and calls the runner. The
runner reads the thread, builds a context and runs the loop; the loop calls the
provider and `invoke_tool`; `invoke_tool` calls the permission gate, which
publishes `permission.requested` and waits for a client's `permission.respond`,
another handler. Everybody publishes on the event bus, which awaits each
subscriber in turn: the IPC broadcaster, then the file writers of the runs. A
`publish` is therefore an await at which anything may happen, also when nothing
seems to.

## 2. Plan

The order is that of the user's stakes: consent first, then the conversation,
then what a run does to it.

1. `PermissionManager`, and `Approval`, what it promises. *Done, proved.*
2. `SessionManager`, and `SessionThread`, what it promises. *Done, proved.*
3. `AgentLoop`: one session's runs, one after the other, which is what
   `OneTurnAtATime` and `PromptIsTheThread` of `SessionManager` guarantee.
   *Done, proved.*
4. `ToolInvocation`, which composes with `Approval` in the place of the gate.
   *Done, its safety proved.*
5. `EventFanout`: the bus, the broadcaster with its scopes, replay against live
   events, a full socket, the per-run writers. *Done, its safety proved.*
6. `McpClient`: one server's stream, ids, the lock, timers, late answers, and the
   retries of `invoke_tool` above it. *Done, its safety proved.*
7. `Subagents`: children inside tool calls, background children, the registry.
   *Done, its safety proved.*
8. `TraceWriter` and `LlmCall` on it; `Configuration` and `Lifecycle` on it;
   `SocketClient` and `Tui` on it. *Done, their safety proved.*
9. Next: the task files with their dependency graph (`TaskManager` is a
   sequential algorithm; one writer per file makes its order the interesting
   part), `ThreadStore`, the file operations inside an append and a rewrite with a
   crash between any two, and the web client's single dialog.

Every safety property that a run checks is a theorem (section 6). Theorem planned:
a refinement that replaces `Approval` by `PermissionManager` under `ToolInvocation`.

## 3. Modules

Each module's header names its source files; `PROJECT.json` maps every
definition to the lines it stands for.

### PermissionManager (with Approval)

`check_and_wait` is `CheckAuto` or `CheckAsk` up to its first await. The six
tiers are the operator `Verdict`; what regular expressions find in a command is
its `kind` (`deny_pattern`, `outside_cwd`, `allow_pattern`, `plain`), and the
cached answers are maps from tools (and sessions) to `allow` or `deny`. `timed` is
`timeout_s > 0`, one of `Timeouts`, which a restart may change; without it
nothing arms the timer of a wait. After
`CheckAsk` the call is `emitting` (awaiting the emitter), then `waiting`
(`Emitted`), then resumed with an answer, a timeout or a cancellation
(`ResumeAnswered`, `ResumeTimeout`, `ResumeCancelled`). `timerFired` and
`cancelled` record what has happened to the suspended coroutine; which of them
wins is the rule of `asyncio.wait_for`. `Respond` is `permission.respond`: any
string is accepted by the command, so `unrecognised` is a decision. `Restart`
loses what is in memory and reloads `policy.toml`, which `ApplyResponse` writes
with or without success. `Disconnect` calls `cancel_session` only if
`DisconnectHook`: `app.py` never does, the tests of the gate do. The main run
sets it, so that `cancel_session` is checked.

`Approval` is what a caller may rely on: a call is settled or opened, answered
at most once, and granted only on an allowing answer.

### SessionManager (with SessionThread)

One run id is one background task. `pc` is the await it is suspended on: `created`
(before its first step), `resuming`, `announcing`, `expanding`, `starting`,
`running`, `finishing`, `aborting`, `settling`, `reporting` (the wrapper's own
report of a cancellation). `holder` is the `asyncio.Lock`, which nobody ever waits
for: `send_message`, `compact`, `close` and `truncate` refuse a locked session
(`close` with `force` does not look). `cancelReq` is the set of tasks with a pending
`CancelledError`; `Cancelled` delivers it at whatever await the task is suspended
on, so a second one may hit the handling of the first. The thread is the sequence of
what each run left: its user message, a balanced part (`reply`), an assistant
message with unanswered tool calls and what follows it (`dangling`: the run was
cancelled before the results, or the calls came with another stop reason, which is
`AnswerStray` of `AgentLoop`). `Readable` is `read_messages` with
`_trim_orphan_tool_use`.

`SessionThread` knows nothing but the log and the turn that is open.

### AgentLoop

The runs of one session in sequence. A message is reduced to its role, the
`tool_use` ids and the `tool_result` ids it carries. `StartRun` is the append of
the user's message, the read of the history and `prefill_len`; `EndStep` is the
check of the termination (`end_turn` before `max_steps`); `AnswerCut` is a
response that ran out of tokens, with the synthetic results the loop writes;
`AnswerStray` one that names tools and stops for yet another reason, whose calls
are appended and never answered (`stray` is their history, `MaxStray` bounds it);
`CompactContext` replaces the context by the summary; `FinishRun` appends
`messages[prefill_len:]`. What the LLM answers (text, up to `MaxCalls` tool
calls under any stop reason, an exception) is a nondeterministic choice. `Truncate` is
`session.truncate` between two runs.

### ToolInvocation

`invoke_tool` with `Approval` in the place of the gate (`INSTANCE Approval`, so
that whatever implements it may be put there). `procs` counts the child
processes of a call. `bash` kills and awaits its child on its own timeout; the
`wait_for` of `invoke_tool` cancels `bash` without that, and the child lives on,
which is why a timeout must not be retried (`NoTwoProcesses`). `log` is the
sequence of events of the call, a failure with its attempt and its class: one
that will be retried does not close the call.

### EventFanout

A run's events are numbered; `last` is the one in the air, or the last one
published. `Publish` is a publication up to its first drain, `Drained` the end of
the drain of the first client of `todo`, and behind the last client the writers of
all open files (`Record`). `_subscriptions` and its copy in a broadcast are the sets
`subs` and `todo`, in the order `place` gave at the registration, which never
changes: a client subscribes once. A run's place `pc` is `between` two events,
`draining`, or `over`. A client's `ask` is the scope and the replay of its
`event.subscribe`; `Subscribe` reads and writes the history, `Replayed` is the end
of the drain behind it. A `stalled` client does not read and its buffers are full,
so that a drain towards it returns only when the connection is `lost`; `Close` is
the daemon noticing, which unsubscribes. `CancelRun` is a cancellation at a drain or
between two events, `Report` the `run.finished` of the wrapper in `app.py`. `early`
and `waited` are history variables. Topics are left out (every client takes all of
them), and so is how the events of different runs mix in one log.

### McpClient

One server and the callers that share its stream. A caller is a tool call, or
`boot`, the `start_all` that connects and lists the tools. `Ask` takes the
request's id and queues for the lock, `Acquire` gets it and writes the request;
the caller is `writing` until the drain returns (`Drained`), which no timer of the
client bounds: that is up to the server, or to a connection that is lost. `Read`
takes one line (`Take` is the `while` loop of `_call`), `ReadFails` is 30 s
without a line or the end of the stream, `GiveUp` a cancellation or the timer of
`invoke_tool`. `Fail` includes what `McpTool.invoke` and the retries of
`invoke_tool` make of an error. An answer is known by the attempt it is meant for
(`by`), which the code cannot see; that is how `AnswersTheCall` can compare. The
server is the environment: it answers in any order, late, never, with errors,
sends lines of its own (at most `MaxNoise`), and closes. A request of the server
under an id of its own (`ForeignIds`) that happens to be the caller's is taken for
an empty answer, as the code does.

### Subagents

Agents are numbered in the order of their run ids. A foreground child runs in its
parent's task: the parent is `calling` and `child` names it, and a cancellation
or a timer takes the whole `Chain`. A background child is in `registry` of the
run whose `AgentRunner` made it, so a later run of the session does not know it
(`Query` finds it only in `registry[runner[a]]`). An agent's loop is reduced to
steps with one tool call each. `StartRun` is `agent.run`, with a session of its own
for each run (`oneShot`), or `session.send_message`, whose runs follow each other
and are the ones `run.cancel` knows. `Shutdown` cancels and awaits the former;
the latter go with the event loop, like the background agents (`Exit`).
`SpawnFails` is a run directory that cannot be made behind `subagent.started`; the
call is then tried again (`Attempts`). A cancelled agent that was waiting for the
LLM is marked as failed (`Marked`). `AllowedBy` is what `AgentProfileLoader` makes of
a role's files; `OutOfIds` is a bound, not code: with all ids given a failed call
is not tried again.

### TraceWriter and LlmCall

`TraceWriter` is the queue with the count that `join` waits for, the drain task
with a write that may fail, and `stop` in three steps. `LlmCall` puts
`TracingProvider` and `AnthropicProvider` on it: a call streams tokens, each known
by its attempt and its place, loses its stream, backs off, starts over, is
refused, cancelled, or completes. `text` is `text_parts`, `shown` the `llm.token`
events. `emitted` and `due` are history.

### Configuration and Lifecycle

`Configuration` is `get_config` as operators: the files that are read, in order,
then `.env` and the shell; a value is known by the source that gave it, and three
settings stand for the three ways a setting can be read. `Lifecycle` is
`CoreApp.run`: `Load`, one `StartServer` per `[[mcp.servers]]` entry with its three
outcomes, `Bind`, then serving, and the shutdown in its order (`CancelRuns`,
`Gather`, `CloseClient`, `Exit`), while clients go on asking for runs. `AgentRuns`
and `SessionRuns` are kept apart: only the tasks of `agent.run` are in
`_running_runs`, so only they are cancelled and awaited (`doomed`). `open` are the
connections that exist, `clients` the dict by name; that the two differ is what
`ExitClosesClients` is about.

### SocketClient and Tui

`SocketClient` is one connection: the commands in `_pending`, the event loop that
settles them and dispatches events, and the end of the stream, which cancels them.
`lost` is a command sent behind the end of the event loop: it is registered where
nobody looks. `Tui` is the app on top: the `worker` that connects, subscribes,
creates a session and reconnects, the two workers that send a message and a
compaction, and the message pump, which handles keys and awaits the answer of a
decision (`PumpFree`). `selects` are the widgets in the order of the screen, each
with the request it answers and the connection it came on, `blocks` the requests the
log shows as pending. The rest of `Tui` is the daemon, as far as this client can
tell, and each action of it is mapped to the code it stands for. It serves each
command as a task of its own. `listening` is the subscription: from then on events
arrive, also before there is a session. `replay` is the request, if any, that the
run named by `--replay` tells of: every subscription delivers its lines
(`ServeSubscribe`, `Told`), before it is registered. `ServeSend` answers at once and
leaves a task (`queued`) that comes to the session's lock later (`TurnStarts`);
`holder` says who has the lock, a turn, a turn that has reported that the session
waits, or a compaction; and whether the session is shut. A task may be refused
there, or a turn end without a report (`TurnEnds`): `mute` remembers it.
`OtherClient` are the events of other sessions, and a session closed by another
client. `mixed`, `busyOn` and `mute` are history. What lies outside the repository
is taken from how it is used: an exception other than a caught one ends a Textual
worker, and a `CancelledError` in a handler ends the app's pump (`Decided`).

## 4. Runs

The passing runs need at most three minutes each with two workers.

| Run | Bounds | Distinct states | Shows |
|---|---|---|---|
| `permission_manager` | 2 requests, 2 sessions, 2 tools (bash asks, the other is allowed), every kind of command, every decision, one fickle client, timer on and off, restarts | 409,000 | safety of consent, `ImplementsApproval`, what ends every request |
| `session_manager` | 2 runs, 1 session of either mode, every kind of message, all commands, runs symmetric | 1,382,000 | the lock, the prompt, `meta.json`, reports, `ImplementsThread` |
| `session_liveness` | the same with 2 kinds of message, no symmetry | 398,000 | every task ends |
| `agent_loop` | 3 runs, 2 steps, 2 calls per answer, 2 calls under another stop reason | 2,138,000 | success, pairing, what a run adds to what |
| `tool_invocation` | 1 call, 3 attempts, with and without the gate | 1,840 | consent, one process, one closing event, the call ends |
| `event_fanout` | 2 runs with 3 and 2 events, a client that follows the first and one that replays it and follows all; the second may stall or go | 782,000 | order, no duplicates, files against clients, replay against live events, who can hold a run up |
| `mcp_client` | 2 calls with one retry, the boot, one foreign id (4, which a call also gets), 1 unasked line | 673,000 | answers go to their attempt, none is read away, calls return unless a drain is held |
| `subagents` | 3 agents, 2 runs (of `agent.run`, of a session), 2 steps, 1 retry; roles with a limit, with a broken file, and without one | 361,000 | nesting, no news behind the end, every start has an end |
| `llm_call` | 2 calls, 3 attempts, 1 token | 1,180,000 | one attempt's text, a faithful trace, stop returns |
| `lifecycle` | 4608 machines: 6 contents of each file, `REPO_CONFIG`, .env and shell; up to 4 servers with 2 names; 2 runs of `agent.run`, 1 of a session | 516,000 | the layers, the order of the shutdown |
| `tui` | 2 connections, 2 requests (symmetric), 2 messages or compactions, the quit: any four of these (`MaxEffort`); 2 keys on a dialog, 1 line under way when the daemon sends | 3,586,000 | locks with a reason, requests that can be answered, no waiter without a reader |
| `session_deaf` | as `session_manager` | – | refuted, see below |

Two requests or runs are enough for every race the code has between pairs: an answer
against a timer, a send against a cancel, a compaction against a send. A task only
ever concerns itself with the one on record before it, so a third run of a session
adds nothing to the lock; `AgentLoop` has three runs because it takes one to leave a
dangling call, one to be trimmed and one to read on. `EventFanout` needs two runs
for a publication during another's, an event between the first and the last (they
are cancelled differently), and a client that subscribes amid one. In `mcp_client`
two calls with two attempts each put a late answer of an own attempt and one of the
other's before a reader. Three agents make a run, its child and that child's child,
or two children at a time. One token tells the attempts apart, three attempts make a
middle one. Two connections give a client something to carry over (`busy`, blocks,
selects, a decision in the queue) and replay a run twice; any four of connections,
inputs, requests and the quit put a message beside a compaction, two messages behind
each other, or two requests on a second connection, and what needs five of them at
once is the theorems'. What does not depend on these numbers is proved where section
6 says so.

The symmetry of `session_manager` permutes `Runs` and that of `tui` permutes
`Requests`, which `Init` treats alike and no operator orders; these runs have no
liveness property.

`CHECK_DEADLOCK FALSE` is set where all messages the bounds allow have been sent
and everything has ended; there the system rests. The gate may always restart.

### Disagreements between code and documents

One is a run that TLC refutes with a trace of the code's own steps:

- `session_deaf`: a run leaves a `tool_use` without result, because it was cancelled
  or its calls came with another stop reason; the trim
  drops it *and everything behind it*, the next user message included
  (`NewMessageReachesModel`).

Five more are stated as properties in the modules. TLC refutes each when it is
named in the configuration of the module's run:

- `AcceptedAnswerHonoured` (`PermissionManager`): `respond` accepted
  `always_allow`, the timer fired before the waiter was resumed, the call is
  denied (`permissions/manager.py:137`).
- `DisconnectReleases` (`PermissionManager`, with `Timeouts = {FALSE}` and
  `DisconnectHook = FALSE`): with `timeout_s = 0` the request of a client that
  went away waits for ever, because nobody calls `cancel_session`
  (`permissions/manager.py:192` says it is there for that).
- `ClosedStaysClosed` (`SessionManager`): `session.close` with `force` during a
  run; when the run ends the session waits for input again.
- `WorkingTaskOnRecord` (`SessionManager`): the done-callback of an older task
  removes the newer task from `_session_tasks`; `run.cancel` then finds nothing
  although a run works (`docs/troubleshooting.md:243`).
- `CompactedRunsStayPaired` (`AgentLoop`): `prefill_len` is the length of a
  history that compaction has replaced; `messages[prefill_len:]` starts amid a
  pair.

Met while modelling, with the place in the model where the code's behaviour
stands:

- Tool calls that come with another stop reason than `tool_use` and `max_tokens`
  are appended without results (`core/loop.py:89`, `:100`), so the next request of
  the run holds an unpaired `tool_use`, although the comment there keeps the
  conversation balanced; the trim hides them, and all that follows them, from later
  runs. `AnswerStray` of `AgentLoop`, excepted in `RequestsArePaired`.
- `_write_line` awaits the drain of an MCP server under the lock, without a timer
  (`core/mcp/client.py:189`): a server that stops reading holds all its callers, each
  for as long as its own timer lets it, and a daemon that is still connecting does
  not come up. `Drained` of `McpClient`, excepted in `CallsReturn` by `HeldAtDrain`.
- The tasks of `session.send_message` are not in `_running_runs`: the shutdown neither
  cancels nor awaits them, and closes the MCP connections they work with
  (`core/app.py:481`). `CancelRuns` of `Lifecycle`, `Shutdown` of `Subagents`.
- A task cancelled before its first step reports nothing
  (`docs/troubleshooting.md:238` promises a `run.finished`); `Cancelled` of
  `SessionManager`. A message that is only `/` dies of an `IndexError` in the
  background task after it was appended (`session/manager.py:107`).
- An event whose publication is cancelled has reached some clients and never the
  file, and a replay may miss the event that is in the air, although `README.md:270`
  calls `events.jsonl` the complete stream to replay from. The file of a run also
  gets the events other runs publish while it is open; a run cancelled amid its
  `run.finished` is reported finished twice. `EventFanout`.
- A runner, and with it the registry of background subagents, lives for one run,
  although `core/runner.py:76` calls it shared across runs: a later run can neither
  query nor name a background agent of an earlier one; `Query` of `Subagents`. A
  failed background agent is reported by `agent_result` like one that ended well
  (`subagent/tool.py:328`). A role whose file cannot be parsed, or an empty
  `allowed_tools`, restricts nothing; `AllowedBy`.
- A server that was reached but failed `tools/list`, or whose name a later entry
  takes, is never closed, although `core/mcp/server.py:44` says all connections are;
  `StartServer` and `ExitClosesClients` of `Lifecycle`. A signal before the handlers
  are installed ends the daemon without any of the shutdown; `Signal`.
- The comment at `core/config.py:88` lets the shell win over `.env`; for the API
  keys it is the other way round; `FromEnv` of `Configuration`. A file named by
  `REPO_CONFIG` that does not exist is passed over silently; `ApplyFile`.
- A write error ends the trace's drain task, and if records are left `stop()` waits
  for ever; `StopReturns` of `LlmCall` excepts just that. Behind a dropped stream
  clients keep seeing the tokens of the first attempt, while the answer is the last
  one's; `Token`. A stream that ends without a final message loses the tool calls it
  carried; `Complete`.
- In the TUI: `_busy` survives a lost connection, so the prompt of the next one
  looks open and refuses every message; `waiting_for_input` of *any* session frees
  the prompt, and the next message then cancels the run at work; a denial removes
  the first select on the screen, not its own (`tui/app.py:1037`); a connection that
  breaks in the handshake ends the worker, although `tui/app.py:759` promises to
  reconnect; a command sent behind the end of the event loop is never answered; a
  decision under way when the connection is given up ends the app.
- A turn that ends in silence locks the TUI for good, since only
  `waiting_for_input`, a closed session or an error free it and the command was
  answered ok: the message `/`, which dies of an `IndexError`; one refused with
  `SESSION_BUSY` behind the client's own compaction, or because the turn before has
  published `waiting_for_input` and not yet let go of the lock; one refused with
  `SESSION_CLOSED`; a turn cancelled amid its reports. `TurnStarts` and `TurnEnds`
  of `Tui`, excepted in `LockedForAReason` by `mute`.
- With `--replay` every (re)connection delivers the run's `permission.requested`
  again, also of a request that was settled long ago, and each mounts another
  select; a select that stays behind its request is then what the next denial
  removes. `ServeSubscribe` and `PermissionRequested` of `Tui`.

## 5. Fairness

Weak fairness on every step of a task that the event loop owes (`RunStep`,
`LockStep`, the resumption of a coroutine whose Future is done, the timer). The
event loop runs every ready callback and the LLM and tool calls have timeouts,
so a step that stays enabled is taken. Weak fairness suffices since no step of a
task is disabled by another task for good. Clients owe nothing: no command, no
answer and no cancellation is fair.

In `SessionManager`, `PermissionManager` and `ToolInvocation` a publication ends:
the fairness of the tasks suspended on one excludes a client that never reads.
`EveryRequestSettles` therefore begins where `permission.requested` is out: before
that no timer is armed. It promises nothing for a gate without a timer either, unless
an answer, `cancel_session` or a cancellation has taken the request.
What a client that does not read can hold up is the subject of `EventFanout`. There the run's next event, the end of a drain
towards a client that reads or is gone, and the closing of a lost connection are
weakly fair; that a stalled client reads or goes is not, nor that a run begins.
`OnlyStalledClientsHold` says that nothing else can stop a publication.

In `McpClient` each caller's next step is weakly fair, its 30 s timer included
(`ReadFails`); nothing the server does is, the end of a drain (`Drained`) included, nor
are the callers' own timers (`GiveUp`): `CallsReturn` says that a call ends without
them, unless some drain is held for ever. In `Subagents` the
steps of agents are; runs, cancellations and the shutdown are not. In `LlmCall`
the drain task and `stop()` are; calls are not, so `StopReturns` holds however
many calls are under way. `Lifecycle` and `Tui` state safety only: what the user,
the daemon and the network owe each other there is nothing the code decides.

## 6. Proofs

The proof modules are checked by TLAPS from nothing, for all values of the
constants, from the named assumptions `PermissionAssumption`,
`AnswersAssumption`, `SessionAssumption`, `LoopAssumption`, `McpAssumption`,
`InvocationAssumption`, `LlmAssumption`, `SubagentAssumption`, `FanoutAssumption`,
`LifecycleAssumption` and `TuiAssumption`; they say that
special values differ from ordinary ones and that bounds are numbers.
`CallsFinite` and `ClientsFinite` say that callers and clients are finitely many:
the queue of a lock has a length, a list a first element. TLC
evaluates them too.

**`PermissionManagerProofs`.** `TypeCorrect`; then `GateInv`, which ties the
books together: a Future exists for what is in flight, an open Future belongs to
a pending entry, `answered` is what resolved the Future, an outcome that is an
answer is that answer. It is needed because `WaiterAnswerable` and
`ReturnsTheAnswer` speak about two of these variables and a step disturbs a
third. `ConsentInv` says that a cache entry goes back to somebody's last word.
From them: `ForcedAskHolds`, `WaiterAnswerableHolds`, `ReturnsTheAnswerHolds`,
`ConsentHolds`, `FileMatchesMemoryHolds`, `LastWordHolds_Spec`, and
`GateImplementsApproval`, by one lemma on each kind of step: one moves one
request's status, one answers a set of requests, one abandons a set.

**`SessionManagerProofs`.** The invariant `Inv` is `TypeOK`, the properties
`OneTurnAtATime`, `PromptIsTheThread`, `SummaryIsCurrent`, and two
strengthenings: `FinishedInv` (how many `run.finished` a task has published, by
where it stands; without it `TypeOK` is not inductive) and `MetaInv`
(`meta.json` may also lag while its run settles). Every action has its lemma.
`OneTurnAtATime` carries the others: a thread can change under a run only by
the run that holds the lock. `TurnsAreReportedHolds` and
`OneShotStaysClosedHolds` follow for each step, because a task's place changes
by its own steps only (`OwnSteps`). `SessionImplementsThread`: under `Inv` the
abstract turn of a session is `r` exactly when `r` is between its first and its
last append, so a step opens a turn, closes one, rewrites a free thread, or is a
stutter.

**`AgentLoopProofs`.** `LoopInv` is `TypeOK`, the budget, what the calls still
to do are, and that a context without them is balanced. `TrimBalances` states
what `_trim_orphan_tool_use` gives for any thread; it needs the largest element
of a bounded set (`Largest`), from well-founded descent instead of induction.

Its second half is about the thread. `HistoryInv` is `ContextExtendsHistory` message
by message, and that a run which waits for a tool has added a message of its own:
without that, `add_tool_result`, which rewrites the last message, could rewrite the
history. `RequestsArePaired` speaks of what is sent, but what breaks pairs is left
in the thread by an earlier run. `PairInv` therefore says what every thread keeps,
cancelled runs and stray calls included: it is `Orderly`, each result stands behind
its call and no call is made twice; and that ids tell their run and step, so that
new ones are new. `OrderlyPairs`: an orderly sequence in which no call but a stray
one waits is paired; `LoopInv` has that no other waits when the LLM is called, and a
stray call of an earlier run is behind the cut of `_trim_orphan_tool_use`.
`FinishRunPairs` is the step where two orderly sequences are joined; it needs that
what a run added starts with an answer of the LLM, not with results. Results:
`TypeCorrect`, `StepBudgetHolds`, `SuccessIsAnAnswerHolds`,
`ContextExtendsHistoryHolds`, `RequestsArePairedHolds`.

**`ToolInvocationProofs`.** Nothing one call does touches another (`OthersKept`), so
the invariant is one of a single call, `CallInv`: `TriesInv` (the back-off is
reached only with attempts left and no process), `ConsentInv` (whoever is behind
the gate was allowed, which the gate's action decided and later steps keep),
`LogInv` (what numbers the next failure, that a closing event is the last one and
comes with the call's end, and that it tells the outcome). Of the gate only
`Approval` is used. Results: `TypeCorrect`, `NoToolWithoutConsentHolds`,
`NoTwoProcessesHolds`, `ResultWasPublishedHolds`.

**`EdgeProofs`** holds the proofs about three specifications at the edge of the
daemon, which share no variable.

`LlmCall`: two invariants that share nothing but the step. `TextInv`: the
text is of the attempt under way, what was shown is of the first, and while that
is under way they are equal. `TraceInv`: what is in the file, in the drain's hand
and in the queue is, in this order, what was emitted, until a failed write
leaves the rest behind. Results: `AnswerIsOneAttemptHolds`,
`TraceIsFaithfulHolds`.

`Lifecycle`: three invariants again. `AfterRuns`: no run of `agent.run` that was
cancelled is at work behind the phase that awaits them;
`ConnectionsOutliveRunsHolds` is about the steps that close connections, which come
later. It says nothing of the tasks of sessions. `ConfigInv` ties the settings to the
layers that have been applied; `LastSourceGiven` shows that applying layers one on
the other gives each setting the value of the last that has one.
`ConnectionInv`: what is open is registered under its name, or its server failed
`tools/list`, or a later one took its name (`Registered`), and the loops over the
list stand where they say (`InTurn`). Results: `ConnectionsOutliveRunsHolds`,
`LastSourceWinsHolds`, `ExitClosesClientsHolds`.

`Tui`: `TuiInv`. `WaitersHaveAReader` needs `LinkInv`: a connection that stands has
its reader. The type invariant needs that on one connection a request is
told of once, by the replay or live, or two selects of one connection could be on the
screen (`RequestInv`; `NoTwins` keeps the wire from bringing it twice), and that every
task of the daemon was typed (`TurnsInv`). `LockedForAReason` is the deep one. That a
busy client's command is under way says little, for the command may come back in
order; `BusyInv` says what then has taken its place: the command at the daemon, an
error on the wire, a task in the queue, a turn, the event of its end, or the silence
of one (`mute`). For this the answers must be nobody else's: `AnswerInv` and
`NoTwins` say that the daemon owes an answer only to those who wait, and one.
`AloneIsAnswerable` follows from `BlockInv`: while `mixed` is false there is one block
at most, so that a denial which takes another's select leaves nothing pending.
Results: `TuiTypeCorrect`, `LockedForAReasonHolds`, `AloneIsAnswerableHolds`,
`WaitersHaveAReaderHolds`.

**`SubagentsProofs`.** `ForegroundNested` speaks of one child and its parent, but a
cancel takes a whole line of agents along, and `Chain` looks no further than
three. The invariant therefore says that an agent at work waits only for a child
at work (`Waits`), that an agent two levels down has no tool to spawn with and so
waits for nobody (`Family`, `Calls`), and that a new run id is nobody's parent
yet. `ChainIsWhole` is what it comes to: who is below a member of a chain is in
the chain. `Departure` is the step at which a set of agents leaves, be it empty,
one child, or all there are; `BirthStep` the one at which somebody arrives. Results:
`TypeCorrect`, `ForegroundNestedHolds`, `NoNewsAfterTheEndHolds`, and
`DepthIsBounded`, which no run states: at most three agents in a task.

**`McpClientProofs`.** `AnswersTheCall` is not inductive: it holds because an id
is given out once and goes with one attempt. `Inv` says that of every place an id
may be in: of the callers (`IdsAreOwn`), of the requests the server has
(`OwedMatch`), of the lines nobody has read (`StreamMatches`), and that whoever
asks has one (`AskersHaveIds`). `FreshIds` is the step that gives out an id,
`KeepsIds` all the others; a call's end, however it comes about, is `EndOfCall`.
`IdsMatch` is the invariant, `AnswersTheCallHolds` follows. It uses
`McpAssumption` only to know that the server's own ids are numbers, and holds for
any number of calls, retries and lines. `NoAnswerReadAway` is about the lock:
`LockInv` says who is in its queue and that the head alone reads, `OwnInv` that an
attempt's id is its own, `ReadInv` that whoever reads has not been answered yet.
`TypeCorrect` needs to count, because ids and attempts are bounded: `TriesInv` and
`CountInv` add up the attempts of all calls. Results: `AnswersTheCallHolds`,
`NoAnswerReadAwayHolds`, `TypeCorrect`.

**`EventFanoutProofs`.** `Told` is the heart: what is in a run's file a client was
told, but for one event it is excused for; and a client the broadcast has passed
has the event that is in the air. `FollowInv` excuses a client that was there from
the start for nothing and adds the converse, that of a run not cancelled it was
told nothing else but the event in the air; `ReplayInv` excuses one that replayed
for the event that was in the air when it was registered. `StreamInv` and `FileInv` put
the event in the air behind all others, in every log it is not in yet, whatever
replays were written before. `ClientInv` is why nobody is missed: whoever is not
subscribed is not done subscribing, or gone. `RunInv` says that no event
is numbered past the wrapper's `run.finished`, which needs that a run is cancelled
out of its last event once. Results: `TypeCorrect`, `OrderedAndOnceHolds`,
`FileTellsWhatClientsSawHolds`, `ReplayMissesOneAtMostHolds`.

**Only model-checked.** All liveness (`EveryRequestSettles`, `TasksEnd`,
`CallsEnd`, `OnlyStalledClientsHold`, `CallsReturn`, `ChildrenReported`,
`StopReturns`): fairness and ENABLED are beyond the prover's backends. So would be
what a recursive definition computes for every input, which needs induction with an
operator for its parameter; the modules have none. Nor do they use `SelectSeq` or a
fold where a theorem looks, of which no fact can be cited: a list whose order
matters at one place is a set with an order (`EventFanout`), the layers of
settings are applied one on the other by name (`Configuration`), and one element
leaves a list by `RemoveFirst` (`McpClient`, `Tui`).

The type invariants of `PermissionManager`, `SessionManager`, `AgentLoop`,
`ToolInvocation`, `Subagents` and `EventFanout` are theorems, no run names them any
more; nor `StepBudget`, `SummaryIsCurrent` and `OneShotStaysClosed`, for the same
reason. The type invariants of `LlmCall` and `Lifecycle` (`LifecycleTypeOK`)
document the state and hold in their runs' instances, but no run spends itself on
them.

Every property of a passing run also has a mutant in its module: a definition
changed as a plausible bug would change it (`Respond_…`, `Drained_…`), with which
TLC refutes the property. The mutants stand before the definition they vary and
no specification uses them.

## 7. Not modelled

- Text: prompts, regular expressions, formatting of events, TOML and JSON
  syntax. A property about them would be one about a parser.
- Pure input and output: framing of lines, terminal and DOM rendering, log
  files, reading skills and memory.
- The wire protocol's data classes and the document generated from them: they
  have no state; the modules use the commands' names.
- The provider's mapping of messages and content blocks to the API's types.
- Read-only commands (`trace.read`, `fs.*`, `skill.list`, `session.list`,
  `session.get_history`).
- Task files, the order of file operations inside a rewrite of a thread, and the
  web client: in the plan above. Two things
  seen while reading the web client, stated by no run: `rpc.js` sets its state to
  `connecting` before `onopen` asks whether it was `closed`, so the handlers of
  `onReconnect` are never called; and `permission.js` forgets the request on
  display when the answer to an earlier one returns.
- The CLI: its commands are the inputs of the modules that model the daemon.
- The TUI's slash completion and the widgets that only draw events.
