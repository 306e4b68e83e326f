-------------------------------- MODULE Tui --------------------------------
(***************************************************************************)
(* repo_claude/tui/app.py: the terminal client as a state machine.  Four   *)
(* tasks use one SocketClient: the worker that connects and reconnects,    *)
(* the workers that send a message and a compaction, and the App's message *)
(* pump, which handles keys and awaits the answer to a decision.  Events   *)
(* are handled by the event loop, between any two steps of the others.     *)
(*                                                                         *)
(* The user is the environment, and the daemon as far as this client can   *)
(* tell: its session, the lock on it, the requests of any session.  The    *)
(* subscription is global: events of other sessions arrive as well and are *)
(* not told apart.  What is drawn only (tokens, steps, tool blocks, usage) *)
(* is left out.                                                            *)
(***************************************************************************)
EXTENDS SocketClient, SequencesExt

CONSTANTS MaxInputs,  \* bound: messages and compactions typed
          MaxPicks,   \* bound: Decided messages queued
          MaxWire,    \* bound: lines under way when the daemon sends another
          MaxEffort   \* bound: connections, inputs, requests, the quit, together

Worker == "worker"   \* _socket_loop
Sender == "sender"   \* _do_send_message
Compactor == "compactor"   \* _do_compact
Pump == "pump"   \* the App's handlers

ASSUME TuiAssumption ==
    /\ Callers = {Worker, Sender, Compactor, Pump}
    /\ MaxConnections \in Nat \ {0}
    /\ MaxInputs \in Nat /\ MaxPicks \in Nat /\ MaxWire \in Nat \ {0}

VARIABLES
    app,       \* "running", "quitting", "exited"
    worker,    \* where _socket_loop stands
    starting,  \* send_message workers that have not run yet
    busy,      \* _busy
    busyOn,    \* the connection _busy was last set on
    prompt,    \* the input box by its title: "open", or why it is disabled
    blocks,    \* _pending_permission_blocks
    selects,   \* the PermissionSelects, in the order of the DOM
    decided,   \* Decided messages in the pump's queue, by their selects
    mixed,     \* two blocks were pending since the last time that none was
    inputs,    \* messages and compactions typed
    \* the daemon, for this connection
    listening, \* its subscription is registered
    queued,    \* tasks of accepted messages that have not come to the lock
    holder,    \* who has the lock of its session: a "turn", a turn that has
               \* "reported", a "compaction"; or "nobody", or it is "shut"
    mute,      \* a turn ended with nothing said since the last message was typed
    \* the daemon, for all
    request,   \* the permission requests
    replay     \* the one that is told of in the run that --replay names, if any

screenVars == <<blocks, selects, decided, mixed>>
uiVars == <<app, worker, starting, busy, busyOn, prompt, screenVars, inputs>>
sessionVars == <<queued, holder, mute>>
daemonVars == <<listening, sessionVars, request, replay>>
tuiVars == <<clientVars, uiVars, daemonVars>>

\* A PermissionSelect, by the request it answers and the connection it came on.
Selects == [id : Requests, on : 1..MaxConnections]

TuiTypeOK ==
    /\ ClientTypeOK
    /\ app \in {"running", "quitting", "exited"}
    /\ worker \in {"connecting", "subscribing", "creating", "ready", "sleeping",
                   "dead"}
    /\ starting \in BOOLEAN /\ busy \in BOOLEAN /\ mixed \in BOOLEAN
    /\ busyOn \in 0..MaxConnections
    /\ prompt \in {"open", "off", "working", "permission", "closed"}
    /\ blocks \subseteq Requests
    /\ selects \in Seq(Selects) /\ IsInjective(selects)
    /\ decided \in Seq(Selects) /\ Len(decided) <= MaxPicks
    /\ listening \in BOOLEAN /\ mute \in BOOLEAN
    /\ inputs \in 0..MaxInputs
    /\ queued \in 0..MaxInputs
    /\ holder \in {"nobody", "shut", "turn", "reported", "compaction"}
    /\ request \in [Requests -> {"new", "open", "denying", "settled", "denied"}]
    /\ replay \in Requests \cup {Nothing}

\* __init__ and on_mount.
TuiInit ==
    /\ ClientInit
    /\ app = "running" /\ worker = "connecting" /\ starting = FALSE
    /\ busy = FALSE /\ busyOn = 0 /\ prompt = "off"
    /\ blocks = {} /\ selects = <<>> /\ decided = <<>> /\ mixed = FALSE
    /\ inputs = 0 /\ listening = FALSE
    /\ queued = 0 /\ holder = "nobody" /\ mute = FALSE
    /\ request = [p \in Requests |-> "new"]
    /\ replay \in Requests \cup {Nothing}

HasClient  == worker \in {"subscribing", "creating", "ready"}   \* _client is set
HasSession == worker = "ready"                                  \* _session_id is set
Running    == app # "exited"

\* What the bound counts.
Effort == conn + inputs + Cardinality({p \in Requests : request[p] # "new"})
          + (IF app = "quitting" THEN 1 ELSE 0)

\* A connection that has no session yet.
NoSession ==
    /\ listening' = FALSE
    /\ queued' = 0 /\ holder' = "nobody" /\ mute' = FALSE

\* The process is gone and what it held with it.
Gone ==
    /\ app' = "exited" /\ worker' = "dead" /\ starting' = FALSE
    /\ busy' = FALSE /\ busyOn' = 0 /\ prompt' = "off"
    /\ blocks' = {} /\ selects' = <<>> /\ decided' = <<>> /\ mixed' = FALSE
    /\ conn' = 0 /\ inputs' = 0
    /\ NoSession /\ request' = [p \in Requests |-> "settled"] /\ replay' = Nothing
    /\ Close([c \in Callers |-> Idle])

(***************************************************************************)
(* The worker: _socket_loop.                                               *)
(***************************************************************************)

Connect ==
    /\ Running /\ worker = "connecting" /\ conn < MaxConnections /\ Effort < MaxEffort
    /\ Open(Worker, "subscribe")
    /\ worker' = "subscribing"
    /\ NoSession
    /\ UNCHANGED <<app, starting, busy, busyOn, prompt, screenVars, inputs,
                   request, replay>>

\* Nobody listens, try again later; and the sleep between two tries.
ConnectFails ==
    /\ Running /\ worker = "connecting" /\ worker' = "sleeping"
    /\ UNCHANGED <<clientVars, daemonVars, app, starting, busy, busyOn, prompt,
                   screenVars, inputs>>

Wake ==
    /\ Running /\ worker = "sleeping" /\ worker' = "connecting"
    /\ UNCHANGED <<clientVars, daemonVars, app, starting, busy, busyOn, prompt,
                   screenVars, inputs>>

\* The finally: _client and _session_id are dropped, the event loop is
\* cancelled with what it owed.  _busy, the permission blocks and the selects
\* stay; the daemon goes on with the session, for whoever listens.
Disconnect(next) ==
    /\ Close([CancelAll EXCEPT ![Worker] = Idle])
    /\ worker' = next
    /\ prompt' = "off"
    /\ NoSession
    /\ UNCHANGED <<conn, app, starting, busy, busyOn, screenVars, inputs, request,
                   replay>>

Subscribed ==
    /\ Running /\ worker = "subscribing" /\ call[Worker].state = "ok"
    /\ SendCommand(Worker, "create", Nothing)
    /\ worker' = "creating"
    /\ UNCHANGED <<daemonVars, app, starting, busy, busyOn, prompt, screenVars,
                   inputs>>

Created ==
    /\ Running /\ worker = "creating" /\ call[Worker].state = "ok"
    /\ Resume(Worker)
    /\ worker' = "ready"
    /\ prompt' = "open"
    /\ UNCHANGED <<daemonVars, app, starting, busy, busyOn, screenVars, inputs,
                   conn, link, loop, asked, wire>>

\* Only an IpcError is caught: a future that is cancelled, or a connection
\* that is reset, ends the worker for good.
HandshakeFails ==
    /\ Running /\ worker \in {"subscribing", "creating"}
    /\ \/ call[Worker].state = "error" /\ Disconnect("sleeping")
       \/ call[Worker].state \in {"cancelled", "oserror"} /\ Disconnect("dead")

\* await loop_task returns.
LoopEnded ==
    /\ Running /\ worker = "ready" /\ loop = "ended"
    /\ Disconnect("sleeping")

(***************************************************************************)
(* The event loop: _dispatch and _handle_event_inner.                      *)
(***************************************************************************)

Answer(line) ==
    /\ Settle(line)
    /\ UNCHANGED <<busy, prompt, screenVars>>

\* Mutant: only an open prompt is a sign of the end.
WaitingForInput_KeepsBusy ==
    /\ prompt' = "open"
    /\ UNCHANGED <<busy, call, screenVars>>

\* Whatever session waits.
WaitingForInput ==
    /\ busy' = FALSE /\ prompt' = "open"
    /\ UNCHANGED <<call, screenVars>>

\* Whatever session was closed.
SessionClosed ==
    /\ busy' = FALSE /\ prompt' = "closed"
    /\ UNCHANGED <<call, screenVars>>

\* Mutant: one select in the log and one above the prompt.
PermissionRequested_TwoSelects(p) ==
    /\ blocks' = blocks \cup {p}
    /\ selects' = selects \o <<[id |-> p, on |-> conn], [id |-> p, on |-> conn]>>
    /\ mixed' = (mixed \/ blocks \ {p} # {})
    /\ prompt' = "permission"
    /\ UNCHANGED <<busy, call, decided>>

\* A block in the log, which takes the place of an older one of the request, and
\* the select that answers it, which does not.
PermissionRequested(p) ==
    /\ blocks' = blocks \cup {p}
    /\ selects' = Append(selects, [id |-> p, on |-> conn])
    /\ mixed' = (mixed \/ blocks \ {p} # {})
    /\ prompt' = "permission"
    /\ UNCHANGED <<busy, call, decided>>

Tails(s) == IF s = <<>> THEN <<>> ELSE Tail(s)
Reopen(rest) == prompt' = IF rest = {} THEN "open" ELSE prompt

Unblock(p) ==
    /\ blocks' = blocks \ {p}
    /\ mixed' = (mixed /\ blocks \ {p} # {})

\* Mutant: a request that was answered here is looked for on the screen.
PermissionDenied_Unguarded(p) ==
    /\ Unblock(p)
    /\ selects' = Tails(selects)
    /\ IF p \in blocks THEN Reopen(blocks \ {p}) ELSE UNCHANGED prompt
    /\ UNCHANGED <<busy, call, decided>>

\* The select that goes is the first one on the screen, whosever it is.
PermissionDenied(p) ==
    /\ Unblock(p)
    /\ IF p \in blocks THEN selects' = Tails(selects) /\ Reopen(blocks \ {p})
                       ELSE UNCHANGED <<selects, prompt>>
    /\ UNCHANGED <<busy, call, decided>>

Handle(line) ==
    \/ line.type \in {"ok", "error"} /\ Answer(line)
    \/ line.type = "waiting_for_input" /\ WaitingForInput
    \/ line.type = "closed" /\ SessionClosed
    \/ line.type = "requested" /\ PermissionRequested(line.id)
    \/ line.type = "denied" /\ PermissionDenied(line.id)

ReadLine ==
    /\ Running /\ loop = "reading" /\ wire # <<>>
    /\ Handle(Head(wire))
    /\ wire' = Tail(wire)
    /\ UNCHANGED <<conn, link, loop, asked, app, worker, starting, busyOn,
                   inputs, daemonVars>>

EndOfStream ==
    /\ Running /\ StreamEnds
    /\ UNCHANGED <<uiVars, daemonVars>>

(***************************************************************************)
(* Messages and compactions.                                               *)
(***************************************************************************)

\* The pump handles a key only when it does not await a command.
PumpFree == app = "running" /\ call[Pump].state = "none"

\* on_chat_text_area_submitted; a busy or a disconnected client says so.
Submit ==
    /\ PumpFree /\ inputs < MaxInputs /\ Effort < MaxEffort
    /\ prompt = "open" /\ HasSession /\ ~busy
    /\ call[Sender].state = "none" /\ ~starting
    /\ busy' = TRUE /\ busyOn' = conn /\ prompt' = "working"
    /\ starting' = TRUE
    /\ inputs' = inputs + 1
    /\ mute' = FALSE
    /\ UNCHANGED <<clientVars, listening, queued, holder, request, replay, app,
                   worker, screenVars>>

\* The worker runs later, on the client and the session of that moment.
StartSend ==
    /\ Running /\ starting
    /\ starting' = FALSE
    /\ IF HasClient
       THEN SendCommand(Sender, "send", IF HasSession THEN Session ELSE Nothing)
       ELSE UNCHANGED clientVars
    /\ UNCHANGED <<daemonVars, app, worker, busy, busyOn, prompt, screenVars,
                   inputs>>

\* An error frees the prompt; a cancelled future ends the worker as it is.
SendReturns ==
    /\ Running /\ Done(Sender) /\ Resume(Sender)
    /\ IF call[Sender].state \in {"error", "oserror"}
       THEN busy' = FALSE /\ prompt' = "open"
       ELSE UNCHANGED <<busy, prompt>>
    /\ UNCHANGED <<daemonVars, app, worker, starting, busyOn, screenVars, inputs,
                   conn, link, loop, asked, wire>>

Compact ==
    /\ PumpFree /\ inputs < MaxInputs /\ Effort < MaxEffort
    /\ prompt = "open" /\ HasSession /\ ~busy /\ call[Compactor].state = "none"
    /\ SendCommand(Compactor, "compact", Nothing)
    /\ inputs' = inputs + 1
    /\ UNCHANGED <<daemonVars, app, worker, starting, busy, busyOn, prompt,
                   screenVars>>

CompactReturns ==
    /\ Running /\ Done(Compactor) /\ Resume(Compactor)
    /\ UNCHANGED <<uiVars, daemonVars, conn, link, loop, asked, wire>>

(***************************************************************************)
(* Permission.                                                             *)
(***************************************************************************)

\* A key on the PermissionSelect that has the focus; the widget stays until
\* its message is handled.
Pick(i) ==
    /\ PumpFree /\ Len(decided) < MaxPicks
    /\ i \in DOMAIN selects
    /\ decided' = Append(decided, selects[i])
    /\ UNCHANGED <<clientVars, daemonVars, app, worker, starting, busy, busyOn,
                   prompt, blocks, selects, mixed, inputs>>

\* on_key of the App, when no select has the focus: the key is for the first.
PickFirst == blocks # {} /\ Pick(1)

\* on_permission_select_decided, to its await.
Decide ==
    /\ PumpFree /\ decided # <<>>
    /\ LET p == Head(decided).id IN
       /\ selects' = RemoveFirst(selects, Head(decided))
       /\ Unblock(p)
       /\ IF HasClient
          THEN /\ SendCommand(Pump, "respond", p)
               /\ UNCHANGED <<prompt, decided>>
          ELSE /\ decided' = Tail(decided)
               /\ Reopen(blocks \ {p})
               /\ UNCHANGED clientVars
    /\ UNCHANGED <<daemonVars, app, worker, starting, busy, busyOn, inputs>>

\* The rest.  A cancelled future is no Exception: it ends the App's pump.
Decided ==
    /\ Running /\ Done(Pump) /\ call[Pump].method = "respond"
    /\ IF call[Pump].state = "cancelled" THEN Gone
       ELSE /\ Resume(Pump)
            /\ decided' = Tail(decided)
            /\ Reopen(blocks)
            /\ UNCHANGED <<daemonVars, app, worker, starting, busy, busyOn, blocks,
                           selects, mixed, inputs, conn, link, loop, asked, wire>>

(***************************************************************************)
(* action_quit.                                                            *)
(***************************************************************************)

Quit ==
    /\ PumpFree /\ Effort < MaxEffort
    /\ IF HasSession
       THEN /\ app' = "quitting" /\ SendCommand(Pump, "close", Nothing)
            /\ UNCHANGED <<daemonVars, worker, starting, busy, busyOn, prompt,
                           screenVars, inputs>>
       ELSE Gone

\* The command returns, whatever it came to.
CloseReturns == app = "quitting" /\ Done(Pump) /\ Gone

(***************************************************************************)
(* The daemon.                                                             *)
(***************************************************************************)

Room == Len(wire) < MaxWire

\* An event, to whoever has subscribed.
Publish(line) == IF listening THEN Send(line) ELSE UNCHANGED wire

\* What is told of the request in the run that is replayed: the lines on
\* permission in its event file, which may still grow.
Told ==
    LET ask == [type |-> "requested", id |-> replay]
        end == [type |-> "denied", id |-> replay]
    IN {<<>>} \cup (IF replay = Nothing \/ request[replay] = "new" THEN {} ELSE {<<ask>>})
              \cup (IF replay = Nothing \/ request[replay] # "denied" THEN {}
                    ELSE {<<ask, end>>})

\* event.subscribe: first the lines of the file, then the subscription; what is
\* published in between is not told.
ServeSubscribe(c) ==
    /\ call[c].method = "subscribe"
    /\ \E told \in Told : wire' = wire \o Append(told, [type |-> "ok", to |-> c])
    /\ listening' = TRUE
    /\ UNCHANGED <<sessionVars, request>>

\* session.send_message: a task, and the answer at once.
ServeSend(c) ==
    /\ call[c].method = "send" /\ call[c].arg = Session
    /\ queued' = queued + 1
    /\ Send([type |-> "ok", to |-> c])
    /\ UNCHANGED <<listening, holder, mute, request>>

\* session.close, unless the session is busy.
ServeClose(c) ==
    /\ call[c].method = "close" /\ holder \in {"nobody", "shut"}
    /\ holder' = "shut"
    /\ wire' = wire \o <<[type |-> "closed"], [type |-> "ok", to |-> c]>>
    /\ UNCHANGED <<listening, queued, mute, request>>

\* permission.respond forgives an id that nobody waits for.
ServeRespond(c) ==
    /\ call[c].method = "respond"
    /\ \E s \in {"settled", "denying"} :
          request' = IF request[call[c].arg] # "open" THEN request
                     ELSE [request EXCEPT ![call[c].arg] = s]
    /\ Send([type |-> "ok", to |-> c])
    /\ UNCHANGED <<listening, sessionVars>>

\* A file that cannot be read or made, a session that is busy or unknown.
Refuse(c) ==
    /\ \/ call[c].method \in {"subscribe", "create", "compact"}
       \/ call[c].method = "send" /\ call[c].arg # Session
       \/ call[c].method = "close" /\ holder \notin {"nobody", "shut"}
    /\ c = Compactor => holder # "compaction"
    /\ Send([type |-> "error", to |-> c])
    /\ UNCHANGED <<listening, sessionVars, request>>

\* One command, as a task of its own: in any order.
Serve(c) ==
    /\ Running /\ c \in asked /\ Room
    /\ \/ ServeSubscribe(c) \/ ServeSend(c) \/ ServeClose(c) \/ ServeRespond(c)
       \/ Refuse(c)
       \/ /\ call[c].method = "create"
          /\ Send([type |-> "ok", to |-> c])
          /\ UNCHANGED <<listening, sessionVars, request>>
    /\ asked' = asked \ {c}
    /\ UNCHANGED <<conn, link, loop, call, replay, uiVars>>

\* The lock is let go of; meanwhile another client may have closed the session
\* by force.
Released == holder' \in {"nobody", "shut"}

\* session.compact answers at its end; till then it has the lock.
CompactionStarts ==
    /\ Running /\ Compactor \in asked /\ holder \in {"nobody", "shut"}
    /\ holder' = "compaction"
    /\ UNCHANGED <<clientVars, uiVars, listening, queued, mute, request, replay>>

CompactionEnds ==
    /\ Running /\ holder = "compaction" /\ Compactor \in asked /\ Room
    /\ Released
    /\ asked' = asked \ {Compactor}
    /\ \E t \in {"ok", "error"} : Send([type |-> t, to |-> Compactor])
    /\ UNCHANGED <<conn, link, loop, call, uiVars, listening, queued, mute, request,
                   replay>>

\* The task of a message comes to the lock.  A session that is locked or closed
\* refuses it with an error that nobody hears, and a later message cancels one
\* that has not begun.
TurnStarts ==
    /\ Running /\ queued > 0
    /\ queued' = queued - 1
    /\ \/ /\ holder = "nobody"
          /\ holder' = "turn" /\ UNCHANGED mute
       \/ /\ holder # "nobody" \/ queued > 1
          /\ mute' = (mute \/ busy) /\ UNCHANGED holder
    /\ UNCHANGED <<clientVars, uiVars, listening, request, replay>>

\* A run reports that the session waits, and has the lock until its event is
\* out; a cancelled one has let go of it.
TurnReports ==
    /\ Running /\ holder = "turn" /\ Room
    /\ holder' = "reported" \/ Released
    /\ Send([type |-> "waiting_for_input"])
    /\ UNCHANGED <<conn, link, loop, call, asked, uiVars, listening, queued, mute,
                   request, replay>>

\* Or it raises: a message "/" has no name of a skill, a file cannot be written,
\* a cancellation comes amid the reports.
TurnEnds ==
    /\ Running /\ holder \in {"turn", "reported"}
    /\ Released
    /\ mute' = (mute \/ (busy /\ holder = "turn"))
    /\ UNCHANGED <<clientVars, uiVars, listening, queued, request, replay>>

\* Only a replay makes a difference between the two.
Denied(p) == IF p = replay THEN "denied" ELSE "settled"

\* Of this session's run, of a subagent in the background, of another session.
\* One that nobody here will ever hear of is left out.
Ask(p) ==
    /\ Running /\ request[p] = "new" /\ (listening \/ p = replay)
    /\ Effort < MaxEffort /\ Room
    /\ request' = [request EXCEPT ![p] = "open"]
    /\ Publish([type |-> "requested", id |-> p])
    /\ UNCHANGED <<conn, link, loop, call, asked, listening, sessionVars, replay,
                   uiVars>>

\* The timer, another client's answer, or a daemon that restarts.  A grant is
\* an event the client does not handle.
SettleElsewhere(p) ==
    /\ Running /\ request[p] = "open" /\ Room
    /\ \/ request' = [request EXCEPT ![p] = "settled"] /\ UNCHANGED wire
       \/ /\ request' = [request EXCEPT ![p] = Denied(p)]
          /\ Publish([type |-> "denied", id |-> p])
    /\ UNCHANGED <<conn, link, loop, call, asked, listening, sessionVars, replay,
                   uiVars>>

\* The waiter of a request that was denied here says so.
Deny(p) ==
    /\ Running /\ request[p] = "denying" /\ Room
    /\ request' = [request EXCEPT ![p] = Denied(p)]
    /\ Publish([type |-> "denied", id |-> p])
    /\ UNCHANGED <<conn, link, loop, call, asked, listening, sessionVars, replay,
                   uiVars>>

\* Another session waits or is closed; or another client closes this one.
OtherClient ==
    /\ Running /\ listening /\ Room
    /\ \/ Send([type |-> "waiting_for_input"]) /\ UNCHANGED holder
       \/ /\ Send([type |-> "closed"])
          /\ \/ UNCHANGED holder
             \/ HasSession /\ holder = "nobody" /\ holder' = "shut"
    /\ UNCHANGED <<conn, link, loop, call, asked, listening, queued, mute,
                   request, replay,
                   uiVars>>

ConnectionBreaks == Running /\ Break /\ UNCHANGED <<uiVars, daemonVars>>

-----------------------------------------------------------------------------
SocketLoop == \/ Connect \/ ConnectFails \/ Wake \/ Subscribed \/ Created
              \/ HandshakeFails \/ LoopEnded
EventLoop  == ReadLine \/ EndOfStream
Handlers   == StartSend \/ SendReturns \/ CompactReturns \/ Decide \/ Decided \/ CloseReturns
User       == Submit \/ Compact \/ Quit \/ PickFirst \/ \E i \in DOMAIN selects : Pick(i)
Daemon     == \/ \E c \in Callers : Serve(c)
              \/ CompactionStarts \/ CompactionEnds
              \/ TurnStarts \/ TurnReports \/ TurnEnds
              \/ OtherClient \/ ConnectionBreaks
              \/ \E p \in Requests : Ask(p) \/ SettleElsewhere(p) \/ Deny(p)

TuiNext == SocketLoop \/ EventLoop \/ Handlers \/ User \/ Daemon

TuiSpec == TuiInit /\ [][TuiNext]_tuiVars

-----------------------------------------------------------------------------
OnTheWire(type) == \E i \in DOMAIN wire : wire[i].type = type

(***************************************************************************)
(* While the connection a message was typed on stands, a client that calls *)
(* itself busy has something coming that will free it: the command under   *)
(* way, a task of the daemon, or the event that reports its end - unless   *)
(* a turn ended in silence.  And a prompt that is closed is closed for     *)
(* what its title says: the pump still awaits the decision's answer, a     *)
(* block is pending, or the agent works.                                   *)
(* (on_chat_text_area_submitted, on_permission_select_decided, the events) *)
(***************************************************************************)
LockedForAReason ==
    worker = "ready" /\ link = "up" =>
        /\ busy /\ busyOn = conn =>
              starting \/ call[Sender].state # "none" \/ queued > 0 \/ holder = "turn"
              \/ OnTheWire("waiting_for_input") \/ mute
        /\ prompt = "working" => busy
        /\ prompt = "permission" => blocks # {} \/ call[Pump].state # "none"
        /\ prompt # "off"

(***************************************************************************)
(* Unless two requests have been pending together since the screen was     *)
(* last free of them, a request that is pending can be answered: a select  *)
(* of its own is on the screen, whatever other answers, denials, double    *)
(* keys, lost connections and replays went before, and whatever selects    *)
(* those left behind.  (The denial of one of two takes the first select,   *)
(* not its own: app.py:1036.)                                              *)
(***************************************************************************)
AloneIsAnswerable ==
    mixed \/ \A p \in blocks : \E i \in DOMAIN selects : selects[i].id = p

(***************************************************************************)
(* Whoever awaits a command's answer awaits a reader that still runs: when *)
(* the stream ends or the worker gives the connection up, every future is  *)
(* cancelled.  Only a command sent after that hangs ("lost").              *)
(* (run_event_loop, socket_client.py:79)                                   *)
(***************************************************************************)
WaitersHaveAReader ==
    \A c \in Callers : call[c].state = "waiting" => loop = "reading"

=============================================================================
