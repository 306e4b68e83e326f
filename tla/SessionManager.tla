--------------------------- MODULE SessionManager ---------------------------
(***************************************************************************)
(* Sessions, their locks and the tasks that run their messages             *)
(* (repo_claude/core/session/manager.py, session/store.py, the session     *)
(* handlers of core/app.py, the session side of core/runner.py).           *)
(*                                                                         *)
(* session.send_message creates a background task and answers at once; the *)
(* task holds the session's asyncio.Lock from its first step until the run *)
(* is over.  Code between two awaits is one action.  bus.publish is an     *)
(* await that suspends when a subscriber's socket is full, so other tasks  *)
(* and commands may come in at every one of them.  A task that is being    *)
(* cancelled gets CancelledError at the await it is suspended on, the next *)
(* time the loop runs it.                                                  *)
(***************************************************************************)
EXTENDS Naturals, Sequences, FiniteSets

CONSTANTS
    Runs,       \* run ids, one per task
    Sessions,
    NoRun,      \* no run: a free lock, no entry in _session_tasks
    Contents,   \* the messages clients send, see ContentNames (bounds the model)
    Commands    \* the other commands clients send (bounds the model)

\* "slash" is a message that is nothing but "/" and spaces.
ContentNames == {"text", "skill", "slash"}

ASSUME SessionAssumption ==
    /\ Runs \cap {NoRun, "compact", "close"} = {}
    /\ NoRun \notin {"compact", "close"}
    /\ Contents \subseteq ContentNames
    /\ Commands \subseteq {"cancel", "close", "force", "compact", "truncate",
                    "shutdown"}

\* What a run leaves in the thread: the user's message; "reply", the balanced
\* part of the run's own messages; "dangling", an assistant message whose
\* tool_use never got its tool_result, with all that follows it in the run.
\* NoRun owns the summary.
User(r)     == [run |-> r, part |-> "user"]
Reply(r)    == [run |-> r, part |-> "reply"]
Dangling(r) == [run |-> r, part |-> "dangling"]
Items == [run : Runs \cup {NoRun}, part : {"user", "reply", "dangling"}]

VARIABLES
    oneShot,     \* the sessions of mode "one_shot"; the others are "chat"
    sess, content, \* the session and the message each run is asked for
    wrapped,     \* the runs asked for by session.send_message, which run
                 \* inside _run_session_task (agent.run's do not)
                 \* (these four are fixed in Init)
    pc,          \* where each run's task stands
    cancelReq,   \* runs whose task has a CancelledError coming
    prompt,      \* the history run_and_capture read for the run
    finished,    \* how many run.finished events the run has published
    sessionTask, \* _session_tasks
    holder,      \* who holds each session's lock
    status, meta,    \* session.status, and the one in meta.json
    thread,      \* thread.jsonl
    summarised,  \* the messages the compaction in progress has read
    stopping,    \* the daemon got SIGINT or SIGTERM
    cutOff       \* history: runs cancelled after they set the final status

asked == <<oneShot, sess, content, wrapped>>
vars == <<pc, asked, cancelReq, prompt, finished, sessionTask,
          holder, status, meta, thread, summarised, stopping, cutOff>>

PCs == {"idle", "creating", "created", "resuming", "announcing", "expanding",
        "starting", "running", "finishing", "aborting", "settling",
        "reporting", "ended", "gone"}

TypeOK ==
    /\ oneShot \subseteq Sessions
    /\ pc \in [Runs -> PCs]
    /\ sess \in [Runs -> Sessions]
    /\ content \in [Runs -> Contents]
    /\ wrapped \in SUBSET Runs
    /\ cancelReq \in SUBSET Runs
    /\ prompt \in [Runs -> Seq(Items)]
    /\ finished \in [Runs -> 0..2]
    /\ sessionTask \in [Sessions -> Runs \cup {NoRun}]
    /\ holder \in [Sessions -> Runs \cup {NoRun, "compact", "close"}]
    /\ status \in [Sessions -> {"none", "active", "waiting_for_input", "closed"}]
    /\ meta \in [Sessions -> {"none", "active", "waiting_for_input", "closed"}]
    /\ thread \in [Sessions -> Seq(Items)]
    /\ summarised \in [Sessions -> Seq(Items)]
    /\ stopping \in BOOLEAN
    /\ cutOff \in SUBSET Runs

Init ==
    /\ oneShot \in SUBSET Sessions
    /\ pc = [r \in Runs |-> "idle"]
    /\ sess \in [Runs -> Sessions]
    /\ content \in [Runs -> Contents]
    /\ wrapped \in SUBSET Runs
    /\ \A r \in Runs \ wrapped : sess[r] \in oneShot
    /\ cancelReq = {}
    /\ prompt = [r \in Runs |-> <<>>]
    /\ finished = [r \in Runs |-> 0]
    /\ sessionTask = [s \in Sessions |-> NoRun]
    /\ holder = [s \in Sessions |-> NoRun]
    /\ status = [s \in Sessions |-> "none"]
    /\ meta = [s \in Sessions |-> "none"]
    /\ thread = [s \in Sessions |-> <<>>]
    /\ summarised = [s \in Sessions |-> <<>>]
    /\ stopping = FALSE
    /\ cutOff = {}

InTurn(r) == pc[r] \in {"resuming", "announcing", "expanding", "starting",
                       "running", "finishing", "aborting", "settling"}
Suspended(r) == InTurn(r) \/ pc[r] = "reporting"
Live(r)  == Suspended(r) \/ pc[r] = "created"
Cancelling(r) == r \in cancelReq

(***************************************************************************)
(* read_messages: the thread without the first unanswered tool_use and     *)
(* everything behind it (_trim_orphan_tool_use).                           *)
(***************************************************************************)
Intact(q, k) == \A i \in 1..k : q[i].part # "dangling"
Readable(q)  == SubSeq(q, 1, Cardinality({k \in 1..Len(q) : Intact(q, k)}))

\* create: a fresh id, which no client has used, and its meta.json.
CreateSession(s) ==
    /\ status[s] = "none"
    /\ \A r \in Runs : sess[r] = s => pc[r] = "idle"
    /\ status' = [status EXCEPT ![s] = "active"]
    /\ meta' = [meta EXCEPT ![s] = "active"]

\* session.create
Create(s) ==
    /\ CreateSession(s)
    /\ UNCHANGED <<pc, asked, cancelReq, prompt, finished, sessionTask, holder,
                   thread, summarised, stopping, cutOff>>

\* agent.run creates a one_shot session, announces it (an await) ...
AgentRun(r) ==
    /\ pc[r] = "idle" /\ r \notin wrapped
    /\ CreateSession(sess[r])
    /\ pc' = [pc EXCEPT ![r] = "creating"]
    /\ UNCHANGED <<asked, cancelReq, prompt, finished, sessionTask, holder,
                   thread, summarised, stopping, cutOff>>

\* ... and then starts the task, which _session_tasks does not know.
AgentRunSpawn(r) ==
    /\ pc[r] = "creating"
    /\ pc' = [pc EXCEPT ![r] = "created"]
    /\ UNCHANGED <<asked, cancelReq, prompt, finished, sessionTask, holder,
                   status, meta, thread, summarised, stopping, cutOff>>

\* session.send_message: cancel the task on record if it is not done, create
\* the new one, put it on record.  The session is not looked up.
Send(r) ==
    /\ pc[r] = "idle" /\ r \in wrapped
    /\ LET prev == sessionTask[sess[r]] IN
       cancelReq' = IF prev # NoRun /\ Live(prev) THEN cancelReq \cup {prev}
                                                 ELSE cancelReq
    /\ pc' = [pc EXCEPT ![r] = "created"]
    /\ sessionTask' = [sessionTask EXCEPT ![sess[r]] = r]
    /\ UNCHANGED <<asked, prompt, finished, holder, status, meta, thread,
                   summarised, stopping, cutOff>>

\* run.cancel: cancel the task on record, if there is one and it is not done.
CancelRun(s) ==
    /\ sessionTask[s] # NoRun
    /\ Live(sessionTask[s]) /\ ~Cancelling(sessionTask[s])
    /\ cancelReq' = cancelReq \cup {sessionTask[s]}
    /\ UNCHANGED <<pc, asked, prompt, finished, sessionTask, holder, status,
                   meta, thread, summarised, stopping, cutOff>>

\* The shutdown cancels the tasks of agent.run, and only those.
Shutdown ==
    /\ ~stopping
    /\ stopping' = TRUE
    /\ cancelReq' = cancelReq \cup {r \in Runs \ wrapped : Live(r)}
    /\ UNCHANGED <<pc, asked, prompt, finished, sessionTask, holder, status,
                   meta, thread, summarised, cutOff>>

\* The task's first step is refused: session unknown, busy or closed.  The
\* HandlerError ends the task, and nobody is told.
Refused(r) == LET s == sess[r] IN status[s] \in {"none", "closed"} \/ holder[s] # NoRun

\* Mutant: only a busy session refuses; any other task waits for its session.
StartRefused_BusyOnly(r) ==
    /\ pc[r] = "created" /\ ~Cancelling(r)
    /\ holder[sess[r]] # NoRun
    /\ pc' = [pc EXCEPT ![r] = "ended"]
    /\ UNCHANGED <<asked, cancelReq, prompt, finished, sessionTask, holder,
                   status, meta, thread, summarised, stopping, cutOff>>

StartRefused(r) ==
    /\ pc[r] = "created" /\ ~Cancelling(r)
    /\ Refused(r)
    /\ pc' = [pc EXCEPT ![r] = "ended"]
    /\ UNCHANGED <<asked, cancelReq, prompt, finished, sessionTask, holder,
                   status, meta, thread, summarised, stopping, cutOff>>

AppendUser(r) ==
    /\ pc' = [pc EXCEPT ![r] = "announcing"]
    /\ thread' = [thread EXCEPT ![sess[r]] = Append(@, User(r))]

\* The task takes the lock; a session that waits for input is announced as
\* resumed before the message is appended.
Start(r) ==
    /\ pc[r] = "created" /\ ~Cancelling(r)
    /\ ~Refused(r)
    /\ holder' = [holder EXCEPT ![sess[r]] = r]
    /\ IF status[sess[r]] = "waiting_for_input"
       THEN pc' = [pc EXCEPT ![r] = "resuming"] /\ UNCHANGED thread
       ELSE AppendUser(r)
    /\ UNCHANGED <<asked, cancelReq, prompt, finished, sessionTask, status,
                   meta, summarised, stopping, cutOff>>

Resumed(r) ==
    /\ pc[r] = "resuming" /\ ~Cancelling(r)
    /\ AppendUser(r)
    /\ UNCHANGED <<asked, cancelReq, prompt, finished, sessionTask, holder,
                   status, meta, summarised, stopping, cutOff>>

Release(r) == holder' = [holder EXCEPT ![sess[r]] = NoRun]

\* Mutant: the history is read without trimming the unanswered tool_use.
ReadHistory_Untrimmed(r) ==
    /\ pc' = [pc EXCEPT ![r] = "starting"]
    /\ prompt' = [prompt EXCEPT ![r] = thread[sess[r]]]

\* run_and_capture up to its first await.
ReadHistory(r) ==
    /\ pc' = [pc EXCEPT ![r] = "starting"]
    /\ prompt' = [prompt EXCEPT ![r] = Readable(thread[sess[r]])]

\* meta.json records the run; then the message is run as it is, ...
Announced(r) ==
    /\ pc[r] = "announcing" /\ ~Cancelling(r)
    /\ meta' = [meta EXCEPT ![sess[r]] = status[sess[r]]]
    /\ \/ /\ content[r] = "text"
          /\ ReadHistory(r)
          /\ UNCHANGED holder
       \* ... or announced as a skill first, ...
       \/ /\ content[r] = "skill"
          /\ pc' = [pc EXCEPT ![r] = "expanding"]
          /\ UNCHANGED <<holder, prompt>>
       \* ... or parts[0] raises IndexError and the task ends.
       \/ /\ content[r] = "slash"
          /\ pc' = [pc EXCEPT ![r] = "ended"]
          /\ Release(r)
          /\ UNCHANGED prompt
    /\ UNCHANGED <<asked, cancelReq, finished, sessionTask, status, thread,
                   summarised, stopping, cutOff>>

Expanded(r) ==
    /\ pc[r] = "expanding" /\ ~Cancelling(r)
    /\ ReadHistory(r)
    /\ UNCHANGED <<asked, cancelReq, finished, sessionTask, holder, status,
                   meta, thread, summarised, stopping, cutOff>>

Started(r) ==
    /\ pc[r] = "starting" /\ ~Cancelling(r)
    /\ pc' = [pc EXCEPT ![r] = "running"]
    /\ UNCHANGED <<asked, cancelReq, prompt, finished, sessionTask, holder,
                   status, meta, thread, summarised, stopping, cutOff>>

PublishFinished(r) == finished' = [finished EXCEPT ![r] = @ + 1]

\* AgentLoop.run is over, by success or failure.
RunEnds(r) ==
    /\ pc[r] = "running" /\ ~Cancelling(r)
    /\ pc' = [pc EXCEPT ![r] = "finishing"]
    /\ PublishFinished(r)
    /\ UNCHANGED <<asked, cancelReq, prompt, sessionTask, holder, status, meta,
                   thread, summarised, stopping, cutOff>>

\* What a run appends behind its user message.  One that was cancelled may have
\* been between an assistant message and its tool results; in any other the loop
\* leaves tool calls without results if they come with another stop reason than
\* tool_use or max_tokens.
Tails(r) == {<<>>, <<Reply(r)>>, <<Dangling(r)>>, <<Reply(r), Dangling(r)>>}

\* Mutant: the lock is not released on the exception path.
LeaveCancelled_KeepsLock(r) ==
    /\ prompt' = [prompt EXCEPT ![r] = <<>>]
    /\ IF r \in wrapped
       THEN pc' = [pc EXCEPT ![r] = "reporting"] /\ PublishFinished(r)
       ELSE pc' = [pc EXCEPT ![r] = "ended"] /\ UNCHANGED finished
    /\ UNCHANGED holder

\* Mutant: the wrapper does not report the cancellation.
LeaveCancelled_Silent(r) ==
    /\ Release(r)
    /\ prompt' = [prompt EXCEPT ![r] = <<>>]
    /\ pc' = [pc EXCEPT ![r] = "ended"]
    /\ UNCHANGED finished

\* CancelledError leaves send_message: the lock is released, and the wrapper
\* publishes run.finished and session.waiting_for_input.
LeaveCancelled(r) ==
    /\ Release(r)
    /\ prompt' = [prompt EXCEPT ![r] = <<>>]
    /\ IF r \in wrapped
       THEN pc' = [pc EXCEPT ![r] = "reporting"] /\ PublishFinished(r)
       ELSE pc' = [pc EXCEPT ![r] = "ended"] /\ UNCHANGED finished

\* run.finished is out: the run's messages go to the thread, and either the
\* session gets its next status or the runner raises CancelledError again.
RunClosed(r) ==
    /\ pc[r] = "finishing" /\ ~Cancelling(r)
    /\ \E tail \in Tails(r) :
          thread' = [thread EXCEPT ![sess[r]] = @ \o tail]
    /\ status' = [status EXCEPT ![sess[r]] =
                    IF sess[r] \in oneShot THEN "closed" ELSE "waiting_for_input"]
    /\ pc' = [pc EXCEPT ![r] = "settling"]
    /\ prompt' = [prompt EXCEPT ![r] = <<>>]
    /\ UNCHANGED <<asked, cancelReq, finished, sessionTask, holder, meta,
                   summarised, stopping, cutOff>>

RunAborted(r) ==
    /\ pc[r] = "aborting" /\ ~Cancelling(r)
    /\ \E tail \in Tails(r) :
          thread' = [thread EXCEPT ![sess[r]] = @ \o tail]
    /\ LeaveCancelled(r)
    /\ UNCHANGED <<asked, cancelReq, sessionTask, status, meta, summarised,
                   stopping, cutOff>>

\* Mutant: the last write_meta is forgotten.
Settled_NoSave(r) ==
    /\ pc[r] = "settling" /\ ~Cancelling(r)
    /\ Release(r)
    /\ pc' = [pc EXCEPT ![r] = "ended"]
    /\ UNCHANGED <<asked, cancelReq, prompt, finished, sessionTask, status,
                   meta, thread, summarised, stopping, cutOff>>

\* The session's event is out: write meta.json, release the lock.
Settled(r) ==
    /\ pc[r] = "settling" /\ ~Cancelling(r)
    /\ meta' = [meta EXCEPT ![sess[r]] = status[sess[r]]]
    /\ Release(r)
    /\ pc' = [pc EXCEPT ![r] = "ended"]
    /\ UNCHANGED <<asked, cancelReq, prompt, finished, sessionTask, status,
                   thread, summarised, stopping, cutOff>>

Reported(r) ==
    /\ pc[r] = "reporting" /\ ~Cancelling(r)
    /\ pc' = [pc EXCEPT ![r] = "ended"]
    /\ UNCHANGED <<asked, cancelReq, prompt, finished, sessionTask, holder,
                   status, meta, thread, summarised, stopping, cutOff>>

\* CancelledError at the await the task is suspended on.  Before its first
\* step the task simply ends; in the loop the runner catches it and publishes
\* run.finished; anywhere else it leaves send_message at once.
Cancelled(r) ==
    /\ Cancelling(r)
    /\ cancelReq' = cancelReq \ {r}
    /\ \/ /\ pc[r] \in {"created", "reporting"}
          /\ pc' = [pc EXCEPT ![r] = "ended"]
          /\ UNCHANGED <<prompt, finished, holder, cutOff>>
       \/ /\ pc[r] = "running"
          /\ pc' = [pc EXCEPT ![r] = "aborting"]
          /\ PublishFinished(r)
          /\ UNCHANGED <<prompt, holder, cutOff>>
       \/ /\ InTurn(r) /\ pc[r] # "running"
          /\ LeaveCancelled(r)
          /\ cutOff' = IF pc[r] = "settling" THEN cutOff \cup {r} ELSE cutOff
    /\ UNCHANGED <<asked, sessionTask, status, meta, thread, summarised,
                   stopping>>

\* The callback of a task that is done: whatever task is on record now goes.
DoneCallback(r) ==
    /\ pc[r] = "ended"
    /\ pc' = [pc EXCEPT ![r] = "gone"]
    /\ sessionTask' = IF r \in wrapped
                      THEN [sessionTask EXCEPT ![sess[r]] = NoRun]
                      ELSE sessionTask
    /\ UNCHANGED <<asked, cancelReq, prompt, finished, holder, status, meta,
                   thread, summarised, stopping, cutOff>>

\* session.close on an idle session holds the lock while it publishes.
SetClosed(s) ==
    /\ status' = [status EXCEPT ![s] = "closed"]
    /\ meta' = [meta EXCEPT ![s] = "closed"]

Close(s) ==
    /\ status[s] # "none"
    /\ holder[s] = NoRun
    /\ holder' = [holder EXCEPT ![s] = "close"]
    /\ SetClosed(s)
    /\ UNCHANGED <<pc, asked, cancelReq, prompt, finished, sessionTask, thread,
                   summarised, stopping, cutOff>>

Unlock(s) ==
    /\ holder' = [holder EXCEPT ![s] = NoRun]
    /\ UNCHANGED <<pc, asked, cancelReq, prompt, finished, sessionTask, status,
                   meta, stopping, cutOff>>

CloseDone(s) ==
    /\ holder[s] = "close"
    /\ Unlock(s)
    /\ UNCHANGED <<thread, summarised>>

\* session.close with force on a busy session only sets the status.
ForceClose(s) ==
    /\ status[s] # "none"
    /\ holder[s] # NoRun
    /\ SetClosed(s)
    /\ UNCHANGED <<pc, asked, cancelReq, prompt, finished, sessionTask, holder,
                   thread, summarised, stopping, cutOff>>

\* Mutant: compact does not look whether the session is busy.
Compact_NoBusyCheck(s) ==
    /\ status[s] # "none"
    /\ holder' = [holder EXCEPT ![s] = "compact"]
    /\ summarised' = [summarised EXCEPT ![s] = Readable(thread[s])]
    /\ UNCHANGED <<pc, asked, cancelReq, prompt, finished, sessionTask, status,
                   meta, thread, stopping, cutOff>>

\* session.compact reads the thread and holds the lock while the LLM writes
\* the summary ...
Compact(s) ==
    /\ status[s] # "none"
    /\ holder[s] = NoRun
    /\ holder' = [holder EXCEPT ![s] = "compact"]
    /\ summarised' = [summarised EXCEPT ![s] = Readable(thread[s])]
    /\ UNCHANGED <<pc, asked, cancelReq, prompt, finished, sessionTask, status,
                   meta, thread, stopping, cutOff>>

Summary == <<User(NoRun), Reply(NoRun)>>

\* ... which replaces the whole thread, ...
CompactDone(s) ==
    /\ holder[s] = "compact"
    /\ Unlock(s)
    /\ thread' = [thread EXCEPT ![s] = Summary]
    /\ summarised' = [summarised EXCEPT ![s] = <<>>]

\* ... unless the LLM failed or returned no text.
CompactFails(s) ==
    /\ holder[s] = "compact"
    /\ Unlock(s)
    /\ summarised' = [summarised EXCEPT ![s] = <<>>]
    /\ UNCHANGED thread

\* session.truncate: a session whose lock is held is refused.  Timestamps
\* grow along the thread, so what is kept is a prefix; meta.json is written
\* when something was removed.
Truncate(s, k) ==
    /\ status[s] # "none"
    /\ holder[s] = NoRun
    /\ thread' = [thread EXCEPT ![s] = SubSeq(@, 1, k)]
    /\ meta' = IF k < Len(thread[s]) THEN [meta EXCEPT ![s] = status[s]] ELSE meta
    /\ UNCHANGED <<pc, asked, cancelReq, prompt, finished, sessionTask, holder,
                   status, summarised, stopping, cutOff>>

RunStep(r) ==
    \/ AgentRunSpawn(r)
    \/ StartRefused(r)
    \/ Start(r)
    \/ Resumed(r)
    \/ Announced(r)
    \/ Expanded(r)
    \/ Started(r)
    \/ RunEnds(r)
    \/ RunClosed(r)
    \/ RunAborted(r)
    \/ Settled(r)
    \/ Reported(r)
    \/ Cancelled(r)
    \/ DoneCallback(r)

LockStep(s) == CloseDone(s) \/ CompactDone(s) \/ CompactFails(s)

Next ==
    \/ \E r \in Runs : AgentRun(r) \/ Send(r) \/ RunStep(r)
    \/ \E s \in Sessions :
          \/ Create(s)
          \/ LockStep(s)
          \/ "cancel" \in Commands /\ CancelRun(s)
          \/ "close" \in Commands /\ Close(s)
          \/ "force" \in Commands /\ ForceClose(s)
          \/ "compact" \in Commands /\ Compact(s)
          \/ /\ "truncate" \in Commands
             /\ \E k \in 0..Len(thread[s]) : Truncate(s, k)
    \/ "shutdown" \in Commands /\ Shutdown

Spec == Init /\ [][Next]_vars

\* The event loop runs every ready task, sockets drain, and the LLM and the
\* tools answer or fail (they have timeouts).  Clients owe nothing.
Fairness ==
    /\ \A r \in Runs : WF_vars(RunStep(r))
    /\ \A s \in Sessions : WF_vars(LockStep(s))

FairSpec == Spec /\ Fairness
-----------------------------------------------------------------------------
\* A session's lock is held by a run exactly while that run is in its turn:
\* no two runs work on one session, a compaction or a close never overlaps a
\* run, and no ended, cancelled or refused task keeps the lock.
OneTurnAtATime ==
    \A s \in Sessions, r \in Runs : holder[s] = r <=> InTurn(r) /\ sess[r] = s

\* From the moment the history was read until the run's messages are
\* appended behind it (messages[prefill_len:]), the thread does not change:
\* the model answers the thread as it is, and no command slips in between.
PromptIsTheThread ==
    \A r \in Runs :
        pc[r] \in {"starting", "running", "finishing", "aborting"} =>
            prompt[r] = Readable(thread[sess[r]])

\* A summary replaces exactly the messages it was made from (and those an
\* unanswered tool_use hid from it): nothing said while the LLM worked on it
\* is lost.
SummaryIsCurrent ==
    \A s \in Sessions :
        holder[s] = "compact" => summarised[s] = Readable(thread[s])

\* When nobody holds the lock meta.json tells the session's status, except
\* behind a run that was cancelled between setting the status and saving it.
MetaTracksStatus ==
    \A s \in Sessions :
        holder[s] = NoRun /\ meta[s] # status[s] =>
            \E r \in cutOff : sess[r] = s

\* A message of session.send_message that entered its turn has run.finished
\* published by the time its task is over, however often it was cancelled.
\* (A message that is only "/" dies of an IndexError, see manager.py:107.)
TurnsAreReported ==
    [][\A r \in wrapped :
          /\ pc[r] # "ended" /\ pc'[r] = "ended"
          /\ InTurn(r) \/ pc[r] = "reporting"
          /\ content[r] # "slash" \/ pc[r] # "announcing"
          => finished'[r] > 0]_vars

\* Every task that was created ends, and with it its entry in the books.
TasksEnd == \A r \in Runs : pc[r] = "created" ~> pc[r] = "gone"

\* A one_shot session is over after its first run, or once it was closed: it
\* stays closed and no other message ever enters its turn.
OneShotStaysClosed ==
    [][\A s \in oneShot : status[s] = "closed" =>
          /\ status'[s] = "closed"
          /\ \A r \in Runs : sess[r] = s /\ pc[r] = "created" => ~InTurn(r)']_vars

\* A closed session stays closed (test_session_manager.py:96); refuted by a
\* forced close during a run, whose end sets waiting_for_input.
ClosedStaysClosed ==
    [][\A s \in Sessions : status[s] = "closed" => status'[s] = "closed"]_vars

\* The task that works on a session is the one on record, so run.cancel
\* reaches it (troubleshooting.md:243); refuted when the callback of the task
\* before it drops the new entry.
WorkingTaskOnRecord ==
    \A r \in wrapped :
        pc[r] = "running" /\ ~Cancelling(r) => sessionTask[sess[r]] = r

\* The model sees the message the run was started for (manager.py:74);
\* refuted by an unanswered tool_use that an earlier run left.
NewMessageReachesModel ==
    \A r \in Runs :
        pc[r] = "running" => \E i \in 1..Len(prompt[r]) : prompt[r][i] = User(r)

\* The detailed session keeps the promise of SessionThread: turns do not
\* interleave, and the thread is rewritten only between turns
\* (send_message, compact, truncate_before_ts, append_messages).
TurnOf(s) ==
    IF holder[s] \in Runs /\ pc[holder[s]] \notin {"resuming", "settling"}
    THEN holder[s] ELSE NoRun

Abstract == INSTANCE SessionThread WITH
    Turns   <- Runs,
    Chats   <- Sessions,
    Nobody  <- NoRun,
    Message <- [r \in Runs |-> User(r)],
    Endings <- [r \in Runs |-> Tails(r)],
    Summary <- Summary,
    log     <- thread,
    turn    <- [s \in Sessions |-> TurnOf(s)]

ImplementsThread == Abstract!TSpec
=============================================================================
