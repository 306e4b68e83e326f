----------------------------- MODULE McpClient -----------------------------
(***************************************************************************)
(* One McpClient and the MCP server behind it (repo_claude/core/mcp):      *)
(* JSON-RPC over one line stream that all tool calls of all runs share.    *)
(* The lock lets one request out at a time; the answer to a call that gave *)
(* up stays in the stream and is read by whoever comes next.               *)
(*                                                                         *)
(* The server is the environment: it answers what it was asked, late or    *)
(* never, in any order, sends notifications, requests of its own and lines *)
(* that cannot be used, stops reading what it is sent, and closes.  It     *)
(* answers a request once.  The                                            *)
(* tools' contents are left out: an answer is known by the attempt it is   *)
(* for.  invoke_tool's retries and its timer are the caller.               *)
(***************************************************************************)
EXTENDS Integers, SequencesExt

CONSTANTS
    Calls,       \* the tool calls of all runs that go to this server
    Boot,        \* start_all, which connects and lists the tools
    MaxRetries,  \* _MAX_RETRIES of invoke_tool
    ForeignIds,  \* the ids the server gives to requests of its own
    MaxNoise     \* bound: the lines the server sends unasked

ASSUME McpAssumption ==
    /\ Boot \notin Calls
    /\ MaxRetries \in Nat /\ MaxNoise \in Nat
    /\ ForeignIds \subseteq Nat \ {0}
ASSUME CallsFinite == IsFiniteSet(Calls)

Callers  == Calls \cup {Boot}
MaxId    == 2 + Cardinality(Calls) * (MaxRetries + 1)
Attempts == Callers \X (0..(MaxRetries + 2))
Nobody   == <<Boot, 0>>   \* an attempt that does not exist

Requests == [id : 1..MaxId, by : Attempts]
\* "answer": result or error; "request": the server asks something under an
\* id of its own; "noise": a notification, a blank line or no JSON; "bad": a
\* line over the limit, or JSON that is no object.
Lines == [type : {"answer", "error", "request", "noise", "bad"},
          id : 0..MaxId \cup ForeignIds, by : Attempts]

VARIABLES
    phase,    \* "connecting", "ready" (tools listed), "skipped"
    nextId,   \* _id
    queue,    \* _lock: the callers in the order of their acquire; the head holds it
    pc,       \* where each caller stands
    reqId,    \* req_id of the _call under way, else 0
    attempt,  \* how many _calls the caller made
    owed,     \* requests the server got and has not answered
    stream,   \* lines the client has not read
    open,     \* the server has not closed the stream
    noise,    \* lines the server sent unasked
    outcome   \* what the caller got, and for which attempt it was meant

vars == <<phase, nextId, queue, pc, reqId, attempt, owed, stream, open, noise,
          outcome>>
caller == <<phase, nextId, queue, pc, reqId, attempt, outcome>>
server == <<owed, open, noise>>

TypeOK ==
    /\ phase \in {"connecting", "ready", "skipped"}
    /\ nextId \in 0..MaxId
    /\ queue \in Seq(Callers)
    /\ pc \in [Callers -> {"idle", "queued", "writing", "reading", "backoff", "done"}]
    /\ reqId \in [Callers -> 0..MaxId]
    /\ \A c \in Callers : attempt[c] \in 0..(IF c = Boot THEN 2 ELSE MaxRetries + 1)
    /\ DOMAIN attempt = Callers
    /\ owed \subseteq Requests
    /\ stream \in Seq(Lines)
    /\ open \in BOOLEAN
    /\ noise \in 0..MaxNoise
    /\ outcome \in [Callers -> [kind : {"none", "ok", "failed"}, by : Attempts]]

\* connect_stdio and connect_tcp: the stream is there, initialize is next.
Init ==
    /\ phase = "connecting"
    /\ nextId = 0
    /\ queue = <<>>
    /\ pc = [c \in Callers |-> "idle"]
    /\ reqId = [c \in Callers |-> 0]
    /\ attempt = [c \in Callers |-> 0]
    /\ owed = {}
    /\ stream = <<>>
    /\ open = TRUE
    /\ noise = 0
    /\ outcome = [c \in Callers |-> [kind |-> "none", by |-> Nobody]]

Goto(c, p)      == pc' = [pc EXCEPT ![c] = p]
Yield(c, k, by) == outcome' = [outcome EXCEPT ![c] = [kind |-> k, by |-> by]]

\* No tool of this server is known before start_all has listed them.
MayAsk(c) == phase = IF c = Boot THEN "connecting" ELSE "ready"

(***************************************************************************)
(* _call.                                                                  *)
(***************************************************************************)

\* Mutant: every request bears the same id.
TakeId_Same(c) ==
    /\ reqId' = [reqId EXCEPT ![c] = 1]
    /\ UNCHANGED nextId

\* The id is taken before the lock.
TakeId(c) ==
    /\ nextId' = nextId + 1
    /\ reqId' = [reqId EXCEPT ![c] = nextId + 1]

Ask(c) ==
    /\ pc[c] \in {"idle", "backoff"} /\ MayAsk(c)
    /\ TakeId(c)
    /\ attempt' = [attempt EXCEPT ![c] = @ + 1]
    /\ queue' = Append(queue, c)
    /\ Goto(c, "queued")
    /\ UNCHANGED <<phase, stream, server, outcome>>

\* The end of a _call, however it ends, releases the lock.
Leave(c) ==
    /\ queue' = RemoveFirst(queue, c)
    /\ reqId' = [reqId EXCEPT ![c] = 0]
    /\ UNCHANGED <<nextId, attempt>>

\* Mutant: one retry too many.
Fail_OneMore(c) ==
    /\ Leave(c)
    /\ IF c # Boot /\ attempt[c] <= MaxRetries + 1
       THEN Goto(c, "backoff") /\ UNCHANGED <<outcome, phase>>
       ELSE /\ Goto(c, "done")
            /\ Yield(c, "failed", Nobody)
            /\ phase' = IF c = Boot THEN "skipped" ELSE phase

\* McpTool.invoke makes every error a runtime_error, which invoke_tool tries
\* again; start_all skips the server.
Fail(c) ==
    /\ Leave(c)
    /\ IF c # Boot /\ attempt[c] <= MaxRetries
       THEN Goto(c, "backoff") /\ UNCHANGED <<outcome, phase>>
       ELSE /\ Goto(c, "done")
            /\ Yield(c, "failed", Nobody)
            /\ phase' = IF c = Boot THEN "skipped" ELSE phase

\* The answer to initialize is followed by the initialized notification, which
\* is written without the lock while nobody else can call yet, and tools/list;
\* the answer to that makes the tools known.
Succeed(c, by) ==
    /\ Leave(c)
    /\ IF c = Boot /\ attempt[c] = 1
       THEN Goto(c, "idle") /\ UNCHANGED <<outcome, phase>>
       ELSE /\ Goto(c, "done")
            /\ Yield(c, "ok", by)
            /\ phase' = IF c = Boot THEN "ready" ELSE phase

\* Mutant: no lock, everybody writes and reads.
Acquire_Unlocked(c) ==
    /\ pc[c] = "queued"
    /\ Goto(c, "writing")
    /\ owed' = owed \cup {[id |-> reqId[c], by |-> <<c, attempt[c]>>]}
    /\ UNCHANGED <<phase, nextId, queue, reqId, attempt, stream, open, noise, outcome>>

\* async with self._lock, then _write_line's write: the request is on its way
\* to the server, and the caller waits for drain.
Acquire(c) ==
    /\ pc[c] = "queued" /\ Head(queue) = c
    /\ Goto(c, "writing")
    /\ owed' = owed \cup {[id |-> reqId[c], by |-> <<c, attempt[c]>>]}
    /\ UNCHANGED <<phase, nextId, queue, reqId, attempt, stream, open, noise, outcome>>

\* drain returns when the server has read enough, or raises because the
\* connection is lost.  It is awaited under the lock and without a timer.
Drained(c) ==
    /\ pc[c] = "writing"
    /\ \/ Goto(c, "reading") /\ UNCHANGED <<phase, nextId, queue, reqId, attempt, outcome>>
       \/ ~open /\ Fail(c)
    /\ UNCHANGED <<stream, server>>

\* One line: no id is skipped, the own id ends the call, another id is
\* skipped.  A request of the server under the same id is taken for an empty
\* result.
Take(c, line) ==
    \/ line.type = "noise" /\ UNCHANGED caller
    \/ line.type = "bad" /\ Fail(c)
    \/ line.id = reqId[c] /\ line.type \in {"answer", "request"} /\ Succeed(c, line.by)
    \/ line.id = reqId[c] /\ line.type = "error" /\ Fail(c)
    \/ line.id \notin {0, reqId[c]} /\ UNCHANGED caller

Read(c) ==
    /\ pc[c] = "reading" /\ stream # <<>>
    /\ Take(c, Head(stream))
    /\ stream' = Tail(stream)
    /\ UNCHANGED server

\* Mutant: readline without wait_for; only the end of the stream ends a call.
ReadFails_EofOnly(c) ==
    /\ pc[c] = "reading" /\ stream = <<>> /\ ~open
    /\ Fail(c)
    /\ UNCHANGED <<stream, server>>

\* _read_line: 30 s without a line, or the end of the stream.
ReadFails(c) ==
    /\ pc[c] = "reading" /\ stream = <<>>
    /\ Fail(c)
    /\ UNCHANGED <<stream, server>>

\* run.cancel, or invoke_tool's own timer: the call is gone and leaves the
\* lock; its request stays with the server.
GiveUp(c) ==
    /\ c # Boot /\ pc[c] \in {"queued", "writing", "reading", "backoff"}
    /\ Goto(c, "done")
    /\ Leave(c)
    /\ Yield(c, "failed", Nobody)
    /\ UNCHANGED <<phase, stream, server>>

(***************************************************************************)
(* The server.                                                             *)
(***************************************************************************)
Answer(r, type) ==
    /\ open /\ owed' = owed \ {r}
    /\ stream' = Append(stream, [type |-> type, id |-> r.id, by |-> r.by])
    /\ UNCHANGED <<caller, open, noise>>

SpeakUp(type, id) ==
    /\ open /\ noise < MaxNoise
    /\ noise' = noise + 1
    /\ stream' = Append(stream, [type |-> type, id |-> id, by |-> Nobody])
    /\ UNCHANGED <<caller, owed, open>>

Close ==
    /\ open /\ open' = FALSE
    /\ owed' = {}
    /\ UNCHANGED <<caller, stream, noise>>

ClientStep(c) == Ask(c) \/ Acquire(c) \/ Read(c) \/ ReadFails(c)
Next ==
    \/ \E c \in Callers : ClientStep(c) \/ Drained(c) \/ GiveUp(c)
    \/ \E r \in owed, type \in {"answer", "error"} : Answer(r, type)
    \/ \E id \in ForeignIds : SpeakUp("request", id)
    \/ \E type \in {"noise", "bad"} : SpeakUp(type, 0)
    \/ Close

Spec == Init /\ [][Next]_vars
\* The event loop runs every caller and its 30 s timer for a line.  The server
\* owes nothing, nor the reading that would end a drain, and the callers' own
\* timers may be far away.
FairSpec == Spec /\ \A c \in Callers : WF_vars(ClientStep(c))

(***************************************************************************)
(* Properties.                                                             *)
(***************************************************************************)

\* A tool result is the server's answer to this very attempt of this call,
\* never the late answer to one that timed out or was cancelled - or it is the
\* empty result made of a server request that bears the same id.
AnswersTheCall ==
    \A c \in Callers :
        outcome[c].kind = "ok" => outcome[c].by \in {<<c, attempt[c]>>, Nobody}

\* Whoever reads an answer, the call that waits for it gets it: nobody reads
\* away what another caller is still waiting for.
Awaited(c, line) ==
    /\ line.type \in {"answer", "error"} /\ line.by = <<c, attempt[c]>>
    /\ pc[c] \in {"queued", "writing", "reading"}
NoAnswerReadAway ==
    [][ \A c \in Callers :
          stream # <<>> /\ Awaited(c, Head(stream)) /\ stream' = Tail(stream)
             => pc'[c] \notin {"queued", "writing", "reading"} ]_vars

\* A server that stops reading holds the caller that writes to it, and with the
\* lock everybody behind him, for as long as his own timer lets him wait.
HeldAtDrain == \E c \in Callers : <>[](pc[c] = "writing")

\* Unless a drain is held for ever, every call that started ends without the
\* help of its caller's timer, whatever the server does but talk for ever: it
\* never answers, answers others, sends junk, reads slowly, dies.
CallsReturn ==
    HeldAtDrain \/ \A c \in Callers :
        pc[c] # "idle" ~> (pc[c] = "done" \/ (c = Boot /\ phase # "connecting"))
=============================================================================
