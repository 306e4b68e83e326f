---------------------------- MODULE EventFanout ----------------------------
(***************************************************************************)
(* How the events of the runs reach the clients and the event files        *)
(* (repo_claude/core/events/bus.py, events/writer.py,                      *)
(* transport/ipc_broadcaster.py, the subscription handlers of app.py, the  *)
(* connections of transport/socket_server.py, the publications of          *)
(* runner.py).                                                             *)
(*                                                                         *)
(* EventBus.publish awaits its subscribers in the order they came: first   *)
(* the broadcaster, which writes to one client after the other and awaits  *)
(* each drain, then the file writers of the runs, which do not await.  A   *)
(* drain may be suspended as long as the client does not read; meanwhile   *)
(* other runs publish, clients subscribe and go, and the run may be        *)
(* cancelled in the middle of its publication.                             *)
(***************************************************************************)
EXTENDS Naturals, SequencesExt

CONSTANTS
    Runs, Clients,
    LastEvent,     \* of each run, the number of its run.finished; 1 is
                   \* run.started
    Everything,    \* scope "global"
    NoRun,         \* no replay_from_run
    Subscriptions, \* what each client may subscribe to (bounds the model)
    Fickle         \* the clients that may stall or go (bounds the model)

ASSUME FanoutAssumption ==
    /\ LastEvent \in [Runs -> Nat] /\ \A r \in Runs : LastEvent[r] >= 2
    /\ Everything \notin Runs /\ NoRun \notin Runs
    /\ Subscriptions \in
          [Clients -> SUBSET [scope : Runs \cup {Everything},
                              replay : Runs \cup {NoRun}]]
    /\ Fickle \subseteq Clients
ASSUME ClientsFinite == IsFiniteSet(Clients)

\* A run's events are numbered as it publishes them; the one behind
\* run.finished is the run.finished of the task's wrapper.  A log tells of each
\* run which of its events were written, in which order; how the events of
\* different runs mix is left out.
EmptyLog == [r \in Runs |-> <<>>]
Added(log, r, n) == [log EXCEPT ![r] = Append(@, n)]

VARIABLES
    ask,      \* what each client subscribes to; fixed in Init
    conn,     \* its connection: "open", "stalled" (it does not read),
              \* "lost", "closed" (the daemon has noticed)
    phase,    \* its event.subscribe: "new", "replaying" or "done"
    stream,   \* the log of what was written to its connection
    subs,     \* the clients in _subscriptions of the broadcaster
    place,    \* the list is in the order of these numbers
    pc,       \* each run: "idle", "between" two events, "draining", "over"
    last,     \* the event it publishes, or published last
    todo,     \* the clients of the broadcast whose drain has not returned; it
              \* awaits that of the first and has not written to the others
    dead,     \* those whose drain raised
    open,     \* the runs whose EventWriter has its file open
    file,     \* events.jsonl of each run
    early,    \* history: the runs that were idle when a client subscribed
    waited,   \* history: clients whose replay was suspended
    cancelled \* the runs whose task was cancelled

clients == <<ask, conn, phase, place, early, waited>>
vars == <<clients, stream, subs, pc, last, todo, dead, open, file, cancelled>>

TypeOK ==
    /\ \A c \in Clients : ask[c] \in Subscriptions[c]
    /\ conn \in [Clients -> {"open", "stalled", "lost", "closed"}]
    /\ phase \in [Clients -> {"new", "replaying", "done"}]
    /\ stream \in [Clients -> [Runs -> Seq(Nat)]]
    /\ subs \in SUBSET Clients
    /\ place \in [Clients -> Nat]
    /\ pc \in [Runs -> {"idle", "between", "draining", "over"}]
    /\ \A r \in Runs : last[r] \in 0..(LastEvent[r] + 1)
    /\ todo \in [Runs -> SUBSET Clients]
    /\ \A r \in Runs : pc[r] = "draining" <=> todo[r] # {}
    /\ dead \in [Runs -> SUBSET Clients]
    /\ open \in SUBSET Runs
    /\ \A r \in open : pc[r] # "over" /\ last[r] \in 1..LastEvent[r]
    /\ file \in [Runs -> [Runs -> Seq(Nat)]]
    /\ early \in [Clients -> SUBSET Runs]
    /\ waited \in SUBSET Clients
    /\ cancelled \in SUBSET Runs

Init ==
    /\ ask \in {a \in [Clients -> UNION {Subscriptions[c] : c \in Clients}] :
                  \A c \in Clients : a[c] \in Subscriptions[c]}
    /\ conn = [c \in Clients |-> "open"]
    /\ phase = [c \in Clients |-> "new"]
    /\ stream = [c \in Clients |-> EmptyLog]
    /\ subs = {}
    /\ place = [c \in Clients |-> 0]
    /\ pc = [r \in Runs |-> "idle"]
    /\ last = [r \in Runs |-> 0]
    /\ todo = [r \in Runs |-> {}]
    /\ dead = [r \in Runs |-> {}]
    /\ open = {}
    /\ file = [r \in Runs |-> EmptyLog]
    /\ early = [c \in Clients |-> {}]
    /\ waited = {}
    /\ cancelled = {}

Gone(c) == conn[c] \in {"lost", "closed"}
\* _matches_scope
Matches(c, r) == ask[c].scope \in {Everything, r}

\* The first of some clients in the list.
Earliest(S) == {c \in S : \A d \in S : place[c] <= place[d]}
First(S) == CHOOSE c \in Earliest(S) : TRUE

-----------------------------------------------------------------------------
(***************************************************************************)
(* Clients.                                                                *)
(***************************************************************************)
\* It is appended to the list.
Register(c) ==
    /\ subs' = subs \cup {c}
    /\ place' = [place EXCEPT ![c] = Cardinality({d \in Clients : phase[d] = "done"})]
    /\ phase' = [phase EXCEPT ![c] = "done"]
    /\ early' = [early EXCEPT ![c] =
                     IF Gone(c) THEN {} ELSE {r \in Runs : pc[r] = "idle"}]

\* Mutant: only the events of a run that is over are replayed.
History_FinishedOnly(c) ==
    IF ask[c].replay = NoRun \/ pc[ask[c].replay] # "over"
    THEN EmptyLog ELSE file[ask[c].replay]

\* What _replay_events writes: the whole file, whatever the scope.
History(c) == IF ask[c].replay = NoRun THEN EmptyLog ELSE file[ask[c].replay]

Replay(c) ==
    stream' = IF Gone(c) THEN stream
              ELSE [stream EXCEPT ![c] = [r \in Runs |-> @[r] \o History(c)[r]]]

\* event.subscribe: the history is read and written in one go.  If there was
\* any, the handler awaits its drain, which may be suspended, or raise on a
\* connection that is gone, so that nothing is registered.  The handler is a
\* task of its own and may run after the connection was closed.
Subscribe(c) ==
    /\ phase[c] = "new"
    /\ Replay(c)
    /\ \/ /\ History(c) = EmptyLog \/ conn[c] = "open"
          /\ Register(c)
          /\ UNCHANGED waited
       \/ /\ History(c) # EmptyLog
          /\ phase' = [phase EXCEPT ![c] = "replaying"]
          /\ waited' = IF Gone(c) THEN waited ELSE waited \cup {c}
          /\ UNCHANGED <<subs, place, early>>
    /\ UNCHANGED <<ask, conn, pc, last, todo, dead, open, file, cancelled>>

\* The drain of the replay returns: the client reads again, or its connection
\* was closed without an error; otherwise it raises.
Replayed(c) ==
    /\ phase[c] = "replaying" /\ conn[c] # "stalled"
    /\ \/ Register(c)
       \/ /\ Gone(c)
          /\ phase' = [phase EXCEPT ![c] = "done"]
          /\ UNCHANGED <<subs, place, early>>
    /\ UNCHANGED <<ask, conn, stream, waited, pc, last, todo, dead, open, file, cancelled>>

\* The client stops reading, and its buffers are full.
Stall(c) ==
    /\ c \in Fickle /\ conn[c] = "open"
    /\ conn' = [conn EXCEPT ![c] = "stalled"]
    /\ UNCHANGED <<ask, phase, place, early, waited, stream, subs, pc, last, todo, dead,
                   open, file, cancelled>>

\* The connection breaks, and what the client was told is gone with it.
Lose(c) ==
    /\ c \in Fickle /\ ~Gone(c)
    /\ conn' = [conn EXCEPT ![c] = "lost"]
    /\ stream' = [stream EXCEPT ![c] = EmptyLog]
    /\ early' = [early EXCEPT ![c] = {}]
    /\ waited' = waited \ {c}
    /\ UNCHANGED <<ask, phase, subs, place, pc, last, todo, dead, open, file, cancelled>>

\* unsubscribe builds a new list; a broadcast under way keeps its copy.
Unsubscribe(D) == subs' = subs \ D

\* The read loop of the connection ends.
Close(c) ==
    /\ conn[c] = "lost"
    /\ conn' = [conn EXCEPT ![c] = "closed"]
    /\ Unsubscribe({c})
    /\ UNCHANGED <<ask, phase, place, early, waited, stream, pc, last, todo, dead,
                   open, file, cancelled>>

-----------------------------------------------------------------------------
(***************************************************************************)
(* Publications.                                                           *)
(***************************************************************************)
\* writer.write; what is written to a lost connection is dropped.
WriteTo(c, r, n) ==
    stream' = IF Gone(c) THEN stream ELSE [stream EXCEPT ![c] = Added(@, r, n)]

\* The broadcast of the event is over: every writer on the bus whose file is
\* open writes the event, whichever run it is of.  Behind run.finished the
\* run's own file is closed.
Record(r, n, writing) ==
    /\ file' = [q \in Runs |->
                  IF q \in writing THEN Added(file[q], r, n) ELSE file[q]]
    /\ open' = IF n >= LastEvent[r] THEN writing \ {r} ELSE writing
    /\ pc' = [pc EXCEPT ![r] = IF n >= LastEvent[r] THEN "over" ELSE "between"]

\* publish up to its first drain: the broadcaster copies the list of matching
\* subscriptions and writes to the first.
Publish(r, n, writing) ==
    LET listed == {c \in subs : Matches(c, r)} IN
    /\ last' = [last EXCEPT ![r] = n]
    /\ dead' = [dead EXCEPT ![r] = {}]
    /\ todo' = [todo EXCEPT ![r] = listed]
    /\ IF listed = {}
       THEN /\ Record(r, n, writing)
            /\ UNCHANGED stream
       ELSE /\ pc' = [pc EXCEPT ![r] = "draining"]
            /\ WriteTo(First(listed), r, n)
            /\ open' = writing
            /\ UNCHANGED file

\* run_and_capture opens the run's file, subscribes its writer and publishes
\* run.started.
StartRun(r) ==
    /\ pc[r] = "idle"
    /\ Publish(r, 1, open \cup {r})
    /\ UNCHANGED <<clients, subs, cancelled>>

\* The run publishes its next event, or ends with run.finished.
NextEvent(r) ==
    /\ pc[r] = "between"
    /\ \E n \in {last[r] + 1, LastEvent[r]} : Publish(r, n, open)
    /\ UNCHANGED <<clients, subs, cancelled>>

\* Mutant: a drain that raises ends the handler, and with it the broadcast.
Drained_StopsAtDead(r) ==
    /\ pc[r] = "draining" /\ conn[First(todo[r])] # "stalled"
    /\ LET c == First(todo[r])
           rest == IF Gone(c) THEN {} ELSE todo[r] \ {c}
           raised == IF Gone(c) THEN dead[r] \cup {c} ELSE dead[r] IN
       /\ todo' = [todo EXCEPT ![r] = rest]
       /\ dead' = [dead EXCEPT ![r] = IF rest = {} THEN {} ELSE raised]
       /\ IF rest = {}
          THEN /\ Unsubscribe(raised)
               /\ Record(r, last[r], open)
               /\ UNCHANGED stream
          ELSE /\ WriteTo(First(rest), r, last[r])
               /\ UNCHANGED <<subs, pc, open, file>>
    /\ UNCHANGED <<clients, last, cancelled>>

\* Mutant: a drain whose connection is gone never returns.
Drained_HangsOnDead(r) ==
    /\ pc[r] = "draining" /\ conn[First(todo[r])] = "open"
    /\ LET rest == todo[r] \ {First(todo[r])} IN
       /\ todo' = [todo EXCEPT ![r] = rest]
       /\ IF rest = {}
          THEN Record(r, last[r], open) /\ UNCHANGED stream
          ELSE /\ WriteTo(First(rest), r, last[r])
               /\ UNCHANGED <<pc, open, file>>
    /\ UNCHANGED <<clients, subs, last, dead, cancelled>>

\* The drain returns, or raises because the connection is gone: on to the next
\* client, and behind the last one to the files.
Drained(r) ==
    /\ pc[r] = "draining" /\ conn[First(todo[r])] # "stalled"
    /\ LET c == First(todo[r])
           rest == todo[r] \ {c}
           raised == IF Gone(c) THEN dead[r] \cup {c} ELSE dead[r] IN
       /\ todo' = [todo EXCEPT ![r] = rest]
       /\ dead' = [dead EXCEPT ![r] = IF rest = {} THEN {} ELSE raised]
       /\ IF rest = {}
          THEN /\ Unsubscribe(raised)
               /\ Record(r, last[r], open)
               /\ UNCHANGED stream
          ELSE /\ WriteTo(First(rest), r, last[r])
               /\ UNCHANGED <<subs, pc, open, file>>
    /\ UNCHANGED <<clients, last, cancelled>>

\* Mutant: the runner catches a cancellation of the last publication too.
CancelRun_FinishedTwice(r) ==
    /\ cancelled' = cancelled \cup {r}
    /\ \/ /\ \/ pc[r] = "between"
             \/ pc[r] = "draining" /\ last[r] \in 2..LastEvent[r]
          /\ Publish(r, LastEvent[r], open)
       \/ /\ pc[r] = "draining" /\ last[r] \notin 2..LastEvent[r]
          /\ pc' = [pc EXCEPT ![r] = "over"]
          /\ todo' = [todo EXCEPT ![r] = {}]
          /\ dead' = [dead EXCEPT ![r] = {}]
          /\ open' = open \ {r}
          /\ UNCHANGED <<stream, last, file>>
    /\ UNCHANGED <<clients, subs>>

\* CancelledError at a drain: the event goes no further.  In the loop, and in
\* it also between two events, the runner catches it and publishes
\* run.finished; amid run.started and run.finished it leaves the run.
CancelRun(r) ==
    /\ cancelled' = cancelled \cup {r}
    /\ \/ /\ \/ pc[r] = "between"
             \/ pc[r] = "draining" /\ last[r] \in 2..(LastEvent[r] - 1)
          /\ Publish(r, LastEvent[r], open)
       \/ /\ pc[r] = "draining" /\ last[r] \notin 2..(LastEvent[r] - 1)
          /\ pc' = [pc EXCEPT ![r] = "over"]
          /\ todo' = [todo EXCEPT ![r] = {}]
          /\ dead' = [dead EXCEPT ![r] = {}]
          /\ open' = open \ {r}
          /\ UNCHANGED <<stream, last, file>>
    /\ UNCHANGED <<clients, subs>>

\* CancelledError has left the run: the wrapper session.send_message puts
\* around it publishes another run.finished.  (agent.run has no such wrapper.)
Report(r) ==
    /\ pc[r] = "over" /\ r \in cancelled /\ last[r] <= LastEvent[r]
    /\ Publish(r, LastEvent[r] + 1, open)
    /\ UNCHANGED <<clients, subs, cancelled>>

RunStep(r) ==
    StartRun(r) \/ NextEvent(r) \/ Drained(r) \/ CancelRun(r) \/ Report(r)
ClientStep(c) == Subscribe(c) \/ Replayed(c) \/ Stall(c) \/ Lose(c) \/ Close(c)

Next == \/ \E r \in Runs : RunStep(r)
        \/ \E c \in Clients : ClientStep(c)

Spec == Init /\ [][Next]_vars

\* The loop runs ready tasks; drains return unless the client does not read.
\* Clients owe nothing, and a run may take as long as it likes to begin.
Fairness ==
    /\ \A r \in Runs : WF_vars(NextEvent(r)) /\ WF_vars(Drained(r))
    /\ \A c \in Clients : WF_vars(Close(c))

FairSpec == Spec /\ Fairness
-----------------------------------------------------------------------------
InOrder(log) ==
    \A r \in Runs : \A i, j \in 1..Len(log[r]) : i < j => log[r][i] < log[r][j]

InFile(r)   == ToSet(file[r][r])
Seen(c, r)  == ToSet(stream[c][r])

\* Every client and every file gets the events of each run in the order the
\* run published them and none twice, replayed or live, whoever is slow or
\* cancelled meanwhile.
OrderedAndOnce ==
    /\ \A c \in Clients : InOrder(stream[c])
    /\ \A r \in Runs : InOrder(file[r])

\* A client that subscribed before a run began, and is still there.
Follows(c, r) == r \in early[c] /\ Matches(c, r) /\ ~Gone(c)

\* events.jsonl tells what the clients were told: an event of a run is in its
\* file only after every client that follows the run got it, and behind a run
\* that was not cancelled file and clients agree.
FileTellsWhatClientsSaw ==
    \A r \in Runs, c \in Clients : Follows(c, r) =>
        /\ InFile(r) \subseteq Seen(c, r)
        /\ pc[r] = "over" /\ r \notin cancelled => InFile(r) = Seen(c, r)

\* A replay that is not suspended misses at most one event of its run: the one
\* that was in the air when the client was registered (_subscribe_handler).
ReplayMissesOneAtMost ==
    \A c \in Clients :
        LET r == ask[c].replay IN
        /\ phase[c] = "done" /\ r # NoRun /\ c \notin waited
        /\ Matches(c, r) /\ ~Gone(c)
        => \A m, n \in InFile(r) \ Seen(c, r) : m = n

\* Once it has begun, a run is held up by nothing but a client that does not
\* read.
OnlyStalledClientsHold ==
    \A r \in Runs :
        pc[r] = "between" ~>
            \/ pc[r] = "over"
            \/ pc[r] = "draining" /\ conn[First(todo[r])] = "stalled"
=============================================================================
