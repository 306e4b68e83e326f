---------------------------- MODULE SocketClient ----------------------------
(***************************************************************************)
(* core/transport/socket_client.py: one connection to the daemon, the      *)
(* commands whose answers are awaited on it, and the event loop that reads *)
(* answers and events from one stream of lines.  The user of the client is *)
(* Tui, which makes a new SocketClient for every connection; a command     *)
(* belongs to the task that sent it, and a task awaits one at a time.      *)
(***************************************************************************)
EXTENDS Integers, Sequences, FiniteSets

CONSTANTS Callers,        \* the tasks of the program that send commands
          Requests,       \* tool calls that ask for permission
          MaxConnections  \* bound: connections made

Methods == {"subscribe", "create", "send", "compact", "respond", "close"}
Nothing == "-"         \* the argument of a command that bears none
Session == "session"   \* the session of the connection

\* What the daemon may send: the answer to a caller's command, or an event.
Lines == [type : {"ok", "error"}, to : Callers]
         \cup [type : {"waiting_for_input", "closed"}]
         \cup [type : {"requested", "denied"}, id : Requests]

\* Where a command stands for its sender: in _pending; "lost" when nobody
\* will ever set its future; or done, and its sender has yet to resume.
CallStates == {"none", "waiting", "lost", "ok", "error", "cancelled", "oserror"}
Commands == [state : CallStates, method : Methods \cup {Nothing},
             arg : Requests \cup {Nothing, Session}]

VARIABLES
    conn,   \* how many connections were made
    link,   \* the current connection: "none", "up", "broken"
    loop,   \* run_event_loop: "off", "reading", "ended"
    call,   \* what each caller awaits
    asked,  \* callers whose command the daemon has and has not handled
    wire    \* lines not read yet

clientVars == <<conn, link, loop, call, asked, wire>>

ClientTypeOK ==
    /\ conn \in 0..MaxConnections
    /\ link \in {"none", "up", "broken"}
    /\ loop \in {"off", "reading", "ended"}
    /\ call \in [Callers -> Commands]
    /\ asked \subseteq Callers
    /\ wire \in Seq(Lines)

Idle == [state |-> "none", method |-> Nothing, arg |-> Nothing]

ClientInit ==
    /\ conn = 0 /\ link = "none" /\ loop = "off"
    /\ call = [c \in Callers |-> Idle]
    /\ asked = {} /\ wire = <<>>

\* connect, and the event loop's task, with the first command of the worker.
Open(c, method) ==
    /\ conn' = conn + 1 /\ link' = "up" /\ loop' = "reading"
    /\ call' = [call EXCEPT ![c] = [state |-> "waiting", method |-> method, arg |-> Nothing]]
    /\ asked' = {c} /\ wire' = <<>>

\* send_command.  A reader that has ended answers nobody any more: the future
\* is registered in a _pending that nobody looks at, unless drain finds the
\* connection reset.
SendCommand(c, method, arg) ==
    /\ \E s \in IF link = "up" THEN {"waiting"}
                ELSE {"oserror", IF loop = "reading" THEN "waiting" ELSE "lost"} :
          call' = [call EXCEPT ![c] = [state |-> s, method |-> method, arg |-> arg]]
    /\ asked' = IF link = "up" THEN asked \cup {c} ELSE asked
    /\ UNCHANGED <<conn, link, loop, wire>>

\* The sender goes on; whatever its command came to is used up.
Resume(c) == call' = [call EXCEPT ![c] = Idle]

Done(c) == call[c].state \in {"ok", "error", "cancelled", "oserror"}

\* Mutant: the end of the stream leaves the futures alone.
CancelAll_Not == call

\* The finally of run_event_loop.
CancelAll == [c \in Callers |-> IF call[c].state = "waiting"
                                THEN [call[c] EXCEPT !.state = "cancelled"] ELSE call[c]]

\* _dispatch of an answer.
Settle(line) ==
    call' = IF call[line.to].state = "waiting"
            THEN [call EXCEPT ![line.to].state = line.type] ELSE call

\* readline returns nothing, or raises.
StreamEnds ==
    /\ loop = "reading" /\ wire = <<>> /\ link = "broken"
    /\ loop' = "ended"
    /\ call' = CancelAll
    /\ UNCHANGED <<conn, link, asked, wire>>

\* The task is cancelled, if it still reads, and the connection closed.
Close(pending) ==
    /\ link' = "none" /\ loop' = "off"
    /\ call' = pending
    /\ asked' = {} /\ wire' = <<>>

\* What the daemon writes reaches a connection that stands.
Send(line) == wire' = IF link = "up" THEN Append(wire, line) ELSE wire

\* The daemon goes down or the connection is cut: some of what is under way
\* is still read, no command is answered any more.
Break ==
    /\ link = "up" /\ conn < MaxConnections
    /\ link' = "broken"
    /\ asked' = {}
    /\ \E n \in 0..Len(wire) : wire' = SubSeq(wire, 1, n)
    /\ UNCHANGED <<conn, loop, call>>

=============================================================================
