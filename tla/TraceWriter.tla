---------------------------- MODULE TraceWriter ----------------------------
(***************************************************************************)
(* The trace (repo_claude/core/trace/writer.py): everybody puts records in *)
(* a queue, one drain task writes them to trace.jsonl, and the daemon      *)
(* stops it last.  LlmCall puts the records in.                            *)
(***************************************************************************)
EXTENDS Naturals, Sequences

VARIABLES
    queue,    \* _queue
    undone,   \* its unfinished tasks: what join waits for
    drain,    \* the drain task: "running", "dead" (raised), "cancelled"
    file,     \* the records in the file
    stop,     \* stop(): "no", "joining", "joined", "done", "raised"
    emitted,  \* all records, in the order of emit
    due       \* how many there were when stop was called

trace == <<queue, undone, drain, file, stop, emitted, due>>

\* start(): the file is opened by the task, which may fail right there.
TraceInit ==
    /\ queue = <<>> /\ undone = 0 /\ file = <<>> /\ emitted = <<>>
    /\ drain \in {"running", "dead"}
    /\ stop = "no" /\ due = 0

Emit(r) ==
    /\ queue' = Append(queue, r)
    /\ undone' = undone + 1
    /\ emitted' = Append(emitted, r)
    /\ UNCHANGED <<drain, file, stop, due>>

\* Mutant: task_done is left out behind a failed write.
Drain_NotDone ==
    /\ drain = "running" /\ queue # <<>>
    /\ queue' = Tail(queue)
    /\ \/ file' = Append(file, Head(queue)) /\ undone' = undone - 1 /\ UNCHANGED drain
       \/ drain' = "dead" /\ UNCHANGED <<file, undone>>
    /\ UNCHANGED <<stop, emitted, due>>

\* One record: get does not suspend on a queue that holds one, so it is
\* written and marked done in the same step.  An exception in write marks it
\* done and ends the task: nobody takes the next.
Drain ==
    /\ drain = "running" /\ queue # <<>>
    /\ queue' = Tail(queue)
    /\ undone' = undone - 1
    /\ \/ file' = Append(file, Head(queue)) /\ UNCHANGED drain
       \/ drain' = "dead" /\ UNCHANGED file
    /\ UNCHANGED <<stop, emitted, due>>

Stop ==
    /\ stop = "no"
    /\ stop' = "joining"
    /\ due' = Len(emitted)
    /\ UNCHANGED <<queue, undone, drain, file, emitted>>

\* Mutant: stop does not wait for the queue.
Joined_AtOnce ==
    /\ stop = "joining"
    /\ stop' = "joined"
    /\ UNCHANGED <<queue, undone, drain, file, emitted, due>>

Joined ==
    /\ stop = "joining" /\ undone = 0
    /\ stop' = "joined"
    /\ UNCHANGED <<queue, undone, drain, file, emitted, due>>

\* The task is cancelled and awaited; one that raised raises here again.
Stopped ==
    /\ stop = "joined"
    /\ stop' = IF drain = "dead" THEN "raised" ELSE "done"
    /\ drain' = IF drain = "dead" THEN "dead" ELSE "cancelled"
    /\ UNCHANGED <<queue, undone, file, emitted, due>>

TraceStep == Drain \/ Joined \/ Stopped
=============================================================================
