--------------------------- MODULE MCEventFanout ---------------------------
(* Instances of EventFanout for TLC. *)
EXTENDS EventFanout
CONSTANTS r1, r2, c1, c2

\* r1 has an event between run.started and run.finished, r2 has none.
Short == (r1 :> 3) @@ (r2 :> 2)

\* A client that follows r1 alone, and one like the TUI's that replays r1 and
\* follows everything.
Asked == (c1 :> {[scope |-> r1, replay |-> NoRun]})
         @@ (c2 :> {[scope |-> Everything, replay |-> r1]})
=============================================================================
