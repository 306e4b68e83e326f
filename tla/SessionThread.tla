--------------------------- MODULE SessionThread ---------------------------
(***************************************************************************)
(* What a session promises about its conversation, without locks, tasks,   *)
(* events or cancellation: the thread is extended by one turn at a time.   *)
(* A turn opens with the user's message and closes with that run's own     *)
(* messages right behind it; rewriting the thread (a summary, a            *)
(* truncation) happens only between turns.                                 *)
(***************************************************************************)
EXTENDS Naturals, Sequences

CONSTANTS
    Turns, Chats, Nobody,
    Message,    \* the user's message that opens each turn
    Endings,      \* the sequences of messages a turn may close with
    Summary     \* the messages that stand for a summarised thread

VARIABLES
    log,     \* the messages of each chat
    turn     \* the turn that is open on it, or Nobody

tvars == <<log, turn>>

Prefixes(q) == {SubSeq(q, 1, k) : k \in 0..Len(q)}

TInit ==
    /\ log = [s \in Chats |-> <<>>]
    /\ turn = [s \in Chats |-> Nobody]

OpenTurn(s, r) ==
    /\ turn[s] = Nobody
    /\ turn' = [turn EXCEPT ![s] = r]
    /\ log' = [log EXCEPT ![s] = Append(@, Message[r])]

\* A turn may close without a word: it was cancelled, or its run failed.
CloseTurn(s, r) ==
    /\ turn[s] = r
    /\ turn' = [turn EXCEPT ![s] = Nobody]
    /\ \E tail \in Endings[r] : log' = [log EXCEPT ![s] = @ \o tail]

Rewrite(s) ==
    /\ turn[s] = Nobody
    /\ \E q \in Prefixes(log[s]) \cup {Summary} : log' = [log EXCEPT ![s] = q]
    /\ UNCHANGED turn

TNext == \E s \in Chats : Rewrite(s) \/ \E r \in Turns : OpenTurn(s, r) \/ CloseTurn(s, r)

TSpec == TInit /\ [][TNext]_tvars
=============================================================================
