------------------------------ MODULE Approval ------------------------------
(***************************************************************************)
(* What the permission gate promises, without Futures, caches or timers.   *)
(* A call is settled by policy or opened to the user; an open call is      *)
(* answered at most once; it ends allowed only on an allowing answer, and  *)
(* a call once ended stays as it is.                                       *)
(***************************************************************************)
CONSTANTS
    Calls,      \* the tool calls
    Allow,      \* answers that let a call through
    Refuse,     \* answers that do not
    NoAnswer

VARIABLES
    status,     \* "idle", "open", "allowed", "refused" or "abandoned"
    answer      \* the one answer a call has received

avars == <<status, answer>>

AInit ==
    /\ status = [c \in Calls |-> "idle"]
    /\ answer = [c \in Calls |-> NoAnswer]

\* Policy or a standing answer decides without asking.
Settle(c) ==
    /\ status[c] = "idle"
    /\ \E s \in {"allowed", "refused"} : status' = [status EXCEPT ![c] = s]
    /\ UNCHANGED answer

Open(c) ==
    /\ status[c] = "idle"
    /\ status' = [status EXCEPT ![c] = "open"]
    /\ UNCHANGED answer

\* Answers may come after the call was abandoned; none replaces another.
AnswerAll(S, d) ==
    /\ \A c \in S : status[c] # "idle" /\ answer[c] = NoAnswer
    /\ answer' = [c \in Calls |-> IF c \in S THEN d ELSE answer[c]]
    /\ UNCHANGED status

Grant(c) ==
    /\ status[c] = "open"
    /\ answer[c] \in Allow
    /\ status' = [status EXCEPT ![c] = "allowed"]
    /\ UNCHANGED answer

\* On a refusing answer, or because nobody answered in time.
Decline(c) ==
    /\ status[c] = "open"
    /\ status' = [status EXCEPT ![c] = "refused"]
    /\ UNCHANGED answer

\* The runs that made the calls are cancelled, or the daemon stops.
AbandonAll(S) ==
    /\ \A c \in S : status[c] = "open"
    /\ status' = [c \in Calls |-> IF c \in S THEN "abandoned" ELSE status[c]]
    /\ UNCHANGED answer

ANext ==
    \/ \E c \in Calls : Settle(c) \/ Open(c) \/ Grant(c) \/ Decline(c)
    \/ \E S \in SUBSET Calls : AbandonAll(S)
    \/ \E S \in SUBSET Calls, d \in Allow \cup Refuse : AnswerAll(S, d)

ASpec == AInit /\ [][ANext]_avars
=============================================================================
