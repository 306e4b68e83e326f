------------------------------ MODULE LlmCall ------------------------------
(***************************************************************************)
(* One call of the LLM (repo_claude/core/llm/provider.py) under the        *)
(* TracingProvider (core/trace/provider.py): the stream, the retries when  *)
(* the network drops it, what clients are shown of it and what the loop    *)
(* gets, with the trace of all calls beside it.                            *)
(*                                                                         *)
(* A token is known by its attempt and its place in it.  The Anthropic     *)
(* client is the environment: it streams, drops, fails, or ends without a  *)
(* final message.                                                          *)
(***************************************************************************)
EXTENDS TraceWriter

CONSTANTS
    Calls,        \* chat() calls of runs at work side by side
    MaxAttempts,  \* _MAX_STREAM_RETRIES
    MaxTokens     \* bound: tokens of an attempt

ASSUME LlmAssumption ==
    /\ MaxAttempts \in Nat \ {0}
    /\ MaxTokens \in Nat

Tokens  == (1..MaxAttempts) \X (1..MaxTokens)
Records == [call : Calls, kind : {"api_call", "api_response"}]

VARIABLES
    pc,       \* where each chat() stands
    attempt,  \* the attempt under way
    text,     \* text_parts
    shown,    \* the llm.token events published
    answer    \* the LlmResponse: "none", "end_turn", "tool_use"

vars == <<trace, pc, attempt, text, shown, answer>>

TypeOK ==
    /\ pc \in [Calls -> {"idle", "streaming", "backoff", "complete", "returned",
                         "raised", "cancelled"}]
    /\ attempt \in [Calls -> 0..MaxAttempts]
    /\ text \in [Calls -> Seq(Tokens)] /\ shown \in [Calls -> Seq(Tokens)]
    /\ answer \in [Calls -> {"none", "end_turn", "tool_use"}]
    /\ queue \in Seq(Records) /\ file \in Seq(Records) /\ emitted \in Seq(Records)
    /\ undone \in Nat /\ due \in Nat
    /\ drain \in {"running", "dead", "cancelled"}
    /\ stop \in {"no", "joining", "joined", "done", "raised"}

Init ==
    /\ TraceInit
    /\ pc = [c \in Calls |-> "idle"]
    /\ attempt = [c \in Calls |-> 0]
    /\ text = [c \in Calls |-> <<>>]
    /\ shown = [c \in Calls |-> <<>>]
    /\ answer = [c \in Calls |-> "none"]

Goto(c, p) == pc' = [pc EXCEPT ![c] = p]

\* Mutant: the parts of the dropped attempt stay.
BeginAttempt_KeepsText(c) ==
    /\ Goto(c, "streaming")
    /\ attempt' = [attempt EXCEPT ![c] = @ + 1]
    /\ UNCHANGED <<text, shown, answer>>

BeginAttempt(c) ==
    /\ Goto(c, "streaming")
    /\ attempt' = [attempt EXCEPT ![c] = @ + 1]
    /\ text' = [text EXCEPT ![c] = <<>>]
    /\ UNCHANGED <<shown, answer>>

\* TracingProvider.chat: the request is traced, then the provider's chat.
Chat(c) ==
    /\ pc[c] = "idle"
    /\ Emit([call |-> c, kind |-> "api_call"])
    /\ BeginAttempt(c)

\* A token; only the first attempt's are published.
Token(c) ==
    /\ pc[c] = "streaming" /\ Len(text[c]) < MaxTokens
    /\ LET t == <<attempt[c], Len(text[c]) + 1>> IN
       /\ text' = [text EXCEPT ![c] = Append(@, t)]
       /\ shown' = IF attempt[c] = 1 THEN [shown EXCEPT ![c] = Append(@, t)] ELSE shown
    /\ UNCHANGED <<trace, pc, attempt, answer>>

\* An exception leaves chat(), and its text is gone.
Leave(c, p) ==
    /\ Goto(c, p)
    /\ text' = [text EXCEPT ![c] = <<>>]
    /\ UNCHANGED <<attempt, shown, answer>>

\* The stream is dropped (RemoteProtocolError, ReadError, ConnectError): wait
\* and try again, or raise behind the last attempt.
Dropped(c) ==
    /\ pc[c] = "streaming"
    /\ IF attempt[c] = MaxAttempts
       THEN Leave(c, "raised")
       ELSE Goto(c, "backoff") /\ UNCHANGED <<attempt, text, shown, answer>>
    /\ UNCHANGED trace

Retry(c) ==
    /\ pc[c] = "backoff"
    /\ BeginAttempt(c)
    /\ UNCHANGED trace

\* Any other error of the API is raised at once.
Refused(c) ==
    /\ pc[c] = "streaming"
    /\ Leave(c, "raised")
    /\ UNCHANGED trace

\* The stream ends: with the final message, or without one, when the text
\* alone becomes an end_turn and a tool the LLM asked for is forgotten.
Complete(c, wants, final) ==
    /\ pc[c] = "streaming"
    /\ Goto(c, "complete")
    /\ answer' = [answer EXCEPT ![c] = IF wants /\ final THEN "tool_use" ELSE "end_turn"]
    /\ UNCHANGED <<trace, attempt, text, shown>>

\* Behind llm.usage the response is traced and returned.
Return(c) ==
    /\ pc[c] = "complete"
    /\ Goto(c, "returned")
    /\ Emit([call |-> c, kind |-> "api_response"])
    /\ UNCHANGED <<attempt, text, shown, answer>>

\* run.cancel, at any await.
Cancel(c) ==
    /\ pc[c] \in {"streaming", "backoff", "complete"}
    /\ Leave(c, "cancelled")
    /\ UNCHANGED trace

CallStep(c) ==
    \/ Chat(c) \/ Token(c) \/ Dropped(c) \/ Retry(c) \/ Refused(c) \/ Return(c)
    \/ \E wants, final \in BOOLEAN : Complete(c, wants, final)

Next ==
    \/ \E c \in Calls : CallStep(c) \/ Cancel(c)
    \/ (TraceStep \/ Stop) /\ UNCHANGED <<pc, attempt, text, shown, answer>>

Spec == Init /\ [][Next]_vars
\* The event loop runs the drain task and stop().
FairSpec == Spec /\ WF_vars(TraceStep /\ UNCHANGED <<pc, attempt, text, shown, answer>>)

(***************************************************************************)
(* Properties.                                                             *)
(***************************************************************************)

\* The text the loop gets is what one attempt streamed, from its first token
\* to its last; clients were shown each token once, in order, and when the
\* first attempt went through they were shown exactly the answer.
AnswerIsOneAttempt ==
    \A c \in Calls :
        /\ \A i \in 1..Len(text[c]) : text[c][i] = <<attempt[c], i>>
        /\ \A i \in 1..Len(shown[c]) : shown[c][i] = <<1, i>>
        /\ pc[c] = "returned" /\ attempt[c] = 1 => shown[c] = text[c]

\* The trace tells calls in the order they happened and leaves out none in
\* between; a trace that was stopped without an error holds every record
\* emitted before.
TraceIsFaithful ==
    /\ file = SubSeq(emitted, 1, Len(file))
    /\ stop = "done" => Len(file) >= due

\* stop() comes to an end, so the daemon exits - unless a write failed with
\* records left, which nobody takes any more.
StopReturns ==
    stop = "joining" ~> (stop \in {"done", "raised"} \/ (drain = "dead" /\ queue # <<>>))
=============================================================================
